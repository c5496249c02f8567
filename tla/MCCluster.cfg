SPECIFICATION BothSpec
CONSTANTS
  Ranks <- MCRanks
  Owner = 0
  Edts <- MCEdts
  Root = "a"
  Receivers = 1
  Worlds <- MCWorlds
  Programs <- MCScenes
INVARIANTS
  OpenSlotsCounted
  WritesKept
  OneAnswerEach
PROPERTIES
  EveryUserRuns
  EndsAtQuiescence
  FiresIfOwnerIdle
CHECK_DEADLOCK FALSE
