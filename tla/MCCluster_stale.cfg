SPECIFICATION MemorySpec
CONSTANTS
  Ranks <- MCRanks
  Owner = 0
  Edts <- MCEdts
  Root = "a"
  Receivers = 1
  Worlds <- MCWorlds
  Programs <- StaleScenes
INVARIANT SeesWrites
CHECK_DEADLOCK FALSE
