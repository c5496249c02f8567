SPECIFICATION EpochSpec
CONSTANTS
  Ranks <- MCRanks
  Owner = 0
  Edts <- MCEdts
  Root = "a"
  Receivers = 1
  Worlds <- TwoWorkers
  Programs = {}
PROPERTY EventuallyFires
CHECK_DEADLOCK FALSE
