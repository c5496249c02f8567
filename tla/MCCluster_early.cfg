SPECIFICATION EpochSpec
CONSTANTS
  Ranks <- MCRanks
  Owner = 0
  Edts <- FiveEdts
  Root = "a"
  Receivers = 1
  Worlds <- TwoWorkers
  Programs = {}
CONSTRAINT OneComesBack
PROPERTY EndsAtQuiescence
CHECK_DEADLOCK FALSE
