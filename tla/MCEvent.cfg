SPECIFICATION LiveSpec
CONSTANTS
  d1 = d1
  d2 = d2
  d3 = d3
  s1 = s1
  s2 = s2
  s3 = s3
  x = x
  null = null
  Deps <- ThreeDeps
  Sats <- ThreeSats
  SlotOf <- Slots
  DataOf <- Carried
  After <- Order
  EventTypes = {"STICKY", "LATCH"}
  InitLatch = 1
  BlockSize = 1
  NoData = null
  Mod = 8
INVARIANTS
  AtMostOnce
  NoneMissed
  NoUseAfterFree
  SameData
PROPERTY
  EventuallySignalled
