SPECIFICATION AllSpec
CONSTANTS
  k1 = k1
  a0 = a0
  a1 = a1
  a2 = a2
  a3 = a3
  a4 = a4
  u1 = u1
  u2 = u2
  e1 = e1
  e2 = e2
  e3 = e3
  c1 = c1
  dx = dx
  dy = dy
  null = null
  TableScenes <- AllScenes
  Thieves = {1, 2}
  Uses = {"single", "half"}
  FirstSize <- OneOrEight
  MaxPush = 3
  StealMax = 2
INVARIANTS
  ReferencesHold
  EachOnce
  UrgentFirst
  ChannelFifo
  PermitsBound
  EpochsNest
  PoolKeepsSizes
  ReadyAsAsked
  GloballyUnique
  CountersTrue
  RanksConnect
  ShimKeepsOrder
  ReadsWhatWasPut
  LibrariesTrue
PROPERTIES
  LateReferenceRefused
  IsQueue
CHECK_DEADLOCK FALSE
