SPECIFICATION BothSpec
CONSTANTS
  ec = ec
  ed = ed
  ee = ee
  ef = ef
  s1 = s1
  s2 = s2
  s3 = s3
  Users <- FourEdts
  Requests <- Slots
  RequestOf <- SlotEdt
  Acquires <- PassingScenes
  Sigs <- ThreeSigs
  Origins = {"local", "moved"}
INVARIANTS
  GrantsInOrder
  ReadyOnceAndLast
PROPERTIES
  EveryAcquirerRuns
  EventuallyReady
CHECK_DEADLOCK FALSE
