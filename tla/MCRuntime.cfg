SPECIFICATION BothSpec
INVARIANTS
  LivesInOrder
  StreamsKept
PROPERTIES
  ReadyRuns
  StopsAll
  Implements
  ByeArrives
CHECK_DEADLOCK FALSE
