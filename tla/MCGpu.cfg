SPECIFICATION Spec
CONSTANTS
  Scenes <- MCScenes
  Nowhere = Nowhere
  MaxBuffer = 3
  CheckStream = 2
  Word = 64
INVARIANTS KernelSeesData DeviceAccounted
PROPERTIES EveryEdtEnds
