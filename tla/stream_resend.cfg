SPECIFICATION Spec
CONSTANTS
  TotalFrames = 2
  QueueDepth = 2
  MaxInflight = 1
  AckInterval = 1
  Faults <- NoFaults
INVARIANTS ResendOnlyUnacked
