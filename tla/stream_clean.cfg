SPECIFICATION Spec
CONSTANTS
  TotalFrames = 3
  QueueDepth = 2
  MaxInflight = 2
  AckInterval = 2
  Faults <- NoFaults
INVARIANTS TypeOK AcksSound WindowBounded FinOnlyWhenComplete
PROPERTIES DeliverySafe Delivered
