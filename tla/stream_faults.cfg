SPECIFICATION Spec
CONSTANTS
  TotalFrames = 2
  QueueDepth = 1
  MaxInflight = 2
  AckInterval = 2
  Faults <- AllFaults
INVARIANTS UnackedTracked VerdictSound
PROPERTIES OutputAfterFullAck FinLeadsToVerdict FullQueueDrains
\* A killed receiver leaves the sender blocked on a full queue for ever: the
\* call really stops there, and no action is left.
CHECK_DEADLOCK FALSE
