SPECIFICATION Spec
\* Four frames that fit a capture: 20 kB take 124k samples.
CONSTANTS
  FileBytes = 70000
  FrameBytes = 20000
  RxBufferSize = 262144
  BatchLimit = 2
  SessionRetries = 2
  Faults <- AllFaults
INVARIANTS TypeOK WindowExact BatchUseful
PROPERTIES ImplementsAttempts Ends
