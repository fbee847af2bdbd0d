SPECIFICATION Spec
\* Windows of 1 to 3 packets: 2 bytes are less than a chunk, 10 bytes are three
\* chunks and a part.
CONSTANTS
  PacketCount = 8
  ChunkBytes = 3
  MinWindow = 2
  MaxWindow = 10
  FirstWindow = 7
  BatchLimit = 4
  Interval = 3
  SkipFin = FALSE
  Faults <- AllFaults
INVARIANTS TypeOK SparsenessBounded WindowFits
PROPERTIES ImplementsAttempts Ends
