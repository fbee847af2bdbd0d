SPECIFICATION Spec
CONSTANTS
  PacketCount = 3
  WindowPackets = 2
  MaxRetries = 1
  SessionRetries = 2
  Candidates = 2
  Programs <- AllPrograms
  Scores <- SomeScores
  Faults <- AllFaults
INVARIANTS TypeOK WindowBudget BestGainUsed RaisedForAReason 
PROPERTIES ImplementsAttempts Ends
