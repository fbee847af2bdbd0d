SPECIFICATION Spec
CONSTANTS
  PacketCount = 0
  WindowPackets = 1
  MaxRetries = 1
  SessionRetries = 2
  Candidates = 2
  Programs <- AllPrograms
  Scores <- SomeScores
  Faults <- NoFaults
PROPERTIES SavedLeadsToReport
