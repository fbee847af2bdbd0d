SPECIFICATION Spec
\* configs/optimized_pluto_rf.yaml: no full frame fits a capture.
CONSTANTS
  FileBytes = 200000
  FrameBytes = 60000
  RxBufferSize = 262144
  BatchLimit = 16
  SessionRetries = 5
  Faults <- NoFaults
PROPERTIES FileSent
