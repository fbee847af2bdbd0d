SPECIFICATION Spec
CONSTANTS
  Base = 3
  Magic = 2
  FrameTypes = {0, 1}
  Checksum <- Polynomial
  MaxFrames = 2
  MaxNoise = 2
INVARIANTS ChunkingIrrelevant CleanStreamDecodes BufferBounded
\* All frames sent and delivered: nothing is left to do.
CHECK_DEADLOCK FALSE
