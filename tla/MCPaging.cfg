CONSTANTS
  NumFrames = 11
  mapped_frames = 1
  TEMP_PT_INDEX = 3
  Others = {7}
SPECIFICATION Spec
INVARIANTS
  WindowHits
  TlbCoherent
  DirectoryInUse
