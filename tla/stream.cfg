SPECIFICATION FairSpec
CONSTANTS
  Header = 2
  Payload = 2
  Trailer = 2
  Frames = 3
  Kinds = {"Good", "Corrupt", "Foreign", "OtherVersion", "Oversized"}
  Chunk = 9
  MaxFrame = 7
  ReadTimeout = 2
  AssemblyTimeout = 3
INVARIANTS
  TypeOK
  OnlySoundFrames
  CutForCause
  AssemblyIsBounded
PROPERTIES
  NothingPins
CHECK_DEADLOCK FALSE
