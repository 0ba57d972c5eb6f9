SPECIFICATION Spec
CONSTANTS
  Publisher = {p1, p2}
  Boot = {b1, b2, b3}
  None = None
  MaxPublishers = 2
  MaxEpoch = 3
SYMMETRY Symmetry
INVARIANTS
  TypeOK
  LiveAtCurrentEpoch
  ReplacedStaysOut
  MarkedIsFenced
PROPERTIES
  NoStaleWriter
