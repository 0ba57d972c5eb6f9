SPECIFICATION SessionsSpec
CONSTANTS
  Publisher = {p1}
  Boot = {b1, b2, b3}
  None = None
  MaxPublishers = 2
  MaxEpoch = 2
  Session = {s1, s2}
SYMMETRY Symmetry
INVARIANTS
  WritersAreAttended
