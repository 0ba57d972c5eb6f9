SPECIFICATION Spec
CONSTANTS
  SetId = {1}
  Path = {1, 2}
  Mp = {1}
  MpMember = {1, 2}
  Weights = {1}
  Spaces = {2}
  Reported = {"Legal"}
  MaxViewGen = 2
  MaxMoves = 2
  MaxGen = 4
  Counted = {"set", "policy", "assignment"}
INVARIANTS
  MpIndexComplete
