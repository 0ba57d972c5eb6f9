SPECIFICATION Spec
CONSTANTS
  SetId = {1, 2}
  Path = {1}
  Mp = {1}
  MpMember = {1, 2}
  Weights = {1}
  Spaces = {1, 2}
  Reported = {"Legal"}
  MaxViewGen = 1
  MaxMoves = 1
  MaxGen = 2
  Counted = {}
INVARIANTS
  OnlyCurrentServes
