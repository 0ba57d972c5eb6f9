SPECIFICATION Spec
CONSTANTS
  SetId = {1, 2}
  Path = {1}
  Mp = {1}
  MpMember = {1}
  Weights = {1}
  Spaces = {2}
  Reported = {"Legal", "Suspended"}
  MaxViewGen = 2
  MaxMoves = 2
  MaxGen = 2
  Counted = {}
INVARIANTS
  AssignmentMatchesUpstream
  IndexesSound
  BindingsNotAhead
PROPERTIES
  ReopensOnlyByProof
