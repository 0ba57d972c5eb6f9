SPECIFICATION Spec
CONSTANTS
  SetId = {1}
  Path = {1, 2, 3}
  Mp = {}
  MpMember = {}
  Weights = {0, 1}
  Spaces = {3, 4}
  Reported = {"Legal", "Suspended"}
  MaxViewGen = 1
  MaxMoves = 4
  MaxGen = 2
  Counted = {}
INVARIANTS
  TypeOK
  Recoverable
  AssignmentMatchesUpstream
  ActiveMeansEnough
  ClosedCarriesNothing
  RestartRestoresMap
PROPERTIES
  MovesOnlyWhatMust
