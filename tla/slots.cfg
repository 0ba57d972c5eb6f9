SPECIFICATION Spec
CONSTANTS
  Member = {1, 2, 3, 4}
  MaxWeight = 6
  MaxSpace = 9
  MaxScale = 3
  Owner = {1, 2, 3}
  MaxMapped = 5
INVARIANTS
  ExactQuota
  LargestRemainderFirst
  ScaleFree
  LeastChurnFirst
  ChurnIsGain
CHECK_DEADLOCK FALSE
