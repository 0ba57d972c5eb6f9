SPECIFICATION Spec
CONSTANTS
  Requests <- Few
  Bound = 2
  MaxConns = 2
  MaxCalls = 3
  MaxRestarts = 2
CHECK_DEADLOCK FALSE
INVARIANTS
  TypeOK
  RepliesAreOwn
  RetryWindow
PROPERTY
  OnceOnly
