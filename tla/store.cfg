SPECIFICATION Spec
CONSTANTS
  MaxSets = 2
  MaxMembers = 2
  MaxTotal = 3
  MaxSpace = 3
  MaxHistory = 2
  MaxPublishers = 6
  MaxAttempts = 2
  MaxRecord = 600
  Plain = {0, 3, 4, 5}
  States <- Engines
  Noise = {0, 1, 2, 5, 11}
CHECK_DEADLOCK FALSE
INVARIANTS
  SavedIsLoaded
  OneEncoding
