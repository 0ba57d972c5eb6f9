SPECIFICATION FairSpec
CONSTANTS
  Session = {s1, s2}
  Attempt = {a1}
  Main = Main
  None = None
INVARIANTS
  TypeOK
  EffectIsRecorded
  UndisturbedIsDurable
  CleanStopIsComplete
PROPERTIES
  StoppedServerDrains
  StopReturns
