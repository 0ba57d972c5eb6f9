SPECIFICATION Spec
CONSTANTS
  Session = {s1, s2}
  Attempt = {a1, a2}
  Main = Main
  None = None
INVARIANT AcknowledgedIsDurable
