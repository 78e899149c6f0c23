SPECIFICATION Spec
CONSTANTS
  Session = {s1, s2}
  Standing = {s1}
  Org = {o1}
  Password = {p1, p2}
  None = None
  Flow <- Flows
  Races <- ResetAndSwitch
  MaxCrashes = 0
  s1 = s1
  s2 = s2
  o1 = o1
  p1 = p1
  p2 = p2
SYMMETRY Symmetric
CHECK_DEADLOCK FALSE
INVARIANT ResetRevokesEverySession
