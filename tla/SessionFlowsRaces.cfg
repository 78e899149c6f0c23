SPECIFICATION Spec
CONSTANTS
  Session = {s1, s2, s3, s4}
  Standing = {s1, s2}
  Org = {o1}
  Password = {p1, p2}
  None = None
  Flow <- Flows
  Races <- AllRaces
  MaxCrashes = 1
  s1 = s1
  s2 = s2
  s3 = s3
  s4 = s4
  o1 = o1
  p1 = p1
  p2 = p2
SYMMETRY Symmetric
CHECK_DEADLOCK FALSE
INVARIANT OnlyStraddlersEscape
INVARIANT OnlyACarriedSessionStays
INVARIANT PromotionEscapesAcrossAStamp
PROPERTY RowsAreASessionTable
