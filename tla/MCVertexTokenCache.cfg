SPECIFICATION Spec
CONSTANTS
  p1 = p1
  p2 = p2
  p3 = p3
  k1 = k1
  k2 = k2
  Caller <- Callers
  Key <- Keys
  Lifetime = 3
  Skew = 1
  Grant <- Grants
  MaxNow = 4
INVARIANT TypeOK
INVARIANT LiveWhenAsked
PROPERTY MintsDoNotOverlap
SYMMETRY Symmetry
CHECK_DEADLOCK FALSE
