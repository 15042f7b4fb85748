SPECIFICATION Spec
CONSTANTS
  Instances = {i1, i2}
  Responses = {r1, r2}
  SessionIds = {s1, s2}
  Claims = {c1, c2}
  Null = Null
  EXPIRY_WINDOW = 1
  DiskErrors = FALSE
  Outages = TRUE
  MaxTime = 3
SYMMETRY Symmetry
INVARIANTS SessionsSurvive

