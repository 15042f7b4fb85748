SPECIFICATION Spec
CONSTANTS
  Instances = {i1}
  Responses = {r1, r2, r3}
  SessionIds = {s1, s2}
  Claims = {c1, c2}
  Null = Null
  EXPIRY_WINDOW = 1
  DiskErrors = TRUE
  Outages = TRUE
  MaxTime = 3
SYMMETRY Symmetry
INVARIANTS TypeOK SessionsSurvive VerdictsEarned
PROPERTIES ExpiredStaysGone
