SPECIFICATION Spec
CONSTANTS
  Kids = {key1, key2, key3, key4}
  Rotations = {s1, s2}
  Null = Null
  MaxHistory = 5
  Outages = TRUE
SYMMETRY Symmetry
INVARIANTS IssuedStayVerifiable
