SPECIFICATION Spec
CONSTANTS
  seed = seed
  earned = earned
  trusted = trusted
  rogue = rogue
  k1 = k1
  k2 = k2
  Credentials = {seed, earned}
  Seed = seed
  Audits = {a1, a2}
  Anchors = {trusted, rogue}
  Rogue = rogue
  AnchorOf <- MCAnchorOf
  Keys = {k1, k2}
  KeyOf <- MCKeyOf
  None = None
  MaxChanges = 1
SYMMETRY Symmetry
INVARIANTS TypeOK EndorsementsEarned SerialBadge
