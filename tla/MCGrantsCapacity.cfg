SPECIFICATION GSpec
CONSTANTS
  ConsentIds = {a1, a2}
  Codes = {k1, k2}
  Tokens = {t1, t2}
  ConsentTypes = {membership}
  DirectTypes = {age}
  Configs <- MCConfigs
  BadConfig = BadConfig
  ClaimSets <- MCClaimSets
  Null = Null
  MapsFields <- MCMapsFields
  BuildClaims <- MCBuildClaims
  CONSENT_TTL = 1
  CODE_TTL = 1
  TOKEN_TTL = 1
  C_NONCE_TTL = 1
  SWEEP_PERIOD = 1
  MAX_PENDING_RECORDS = 1
  MaxTime = 2
  MaxRotations = 0
  Outages = TRUE
  DateLine = 9
SYMMETRY Symmetry
PROPERTIES CapWithoutEviction KeepsContract
