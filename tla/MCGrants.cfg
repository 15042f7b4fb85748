SPECIFICATION GSpec
CONSTANTS
  ConsentIds = {a1}
  Codes = {k1, k2}
  Tokens = {t1, t2}
  ConsentTypes = {membership}
  DirectTypes = {age}
  Configs <- MCConfigs
  BadConfig = BadConfig
  ClaimSets <- MCClaimSets
  Null = Null
  MapsFields <- MCMapsFields
  BuildClaims <- MCBuildClaims
  CONSENT_TTL = 2
  CODE_TTL = 1
  TOKEN_TTL = 1
  C_NONCE_TTL = 1
  SWEEP_PERIOD = 2
  MAX_PENDING_RECORDS = 1
  MaxTime = 7
  MaxRotations = 1
  Outages = TRUE
  DateLine = 2
SYMMETRY Symmetry
INVARIANTS GrantMatchesReview SentCodesFollowVerdict RedeemedOnce HolderDataRetention
PROPERTIES VerdictFinal
