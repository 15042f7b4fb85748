SPECIFICATION FairSpec
CONSTANTS
  ConsentIds = {a1}
  Codes = {k1}
  Tokens = {t1}
  ConsentTypes = {membership}
  DirectTypes = {age}
  Configs <- MCConfigs
  BadConfig = BadConfig
  ClaimSets <- MCClaimSets
  Null = Null
  MapsFields <- MCMapsFields
  BuildClaims <- MCBuildClaims
  CONSENT_TTL = 0
  CODE_TTL = 0
  TOKEN_TTL = 0
  C_NONCE_TTL = 0
  SWEEP_PERIOD = 1
  MAX_PENDING_RECORDS = 1
  MaxTime = 1
  MaxRotations = 2
  Outages = TRUE
  DateLine = 1
  Requests = {r1, r2}
  CredentialIds = {u1, u2}
  LIST_SIZE = 2
  DEMO_MODE = TRUE
INVARIANTS TypeOK CredentialMatchesReview OwnsStatusEntry SpentNonceIsRotated
PROPERTIES GSpec RequestsAnswered
