SPECIFICATION FairSpec
CONSTANTS
  CredentialIds = {u1, u2, u3}
  Fetches = {f1, f2}
  LIST_SIZE = 2
  STATUSLIST_CACHE_TTL = 2
  Null = Null
  MaxTime = 3
  Outages = TRUE
INVARIANTS TypeOK RevocationsAgree
PROPERTIES KeepsRegistry SlotsPermanent TornFileFailsClosed FetchesAnswered
