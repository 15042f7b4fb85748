------------------------------ MODULE Issuance ------------------------------
(***************************************************************************)
(* POST /credentials (oid4vci/issuer.ts) on top of the grants: a request   *)
(* is in flight while WebCrypto verifies the holder's proof and again      *)
(* while it signs, and other handlers run in between.  A status list index *)
(* is assigned (revocation/statuslist.ts) in a file that survives the      *)
(* process, between the two waits.                                         *)
(*                                                                         *)
(* getIssuerKeyPair returns a cached key pair after start-up, so awaiting  *)
(* it lets no other handler in and is no step of its own.                  *)
(***************************************************************************)
EXTENDS Grants

CONSTANTS
  Requests,          \* slots for requests in flight
  CredentialIds,     \* urn:uuid identifiers the program draws
  LIST_SIZE,         \* slots of the status list
  DEMO_MODE          \* a proof of possession is optional

ASSUME IssuanceAssumption ==
  /\ LIST_SIZE \in Nat
  /\ DEMO_MODE \in BOOLEAN
  /\ Null \notin Nat \union CredentialIds

VARIABLES
  requests,          \* slot |-> what the handler holds across its awaits
  nextIndex,         \* statuslist.json: nextIndex
  issuedCredentials  \* statuslist.json: status index |-> credential id

\* History.
VARIABLES
  delivered          \* credentials sent to a wallet, as records

store == <<nextIndex, issuedCredentials>>
vars  == <<gvars, requests, store, delivered>>

NoRequest ==
  [pc |-> "idle", token |-> Null, type |-> Null, claims |-> Null,
   config |-> Null, cNonce |-> Null, nonce |-> Null, id |-> Null,
   index |-> Null]

Free == [r \in Requests |-> NoRequest]

-----------------------------------------------------------------------------
(* Types of the state *)

Request ==
  [pc : {"verifying", "signing"}, token : Tokens, type : Types,
   claims : ClaimSets \union {Null}, config : Configs, cNonce : Nat,
   nonce : Nat \union {Null}, id : CredentialIds \union {Null},
   index : Nat \union {Null}]

Credential ==
  [id : CredentialIds, token : Tokens, type : Types, claims : ClaimSets,
   nonce : Nat \union {Null}, index : Nat]

\* Requests in flight hold a token that was redeemed; only a signing request
\* holds a credential id and an index; a stopped process has no requests.
TypeOK ==
  /\ GTypeOK
  /\ requests \in [Requests -> Request \union {NoRequest}]
  /\ nextIndex \in 0 .. LIST_SIZE
  /\ issuedCredentials \in [0 .. nextIndex - 1 -> CredentialIds]
  /\ delivered \subseteq Credential
  /\ \A r \in Requests :
       /\ requests[r].pc # "idle" => requests[r].token \in DOMAIN redeemed
       /\ requests[r].pc = "signing" <=> requests[r].id # Null
       /\ requests[r].pc = "signing" <=> requests[r].index # Null
       /\ ~up => requests[r].pc = "idle"

Init ==
  /\ GInit
  /\ requests = Free
  /\ nextIndex = 0
  /\ issuedCredentials = NoEntries
  /\ delivered = {}

-----------------------------------------------------------------------------

\* Up to the first wait: the entry of the token and the configuration are
\* read here and used, from these copies, for the rest of the request.  The
\* wallet's proof carries a nonce it has seen, or there is no proof: such a
\* request has nothing to wait for and goes on at once, and is let wait here
\* like the others, which only adds behaviours.
StartCredential(r, t, n) ==
  /\ up
  /\ requests[r].pc = "idle"
  /\ LiveToken(t)
  /\ config # BadConfig
  /\ \/ n \in 0 .. accessTokens[t].cNonce /\ now <= accessTokens[t].cNonceExpiresAt
     \/ n = Null /\ DEMO_MODE
  /\ requests' = [requests EXCEPT ![r] =
       [pc |-> "verifying", token |-> t, type |-> accessTokens[t].type,
        claims |-> accessTokens[t].claims, config |-> config,
        cNonce |-> accessTokens[t].cNonce, nonce |-> n, id |-> Null,
        index |-> Null]]
  /\ UNCHANGED <<gvars, store, delivered>>

\* The process ends with every request in flight; the file stays.
HaltIssuance ==
  /\ Halt
  /\ requests' = Free
  /\ UNCHANGED <<store, delivered>>

\* loadConfig throws inside the async handler.
CredentialRejects(t) ==
  up /\ LiveToken(t) /\ config = BadConfig /\ HaltIssuance

\* Mutant: the claims are always computed live.
LiveClaims(req) == BuildClaims(req.type, req.config, now)

\* The claims snapshot of the consent gate if there is one, else the claims
\* built now from the configuration read at the start.
ClaimsToIssue(req) ==
  IF req.claims # Null THEN req.claims
  ELSE BuildClaims(req.type, req.config, now)

\* The request ends with a 4xx: the proof was made with another nonce or is
\* otherwise invalid, or the template rejects the holder's data.
RefuseCredential(r) ==
  /\ up
  /\ requests[r].pc = "verifying"
  /\ requests[r].nonce # Null \/ ClaimsToIssue(requests[r]) = Null
  /\ requests' = [requests EXCEPT ![r] = NoRequest]
  /\ UNCHANGED <<gvars, store, delivered>>

ProofAccepted(req) == req.nonce \in {req.cNonce, Null}

\* Mutant: the incremented counter is not saved.
AssignWithoutCounting(id) ==
  /\ nextIndex < LIST_SIZE
  /\ issuedCredentials' = MapSet(issuedCredentials, nextIndex, id)
  /\ UNCHANGED nextIndex

\* Mutant: the counter is incremented before it is read.
AssignAfterIncrement(id) ==
  /\ nextIndex < LIST_SIZE
  /\ nextIndex' = nextIndex + 1
  /\ issuedCredentials' = MapSet(issuedCredentials, nextIndex + 1, id)

\* assignStatusIndex saves the incremented nextIndex together with the entry.
AssignStatusIndex(id) ==
  /\ nextIndex < LIST_SIZE
  /\ nextIndex' = nextIndex + 1
  /\ issuedCredentials' = MapSet(issuedCredentials, nextIndex, id)

\* From the verified proof to the call that signs.
PrepareCredential(r, id) ==
  /\ up
  /\ requests[r].pc = "verifying"
  /\ ProofAccepted(requests[r])
  /\ ClaimsToIssue(requests[r]) # Null
  /\ \A i \in DOMAIN issuedCredentials : issuedCredentials[i] # id
  /\ AssignStatusIndex(id)
  /\ requests' = [requests EXCEPT ![r] =
       [@ EXCEPT !.pc = "signing", !.claims = ClaimsToIssue(requests[r]),
                 !.id = id, !.index = nextIndex]]
  /\ UNCHANGED <<gvars, delivered>>

\* assignStatusIndex throws inside the async handler when the list is full.
ListFull(r) ==
  /\ up
  /\ requests[r].pc = "verifying"
  /\ ProofAccepted(requests[r])
  /\ ClaimsToIssue(requests[r]) # Null
  /\ nextIndex >= LIST_SIZE
  /\ HaltIssuance

\* Mutant: the token is looked up again, and the request dropped without it.
SignedWhileTokenLives(req) == req.pc = "signing" /\ LiveToken(req.token)

Signed(req) == req.pc = "signing"

\* Mutant: the token is used up by its first credential.
SpendToken(req) == accessTokens' = MapDelete(accessTokens, {req.token})

RotateAfterIssuance(req) ==
  /\ LiveToken(req.token) => accessTokens[req.token].cNonce < MaxRotations
  /\ accessTokens' = RotatedTokens(req.token)

\* The signature is there: the nonce is rotated, if the token still lives, and
\* the credential is sent.
DeliverCredential(r) ==
  LET req == requests[r] IN
  /\ up
  /\ Signed(req)
  /\ RotateAfterIssuance(req)
  /\ delivered' = delivered \union
       {[id |-> req.id, token |-> req.token, type |-> req.type,
         claims |-> req.claims, nonce |-> req.nonce, index |-> req.index]}
  /\ requests' = [requests EXCEPT ![r] = NoRequest]
  /\ UNCHANGED <<now, up, config, consentRecords, preAuthCodes, timers,
                 history, store>>

-----------------------------------------------------------------------------
\* The steps of Grants that do not touch a request in flight.
GrantStep ==
  \/ Start \/ Tick \/ ChangeConfig
  \/ \E c \in ConsentIds, ty \in ConsentTypes : OfferWithConsent(c, ty)
  \/ \E k \in Codes, ty \in DirectTypes : OfferDirectly(k, ty)
  \/ \E c \in ConsentIds : GetClaims(c) \/ Decide(c)
  \/ \E k \in Codes, t \in Tokens : PostToken(k, t)
  \/ \E t \in Tokens : EvictAccessToken(t)
  \/ SweepExpiredConsentRecords
  \/ SweepExpiredTokens

Next ==
  \/ GrantStep /\ UNCHANGED <<requests, store, delivered>>
  \/ (Crash \/ OfferRejects) /\ HaltIssuance
  \/ \E t \in Tokens : CredentialRejects(t)
  \/ \E r \in Requests, t \in Tokens, n \in (0 .. MaxRotations) \union {Null} :
       StartCredential(r, t, n)
  \/ \E r \in Requests : RefuseCredential(r) \/ ListFull(r)
  \/ \E r \in Requests, id \in CredentialIds : PrepareCredential(r, id)
  \/ \E r \in Requests : DeliverCredential(r)

Spec == Init /\ [][Next]_vars

\* WebCrypto settles every promise it returned, and the event loop runs the
\* handler that awaits it.
SettleProof(r) ==
  \/ RefuseCredential(r) \/ ListFull(r)
  \/ \E id \in CredentialIds : PrepareCredential(r, id)

FairSpec ==
  Spec /\ \A r \in Requests : WF_vars(SettleProof(r)) /\ WF_vars(DeliverCredential(r))

-----------------------------------------------------------------------------
(* The status list *)

\* The file as the module StatusList has it: no entry is revoked here, and
\* nobody fetches the list.
Entries ==
  [i \in DOMAIN issuedCredentials |->
     [credentialId |-> issuedCredentials[i], revoked |-> FALSE]]

List == INSTANCE StatusList WITH
  Fetches <- {}, STATUSLIST_CACHE_TTL <- 0, Outages <- TRUE,
  readable <- TRUE, issuedCredentials <- Entries, revokedIndices <- {},
  cachedStatusListJWT <- Null, builds <- NoEntries, acknowledged <- {},
  floor <- NoEntries, answers <- NoEntries

\* Issuing credentials uses the status list as that module says: it takes the
\* next slot, once for each credential, and a restart gives none back
\* (issuer.ts:170, statuslist.ts:75-89).
AssignsSlots == List!Spec

-----------------------------------------------------------------------------
(* Properties *)

\* Every credential delivered of a consent-gated type traces back, through its
\* token and code, to an approved consent record, and carries the claims its
\* holder was shown, although the entry it was built from was read two waits
\* earlier and may be gone from the store (issuer.ts:139-146).
CredentialMatchesReview ==
  \A d \in delivered :
    LET c == ConsentOf(redeemed[d.token]) IN
      /\ d.type \in ConsentTypes <=> c # Null
      /\ c # Null => answer[c] = "approved" /\ shown[c] \in {Null, d.claims}

\* A delivered credential owns its status list slot: the file records it under
\* the index signed into it, so no other credential can share the slot, before
\* or after a crash (statuslist.ts:75-89).
OwnsStatusEntry ==
  \A d \in delivered :
    d.index \in DOMAIN issuedCredentials /\ issuedCredentials[d.index] = d.id

\* Once a credential was delivered for a nonce, a request that starts later
\* cannot have that nonce accepted (token.ts:125-132, issuer.ts:211-212).
SpentNonceIsRotated ==
  \A d \in delivered :
    d.nonce # Null /\ LiveToken(d.token) => d.nonce < accessTokens[d.token].cNonce

\* A request whose token is accepted is answered, with a credential or an
\* error, unless the process ends: even if its token expires or is swept, or
\* the configuration changes, while it waits.
RequestsAnswered ==
  \A r \in Requests : requests[r].pc # "idle" ~> requests[r].pc = "idle"

=============================================================================
