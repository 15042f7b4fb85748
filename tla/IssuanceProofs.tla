--------------------------- MODULE IssuanceProofs ---------------------------
(***************************************************************************)
(* Proofs about Issuance: its steps are steps of the grants, and what a    *)
(* request in flight copied from the stores stays true of the grants while *)
(* it waits.  A full status list ends the process as well: this is a step  *)
(* of the grants only if the process may stop there anyway (Outages), which *)
(* the refinement assumes and no other theorem does.                       *)
(***************************************************************************)
EXTENDS Issuance, GrantsProofs

-----------------------------------------------------------------------------
(* Refinement *)

\* The token of a request in flight is a token.
LEMMA RequestReads ==
  ASSUME TypeOK, NEW r \in Requests, requests[r].pc # "idle"
  PROVE  /\ requests[r] \in Request
         /\ requests[r].token \in Tokens
         /\ requests[r].token \in DOMAIN redeemed
         /\ requests[r].type \in Types
         /\ requests[r].config \in Configs
         /\ requests[r].cNonce \in Nat
         /\ requests[r].nonce \in Nat \union {Null}
<1>1. requests[r] \in Request
  BY DEF TypeOK, NoRequest
<1> QED
  BY <1>1 DEF TypeOK, Request

\* Delivering a credential rotates the nonce of a living token, or leaves the
\* stores alone.
LEMMA DeliverIsGrantStep ==
  ASSUME TypeOK, NEW r \in Requests, DeliverCredential(r)
  PROVE  (\E t \in Tokens : RotateNonce(t)) \/ UNCHANGED gvars
<1> DEFINE t == requests[r].token
<1>1. t \in Tokens
  BY RequestReads DEF DeliverCredential, Signed
<1>2. CASE LiveToken(t)
  <2>1. RotateNonce(t)
    BY <1>2 DEF DeliverCredential, RotateAfterIssuance, RotateNonce
  <2> QED
    BY <1>1, <2>1
<1>3. CASE ~LiveToken(t)
  BY <1>3 DEF DeliverCredential, RotateAfterIssuance, RotatedTokens, gvars, stores
<1> QED
  BY <1>2, <1>3

\* Every step of the issuer is a step of the grants, or the end of the process
\* that a full status list brings about.
LEMMA NextIsGrantStep ==
  ASSUME TypeOK, [Next]_vars
  PROVE  [GNext]_gvars \/ (up /\ Halt)
<1>1. CASE GrantStep
  BY <1>1 DEF GrantStep, GNext
<1>2. CASE Crash \/ OfferRejects
  BY <1>2 DEF GNext
<1>3. ASSUME NEW t \in Tokens, CredentialRejects(t)
      PROVE  GNext
  BY <1>3 DEF CredentialRejects, HaltIssuance, OfferRejects, GNext
<1>4. ASSUME NEW r \in Requests, ListFull(r)
      PROVE  up /\ Halt
  BY <1>4 DEF ListFull, HaltIssuance
<1>5. ASSUME NEW r \in Requests, DeliverCredential(r)
      PROVE  [GNext]_gvars
  BY <1>5, DeliverIsGrantStep DEF GNext
<1>6. CASE UNCHANGED gvars
  BY <1>6
<1> QED
  BY <1>1, <1>2, <1>3, <1>4, <1>5, <1>6
  DEF Next, vars, StartCredential, RefuseCredential, PrepareCredential

LEMMA NextHasEffect ==
  ASSUME TypeOK, [Next]_vars
  PROVE  GrantEffect
BY NextIsGrantStep DEF GrantEffect

-----------------------------------------------------------------------------
(* Types *)

\* The claims a request goes on with are claims.
LEMMA ClaimsToIssueType ==
  ASSUME TypeOK, NEW r \in Requests, requests[r].pc # "idle"
  PROVE  ClaimsToIssue(requests[r]) \in ClaimSets \union {Null}
<1>1. requests[r].claims \in ClaimSets \union {Null}
  BY RequestReads DEF Request
<1>2. now \in 0 .. MaxTime
  BY DEF TypeOK, GTypeOK
<1> QED
  BY <1>1, <1>2, RequestReads, TypesAssumption DEF ClaimsToIssue

\* The parts of TypeOK: the requests, and the file with what was delivered.
RequestsTypeOK ==
  /\ requests \in [Requests -> Request \union {NoRequest}]
  /\ \A r \in Requests :
       /\ requests[r].pc # "idle" => requests[r].token \in DOMAIN redeemed
       /\ requests[r].pc = "signing" <=> requests[r].id # Null
       /\ requests[r].pc = "signing" <=> requests[r].index # Null
       /\ ~up => requests[r].pc = "idle"

FileTypeOK ==
  /\ nextIndex \in 0 .. LIST_SIZE
  /\ issuedCredentials \in [0 .. nextIndex - 1 -> CredentialIds]
  /\ delivered \subseteq Credential

\* No request in flight is well typed, whatever the stores hold.
LEMMA FreeType == requests = Free => RequestsTypeOK
BY DEF Free, NoRequest, RequestsTypeOK

\* A request that ends frees its slot.
LEMMA EndType ==
  ASSUME NEW r \in Requests, RequestsTypeOK,
         requests' = [requests EXCEPT ![r] = NoRequest],
         UNCHANGED <<up, redeemed>>
  PROVE  RequestsTypeOK'
BY DEF RequestsTypeOK, NoRequest

\* A request that starts copies a well-formed entry.
LEMMA StartType ==
  ASSUME NEW r \in Requests, NEW t \in Tokens,
         NEW n \in (0 .. MaxRotations) \union {Null},
         TypeOK, StartCredential(r, t, n)
  PROVE  RequestsTypeOK'
<1> DEFINE req == [pc |-> "verifying", token |-> t, type |-> accessTokens[t].type,
                   claims |-> accessTokens[t].claims, config |-> config,
                   cNonce |-> accessTokens[t].cNonce, nonce |-> n, id |-> Null,
                   index |-> Null]
<1>1. /\ accessTokens[t] \in AccessTokenEntry
      /\ t \in DOMAIN redeemed
      /\ config \in Configs
  BY DEF StartCredential, LiveToken, TypeOK, GTypeOK, IsMap
<1>2. n \in Nat \union {Null}
  BY LifetimesAssumption
<1>3. req \in Request
  BY <1>1, <1>2 DEF Request, AccessTokenEntry
<1>4. req.pc = "verifying" /\ req.token = t /\ req.id = Null /\ req.index = Null
  OBVIOUS
<1>5. requests' = [requests EXCEPT ![r] = req] /\ UNCHANGED <<up, redeemed>> /\ up
  BY DEF StartCredential, gvars, history
<1> HIDE DEF req
<1> QED
  BY <1>1, <1>3, <1>4, <1>5 DEF TypeOK, RequestsTypeOK

\* A request that signs has drawn an id and holds a slot.
LEMMA PrepareReads ==
  ASSUME NEW r \in Requests, NEW id \in CredentialIds,
         TypeOK, PrepareCredential(r, id)
  PROVE  /\ requests'[r] \in Request
         /\ requests'[r].pc = "signing"
         /\ requests'[r].token = requests[r].token
         /\ requests'[r].type = requests[r].type
         /\ requests'[r].cNonce = requests[r].cNonce
         /\ requests'[r].nonce = requests[r].nonce
         /\ requests'[r].claims = ClaimsToIssue(requests[r])
         /\ requests'[r].claims \in ClaimSets
         /\ requests'[r].id = id
         /\ requests'[r].index = nextIndex
         /\ \A q \in Requests : q # r => requests'[q] = requests[q]
         /\ requests' \in [Requests -> Request \union {NoRequest}]
<1> DEFINE Ready(req, claims, i) ==
             [req EXCEPT !.pc = "signing", !.claims = claims, !.id = id, !.index = i]
<1>1. requests[r] \in Request /\ requests[r].pc = "verifying"
  BY RequestReads DEF PrepareCredential
<1>2. ClaimsToIssue(requests[r]) \in ClaimSets
  BY <1>1, ClaimsToIssueType DEF PrepareCredential
<1>3. nextIndex \in Nat
  BY IssuanceAssumption DEF TypeOK
<1>4. requests' = [requests EXCEPT ![r] =
                     Ready(requests[r], ClaimsToIssue(requests[r]), nextIndex)]
  BY DEF PrepareCredential
<1>5. \A req \in Request, claims \in ClaimSets, i \in Nat :
        /\ Ready(req, claims, i) \in Request
        /\ Ready(req, claims, i).pc = "signing"
        /\ Ready(req, claims, i).token = req.token
        /\ Ready(req, claims, i).type = req.type
        /\ Ready(req, claims, i).cNonce = req.cNonce
        /\ Ready(req, claims, i).nonce = req.nonce
        /\ Ready(req, claims, i).claims = claims
        /\ Ready(req, claims, i).id = id
        /\ Ready(req, claims, i).index = i
  <2> SUFFICES ASSUME NEW req \in Request, NEW claims \in ClaimSets, NEW i \in Nat
               PROVE  /\ Ready(req, claims, i) \in Request
                      /\ Ready(req, claims, i).pc = "signing"
                      /\ Ready(req, claims, i).token = req.token
                      /\ Ready(req, claims, i).type = req.type
                      /\ Ready(req, claims, i).cNonce = req.cNonce
                      /\ Ready(req, claims, i).nonce = req.nonce
                      /\ Ready(req, claims, i).claims = claims
                      /\ Ready(req, claims, i).id = id
                      /\ Ready(req, claims, i).index = i
    OBVIOUS
  <2>1. DOMAIN req = {"pc", "token", "type", "claims", "config", "cNonce",
                      "nonce", "id", "index"}
    BY DEF Request
  <2>2. Ready(req, claims, i) \in Request
    BY DEF Request
  <2> QED
    BY <2>1, <2>2
<1> HIDE DEF Ready
<1> requests \in [Requests -> Request \union {NoRequest}]
  BY DEF TypeOK
<1>6. requests'[r] = Ready(requests[r], ClaimsToIssue(requests[r]), nextIndex)
  BY <1>4
<1> QED
  BY <1>1, <1>2, <1>3, <1>4, <1>5, <1>6

\* Assigning takes the next slot.
LEMMA SlotReads ==
  ASSUME NEW id \in CredentialIds, TypeOK, AssignStatusIndex(id)
  PROVE  /\ nextIndex' \in 0 .. LIST_SIZE
         /\ issuedCredentials' \in [0 .. nextIndex' - 1 -> CredentialIds]
         /\ nextIndex' = nextIndex + 1 /\ nextIndex \notin DOMAIN issuedCredentials
         /\ nextIndex \in DOMAIN issuedCredentials'
         /\ issuedCredentials'[nextIndex] = id
         /\ \A i \in DOMAIN issuedCredentials :
              /\ i \in DOMAIN issuedCredentials'
              /\ issuedCredentials'[i] = issuedCredentials[i]
<1> nextIndex \in Nat /\ LIST_SIZE \in Nat /\ nextIndex < LIST_SIZE
  BY IssuanceAssumption DEF TypeOK, AssignStatusIndex
<1>1. /\ nextIndex' = nextIndex + 1
      /\ DOMAIN issuedCredentials' = DOMAIN issuedCredentials \union {nextIndex}
      /\ issuedCredentials'[nextIndex] = id
      /\ \A i \in DOMAIN issuedCredentials :
           i # nextIndex => issuedCredentials'[i] = issuedCredentials[i]
  BY DEF AssignStatusIndex, MapSet
<1>2. /\ nextIndex \notin DOMAIN issuedCredentials
      /\ \A i \in DOMAIN issuedCredentials :
           i \in 0 .. nextIndex - 1 /\ issuedCredentials[i] \in CredentialIds
  BY DEF TypeOK
<1>3. DOMAIN issuedCredentials' = 0 .. nextIndex' - 1
  BY <1>1 DEF TypeOK
<1>4. issuedCredentials' = [i \in DOMAIN issuedCredentials' |-> issuedCredentials'[i]]
  BY DEF AssignStatusIndex, MapSet
<1> QED
  BY <1>1, <1>2, <1>3, <1>4

\* A request that signs has its claims.
SigningHasClaims ==
  \A r \in Requests : requests[r].pc = "signing" => requests[r].claims # Null

\* What is delivered is what the request held.
LEMMA DeliverReads ==
  ASSUME NEW r \in Requests, TypeOK, SigningHasClaims, DeliverCredential(r)
  PROVE  \E d \in Credential :
           /\ delivered' = delivered \union {d}
           /\ d.id = requests[r].id /\ d.token = requests[r].token
           /\ d.type = requests[r].type /\ d.claims = requests[r].claims
           /\ d.nonce = requests[r].nonce /\ d.index = requests[r].index
<1> DEFINE d == [id |-> requests[r].id, token |-> requests[r].token,
                 type |-> requests[r].type, claims |-> requests[r].claims,
                 nonce |-> requests[r].nonce, index |-> requests[r].index]
<1>1. requests[r] \in Request /\ requests[r].pc = "signing"
  BY RequestReads DEF DeliverCredential, Signed
<1>2. /\ requests[r].id \in CredentialIds
      /\ requests[r].index \in Nat
      /\ requests[r].claims \in ClaimSets
      /\ requests[r].nonce \in Nat \union {Null}
      /\ requests[r].token \in Tokens /\ requests[r].type \in Types
  BY <1>1 DEF TypeOK, SigningHasClaims, Request
<1>3. d \in Credential
  BY <1>2 DEF Credential
<1>4. delivered' = delivered \union {d}
  BY DEF DeliverCredential
<1> QED
  BY <1>3, <1>4

\* Tokens drawn stay drawn, and keep the code they were exchanged for.
LEMMA RedeemedGrows ==
  ASSUME GTypeOK, GrantEffect
  PROVE  /\ DOMAIN redeemed \subseteq DOMAIN redeemed'
         /\ \A t \in DOMAIN redeemed : redeemed'[t] = redeemed[t]
<1>1. CASE OnlyShrinks
  BY <1>1 DEF OnlyShrinks, history
<1>2. ASSUME NEW k \in Codes, NEW t \in Tokens, PostToken(k, t)
      PROVE  /\ DOMAIN redeemed \subseteq DOMAIN redeemed'
             /\ \A u \in DOMAIN redeemed : redeemed'[u] = redeemed[u]
  BY <1>2 DEF PostToken, MapSet
<1>3. CASE redeemed' = redeemed
  BY <1>3
<1> QED
  BY <1>1, <1>2, <1>3, StepsByKind
  DEF OfferWithConsent, OfferDirectly, GetClaims, Decide

\* Every step keeps the requests well typed.
LEMMA NextRequestsType ==
  ASSUME TypeOK, [Next]_vars
  PROVE  RequestsTypeOK'
<1> RequestsTypeOK
  BY DEF TypeOK, RequestsTypeOK
<1>1. CASE HaltIssuance
  <2>1. requests' = Free
    BY <1>1 DEF HaltIssuance
  <2> QED
    BY <2>1 DEF Free, NoRequest, RequestsTypeOK
<1>2. CASE GrantStep /\ UNCHANGED <<requests, store, delivered>>
  <2>1. ~up' => ~up
    BY <1>2
    DEF GrantStep, Start, Tick, ChangeConfig, OfferWithConsent, OfferDirectly,
        GetClaims, Decide, PostToken, EvictAccessToken,
        SweepExpiredConsentRecords, SweepExpiredTokens
  <2>2. DOMAIN redeemed \subseteq DOMAIN redeemed'
    BY NextHasEffect, RedeemedGrows DEF TypeOK
  <2> QED
    BY <1>2, <2>1, <2>2 DEF RequestsTypeOK
<1>3. ASSUME NEW r \in Requests, NEW t \in Tokens,
             NEW n \in (0 .. MaxRotations) \union {Null}, StartCredential(r, t, n)
      PROVE  RequestsTypeOK'
  BY <1>3, StartType
<1>4. ASSUME NEW r \in Requests, RefuseCredential(r)
      PROVE  RequestsTypeOK'
  BY <1>4, EndType DEF RefuseCredential, gvars, history
<1>5. ASSUME NEW r \in Requests, NEW id \in CredentialIds, PrepareCredential(r, id)
      PROVE  RequestsTypeOK'
  <2>1. UNCHANGED <<up, redeemed>> /\ up
    BY <1>5 DEF PrepareCredential, gvars, history
  <2>2. nextIndex # Null /\ id # Null
    BY IssuanceAssumption DEF TypeOK
  <2>3. requests[r].token \in DOMAIN redeemed
    BY <1>5, RequestReads DEF PrepareCredential
  <2>4. /\ requests'[r].pc = "signing"
        /\ requests'[r].token = requests[r].token
        /\ requests'[r].id = id
        /\ requests'[r].index = nextIndex
        /\ \A q \in Requests : q # r => requests'[q] = requests[q]
        /\ requests' \in [Requests -> Request \union {NoRequest}]
    BY <1>5, PrepareReads
  <2>5. ASSUME NEW q \in Requests
        PROVE  /\ requests'[q].pc # "idle" => requests'[q].token \in DOMAIN redeemed'
               /\ requests'[q].pc = "signing" <=> requests'[q].id # Null
               /\ requests'[q].pc = "signing" <=> requests'[q].index # Null
               /\ ~up' => requests'[q].pc = "idle"
    <3>1. CASE q = r
      BY <2>1, <2>2, <2>3, <2>4, <3>1
    <3>2. CASE q # r
      BY <2>1, <2>4, <3>2 DEF RequestsTypeOK
    <3> QED
      BY <3>1, <3>2
  <2> QED
    BY <2>4, <2>5 DEF RequestsTypeOK
<1>6. ASSUME NEW r \in Requests, DeliverCredential(r)
      PROVE  RequestsTypeOK'
  BY <1>6, EndType DEF DeliverCredential, history
<1>7. CASE UNCHANGED vars
  BY <1>7 DEF vars, gvars, history, RequestsTypeOK
<1> QED
  BY <1>1, <1>2, <1>3, <1>4, <1>5, <1>6, <1>7
  DEF Next, CredentialRejects, ListFull

\* Every step keeps the file and the deliveries well typed.
LEMMA NextFileType ==
  ASSUME TypeOK, SigningHasClaims, [Next]_vars
  PROVE  FileTypeOK'
<1> FileTypeOK
  BY DEF TypeOK, FileTypeOK
<1>1. CASE UNCHANGED <<store, delivered>>
  BY <1>1 DEF store, FileTypeOK
<1>2. ASSUME NEW r \in Requests, NEW id \in CredentialIds, PrepareCredential(r, id)
      PROVE  FileTypeOK'
  BY <1>2, SlotReads DEF PrepareCredential, FileTypeOK
<1>3. ASSUME NEW r \in Requests, DeliverCredential(r)
      PROVE  FileTypeOK'
  <2>1. \E d \in Credential : delivered' = delivered \union {d}
    BY <1>3, DeliverReads
  <2>2. nextIndex' = nextIndex /\ issuedCredentials' = issuedCredentials
    BY <1>3 DEF DeliverCredential, store
  <2> QED
    BY <2>1, <2>2 DEF FileTypeOK
<1> QED
  BY <1>1, <1>2, <1>3
  DEF Next, vars, HaltIssuance, CredentialRejects, StartCredential,
      RefuseCredential, ListFull

\* Only a request with claims goes on to sign.
LEMMA NextSigningHasClaims ==
  ASSUME TypeOK, SigningHasClaims, [Next]_vars
  PROVE  SigningHasClaims'
<1> requests \in [Requests -> Request \union {NoRequest}]
  BY DEF TypeOK
<1>1. CASE HaltIssuance
  <2>1. requests' = Free
    BY <1>1 DEF HaltIssuance
  <2> QED
    BY <2>1 DEF Free, NoRequest, SigningHasClaims
<1>2. CASE UNCHANGED requests
  BY <1>2 DEF SigningHasClaims
<1>3. ASSUME NEW r \in Requests, NEW t \in Tokens,
             NEW n \in (0 .. MaxRotations) \union {Null}, StartCredential(r, t, n)
      PROVE  SigningHasClaims'
  BY <1>3 DEF StartCredential, SigningHasClaims
<1>4. ASSUME NEW r \in Requests, RefuseCredential(r) \/ DeliverCredential(r)
      PROVE  SigningHasClaims'
  BY <1>4 DEF RefuseCredential, DeliverCredential, NoRequest, SigningHasClaims
<1>5. ASSUME NEW r \in Requests, NEW id \in CredentialIds, PrepareCredential(r, id)
      PROVE  SigningHasClaims'
  <2>1. /\ requests'[r].claims \in ClaimSets
        /\ \A q \in Requests : q # r => requests'[q] = requests[q]
    BY <1>5, PrepareReads
  <2>2. requests'[r].claims # Null
    BY <2>1, TypesAssumption
  <2> QED
    BY <2>1, <2>2 DEF SigningHasClaims
<1> QED
  BY <1>1, <1>2, <1>3, <1>4, <1>5 DEF Next, vars, CredentialRejects, ListFull

TypeInvariant == TypeOK /\ SigningHasClaims

\* The parts make up the whole.
LEMMA NextTypeInvariant ==
  ASSUME TypeInvariant, [Next]_vars
  PROVE  TypeInvariant'
<1>1. GTypeOK'
  BY NextHasEffect, NextType DEF TypeInvariant, TypeOK
<1>2. RequestsTypeOK' /\ FileTypeOK' /\ SigningHasClaims'
  BY NextRequestsType, NextFileType, NextSigningHasClaims DEF TypeInvariant
<1> QED
  BY <1>1, <1>2 DEF TypeInvariant, TypeOK, RequestsTypeOK, FileTypeOK

\* Initially nothing is in flight and the list is empty.
LEMMA InitTypeInvariant == Init => TypeInvariant
<1> SUFFICES ASSUME Init
             PROVE  TypeInvariant
  OBVIOUS
<1>1. GTypeOK
  BY InitType DEF Init
<1>2. RequestsTypeOK /\ SigningHasClaims
  BY FreeType DEF Init, Free, NoRequest, SigningHasClaims
<1>3. FileTypeOK
  BY IssuanceAssumption DEF Init, FileTypeOK, IsMap, NoEntries
<1> QED
  BY <1>1, <1>2, <1>3 DEF TypeInvariant, TypeOK, RequestsTypeOK, FileTypeOK

\* The type invariant holds throughout.
LEMMA TypesHold == Spec => []TypeInvariant
<1>1. TypeInvariant /\ [Next]_vars => TypeInvariant'
  BY NextTypeInvariant
<1> QED
  BY <1>1, InitTypeInvariant, PTL DEF Spec

\* Requests in flight, the status list file and the deliveries stay well
\* formed (issuer.ts:74-225, statuslist.ts:75-89).
THEOREM IssuanceTypeCorrect == Spec => []TypeOK
<1>1. TypeInvariant => TypeOK
  BY DEF TypeInvariant
<1> QED
  BY <1>1, TypesHold, PTL

\* POST /credentials, for all its waiting, does to the grants only what the
\* module Grants says (issuer.ts:74-225, token.ts:126-132).
THEOREM IssuanceImplementsGrants ==
  ASSUME Outages
  PROVE  Spec => GSpec
<1>1. Init => GInit
  BY DEF Init
<1>2. TypeOK /\ [Next]_vars => [GNext]_gvars
  BY NextIsGrantStep DEF Crash, GNext
<1> QED
  BY <1>1, <1>2, IssuanceTypeCorrect, PTL DEF Spec, GSpec

-----------------------------------------------------------------------------
(* What was reviewed *)

\* What GrantMatchesReview says of a token, said of a copy of its entry.
Reviewed(token, type, claims) ==
  LET c == ConsentOf(redeemed[token]) IN
    /\ type \in ConsentTypes <=> c # Null
    /\ c # Null => /\ answer[c] = "approved"
                   /\ claims # Null
                   /\ shown[c] \in {Null, claims}

RequestsMatchReview ==
  \A r \in Requests : requests[r].pc # "idle" =>
    Reviewed(requests[r].token, requests[r].type, requests[r].claims)

\* CredentialMatchesReview, with the origin of the token.
DeliveriesMatchReview ==
  \A d \in delivered :
    d.token \in DOMAIN redeemed /\ Reviewed(d.token, d.type, d.claims)

\* Once its holder approved it, nothing a token stands for changes.
LEMMA ReviewStays ==
  ASSUME GrantInvariant, GrantEffect, NEW token \in DOMAIN redeemed,
         NEW type, NEW claims, Reviewed(token, type, claims)
  PROVE  Reviewed(token, type, claims)'
<1> DEFINE k == redeemed[token]
           c == ConsentOf(k)
<1> GTypeOK
  BY DEF GrantInvariant
<1>1. redeemed'[token] = redeemed[token]
  BY RedeemedGrows
<1>2. k \in DOMAIN minted
  BY DEF GTypeOK, IsMap
<1>3. minted'[k] = minted[k]
  <2>1. CASE \E j \in Codes : \E ty, cl, origin :
                   IssuePreAuthCode(j, ty, cl, origin)
    BY <1>2, <2>1, IssueReads
  <2>2. CASE minted' = minted
    BY <2>2
  <2> QED
    BY <2>1, <2>2, StepsByKind
    DEF OnlyShrinks, history, OfferWithConsent, OfferDirectly, GetClaims, Decide,
        Decline, Approve, PostToken
<1>4. CASE c = Null
  BY <1>1, <1>3, <1>4 DEF Reviewed, ConsentOf
<1>5. CASE c # Null
  <2>1. c \in ConsentIds /\ answer[c] = "approved"
    BY <1>2, <1>5 DEF Reviewed, GTypeOK, IsMap, Origin, ConsentOf
  <2>2. answer'[c] = "approved"
    BY <2>1, AnswersStay
  <2>3. shown'[c] = shown[c]
    <3>1. ASSUME NEW d \in ConsentIds, GetClaims(d), ~EvictConsentRecord(d)
          PROVE  shown'[c] = shown[c]
      <4>1. d # c
        BY <2>1, <3>1 DEF GetClaims, GrantInvariant, RecordsAwaitVerdict
      <4>2. shown' = [shown EXCEPT ![d] = consentRecords[d].claims]
        BY <3>1 DEF GetClaims
      <4> QED
        BY <2>1, <4>1, <4>2 DEF GTypeOK
    <3>2. CASE shown' = shown
      BY <3>2
    <3> QED
      BY <3>1, <3>2, StepsByKind
      DEF OnlyShrinks, history, OfferWithConsent, OfferDirectly, Decline, Approve,
          PostToken
  <2> QED
    BY <1>1, <1>3, <2>2, <2>3 DEF Reviewed, ConsentOf
<1> QED
  BY <1>4, <1>5

ReviewInvariant ==
  TypeInvariant /\ GrantInvariant /\ RequestsMatchReview /\ DeliveriesMatchReview

\* A request that stays in its slot, or goes on to sign, still matches.
LEMMA NextRequestsMatch ==
  ASSUME ReviewInvariant, [Next]_vars
  PROVE  RequestsMatchReview'
<1> TypeInvariant /\ TypeOK /\ GrantInvariant /\ RequestsMatchReview
  BY DEF ReviewInvariant, TypeInvariant
<1> GrantEffect
  BY NextHasEffect
<1> SUFFICES ASSUME NEW q \in Requests, requests'[q].pc # "idle"
             PROVE  Reviewed(requests[q].token, requests[q].type,
                             requests[q].claims)'
  BY DEF RequestsMatchReview
<1>1. CASE requests'[q] = requests[q]
  <2>1. requests[q].token \in DOMAIN redeemed
    BY <1>1 DEF TypeOK
  <2>2. Reviewed(requests[q].token, requests[q].type, requests[q].claims)
    BY <1>1 DEF RequestsMatchReview
  <2> QED
    BY <1>1, <2>1, <2>2, ReviewStays DEF Reviewed
<1>2. CASE requests'[q] # requests[q]
  <2> requests \in [Requests -> Request \union {NoRequest}]
    BY DEF TypeOK
  <2>1. ~HaltIssuance /\ requests'[q] # NoRequest
    BY DEF HaltIssuance, Free, NoRequest
  <2>2. ASSUME NEW t \in Tokens, NEW n \in (0 .. MaxRotations) \union {Null},
               StartCredential(q, t, n)
        PROVE  Reviewed(requests[q].token, requests[q].type, requests[q].claims)'
    <3>1. /\ requests'[q].token = t
          /\ requests'[q].type = accessTokens[t].type
          /\ requests'[q].claims = accessTokens[t].claims
          /\ t \in DOMAIN accessTokens
          /\ UNCHANGED gvars
      BY <2>2 DEF StartCredential, LiveToken
    <3> QED
      BY <3>1 DEF gvars, history, GrantInvariant, GrantMatchesReview, Reviewed,
                  ConsentOf
  <2>3. ASSUME NEW id \in CredentialIds, PrepareCredential(q, id)
        PROVE  Reviewed(requests[q].token, requests[q].type, requests[q].claims)'
    <3>1. /\ requests'[q].token = requests[q].token
          /\ requests'[q].type = requests[q].type
          /\ requests'[q].claims = ClaimsToIssue(requests[q])
          /\ requests[q].pc # "idle"
          /\ UNCHANGED gvars
      BY <2>3, PrepareReads DEF PrepareCredential
    <3>2. requests'[q].claims # Null
      BY <3>1, <2>3 DEF PrepareCredential
    <3> QED
      BY <3>1, <3>2
      DEF gvars, history, RequestsMatchReview, Reviewed, ClaimsToIssue, ConsentOf
  <2>4. \/ \E t \in Tokens, n \in (0 .. MaxRotations) \union {Null} :
             StartCredential(q, t, n)
        \/ \E id \in CredentialIds : PrepareCredential(q, id)
    BY <1>2, <2>1
    DEF Next, vars, CredentialRejects, ListFull, StartCredential,
        RefuseCredential, PrepareCredential, DeliverCredential
  <2> QED
    BY <2>2, <2>3, <2>4
<1> QED
  BY <1>1, <1>2

\* What was delivered still matches, and what is delivered does.
LEMMA NextDeliveriesMatch ==
  ASSUME ReviewInvariant, [Next]_vars
  PROVE  DeliveriesMatchReview'
<1> /\ TypeInvariant /\ TypeOK /\ SigningHasClaims /\ GrantInvariant
    /\ RequestsMatchReview /\ DeliveriesMatchReview
  BY DEF ReviewInvariant, TypeInvariant
<1> GrantEffect /\ GTypeOK
  BY NextHasEffect DEF TypeOK
<1> SUFFICES ASSUME NEW d \in delivered'
             PROVE  d.token \in DOMAIN redeemed' /\ Reviewed(d.token, d.type, d.claims)'
  BY DEF DeliveriesMatchReview
<1>1. CASE d \in delivered
  <2>1. d.token \in DOMAIN redeemed /\ Reviewed(d.token, d.type, d.claims)
    BY <1>1 DEF DeliveriesMatchReview
  <2> QED
    BY <2>1, ReviewStays, RedeemedGrows
<1>2. CASE d \notin delivered
  <2>1. PICK r \in Requests : DeliverCredential(r)
    BY <1>2 DEF Next, vars, HaltIssuance, CredentialRejects, StartCredential,
                RefuseCredential, ListFull, PrepareCredential
  <2>2. /\ d.token = requests[r].token
        /\ d.type = requests[r].type
        /\ d.claims = requests[r].claims
    BY <1>2, <2>1, DeliverReads
  <2>3. requests[r].pc # "idle"
    BY <2>1 DEF DeliverCredential, Signed
  <2>4. d.token \in DOMAIN redeemed /\ Reviewed(d.token, d.type, d.claims)
    BY <2>2, <2>3, RequestReads DEF RequestsMatchReview
  <2> QED
    BY <2>4, ReviewStays, RedeemedGrows
<1> QED
  BY <1>1, <1>2

\* All of it together, throughout.
LEMMA ReviewHolds == Spec => []ReviewInvariant
<1>1. Init => ReviewInvariant
  BY InitTypeInvariant, InitInvariant
  DEF Init, Free, NoRequest, ReviewInvariant, RequestsMatchReview,
      DeliveriesMatchReview
<1>2. ReviewInvariant /\ [Next]_vars => ReviewInvariant'
  <2> SUFFICES ASSUME ReviewInvariant, [Next]_vars
               PROVE  ReviewInvariant'
    OBVIOUS
  <2>1. TypeInvariant' /\ GrantInvariant'
    BY NextTypeInvariant, NextHasEffect, NextInvariant
    DEF ReviewInvariant, TypeInvariant
  <2> QED
    BY <2>1, NextRequestsMatch, NextDeliveriesMatch DEF ReviewInvariant
<1> QED
  BY <1>1, <1>2, PTL DEF Spec

\* A credential of a consent-gated type traces back to an approval and carries
\* the claims its holder was shown, although its entry was read two waits
\* earlier (issuer.ts:139-146).
THEOREM CredentialsMatchReview == Spec => []CredentialMatchesReview
<1>1. ReviewInvariant => CredentialMatchesReview
  BY DEF ReviewInvariant, DeliveriesMatchReview, Reviewed, CredentialMatchesReview
<1> QED
  BY <1>1, ReviewHolds, PTL

\* Whatever a credential request does, and whatever end of the process it
\* brings about, the promise to the holder is kept: asked once, answered at
\* most once, at most one grant (issuer.ts:74-225 on top of consent.ts and
\* token.ts).
THEOREM IssuanceKeepsContract == Spec => KeepsContract
<1>1. Init => Contract!Init
  BY InitContract DEF Init
<1>2. ReviewInvariant /\ [Next]_vars => [Contract!Next]_Contract!contractVars
  BY NextHasEffect, NextContract DEF ReviewInvariant, TypeInvariant
<1> QED
  BY <1>1, <1>2, ReviewHolds, PTL DEF Spec, KeepsContract, Contract!Spec

\* With credential requests in flight, and none of their waits bounded, the
\* stores still let go of the holder's data in time (token.ts:126-132).
THEOREM IssuanceBoundsRetention == Spec => []HolderDataRetention
<1>1. Init => AgeInvariant
  BY InitAges DEF Init
<1>2. ReviewInvariant /\ AgeInvariant /\ [Next]_vars => AgeInvariant'
  BY NextHasEffect, NextAges DEF ReviewInvariant, TypeInvariant
<1>3. ReviewInvariant /\ AgeInvariant => HolderDataRetention
  BY AgesBoundRetention DEF ReviewInvariant
<1> QED
  BY <1>1, <1>2, <1>3, ReviewHolds, PTL DEF Spec

\* With credential requests in flight, an answer to an offer is final, the cap
\* holds, and nothing but its answer, its expiry or the end of the process
\* takes a pending offer away (consent.ts:143-209).
THEOREM IssuanceKeepsOffers ==
  Spec => VerdictFinal /\ CapWithoutEviction
<1>1. Init => CapInvariant
  BY InitCap DEF Init
<1>2. TypeInvariant /\ CapInvariant /\ [Next]_vars => CapInvariant'
  BY NextHasEffect, NextCap DEF TypeInvariant, TypeOK
<1>3. ReviewInvariant => GrantInvariant /\ TypeInvariant
  BY DEF ReviewInvariant
<1>4. TypeInvariant /\ [Next]_vars => GrantEffect
  BY NextHasEffect DEF TypeInvariant
<1>5. GrantInvariant /\ GrantEffect /\ CapInvariant' =>
        [/\ PendingBounded'
         /\ \A c \in PendingIds :
              c \in PendingIds' \/ answer'[c] # answer[c]
              \/ Expired(consentRecords[c]) \/ ~up']_gvars
  BY PendingLeave DEF CapInvariant
<1> QED
  BY <1>1, <1>2, <1>3, <1>4, <1>5, NextVerdicts, ReviewHolds, PTL
  DEF Spec, VerdictFinal, CapWithoutEviction

-----------------------------------------------------------------------------
(* Slots of the status list *)

Recorded(index, id) ==
  index \in DOMAIN issuedCredentials /\ issuedCredentials[index] = id

\* OwnsStatusEntry, said of requests that sign as well.
SlotsOwned ==
  /\ \A r \in Requests :
       requests[r].pc = "signing" => Recorded(requests[r].index, requests[r].id)
  /\ OwnsStatusEntry

\* An entry of the file stays.
LEMMA EntriesStay ==
  ASSUME TypeOK, [Next]_vars, NEW index, NEW id, Recorded(index, id)
  PROVE  Recorded(index, id)'
<1>1. CASE UNCHANGED store
  BY <1>1 DEF store, Recorded
<1>2. ASSUME NEW r \in Requests, NEW k \in CredentialIds, PrepareCredential(r, k)
      PROVE  Recorded(index, id)'
  BY <1>2, SlotReads DEF PrepareCredential, Recorded
<1> QED
  BY <1>1, <1>2
  DEF Next, vars, HaltIssuance, CredentialRejects, StartCredential,
      RefuseCredential, ListFull, DeliverCredential

\* A request that signs was given its slot; a delivery takes it over.
LEMMA NextSlotsOwned ==
  ASSUME TypeInvariant, SlotsOwned, [Next]_vars
  PROVE  SlotsOwned'
<1> TypeOK /\ SigningHasClaims
  BY DEF TypeInvariant
<1> requests \in [Requests -> Request \union {NoRequest}]
  BY DEF TypeOK
<1>1. ASSUME NEW q \in Requests, requests'[q].pc = "signing"
      PROVE  Recorded(requests[q].index, requests[q].id)'
  <2>1. CASE requests'[q] = requests[q]
    <3> SUFFICES ASSUME NEW index, NEW id,
                        index = requests[q].index, id = requests[q].id
                 PROVE  Recorded(index, id)'
      BY <2>1 DEF Recorded
    <3>1. Recorded(index, id)
      BY <1>1, <2>1 DEF SlotsOwned
    <3> QED
      BY <3>1, EntriesStay
  <2>2. ASSUME NEW id \in CredentialIds, PrepareCredential(q, id)
        PROVE  Recorded(requests[q].index, requests[q].id)'
    <3>1. requests'[q].index = nextIndex /\ requests'[q].id = id
      BY <2>2, PrepareReads
    <3>2. AssignStatusIndex(id)
      BY <2>2 DEF PrepareCredential
    <3>3. nextIndex \in DOMAIN issuedCredentials' /\ issuedCredentials'[nextIndex] = id
      BY <3>2, SlotReads
    <3> QED
      BY <3>1, <3>3 DEF Recorded
  <2>3. CASE requests'[q] # requests[q]
    <3>1. ~HaltIssuance /\ requests'[q] # NoRequest
      BY <1>1 DEF HaltIssuance, Free, NoRequest
    <3>2. ~\E t \in Tokens, n \in (0 .. MaxRotations) \union {Null} :
             StartCredential(q, t, n)
      BY <1>1 DEF StartCredential
    <3>3. \E id \in CredentialIds : PrepareCredential(q, id)
      BY <2>3, <3>1, <3>2
      DEF Next, vars, CredentialRejects, ListFull, StartCredential,
          RefuseCredential, PrepareCredential, DeliverCredential
    <3> QED
      BY <2>2, <3>3
  <2> QED
    BY <2>1, <2>3
<1>2. ASSUME NEW d \in delivered'
      PROVE  Recorded(d.index, d.id)'
  <2>1. CASE d \in delivered
    <3>1. Recorded(d.index, d.id)
      BY <2>1 DEF SlotsOwned, OwnsStatusEntry, Recorded
    <3> QED
      BY <3>1, EntriesStay
  <2>2. CASE d \notin delivered
    <3>1. PICK r \in Requests : DeliverCredential(r)
      BY <2>2 DEF Next, vars, HaltIssuance, CredentialRejects, StartCredential,
                  RefuseCredential, ListFull, PrepareCredential
    <3>2. d.index = requests[r].index /\ d.id = requests[r].id
      BY <2>2, <3>1, DeliverReads
    <3>3. Recorded(d.index, d.id)
      BY <3>1, <3>2 DEF DeliverCredential, Signed, SlotsOwned
    <3> QED
      BY <3>3, EntriesStay
  <2> QED
    BY <2>1, <2>2
<1> QED
  BY <1>1, <1>2 DEF SlotsOwned, OwnsStatusEntry, Recorded

\* No two credentials share a slot, whatever else is in flight and wherever
\* the process stops (statuslist.ts:75-89, issuer.ts:170).
THEOREM CredentialsOwnSlots == Spec => []OwnsStatusEntry
<1>1. Init => SlotsOwned
  BY DEF Init, Free, NoRequest, SlotsOwned, OwnsStatusEntry
<1>2. TypeInvariant /\ SlotsOwned /\ [Next]_vars => SlotsOwned'
  BY NextSlotsOwned
<1>3. SlotsOwned => OwnsStatusEntry
  BY DEF SlotsOwned
<1> QED
  BY <1>1, <1>2, <1>3, TypesHold, PTL DEF Spec

\* A new entry, as the status list sees it.
LEMMA AssignIsListStep ==
  ASSUME NEW r \in Requests, NEW id \in CredentialIds, TypeOK,
         PrepareCredential(r, id)
  PROVE  List!AssignStatusIndex(id)
<1> AssignStatusIndex(id) /\ up /\ UNCHANGED <<now, up>>
  BY DEF PrepareCredential, gvars
<1>1. DOMAIN issuedCredentials = 0 .. nextIndex - 1 /\ nextIndex \in Nat
  BY IssuanceAssumption DEF TypeOK
<1>2. /\ issuedCredentials' \in [0 .. nextIndex' - 1 -> CredentialIds]
      /\ nextIndex' = nextIndex + 1
      /\ issuedCredentials'[nextIndex] = id
      /\ \A i \in DOMAIN issuedCredentials :
           issuedCredentials'[i] = issuedCredentials[i]
  BY SlotReads
<1>3. 0 .. nextIndex = (0 .. nextIndex - 1) \union {nextIndex}
      /\ 0 .. nextIndex' - 1 = 0 .. nextIndex
      /\ nextIndex \notin 0 .. nextIndex - 1
  BY <1>1, <1>2
<1>4. Entries' = [i \in 0 .. nextIndex |->
                    IF i = nextIndex THEN [credentialId |-> id, revoked |-> FALSE]
                    ELSE Entries[i]]
  BY <1>1, <1>2, <1>3 DEF Entries
<1>5. \A i \in DOMAIN Entries : Entries[i].credentialId # id
  BY DEF PrepareCredential, Entries
<1>6. nextIndex < LIST_SIZE
  BY DEF AssignStatusIndex
<1> QED
  BY <1>2, <1>4, <1>5, <1>6
  DEF List!AssignStatusIndex, List!Loaded, List!SlotLeft, List!EntriesWith,
      List!history

\* Every step of issuance is a step of the status list or none.
LEMMA NextListStep ==
  TypeOK /\ [Next]_vars => [List!Next]_List!vars
<1> SUFFICES ASSUME TypeOK, [Next]_vars
             PROVE  List!Next \/ UNCHANGED List!vars
  OBVIOUS
<1> USE DEF List!vars, List!store, List!history
<1>1. ASSUME NEW r \in Requests, NEW id \in CredentialIds, PrepareCredential(r, id)
      PROVE  List!Next
  BY <1>1, AssignIsListStep DEF List!Next
<1>2. CASE up /\ HaltIssuance
  <2>1. List!Crash
    BY <1>2 DEF HaltIssuance, Halt, store, Entries, List!Crash, List!Halt, List!Idle,
                NoEntries
  <2> QED
    BY <2>1 DEF List!Next
<1>3. CASE Start /\ UNCHANGED store
  <2>1. List!Start
    BY <1>3 DEF Start, store, Entries, List!Start
  <2> QED
    BY <2>1 DEF List!Next
<1>4. CASE Tick /\ UNCHANGED store
  <2>1. List!Tick
    BY <1>4 DEF Tick, store, Entries, List!Tick
  <2> QED
    BY <2>1 DEF List!Next
<1>5. CASE UNCHANGED <<now, up, store>>
  BY <1>5 DEF store, Entries
<1>6. \/ \E r \in Requests, id \in CredentialIds : PrepareCredential(r, id)
      \/ up /\ HaltIssuance
      \/ (Start \/ Tick) /\ UNCHANGED store
      \/ UNCHANGED <<now, up, store>>
  BY DEF Next, vars, gvars, GrantStep, Crash, OfferRejects, CredentialRejects,
         StartCredential, RefuseCredential, ListFull, DeliverCredential,
         ChangeConfig, OfferWithConsent, OfferDirectly, GetClaims, Decide,
         PostToken, EvictAccessToken, SweepExpiredConsentRecords,
         SweepExpiredTokens
<1> QED
  BY <1>1, <1>2, <1>3, <1>4, <1>5, <1>6

\* The handler that issues uses the status list as the module of the list says
\* its writers do, wherever the process stops (issuer.ts:170,
\* statuslist.ts:75-89).
THEOREM IssuanceAssignsSlots == Spec => AssignsSlots
<1>1. Init => List!Init
  BY DEF Init, GInit, Entries, NoEntries, List!Init, List!Idle
<1> QED
  BY <1>1, NextListStep, IssuanceTypeCorrect, PTL DEF Spec, AssignsSlots, List!Spec

-----------------------------------------------------------------------------
(* Nonces *)

\* A token that lives after a step lived before it, and its nonces only went
\* forward.
LEMMA NoncesGrow ==
  ASSUME GTypeOK, GrantEffect, NEW t \in DOMAIN redeemed, LiveToken(t)'
  PROVE  /\ LiveToken(t)
         /\ accessTokens[t].cNonce \in Nat
         /\ accessTokens'[t].cNonce \in Nat
         /\ accessTokens[t].cNonce <= accessTokens'[t].cNonce
<1>0. now \in Nat /\ now' \in Nat /\ now <= now'
  <2>1. GTypeOK'
    BY NextType
  <2>2. now' = now \/ now' = now + 1
    BY DEF GrantEffect, GNext, gvars, Crash, Halt, Start, Tick, ChangeConfig, OfferWithConsent,
           OfferDirectly, OfferRejects, GetClaims, Decide, PostToken,
           EvictAccessToken, RotateNonce, SweepExpiredConsentRecords,
           SweepExpiredTokens
  <2>3. now \in Nat /\ now' \in Nat
    BY <2>1, LifetimesAssumption DEF GTypeOK
  <2> QED
    BY <2>2, <2>3
<1>1. /\ t \in DOMAIN accessTokens
      /\ accessTokens'[t] = accessTokens[t]
         \/ \E u \in Tokens : RotateNonce(u)
  <2>1. CASE UNCHANGED accessTokens
    BY <2>1 DEF LiveToken
  <2>2. CASE accessTokens' = NoEntries
    BY <2>2 DEF LiveToken, NoEntries
  <2>3. ASSUME NEW u \in Tokens, RotateNonce(u)
        PROVE  t \in DOMAIN accessTokens
    BY <2>3 DEF RotateNonce, RotatedTokens, LiveToken
  <2>4. ASSUME NEW ks, accessTokens' = MapDelete(accessTokens, ks)
        PROVE  t \in DOMAIN accessTokens /\ accessTokens'[t] = accessTokens[t]
    BY <2>4 DEF MapDelete, LiveToken
  <2>5. ASSUME NEW k \in Codes, NEW u \in Tokens, PostToken(k, u)
        PROVE  t \in DOMAIN accessTokens /\ accessTokens'[t] = accessTokens[t]
    BY <2>5 DEF PostToken, MapSet, LiveToken
  <2> QED
    BY <2>1, <2>2, <2>3, <2>4, <2>5
    DEF GrantEffect, GNext, gvars, stores, Crash, Halt, Start, Tick, ChangeConfig,
        OfferWithConsent, OfferDirectly, OfferRejects, GetClaims, Decide,
        EvictAccessToken, SweepExpiredConsentRecords, SweepExpiredTokens
<1>2. accessTokens[t].expiresAt \in Nat /\ accessTokens[t].cNonce \in Nat
  BY <1>1 DEF GTypeOK, IsMap, AccessTokenEntry
<1>3. CASE accessTokens'[t] = accessTokens[t]
  BY <1>0, <1>1, <1>2, <1>3 DEF LiveToken, Expired
<1>4. ASSUME NEW u \in Tokens, RotateNonce(u)
      PROVE  /\ accessTokens'[t].expiresAt = accessTokens[t].expiresAt
             /\ accessTokens'[t].cNonce \in {accessTokens[t].cNonce,
                                             accessTokens[t].cNonce + 1}
  <2>1. accessTokens[t] \in AccessTokenEntry
    BY <1>1 DEF GTypeOK, IsMap
  <2> QED
    BY <1>1, <1>4, <2>1 DEF RotateNonce, RotatedTokens, AccessTokenEntry
<1> QED
  BY <1>0, <1>1, <1>2, <1>3, <1>4 DEF LiveToken, Expired

\* A request in flight copied a nonce its token has or had, and signs only
\* for that one.
NoncesCopied ==
  \A r \in Requests :
    /\ requests[r].pc # "idle" /\ LiveToken(requests[r].token) =>
         requests[r].cNonce <= accessTokens[requests[r].token].cNonce
    /\ requests[r].pc = "signing" =>
         requests[r].nonce \in {requests[r].cNonce, Null}

\* SpentNonceIsRotated, with the origin of the tokens.
NoncesSpent ==
  /\ \A d \in delivered : d.token \in DOMAIN redeemed
  /\ SpentNonceIsRotated

\* Requests in flight keep trailing the nonces of their tokens.
LEMMA NextNoncesCopied ==
  ASSUME TypeInvariant, NoncesCopied, [Next]_vars
  PROVE  NoncesCopied'
<1> TypeOK /\ GTypeOK
  BY DEF TypeInvariant, TypeOK
<1> GrantEffect
  BY NextHasEffect
<1> requests \in [Requests -> Request \union {NoRequest}]
  BY DEF TypeOK
<1> SUFFICES ASSUME NEW q \in Requests, requests'[q].pc # "idle"
             PROVE  /\ LiveToken(requests[q].token)' =>
                         requests'[q].cNonce
                           <= accessTokens'[requests'[q].token].cNonce
                    /\ requests'[q].pc = "signing" =>
                         requests'[q].nonce \in {requests'[q].cNonce, Null}
  BY DEF NoncesCopied, LiveToken
<1>1. ASSUME requests[q].pc # "idle",
             requests'[q].token = requests[q].token,
             requests'[q].cNonce = requests[q].cNonce
      PROVE  LiveToken(requests[q].token)' =>
               requests'[q].cNonce <= accessTokens'[requests'[q].token].cNonce
  <2> SUFFICES ASSUME NEW t, t = requests[q].token, LiveToken(t)'
               PROVE  requests[q].cNonce <= accessTokens'[t].cNonce
    BY <1>1 DEF LiveToken, Expired
  <2>1. t \in DOMAIN redeemed /\ requests[q].cNonce \in Nat
    BY <1>1, RequestReads
  <2>2. /\ LiveToken(t)
        /\ accessTokens[t].cNonce \in Nat
        /\ accessTokens'[t].cNonce \in Nat
        /\ accessTokens[t].cNonce <= accessTokens'[t].cNonce
    BY <2>1, NoncesGrow
  <2>3. requests[q].cNonce <= accessTokens[t].cNonce
    BY <1>1, <2>2 DEF NoncesCopied
  <2> QED
    BY <2>1, <2>2, <2>3
<1>2. CASE requests'[q] = requests[q]
  BY <1>1, <1>2 DEF NoncesCopied
<1>3. ASSUME NEW id \in CredentialIds, PrepareCredential(q, id)
      PROVE  /\ LiveToken(requests[q].token)' =>
                  requests'[q].cNonce <= accessTokens'[requests'[q].token].cNonce
             /\ requests'[q].pc = "signing" =>
                  requests'[q].nonce \in {requests'[q].cNonce, Null}
  <2>1. /\ requests'[q].token = requests[q].token
        /\ requests'[q].cNonce = requests[q].cNonce
        /\ requests'[q].nonce = requests[q].nonce
        /\ requests[q].pc # "idle"
        /\ ProofAccepted(requests[q])
    BY <1>3, PrepareReads DEF PrepareCredential
  <2> QED
    BY <1>1, <2>1 DEF ProofAccepted
<1>4. ASSUME NEW t \in Tokens, NEW n \in (0 .. MaxRotations) \union {Null},
             StartCredential(q, t, n)
      PROVE  /\ LiveToken(requests[q].token)' =>
                  requests'[q].cNonce <= accessTokens'[requests'[q].token].cNonce
             /\ requests'[q].pc = "signing" =>
                  requests'[q].nonce \in {requests'[q].cNonce, Null}
  <2>1. /\ requests'[q].token = t /\ requests'[q].pc = "verifying"
        /\ requests'[q].cNonce = accessTokens[t].cNonce
        /\ accessTokens' = accessTokens
        /\ t \in DOMAIN accessTokens
    BY <1>4 DEF StartCredential, gvars, stores, LiveToken
  <2>2. accessTokens[t].cNonce \in Nat
    BY <2>1 DEF GTypeOK, IsMap, AccessTokenEntry
  <2> QED
    BY <2>1, <2>2
<1>5. CASE requests'[q] # requests[q]
  <2>1. ~HaltIssuance /\ requests'[q] # NoRequest
    BY DEF HaltIssuance, Free, NoRequest
  <2>2. \/ \E t \in Tokens, n \in (0 .. MaxRotations) \union {Null} :
             StartCredential(q, t, n)
        \/ \E id \in CredentialIds : PrepareCredential(q, id)
    BY <1>5, <2>1
    DEF Next, vars, CredentialRejects, ListFull, StartCredential,
        RefuseCredential, PrepareCredential, DeliverCredential
  <2> QED
    BY <1>3, <1>4, <2>2
<1> QED
  BY <1>2, <1>5

\* A delivery leaves its nonce behind, and no nonce comes back.
LEMMA NextNoncesSpent ==
  ASSUME TypeInvariant, NoncesCopied, NoncesSpent, [Next]_vars
  PROVE  NoncesSpent'
<1> TypeOK /\ GTypeOK /\ SigningHasClaims
  BY DEF TypeInvariant, TypeOK
<1> GrantEffect
  BY NextHasEffect
<1> SUFFICES ASSUME NEW d \in delivered'
             PROVE  /\ d.token \in DOMAIN redeemed'
                    /\ d.nonce # Null /\ LiveToken(d.token)' =>
                         d.nonce < accessTokens'[d.token].cNonce
  BY DEF NoncesSpent, SpentNonceIsRotated, LiveToken, Expired
<1>1. CASE d \in delivered
  <2>1. d.token \in DOMAIN redeemed /\ d.nonce \in Nat \union {Null}
    BY <1>1 DEF NoncesSpent, TypeOK, Credential
  <2>2. d.token \in DOMAIN redeemed'
    BY <2>1, RedeemedGrows
  <2>3. ASSUME d.nonce # Null, LiveToken(d.token)'
        PROVE  d.nonce < accessTokens'[d.token].cNonce
    <3>1. /\ LiveToken(d.token)
          /\ accessTokens[d.token].cNonce \in Nat
          /\ accessTokens'[d.token].cNonce \in Nat
          /\ accessTokens[d.token].cNonce <= accessTokens'[d.token].cNonce
      BY <2>1, <2>3, NoncesGrow
    <3>2. d.nonce < accessTokens[d.token].cNonce
      BY <1>1, <2>3, <3>1 DEF NoncesSpent, SpentNonceIsRotated
    <3> QED
      BY <2>1, <2>3, <3>1, <3>2
  <2> QED
    BY <2>2, <2>3
<1>2. CASE d \notin delivered
  <2>1. PICK r \in Requests : DeliverCredential(r)
    BY <1>2 DEF Next, vars, HaltIssuance, CredentialRejects, StartCredential,
                RefuseCredential, ListFull, PrepareCredential
  <2>2. d.token = requests[r].token /\ d.nonce = requests[r].nonce
    BY <1>2, <2>1, DeliverReads
  <2>3. requests[r].pc = "signing"
    BY <2>1 DEF DeliverCredential, Signed
  <2>4. d.token \in DOMAIN redeemed /\ requests[r].cNonce \in Nat
    BY <2>2, <2>3, RequestReads
  <2>5. d.token \in DOMAIN redeemed'
    BY <2>4, RedeemedGrows
  <2>6. ASSUME d.nonce # Null, LiveToken(d.token)'
        PROVE  d.nonce < accessTokens'[d.token].cNonce
    <3>1. /\ LiveToken(d.token)
          /\ accessTokens[d.token].cNonce \in Nat
      BY <2>4, <2>6, NoncesGrow
    <3>2. d.nonce = requests[r].cNonce
      BY <2>2, <2>3, <2>6 DEF NoncesCopied
    <3>3. requests[r].cNonce <= accessTokens[d.token].cNonce
      BY <2>2, <2>3, <3>1 DEF NoncesCopied
    <3>4. accessTokens' = RotatedTokens(d.token)
      BY <2>1, <2>2 DEF DeliverCredential, RotateAfterIssuance
    <3>5. accessTokens[d.token] \in AccessTokenEntry
      BY <3>1 DEF LiveToken, GTypeOK, IsMap
    <3>6. accessTokens'[d.token].cNonce = accessTokens[d.token].cNonce + 1
      BY <3>1, <3>4, <3>5 DEF RotatedTokens, LiveToken, AccessTokenEntry
    <3> QED
      BY <2>4, <3>1, <3>2, <3>3, <3>6
  <2> QED
    BY <2>5, <2>6
<1> QED
  BY <1>1, <1>2

\* A nonce that yielded a credential is not the current one of its token any
\* more, whatever was in flight (token.ts:125-132, issuer.ts:211-212).
THEOREM SpentNoncesRotated == Spec => []SpentNonceIsRotated
<1>1. Init => NoncesCopied /\ NoncesSpent
  BY DEF Init, Free, NoRequest, NoncesCopied, NoncesSpent, SpentNonceIsRotated
<1>2. TypeInvariant /\ NoncesCopied /\ NoncesSpent /\ [Next]_vars =>
        NoncesCopied' /\ NoncesSpent'
  BY NextNoncesCopied, NextNoncesSpent
<1>3. NoncesSpent => SpentNonceIsRotated
  BY DEF NoncesSpent
<1> QED
  BY <1>1, <1>2, <1>3, TypesHold, PTL DEF Spec

=============================================================================
