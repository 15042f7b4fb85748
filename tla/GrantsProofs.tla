---------------------------- MODULE GrantsProofs ----------------------------
(***************************************************************************)
(* Proofs about Grants, for every set of identifiers, every template,      *)
(* every lifetime and every cap: first the types of the stores, then an    *)
(* inductive invariant and what follows from it.  None of the safety       *)
(* properties is inductive alone: that a token carries what its holder was *)
(* shown rests on what the code it was exchanged for carried, which rests  *)
(* on the record the code was issued from, whose claims were the only ones *)
(* that page could show while no answer was given.                         *)
(*                                                                         *)
(* Then what is owed to the holder: every handler, timer and crash is,     *)
(* seen through StatusOf and GrantsMade, one of the four steps of          *)
(* ConsentContract or none, and the stores keep the data of an offer no    *)
(* longer than a chain of deadlines allows, since the timer fires at most  *)
(* a period after any entry expires, and each entry expires at most its    *)
(* lifetime after the one it was made from.                                *)
(***************************************************************************)
EXTENDS Grants, TLAPS, FiniteSetTheorems

-----------------------------------------------------------------------------
(* Maps *)

\* Map.set keeps a map within its key and value sets if the new entry is.
LEMMA MapSetIsMap ==
  ASSUME NEW m, NEW K, NEW V, NEW k \in K, NEW v \in V, IsMap(m, K, V)
  PROVE  IsMap(MapSet(m, k, v), K, V)
BY DEF IsMap, MapSet

\* Map.delete keeps a map within its key and value sets.
LEMMA MapDeleteIsMap ==
  ASSUME NEW m, NEW K, NEW V, NEW ks, IsMap(m, K, V)
  PROVE  IsMap(MapDelete(m, ks), K, V)
BY DEF IsMap, MapDelete

\* A map stays a map over a larger key set.
LEMMA WiderMap ==
  ASSUME NEW m, NEW K, NEW L, NEW V, IsMap(m, K, V), K \subseteq L
  PROVE  IsMap(m, L, V)
BY DEF IsMap

\* Reading a map that was written.
LEMMA MapSetReads ==
  ASSUME NEW m, NEW k, NEW v
  PROVE  /\ DOMAIN MapSet(m, k, v) = DOMAIN m \union {k}
         /\ MapSet(m, k, v)[k] = v
         /\ \A x \in DOMAIN m : x # k => MapSet(m, k, v)[x] = m[x]
BY DEF MapSet

\* Reading a map that was deleted from.
LEMMA MapDeleteReads ==
  ASSUME NEW m, NEW ks
  PROVE  /\ DOMAIN MapDelete(m, ks) = DOMAIN m \ ks
         /\ \A x \in DOMAIN m \ ks : MapDelete(m, ks)[x] = m[x]
BY DEF MapDelete

-----------------------------------------------------------------------------
(* Types *)

\* The initial stores are well typed.
LEMMA InitType == GInit => GTypeOK
BY LifetimesAssumption DEF GInit, GTypeOK, IsMap, NoEntries

\* Nothing that is drawn is lost when the process stops.
LEMMA HaltType == GTypeOK /\ Halt => GTypeOK'
BY DEF GTypeOK, Halt, IsMap, NoEntries, timers, history

\* Start, Tick and ChangeConfig touch no store.
LEMMA ProcessType == GTypeOK /\ (Start \/ Tick \/ ChangeConfig) => GTypeOK'
<1> SUFFICES ASSUME GTypeOK, Start \/ Tick \/ ChangeConfig
             PROVE  GTypeOK'
  OBVIOUS
<1> now \in Nat /\ now + 1 \in Nat /\ now + SWEEP_PERIOD \in Nat
  BY LifetimesAssumption DEF GTypeOK
<1>1. CASE Start
  BY <1>1, LifetimesAssumption DEF Start, GTypeOK, stores, history
<1>2. CASE Tick
  BY <1>2, LifetimesAssumption DEF Tick, GTypeOK, stores, timers, history
<1>3. CASE ChangeConfig
  BY <1>3 DEF ChangeConfig, GTypeOK, stores, timers, history
<1> QED
  BY <1>1, <1>2, <1>3

\* A record stored by POST /offer is one of the pending records.
LEMMA OfferWithConsentType ==
  ASSUME NEW c \in ConsentIds, NEW ty \in ConsentTypes,
         GTypeOK, OfferWithConsent(c, ty)
  PROVE  GTypeOK'
<1>1. BuildClaims(ty, config, now) \in ClaimSets
  BY TypesAssumption DEF GTypeOK, OfferWithConsent, Types
<1>2. IsMap(asked', ConsentIds, Nat) /\ DOMAIN asked' = DOMAIN asked \union {c}
  BY LifetimesAssumption DEF GTypeOK, OfferWithConsent, IsMap, MapSet
<1>3. [verdict |-> "PENDING", type |-> ty,
       claims |-> BuildClaims(ty, config, now),
       expiresAt |-> now + CONSENT_TTL] \in ConsentRecord
  BY <1>1, LifetimesAssumption DEF GTypeOK, ConsentRecord, PendingConsentRecord
<1>4. IsMap(consentRecords', DOMAIN asked', ConsentRecord)
  BY <1>2, <1>3 DEF GTypeOK, OfferWithConsent, IsMap, MapSet
<1> QED
  BY <1>2, <1>4 DEF GTypeOK, OfferWithConsent, timers

\* Issuing a code keeps the code store and its history well typed.
LEMMA IssueType ==
  ASSUME NEW k, NEW ty \in Types, NEW claims \in ClaimSets \union {Null},
         NEW origin \in Origin, GTypeOK, IssuePreAuthCode(k, ty, claims, origin)
  PROVE  /\ IsMap(minted', Codes, Origin)
         /\ DOMAIN minted' = DOMAIN minted \union {k}
         /\ IsMap(preAuthCodes', DOMAIN minted', PreAuthCodeEntry)
         /\ IsMap(redeemed, Tokens, DOMAIN minted')
<1>1. IsMap(minted', Codes, Origin) /\ DOMAIN minted' = DOMAIN minted \union {k}
  BY DEF GTypeOK, IssuePreAuthCode, IsMap, MapSet
<1>2. [type |-> ty, claims |-> claims, expiresAt |-> now + CODE_TTL]
        \in PreAuthCodeEntry
  BY LifetimesAssumption DEF GTypeOK, PreAuthCodeEntry
<1>3. IsMap(preAuthCodes', DOMAIN minted', PreAuthCodeEntry)
  BY <1>1, <1>2 DEF GTypeOK, IssuePreAuthCode, IsMap, MapSet
<1>4. IsMap(redeemed, Tokens, DOMAIN minted')
  BY <1>1 DEF GTypeOK, IsMap
<1> QED
  BY <1>1, <1>3, <1>4

\* A direct offer stores a code without a claims snapshot.
LEMMA OfferDirectlyType ==
  ASSUME NEW k \in Codes, NEW ty \in DirectTypes, GTypeOK, OfferDirectly(k, ty)
  PROVE  GTypeOK'
<1> [consent |-> Null, sent |-> TRUE] \in Origin
  BY DEF Origin
<1>1. IsMap(minted', Codes, Origin) /\ IsMap(redeemed, Tokens, DOMAIN minted')
      /\ IsMap(preAuthCodes', DOMAIN minted', PreAuthCodeEntry)
  BY IssueType DEF OfferDirectly, Types
<1> QED
  BY <1>1 DEF GTypeOK, OfferDirectly, timers

\* Reading the claims of a record evicts it or notes that they were shown.
LEMMA GetClaimsType ==
  ASSUME NEW c \in ConsentIds, GTypeOK, GetClaims(c)
  PROVE  GTypeOK'
<1>1. CASE EvictConsentRecord(c)
  BY <1>1 DEF GTypeOK, GetClaims, EvictConsentRecord, IsMap, MapDelete, timers
<1>2. CASE ~EvictConsentRecord(c)
  <2>1. consentRecords[c].claims \in ClaimSets
    BY <1>2 DEF GTypeOK, GetClaims, IsMap, ConsentRecord, PendingConsentRecord,
                DecidedConsentTombstone
  <2> QED
    BY <1>2, <2>1 DEF GTypeOK, GetClaims, timers
<1> QED
  BY <1>1, <1>2

\* A decision leaves a tombstone, and an approval a code with the claims of
\* the record.
LEMMA DecideType ==
  ASSUME NEW c \in ConsentIds, GTypeOK, Decide(c)
  PROVE  GTypeOK'
<1>1. consentRecords[c] \in ConsentRecord /\ consentRecords[c].expiresAt \in Nat
  BY DEF GTypeOK, Decide, IsMap, ConsentRecord, PendingConsentRecord,
         DecidedConsentTombstone
<1>2. \A verdict \in {"APPROVED", "DECLINED"} :
        IsMap(MapSet(consentRecords, c, TombstoneOf(consentRecords[c], verdict)),
              DOMAIN asked, ConsentRecord)
  <2> SUFFICES ASSUME NEW verdict \in {"APPROVED", "DECLINED"}
               PROVE  IsMap(MapSet(consentRecords, c,
                              TombstoneOf(consentRecords[c], verdict)),
                            DOMAIN asked, ConsentRecord)
    OBVIOUS
  <2>1. TombstoneOf(consentRecords[c], verdict) \in ConsentRecord
    BY <1>1 DEF TombstoneOf, ConsentRecord, DecidedConsentTombstone
  <2> QED
    BY <2>1 DEF GTypeOK, Decide, IsMap, MapSet
<1>3. CASE EvictConsentRecord(c)
  BY <1>3 DEF GTypeOK, Decide, EvictConsentRecord, IsMap, MapDelete, timers
<1>4. CASE Decline(c)
  BY <1>2, <1>4 DEF GTypeOK, Decide, Decline, timers
<1>5. ASSUME NEW k \in Codes, Approve(c, k)
      PROVE  GTypeOK'
  <2> DEFINE origin == [consent |-> c, sent |-> config # BadConfig]
  <2>1. origin \in Origin
    BY DEF Origin
  <2>2. /\ consentRecords[c].type \in Types
        /\ ClaimsSnapshot(consentRecords[c]) \in ClaimSets \union {Null}
    BY <1>1, <1>5 DEF Approve, Undecided, ClaimsSnapshot, ConsentRecord,
                      PendingConsentRecord, DecidedConsentTombstone, Types
  <2>3. IssuePreAuthCode(k, consentRecords[c].type,
                         ClaimsSnapshot(consentRecords[c]), origin)
    BY <1>5 DEF Approve
  <2> HIDE DEF origin
  <2>4. IsMap(minted', Codes, Origin) /\ IsMap(redeemed, Tokens, DOMAIN minted')
        /\ IsMap(preAuthCodes', DOMAIN minted', PreAuthCodeEntry)
    BY <2>1, <2>2, <2>3, IssueType
  <2>5. IsMap(consentRecords', DOMAIN asked, ConsentRecord)
        /\ answer' \in [ConsentIds -> {"none", "approved", "declined"}]
    BY <1>2, <1>5 DEF GTypeOK, Approve
  <2> QED
    BY <1>5, <2>4, <2>5 DEF GTypeOK, Decide, Approve, timers
<1> QED
  BY <1>3, <1>4, <1>5 DEF Decide

\* An exchange removes the code and stores a token for it, or only removes it.
LEMMA PostTokenType ==
  ASSUME NEW k \in Codes, NEW t \in Tokens, GTypeOK, PostToken(k, t)
  PROVE  GTypeOK'
<1>1. IsMap(preAuthCodes', DOMAIN minted, PreAuthCodeEntry)
  BY DEF GTypeOK, PostToken, CodesWithout, IsMap, MapDelete
<1>2. CASE Expired(preAuthCodes[k])
  BY <1>1, <1>2 DEF GTypeOK, PostToken, timers
<1>3. CASE ~Expired(preAuthCodes[k])
  <2>1. [type |-> preAuthCodes[k].type, claims |-> preAuthCodes[k].claims,
         expiresAt |-> now + TOKEN_TTL,
         cNonce |-> 0, cNonceExpiresAt |-> now + C_NONCE_TTL]
           \in AccessTokenEntry
    BY LifetimesAssumption
    DEF GTypeOK, PostToken, IsMap, PreAuthCodeEntry, AccessTokenEntry
  <2>2. IsMap(redeemed', Tokens, DOMAIN minted)
        /\ DOMAIN redeemed' = DOMAIN redeemed \union {t}
    BY <1>3 DEF GTypeOK, PostToken, IsMap, MapSet
  <2>3. IsMap(accessTokens', DOMAIN redeemed', AccessTokenEntry)
    BY <1>3, <2>1, <2>2 DEF GTypeOK, PostToken, IsMap, MapSet
  <2> QED
    BY <1>1, <2>2, <2>3 DEF GTypeOK, PostToken, timers
<1> QED
  BY <1>2, <1>3

\* Rotating a nonce keeps the entries of the token store well typed.
LEMMA RotatedTokensType ==
  ASSUME NEW t, GTypeOK
  PROVE  IsMap(RotatedTokens(t), DOMAIN redeemed, AccessTokenEntry)
<1>1. CASE ~LiveToken(t)
  BY <1>1 DEF GTypeOK, RotatedTokens
<1>2. CASE LiveToken(t)
  <2> DEFINE Renewed(e, m, n) ==
               [e EXCEPT !.cNonce = m, !.cNonceExpiresAt = n]
  <2>1. accessTokens[t] \in AccessTokenEntry /\ now + C_NONCE_TTL \in Nat
    BY <1>2, LifetimesAssumption DEF GTypeOK, LiveToken, IsMap
  <2> accessTokens[t].cNonce + 1 \in Nat
    BY <2>1 DEF AccessTokenEntry
  <2>2. /\ DOMAIN RotatedTokens(t) = DOMAIN accessTokens
        /\ RotatedTokens(t)[t] =
             Renewed(accessTokens[t], accessTokens[t].cNonce + 1,
                     now + C_NONCE_TTL)
        /\ \A u \in DOMAIN accessTokens :
              u # t => RotatedTokens(t)[u] = accessTokens[u]
    BY <1>2 DEF RotatedTokens, LiveToken
  <2>3. \A e \in AccessTokenEntry, m, n \in Nat :
          Renewed(e, m, n) \in AccessTokenEntry
    BY DEF AccessTokenEntry
  <2> HIDE DEF Renewed
  <2>4. RotatedTokens(t)[t] \in AccessTokenEntry
    BY <2>1, <2>2, <2>3
  <2> QED
    BY <1>2, <2>2, <2>4 DEF GTypeOK, LiveToken, IsMap
<1> QED
  BY <1>1, <1>2

\* The other operations on tokens, and the two sweeps.
LEMMA TokenAndSweepType ==
  ASSUME GTypeOK,
         \/ \E t \in Tokens : EvictAccessToken(t) \/ RotateNonce(t)
         \/ SweepExpiredConsentRecords
         \/ SweepExpiredTokens
  PROVE  GTypeOK'
<1> now + SWEEP_PERIOD \in Nat
  BY LifetimesAssumption DEF GTypeOK
<1>1. ASSUME NEW t \in Tokens, EvictAccessToken(t)
      PROVE  GTypeOK'
  BY <1>1 DEF GTypeOK, EvictAccessToken, IsMap, MapDelete, timers, history
<1>2. ASSUME NEW t \in Tokens, RotateNonce(t)
      PROVE  GTypeOK'
  BY <1>2, RotatedTokensType DEF GTypeOK, RotateNonce, timers, history
<1>3. CASE SweepExpiredConsentRecords
  BY <1>3 DEF GTypeOK, SweepExpiredConsentRecords, IsMap, MapDelete, history
<1>4. CASE SweepExpiredTokens
  BY <1>4 DEF GTypeOK, SweepExpiredTokens, IsMap, MapDelete, history
<1> QED
  BY <1>1, <1>2, <1>3, <1>4

\* What a step of the whole process may do to the grants: a step of theirs, or
\* the end of the process, for a reason that may lie elsewhere in it.
GrantEffect == [GNext]_gvars \/ Halt

\* A step of the grants is one.
LEMMA StepHasEffect == [GNext]_gvars => GrantEffect
BY DEF GrantEffect

\* Every such step keeps the stores well typed.
LEMMA NextType == GTypeOK /\ GrantEffect => GTypeOK'
<1> SUFFICES ASSUME GTypeOK, GrantEffect
             PROVE  GTypeOK'
  OBVIOUS
<1>1. CASE UNCHANGED gvars
  BY <1>1 DEF gvars, stores, timers, history, GTypeOK
<1>2. CASE Halt \/ Crash \/ OfferRejects
  BY <1>2, HaltType DEF Crash, OfferRejects
<1>3. CASE GNext /\ ~(Crash \/ OfferRejects)
  BY <1>3, ProcessType, OfferWithConsentType, OfferDirectlyType, GetClaimsType,
     DecideType, PostTokenType, TokenAndSweepType
  DEF GNext
<1> QED
  BY <1>1, <1>2, <1>3 DEF GrantEffect

\* The three stores of the process only ever hold well-formed entries, of
\* identifiers that were drawn (offer.ts, consent.ts, token.ts).
THEOREM GrantsTypeCorrect == GSpec => []GTypeOK
BY InitType, NextType, StepHasEffect, PTL DEF GSpec

-----------------------------------------------------------------------------
(* The safety invariant *)

\* A consent id that was not drawn has not been shown or answered.
UnaskedUntouched ==
  \A c \in ConsentIds \ DOMAIN asked : answer[c] = "none" /\ shown[c] = Null

\* A pending record awaits its answer and is the only source of its page; a
\* tombstone stands for an answer.
RecordsAwaitVerdict ==
  \A c \in DOMAIN consentRecords :
    /\ consentRecords[c].verdict = "PENDING" =>
         answer[c] = "none" /\ shown[c] \in {Null, consentRecords[c].claims}
    /\ consentRecords[c].verdict # "PENDING" => answer[c] # "none"

\* Every code comes from a consent id that was drawn, or from none.
OriginsAsked ==
  \A k \in DOMAIN minted : ConsentOf(k) # Null => ConsentOf(k) \in DOMAIN asked

\* What GrantMatchesReview says of a token, said of a code.
CodeMatchesReview ==
  \A k \in DOMAIN preAuthCodes :
    /\ preAuthCodes[k].type \in ConsentTypes <=> ConsentOf(k) # Null
    /\ ConsentOf(k) # Null =>
         /\ preAuthCodes[k].claims # Null
         /\ minted[k].sent => shown[ConsentOf(k)] \in {Null, preAuthCodes[k].claims}

\* A redeemed code had left the process and is no longer in the store.
RedeemedAreGone ==
  \A t \in DOMAIN redeemed :
    redeemed[t] \notin DOMAIN preAuthCodes /\ minted[redeemed[t]].sent

GrantInvariant ==
  /\ GTypeOK
  /\ UnaskedUntouched
  /\ RecordsAwaitVerdict
  /\ OriginsAsked
  /\ SentCodesFollowVerdict
  /\ CodeMatchesReview
  /\ RedeemedAreGone
  /\ RedeemedOnce
  /\ GrantMatchesReview

\* The cap, with the fact that makes its comparison mean anything.
CapInvariant == IsFiniteSet(PendingIds) /\ PendingBounded

-----------------------------------------------------------------------------
(* Steps that only take entries out of the stores *)

\* Entries go, the others keep what the properties read of them, and nothing
\* is drawn, shown, answered, minted or redeemed.
OnlyShrinks ==
  /\ UNCHANGED history
  /\ DOMAIN consentRecords' \subseteq DOMAIN consentRecords
  /\ \A c \in DOMAIN consentRecords' : consentRecords'[c] = consentRecords[c]
  /\ DOMAIN preAuthCodes' \subseteq DOMAIN preAuthCodes
  /\ \A k \in DOMAIN preAuthCodes' : preAuthCodes'[k] = preAuthCodes[k]
  /\ DOMAIN accessTokens' \subseteq DOMAIN accessTokens
  /\ \A t \in DOMAIN accessTokens' :
       /\ accessTokens'[t].type = accessTokens[t].type
       /\ accessTokens'[t].claims = accessTokens[t].claims
       /\ accessTokens'[t].expiresAt = accessTokens[t].expiresAt

\* A rotation touches nothing of a token but its nonce.
LEMMA RotatedTokensKeep ==
  ASSUME NEW t, GTypeOK
  PROVE  /\ DOMAIN RotatedTokens(t) = DOMAIN accessTokens
         /\ \A u \in DOMAIN accessTokens :
              /\ RotatedTokens(t)[u].type = accessTokens[u].type
              /\ RotatedTokens(t)[u].claims = accessTokens[u].claims
              /\ RotatedTokens(t)[u].expiresAt = accessTokens[u].expiresAt
<1>1. \A u \in DOMAIN accessTokens : accessTokens[u] \in AccessTokenEntry
  BY DEF GTypeOK, IsMap
<1> QED
  BY <1>1 DEF RotatedTokens, AccessTokenEntry

\* The steps of this kind: the process, the clock and the sweeps, evictions,
\* and the rotation of a nonce.
LEMMA ShrinkingSteps ==
  ASSUME GTypeOK,
         \/ Crash \/ Start \/ Tick \/ ChangeConfig \/ OfferRejects
         \/ \E t \in Tokens : EvictAccessToken(t) \/ RotateNonce(t)
         \/ SweepExpiredConsentRecords \/ SweepExpiredTokens
         \/ \E c \in ConsentIds :
              (GetClaims(c) \/ Decide(c)) /\ EvictConsentRecord(c)
         \/ Halt \/ UNCHANGED gvars
  PROVE  OnlyShrinks
<1>1. CASE Halt \/ Crash \/ OfferRejects
  BY <1>1 DEF Crash, OfferRejects, Halt, NoEntries, OnlyShrinks
<1>2. CASE Start \/ Tick \/ ChangeConfig \/ UNCHANGED gvars
  BY <1>2 DEF Start, Tick, ChangeConfig, gvars, stores, OnlyShrinks
<1>3. CASE \E t \in Tokens : EvictAccessToken(t)
  BY <1>3 DEF EvictAccessToken, MapDelete, OnlyShrinks
<1>4. CASE \E t \in Tokens : RotateNonce(t)
  BY <1>4, RotatedTokensKeep DEF RotateNonce, OnlyShrinks
<1>5. CASE SweepExpiredConsentRecords
  BY <1>5 DEF SweepExpiredConsentRecords, MapDelete, OnlyShrinks
<1>6. CASE SweepExpiredTokens
  BY <1>6 DEF SweepExpiredTokens, MapDelete, OnlyShrinks
<1>7. ASSUME NEW c \in ConsentIds, GetClaims(c) \/ Decide(c),
             EvictConsentRecord(c)
      PROVE  OnlyShrinks
  BY <1>7 DEF GetClaims, Decide, EvictConsentRecord, MapDelete, OnlyShrinks,
              history
<1> QED
  BY <1>1, <1>2, <1>3, <1>4, <1>5, <1>6, <1>7

\* Such steps keep the invariant: each conjunct speaks of entries present.
LEMMA ShrinkingKeepsInvariant ==
  GrantInvariant /\ OnlyShrinks /\ GTypeOK' => GrantInvariant'
<1> SUFFICES ASSUME GrantInvariant, OnlyShrinks, GTypeOK'
             PROVE  GrantInvariant'
  OBVIOUS
<1> /\ asked' = asked /\ shown' = shown /\ answer' = answer
    /\ minted' = minted /\ redeemed' = redeemed
  BY DEF OnlyShrinks, history
<1>1. UnaskedUntouched'
  BY DEF GrantInvariant, UnaskedUntouched
<1>2. RecordsAwaitVerdict'
  BY DEF GrantInvariant, RecordsAwaitVerdict, OnlyShrinks
<1>3. OriginsAsked' /\ SentCodesFollowVerdict' /\ RedeemedOnce'
  BY DEF GrantInvariant, OriginsAsked, SentCodesFollowVerdict, RedeemedOnce,
         ConsentOf
<1>4. CodeMatchesReview'
  BY DEF GrantInvariant, CodeMatchesReview, OnlyShrinks, ConsentOf
<1>5. RedeemedAreGone'
  BY DEF GrantInvariant, RedeemedAreGone, OnlyShrinks
<1>6. GrantMatchesReview'
  BY DEF GrantInvariant, GrantMatchesReview, OnlyShrinks, ConsentOf
<1> QED
  BY <1>1, <1>2, <1>3, <1>4, <1>5, <1>6 DEF GrantInvariant

-----------------------------------------------------------------------------
(* Offers *)

\* A new record is pending, unanswered and unshown.
LEMMA OfferWithConsentKeepsInvariant ==
  ASSUME NEW c \in ConsentIds, NEW ty \in ConsentTypes,
         GrantInvariant, OfferWithConsent(c, ty), GTypeOK'
  PROVE  GrantInvariant'
<1> /\ UNCHANGED <<preAuthCodes, accessTokens, shown, answer, minted, redeemed>>
    /\ DOMAIN asked' = DOMAIN asked \union {c}
    /\ c \notin DOMAIN asked
  BY DEF OfferWithConsent, MapSet
<1>1. UnaskedUntouched'
  BY DEF GrantInvariant, UnaskedUntouched
<1>2. RecordsAwaitVerdict'
  <2>1. answer[c] = "none" /\ shown[c] = Null
    BY DEF GrantInvariant, UnaskedUntouched
  <2>2. /\ DOMAIN consentRecords' = DOMAIN consentRecords \union {c}
        /\ consentRecords'[c].verdict = "PENDING"
        /\ \A d \in DOMAIN consentRecords :
             d # c => consentRecords'[d] = consentRecords[d]
    BY DEF OfferWithConsent, MapSet
  <2> QED
    BY <2>1, <2>2 DEF GrantInvariant, RecordsAwaitVerdict
<1>3. OriginsAsked' /\ SentCodesFollowVerdict' /\ RedeemedOnce'
  BY DEF GrantInvariant, OriginsAsked, SentCodesFollowVerdict, RedeemedOnce,
         ConsentOf
<1>4. CodeMatchesReview' /\ RedeemedAreGone'
  BY DEF GrantInvariant, CodeMatchesReview, RedeemedAreGone, ConsentOf
<1>5. GrantMatchesReview'
  BY DEF GrantInvariant, GrantMatchesReview, ConsentOf
<1> QED
  BY <1>1, <1>2, <1>3, <1>4, <1>5 DEF GrantInvariant

\* What issuing a code changes.
LEMMA IssueReads ==
  ASSUME NEW k, NEW ty, NEW claims, NEW origin,
         IssuePreAuthCode(k, ty, claims, origin)
  PROVE  /\ k \in Codes /\ k \notin DOMAIN minted
         /\ DOMAIN minted' = DOMAIN minted \union {k}
         /\ minted'[k] = origin
         /\ \A j \in DOMAIN minted : minted'[j] = minted[j]
         /\ DOMAIN preAuthCodes' = DOMAIN preAuthCodes \union {k}
         /\ preAuthCodes'[k].type = ty
         /\ preAuthCodes'[k].claims = claims
         /\ preAuthCodes'[k].expiresAt = now + CODE_TTL
         /\ \A j \in DOMAIN preAuthCodes :
              j # k => preAuthCodes'[j] = preAuthCodes[j]
BY DEF IssuePreAuthCode, MapSet

\* A code of a direct offer has no consent behind it.
LEMMA OfferDirectlyKeepsInvariant ==
  ASSUME NEW k \in Codes, NEW ty \in DirectTypes,
         GrantInvariant, OfferDirectly(k, ty), GTypeOK'
  PROVE  GrantInvariant'
<1> DEFINE origin == [consent |-> Null, sent |-> TRUE]
<1> /\ UNCHANGED <<consentRecords, accessTokens, asked, shown, answer, redeemed>>
    /\ IssuePreAuthCode(k, ty, Null, origin)
    /\ origin.consent = Null
  BY DEF OfferDirectly
<1> HIDE DEF origin
<1>1. /\ k \notin DOMAIN minted
      /\ DOMAIN minted' = DOMAIN minted \union {k}
      /\ minted'[k].consent = Null
      /\ \A j \in DOMAIN minted : minted'[j] = minted[j]
      /\ DOMAIN preAuthCodes' = DOMAIN preAuthCodes \union {k}
      /\ preAuthCodes'[k].type = ty
      /\ \A j \in DOMAIN preAuthCodes :
           j # k => preAuthCodes'[j] = preAuthCodes[j]
  BY IssueReads
<1>2. /\ DOMAIN preAuthCodes \subseteq DOMAIN minted
      /\ \A t \in DOMAIN redeemed : redeemed[t] \in DOMAIN minted
      /\ DOMAIN accessTokens \subseteq DOMAIN redeemed
  BY DEF GrantInvariant, GTypeOK, IsMap
<1>3. UnaskedUntouched' /\ RecordsAwaitVerdict' /\ RedeemedOnce'
  BY DEF GrantInvariant, UnaskedUntouched, RecordsAwaitVerdict, RedeemedOnce
<1>4. OriginsAsked' /\ SentCodesFollowVerdict'
  BY <1>1 DEF GrantInvariant, OriginsAsked, SentCodesFollowVerdict, ConsentOf
<1>5. CodeMatchesReview'
  BY <1>1, <1>2, TypesAssumption DEF GrantInvariant, CodeMatchesReview, ConsentOf
<1>6. RedeemedAreGone'
  BY <1>1, <1>2 DEF GrantInvariant, RedeemedAreGone
<1>7. GrantMatchesReview'
  BY <1>1, <1>2 DEF GrantInvariant, GrantMatchesReview, ConsentOf
<1> QED
  BY <1>3, <1>4, <1>5, <1>6, <1>7 DEF GrantInvariant

-----------------------------------------------------------------------------
(* The holder's page *)

\* Showing the claims of a pending record: no code of it has left yet.
LEMMA ShowKeepsInvariant ==
  ASSUME NEW c \in ConsentIds, GrantInvariant,
         GetClaims(c), ~EvictConsentRecord(c), GTypeOK'
  PROVE  GrantInvariant'
<1> /\ UNCHANGED <<consentRecords, preAuthCodes, accessTokens,
                   asked, answer, minted, redeemed>>
    /\ c \in DOMAIN consentRecords
    /\ consentRecords[c].verdict = "PENDING"
    /\ shown'[c] = consentRecords[c].claims
    /\ \A d \in ConsentIds : d # c => shown'[d] = shown[d]
  BY DEF GetClaims, GrantInvariant, GTypeOK
<1>1. answer[c] = "none" /\ c \in DOMAIN asked
  BY DEF GrantInvariant, RecordsAwaitVerdict, GTypeOK, IsMap
<1>2. /\ DOMAIN consentRecords \subseteq ConsentIds
      /\ \A k \in DOMAIN minted : ConsentOf(k) # Null => ConsentOf(k) \in ConsentIds
      /\ DOMAIN preAuthCodes \subseteq DOMAIN minted
      /\ \A t \in DOMAIN redeemed : redeemed[t] \in DOMAIN minted
      /\ DOMAIN accessTokens \subseteq DOMAIN redeemed
  BY DEF GrantInvariant, GTypeOK, IsMap, Origin, ConsentOf
<1>3. UnaskedUntouched' /\ RecordsAwaitVerdict'
  BY <1>1, <1>2 DEF GrantInvariant, UnaskedUntouched, RecordsAwaitVerdict
<1>4. OriginsAsked' /\ SentCodesFollowVerdict' /\ RedeemedOnce' /\ RedeemedAreGone'
  BY DEF GrantInvariant, OriginsAsked, SentCodesFollowVerdict, RedeemedOnce,
         RedeemedAreGone, ConsentOf
<1>5. CodeMatchesReview'
  <2> SUFFICES ASSUME NEW k \in DOMAIN preAuthCodes, ConsentOf(k) # Null,
                      minted[k].sent
               PROVE  shown'[ConsentOf(k)] = shown[ConsentOf(k)]
    BY DEF GrantInvariant, CodeMatchesReview, ConsentOf
  <2>1. answer[ConsentOf(k)] = "approved"
    BY <1>2 DEF GrantInvariant, SentCodesFollowVerdict
  <2> QED
    BY <1>1, <1>2, <2>1
<1>6. GrantMatchesReview'
  <2> SUFFICES ASSUME NEW t \in DOMAIN accessTokens, ConsentOf(redeemed[t]) # Null
               PROVE  shown'[ConsentOf(redeemed[t])] = shown[ConsentOf(redeemed[t])]
    BY DEF GrantInvariant, GrantMatchesReview, ConsentOf
  <2>1. answer[ConsentOf(redeemed[t])] = "approved"
    BY DEF GrantInvariant, GrantMatchesReview
  <2> QED
    BY <1>1, <1>2, <2>1
<1> QED
  BY <1>3, <1>4, <1>5, <1>6 DEF GrantInvariant

\* What a decision finds and what it leaves of the record.
LEMMA TombstoneReads ==
  ASSUME NEW c \in DOMAIN consentRecords, NEW verdict \in {"APPROVED", "DECLINED"},
         consentRecords' = MapSet(consentRecords, c,
                                  TombstoneOf(consentRecords[c], verdict))
  PROVE  /\ DOMAIN consentRecords' = DOMAIN consentRecords
         /\ consentRecords'[c].verdict # "PENDING"
         /\ consentRecords'[c].expiresAt = consentRecords[c].expiresAt
         /\ \A d \in DOMAIN consentRecords :
              d # c => consentRecords'[d] = consentRecords[d]
BY DEF MapSet, TombstoneOf

\* Declining an undecided record: no code of it has left the process.
LEMMA DeclineKeepsInvariant ==
  ASSUME NEW c \in ConsentIds, GrantInvariant, Decide(c), Decline(c), GTypeOK'
  PROVE  GrantInvariant'
<1> /\ UNCHANGED <<preAuthCodes, accessTokens, asked, shown, minted, redeemed>>
    /\ c \in DOMAIN consentRecords
    /\ consentRecords[c].verdict = "PENDING"
    /\ answer'[c] = "declined"
    /\ \A d \in ConsentIds : d # c => answer'[d] = answer[d]
  BY DEF Decide, Decline, Undecided, GrantInvariant, GTypeOK
<1>1. answer[c] = "none" /\ c \in DOMAIN asked
  BY DEF GrantInvariant, RecordsAwaitVerdict, GTypeOK, IsMap
<1>2. /\ DOMAIN consentRecords \subseteq ConsentIds
      /\ \A k \in DOMAIN minted : ConsentOf(k) # Null => ConsentOf(k) \in ConsentIds
      /\ \A t \in DOMAIN redeemed : redeemed[t] \in DOMAIN minted
      /\ DOMAIN accessTokens \subseteq DOMAIN redeemed
  BY DEF GrantInvariant, GTypeOK, IsMap, Origin, ConsentOf
<1>3. UnaskedUntouched'
  BY <1>1 DEF GrantInvariant, UnaskedUntouched
<1>4. RecordsAwaitVerdict'
  BY <1>2, TombstoneReads DEF Decline, GrantInvariant, RecordsAwaitVerdict
<1>5. OriginsAsked' /\ RedeemedOnce' /\ RedeemedAreGone' /\ CodeMatchesReview'
  BY DEF GrantInvariant, OriginsAsked, RedeemedOnce, RedeemedAreGone,
         CodeMatchesReview, ConsentOf
<1>6. SentCodesFollowVerdict'
  BY <1>1, <1>2 DEF GrantInvariant, SentCodesFollowVerdict, ConsentOf
<1>7. GrantMatchesReview'
  BY <1>1, <1>2 DEF GrantInvariant, GrantMatchesReview, ConsentOf
<1> QED
  BY <1>3, <1>4, <1>5, <1>6, <1>7 DEF GrantInvariant

\* Approving an undecided record: its code is the first of it to leave, and
\* carries the claims that were the only ones to be shown.  With an unreadable
\* configuration the code stays behind and the record awaits its answer.
LEMMA ApproveKeepsInvariant ==
  ASSUME NEW c \in ConsentIds, NEW k \in Codes,
         GrantInvariant, Decide(c), Approve(c, k), GTypeOK'
  PROVE  GrantInvariant'
<1> DEFINE origin == [consent |-> c, sent |-> config # BadConfig]
<1> /\ UNCHANGED <<accessTokens, asked, shown, redeemed>>
    /\ c \in DOMAIN consentRecords
    /\ consentRecords[c].verdict = "PENDING"
    /\ IssuePreAuthCode(k, consentRecords[c].type, consentRecords[c].claims, origin)
    /\ origin.consent = c
    /\ origin.sent <=> config # BadConfig
  BY DEF Decide, Approve, Undecided, ClaimsSnapshot
<1> HIDE DEF origin
<1>1. /\ k \notin DOMAIN minted
      /\ DOMAIN minted' = DOMAIN minted \union {k}
      /\ minted'[k].consent = c
      /\ minted'[k].sent <=> config # BadConfig
      /\ \A j \in DOMAIN minted : minted'[j] = minted[j]
      /\ DOMAIN preAuthCodes' = DOMAIN preAuthCodes \union {k}
      /\ preAuthCodes'[k].type = consentRecords[c].type
      /\ preAuthCodes'[k].claims = consentRecords[c].claims
      /\ \A j \in DOMAIN preAuthCodes :
           j # k => preAuthCodes'[j] = preAuthCodes[j]
  BY IssueReads
<1>2. /\ DOMAIN consentRecords \subseteq ConsentIds
      /\ DOMAIN consentRecords \subseteq DOMAIN asked
      /\ \A j \in DOMAIN minted : ConsentOf(j) # Null => ConsentOf(j) \in ConsentIds
      /\ DOMAIN preAuthCodes \subseteq DOMAIN minted
      /\ \A t \in DOMAIN redeemed : redeemed[t] \in DOMAIN minted
      /\ DOMAIN accessTokens \subseteq DOMAIN redeemed
      /\ answer \in [ConsentIds -> {"none", "approved", "declined"}]
  BY DEF GrantInvariant, GTypeOK, IsMap, Origin, ConsentOf
<1>3. /\ answer[c] = "none"
      /\ c # Null
      /\ shown[c] \in {Null, consentRecords[c].claims}
      /\ consentRecords[c].type \in ConsentTypes
      /\ consentRecords[c].claims # Null
  BY TypesAssumption
  DEF GrantInvariant, RecordsAwaitVerdict, GTypeOK, IsMap, ConsentRecord,
      PendingConsentRecord, DecidedConsentTombstone
<1>4. \A j \in DOMAIN minted : minted[j].sent => ConsentOf(j) # c
  BY <1>3 DEF GrantInvariant, SentCodesFollowVerdict
<1>5. \A d \in ConsentIds : answer[d] # "none" => answer'[d] = answer[d]
  BY <1>2, <1>3 DEF Approve
<1>6. UnaskedUntouched'
  BY <1>2 DEF Approve, GrantInvariant, UnaskedUntouched
<1>7. RecordsAwaitVerdict'
  <2>1. CASE config = BadConfig
    BY <2>1 DEF Approve, GrantInvariant, RecordsAwaitVerdict
  <2>2. CASE config # BadConfig
    <3>1. /\ answer'[c] = "approved"
          /\ \A d \in ConsentIds : d # c => answer'[d] = answer[d]
      BY <1>2, <2>2 DEF Approve
    <3>2. /\ DOMAIN consentRecords' = DOMAIN consentRecords
          /\ consentRecords'[c].verdict # "PENDING"
          /\ \A d \in DOMAIN consentRecords :
               d # c => consentRecords'[d] = consentRecords[d]
      BY <2>2, TombstoneReads DEF Approve
    <3> QED
      BY <1>2, <3>1, <3>2 DEF GrantInvariant, RecordsAwaitVerdict
  <2> QED
    BY <2>1, <2>2
<1>8. OriginsAsked'
  BY <1>1, <1>2 DEF GrantInvariant, OriginsAsked, ConsentOf
<1>9. SentCodesFollowVerdict'
  <2>1. CASE config = BadConfig
    BY <1>1, <2>1 DEF Approve, GrantInvariant, SentCodesFollowVerdict, ConsentOf
  <2>2. CASE config # BadConfig
    <3>1. answer'[c] = "approved"
      BY <1>2, <2>2 DEF Approve
    <3> QED
      BY <1>1, <1>2, <1>4, <1>5, <3>1
      DEF GrantInvariant, SentCodesFollowVerdict, ConsentOf
  <2> QED
    BY <2>1, <2>2
<1>10. CodeMatchesReview'
  BY <1>1, <1>2, <1>3 DEF GrantInvariant, CodeMatchesReview, ConsentOf
<1>11. RedeemedAreGone' /\ RedeemedOnce'
  BY <1>1, <1>2 DEF GrantInvariant, RedeemedAreGone, RedeemedOnce
<1>12. GrantMatchesReview'
  <2>1. \A t \in DOMAIN accessTokens :
          /\ redeemed[t] \in DOMAIN minted
          /\ minted'[redeemed[t]] = minted[redeemed[t]]
    BY <1>1, <1>2
  <2> QED
    BY <1>2, <1>5, <2>1 DEF GrantInvariant, GrantMatchesReview, ConsentOf
<1> QED
  BY <1>6, <1>7, <1>8, <1>9, <1>10, <1>11, <1>12 DEF GrantInvariant

-----------------------------------------------------------------------------
(* The exchange *)

\* A token inherits type and claims from a code that had left the process.
LEMMA PostTokenKeepsInvariant ==
  ASSUME NEW k \in Codes, NEW t \in Tokens,
         GrantInvariant, PostToken(k, t), GTypeOK'
  PROVE  GrantInvariant'
<1> /\ UNCHANGED <<consentRecords, asked, shown, answer, minted>>
    /\ k \in DOMAIN preAuthCodes
    /\ minted[k].sent
  BY DEF PostToken
<1>1. /\ DOMAIN preAuthCodes' = DOMAIN preAuthCodes \ {k}
      /\ \A j \in DOMAIN preAuthCodes' : preAuthCodes'[j] = preAuthCodes[j]
  BY DEF PostToken, CodesWithout, MapDelete
<1>2. /\ DOMAIN preAuthCodes \subseteq DOMAIN minted
      /\ \A u \in DOMAIN redeemed : redeemed[u] \in DOMAIN minted
      /\ DOMAIN accessTokens \subseteq DOMAIN redeemed
      /\ \A u \in DOMAIN redeemed : redeemed[u] # k
  BY DEF GrantInvariant, GTypeOK, IsMap, RedeemedAreGone
<1>3. UnaskedUntouched' /\ RecordsAwaitVerdict' /\ OriginsAsked'
      /\ SentCodesFollowVerdict'
  BY DEF GrantInvariant, UnaskedUntouched, RecordsAwaitVerdict, OriginsAsked,
         SentCodesFollowVerdict, ConsentOf
<1>4. CodeMatchesReview'
  BY <1>1 DEF GrantInvariant, CodeMatchesReview, ConsentOf
<1>5. CASE UNCHANGED <<accessTokens, redeemed>>
  <2>1. RedeemedAreGone' /\ RedeemedOnce'
    BY <1>1, <1>5 DEF GrantInvariant, RedeemedAreGone, RedeemedOnce
  <2>2. GrantMatchesReview'
    BY <1>5 DEF GrantInvariant, GrantMatchesReview, ConsentOf
  <2> QED
    BY <1>3, <1>4, <2>1, <2>2 DEF GrantInvariant
<1>6. CASE ~UNCHANGED <<accessTokens, redeemed>>
  <2>1. /\ t \notin DOMAIN redeemed
        /\ DOMAIN redeemed' = DOMAIN redeemed \union {t}
        /\ redeemed'[t] = k
        /\ \A u \in DOMAIN redeemed : redeemed'[u] = redeemed[u]
        /\ DOMAIN accessTokens' = DOMAIN accessTokens \union {t}
        /\ accessTokens'[t].type = preAuthCodes[k].type
        /\ accessTokens'[t].claims = preAuthCodes[k].claims
        /\ \A u \in DOMAIN accessTokens : u # t => accessTokens'[u] = accessTokens[u]
    BY <1>6 DEF PostToken, MapSet
  <2>2. RedeemedAreGone'
    BY <1>1, <2>1 DEF GrantInvariant, RedeemedAreGone
  <2>3. RedeemedOnce'
    BY <1>2, <2>1 DEF GrantInvariant, RedeemedOnce
  <2>4. /\ preAuthCodes[k].type \in ConsentTypes <=> ConsentOf(k) # Null
        /\ ConsentOf(k) # Null =>
             /\ answer[ConsentOf(k)] = "approved"
             /\ preAuthCodes[k].claims # Null
             /\ shown[ConsentOf(k)] \in {Null, preAuthCodes[k].claims}
    BY <1>2 DEF GrantInvariant, CodeMatchesReview, SentCodesFollowVerdict
  <2>5. \A u \in DOMAIN accessTokens :
          /\ u # t
          /\ redeemed'[u] = redeemed[u]
          /\ accessTokens'[u] = accessTokens[u]
    BY <1>2, <2>1
  <2>6. GrantMatchesReview'
    BY <2>1, <2>4, <2>5 DEF GrantInvariant, GrantMatchesReview, ConsentOf
  <2> QED
    BY <1>3, <1>4, <2>2, <2>3, <2>6 DEF GrantInvariant
<1> QED
  BY <1>5, <1>6

-----------------------------------------------------------------------------
(* The invariant *)

\* It holds of empty stores.
LEMMA InitInvariant == GInit => GrantInvariant
BY InitType
DEF GInit, NoEntries, GrantInvariant, UnaskedUntouched, RecordsAwaitVerdict,
    OriginsAsked, SentCodesFollowVerdict, CodeMatchesReview, RedeemedAreGone,
    RedeemedOnce, GrantMatchesReview

\* The kinds of steps the lemmas above are about.
LEMMA StepsByKind ==
  ASSUME GTypeOK, GrantEffect
  PROVE  \/ OnlyShrinks
         \/ \E c \in ConsentIds, ty \in ConsentTypes : OfferWithConsent(c, ty)
         \/ \E k \in Codes, ty \in DirectTypes : OfferDirectly(k, ty)
         \/ \E c \in ConsentIds :
              \/ GetClaims(c) /\ ~EvictConsentRecord(c)
              \/ Decide(c) /\ Decline(c)
              \/ \E k \in Codes : Decide(c) /\ Approve(c, k)
         \/ \E k \in Codes, t \in Tokens : PostToken(k, t)
BY ShrinkingSteps DEF GrantEffect, GNext, Decide

\* Every step keeps it.
LEMMA NextInvariant == GrantInvariant /\ GrantEffect => GrantInvariant'
<1> SUFFICES ASSUME GrantInvariant, GrantEffect
             PROVE  GrantInvariant'
  OBVIOUS
<1>1. GTypeOK /\ GTypeOK'
  BY NextType DEF GrantInvariant
<1> QED
  BY <1>1, StepsByKind, ShrinkingKeepsInvariant, OfferWithConsentKeepsInvariant,
     OfferDirectlyKeepsInvariant, ShowKeepsInvariant, DeclineKeepsInvariant,
     ApproveKeepsInvariant, PostTokenKeepsInvariant

\* The invariant holds throughout.
THEOREM GrantsInvariant == GSpec => []GrantInvariant
BY InitInvariant, NextInvariant, StepHasEffect, PTL DEF GSpec

\* A token carries its holder's approval and the claims the holder was shown,
\* for any configuration changes, lifetimes, crashes and number of offers
\* (consent.ts:225-230, token.ts:64-71).
THEOREM TokensMatchReview == GSpec => []GrantMatchesReview
BY GrantsInvariant, PTL DEF GrantInvariant

\* No code leaves the process without an approval, and at most one with it
\* (consent.ts:207-239).
THEOREM CodesFollowVerdict == GSpec => []SentCodesFollowVerdict
BY GrantsInvariant, PTL DEF GrantInvariant

\* A code is exchanged at most once (token.ts:147-157).
THEOREM CodesRedeemedOnce == GSpec => []RedeemedOnce
BY GrantsInvariant, PTL DEF GrantInvariant

-----------------------------------------------------------------------------
(* Answers *)

\* Only an undecided record is answered.
LEMMA AnswersStay ==
  ASSUME GrantInvariant, GrantEffect
  PROVE  \A c \in ConsentIds : answer[c] # "none" => answer'[c] = answer[c]
<1> GTypeOK
  BY DEF GrantInvariant
<1>1. CASE OnlyShrinks
  BY <1>1 DEF OnlyShrinks, history
<1>2. CASE \/ \E c \in ConsentIds, ty \in ConsentTypes : OfferWithConsent(c, ty)
           \/ \E k \in Codes, ty \in DirectTypes : OfferDirectly(k, ty)
           \/ \E c \in ConsentIds : GetClaims(c) /\ ~EvictConsentRecord(c)
           \/ \E k \in Codes, t \in Tokens : PostToken(k, t)
  BY <1>2 DEF OfferWithConsent, OfferDirectly, GetClaims, PostToken
<1>3. ASSUME NEW c \in ConsentIds, Decide(c),
             Decline(c) \/ \E k \in Codes : Approve(c, k)
      PROVE  \A d \in ConsentIds : answer[d] # "none" => answer'[d] = answer[d]
  <2>1. answer[c] = "none"
    BY <1>3
    DEF Decide, Decline, Approve, Undecided, GrantInvariant, RecordsAwaitVerdict
  <2> QED
    BY <1>3, <2>1 DEF Decline, Approve, GTypeOK
<1> QED
  BY <1>1, <1>2, <1>3, StepsByKind

\* An answered record is not pending again.
LEMMA NextVerdicts ==
  GrantInvariant /\ GrantInvariant' /\ GrantEffect =>
    [\A c \in ConsentIds :
       answer[c] # "none" =>
         answer'[c] = answer[c] /\ c \notin PendingIds']_gvars
<1> SUFFICES ASSUME GrantInvariant, GrantInvariant', GrantEffect,
                    NEW c \in ConsentIds, answer[c] # "none"
             PROVE  answer'[c] = answer[c] /\ c \notin PendingIds'
  OBVIOUS
<1>1. answer'[c] = answer[c]
  BY AnswersStay
<1>2. c \notin PendingIds'
  BY <1>1 DEF GrantInvariant, RecordsAwaitVerdict, PendingIds
<1> QED
  BY <1>1, <1>2

\* The first answer to POST .../decide is final, across expiry, sweeps and
\* restarts (consent.ts:199-209).
THEOREM VerdictsAreFinal == GSpec => VerdictFinal
BY NextVerdicts, StepHasEffect, GrantsInvariant, PTL DEF GSpec, VerdictFinal

-----------------------------------------------------------------------------
(* The cap *)

\* A step adds at most one pending record, and only below the cap.
LEMMA PendingSteps ==
  ASSUME GTypeOK, GrantEffect
  PROVE  \/ PendingIds' \subseteq PendingIds
         \/ HasCapacity /\ \E c \in ConsentIds : PendingIds' \subseteq PendingIds \union {c}
<1>1. CASE OnlyShrinks
  BY <1>1 DEF OnlyShrinks, PendingIds
<1>2. ASSUME NEW c \in ConsentIds, NEW ty \in ConsentTypes, OfferWithConsent(c, ty)
      PROVE  HasCapacity /\ PendingIds' \subseteq PendingIds \union {c}
  BY <1>2 DEF OfferWithConsent, PendingIds, MapSet
<1>3. CASE \/ \E k \in Codes, ty \in DirectTypes : OfferDirectly(k, ty)
           \/ \E c \in ConsentIds : GetClaims(c) /\ ~EvictConsentRecord(c)
           \/ \E k \in Codes, t \in Tokens : PostToken(k, t)
  BY <1>3 DEF OfferDirectly, GetClaims, PostToken, PendingIds
<1>4. ASSUME NEW c \in ConsentIds, Decide(c), Decline(c)
      PROVE  PendingIds' \subseteq PendingIds
  BY <1>4, TombstoneReads DEF Decide, Decline, PendingIds
<1>5. ASSUME NEW c \in ConsentIds, NEW k \in Codes, Decide(c), Approve(c, k)
      PROVE  PendingIds' \subseteq PendingIds
  BY <1>5, TombstoneReads DEF Decide, Approve, PendingIds
<1> QED
  BY <1>1, <1>2, <1>3, <1>4, <1>5, StepsByKind

\* Every step keeps the number of pending records within the cap.
LEMMA NextCap == CapInvariant /\ GTypeOK /\ GrantEffect => CapInvariant'
<1> SUFFICES ASSUME CapInvariant, GTypeOK, GrantEffect
             PROVE  CapInvariant'
  OBVIOUS
<1>1. Cardinality(PendingIds) \in Nat
  BY FS_CardinalityType DEF CapInvariant
<1>2. CASE PendingIds' \subseteq PendingIds
  <2>1. /\ IsFiniteSet(PendingIds')
        /\ Cardinality(PendingIds') <= Cardinality(PendingIds)
    BY <1>2, FS_Subset DEF CapInvariant
  <2>2. Cardinality(PendingIds') \in Nat
    BY <2>1, FS_CardinalityType
  <2> QED
    BY <1>1, <2>1, <2>2, LifetimesAssumption DEF CapInvariant, PendingBounded
<1>3. ASSUME NEW c \in ConsentIds, HasCapacity, PendingIds' \subseteq PendingIds \union {c}
      PROVE  CapInvariant'
  <2>1. /\ IsFiniteSet(PendingIds \union {c})
        /\ Cardinality(PendingIds \union {c}) \in
             {Cardinality(PendingIds), Cardinality(PendingIds) + 1}
    BY FS_AddElement DEF CapInvariant
  <2>2. /\ IsFiniteSet(PendingIds')
        /\ Cardinality(PendingIds') <= Cardinality(PendingIds \union {c})
    BY <1>3, <2>1, FS_Subset
  <2>3. Cardinality(PendingIds') \in Nat
    BY <2>2, FS_CardinalityType
  <2> QED
    BY <1>1, <1>3, <2>1, <2>2, <2>3, LifetimesAssumption
    DEF CapInvariant, PendingBounded, HasCapacity
<1> QED
  BY <1>2, <1>3, PendingSteps

\* Initially none is pending.
LEMMA InitCap == GInit => CapInvariant
BY FS_EmptySet, LifetimesAssumption
DEF GInit, CapInvariant, PendingBounded, PendingIds, NoEntries

\* The cap bounds the pending records throughout.
LEMMA CapHolds == GSpec => []CapInvariant
BY InitCap, NextCap, StepHasEffect, GrantsTypeCorrect, PTL DEF GSpec

-----------------------------------------------------------------------------
(* Evictions *)

\* A pending record leaves its store by its own answer, after its own expiry,
\* or with the process.
LEMMA PendingLeave ==
  ASSUME GrantInvariant, GrantEffect, NEW d \in PendingIds
  PROVE  \/ d \in PendingIds' \/ answer'[d] # answer[d]
         \/ Expired(consentRecords[d]) \/ ~up'
<1> USE DEF PendingIds
<1> GTypeOK
  BY DEF GrantInvariant
<1> d \in DOMAIN consentRecords /\ consentRecords[d].verdict = "PENDING"
  OBVIOUS
<1>1. CASE Halt \/ Crash \/ OfferRejects
  BY <1>1 DEF Crash, OfferRejects, Halt
<1>2. CASE UNCHANGED consentRecords
  BY <1>2
<1>3. ASSUME NEW c \in ConsentIds, NEW ty \in ConsentTypes, OfferWithConsent(c, ty)
      PROVE  d \in PendingIds'
  \* the identifier is fresh, so the new record overwrites none
  <2>1. c \notin DOMAIN consentRecords
    BY <1>3 DEF OfferWithConsent, GTypeOK, IsMap
  <2> QED
    BY <1>3, <2>1 DEF OfferWithConsent, MapSet
<1>4. CASE SweepExpiredConsentRecords
  BY <1>4
  DEF SweepExpiredConsentRecords, MapDelete, ExpiredKeys, Expired
<1>5. ASSUME NEW c \in ConsentIds, GetClaims(c) \/ Decide(c)
      PROVE  \/ d \in PendingIds' \/ answer'[d] # answer[d]
             \/ Expired(consentRecords[d])
  <2>1. CASE EvictConsentRecord(c)
    BY <2>1 DEF EvictConsentRecord, MapDelete
  <2>2. ASSUME Decline(c) \/ \E k \in Codes : Approve(c, k),
               consentRecords' # consentRecords
        PROVE  d \in PendingIds' \/ answer'[d] # answer[d]
    <3>1. c # d => d \in PendingIds'
      <4>1. \E r : consentRecords' = MapSet(consentRecords, c, r)
        BY <2>2 DEF Decline, Approve
      <4> QED
        BY <4>1 DEF MapSet
    <3>2. answer'[c] \in {"declined", "approved"}
      BY <2>2 DEF Decline, Approve, GTypeOK
    <3>3. answer[d] = "none"
      BY DEF GrantInvariant, RecordsAwaitVerdict
    <3> QED
      BY <3>1, <3>2, <3>3
  <2> QED
    BY <1>2, <1>5, <2>1, <2>2 DEF GetClaims, Decide
<1>6. CASE \/ Start \/ Tick \/ ChangeConfig \/ SweepExpiredTokens
           \/ \E k \in Codes, ty \in DirectTypes : OfferDirectly(k, ty)
           \/ \E k \in Codes, t \in Tokens : PostToken(k, t)
           \/ \E t \in Tokens : EvictAccessToken(t) \/ RotateNonce(t)
           \/ UNCHANGED gvars
  BY <1>2, <1>6
  DEF Start, Tick, ChangeConfig, SweepExpiredTokens, OfferDirectly, PostToken,
      EvictAccessToken, RotateNonce, gvars, stores
<1> QED
  BY <1>1, <1>3, <1>4, <1>5, <1>6 DEF GrantEffect, GNext

\* There are never more pending records than the cap allows, and no pending
\* record makes room for another, whatever the number of offers and the cap
\* (consent.ts:60-63, 143, 162-166).
THEOREM CapNeverEvicts == GSpec => CapWithoutEviction
<1>1. GrantInvariant /\ GrantEffect /\ CapInvariant' =>
        [/\ PendingBounded'
         /\ \A c \in PendingIds :
              c \in PendingIds' \/ answer'[c] # answer[c]
              \/ Expired(consentRecords[c]) \/ ~up']_gvars
  BY PendingLeave DEF CapInvariant
<1> QED
  BY <1>1, StepHasEffect, GrantsInvariant, CapHolds, PTL DEF GSpec, CapWithoutEviction

-----------------------------------------------------------------------------
(* The contract with the holder *)

\* How the status of an offer reads when its record, its answer or neither
\* is known.
LEMMA StatusReads ==
  ASSUME NEW c
  PROVE  /\ c \notin DOMAIN asked => StatusOf(c) = "unasked"
         /\ c \in DOMAIN asked /\ answer[c] # "none" => StatusOf(c) = answer[c]
         /\ c \in DOMAIN asked /\ answer[c] = "none" =>
              StatusOf(c) = IF c \in DOMAIN consentRecords THEN "open" ELSE "lapsed"
BY DEF StatusOf

\* The same of the next state.
LEMMA NextStatusReads ==
  ASSUME NEW c
  PROVE  /\ c \notin DOMAIN asked' => StatusOf(c)' = "unasked"
         /\ c \in DOMAIN asked' /\ answer'[c] # "none" => StatusOf(c)' = answer'[c]
         /\ c \in DOMAIN asked' /\ answer'[c] = "none" =>
              StatusOf(c)' =
                IF c \in DOMAIN consentRecords' THEN "open" ELSE "lapsed"
BY DEF StatusOf

\* Grants only come from exchanges.
LEMMA GrantsStay ==
  ASSUME GrantInvariant, redeemed' = redeemed,
         \A k \in DOMAIN minted : minted'[k] = minted[k]
  PROVE  GrantsMade' = GrantsMade
<1>1. \A t \in DOMAIN redeemed : redeemed[t] \in DOMAIN minted
  BY DEF GrantInvariant, GTypeOK, IsMap
<1> QED
  BY <1>1 DEF GrantsMade, ConsentOf

\* The initial stores map to offers nobody was asked about.
LEMMA InitContract == GInit => Contract!Init
<1> SUFFICES ASSUME GInit
             PROVE  Contract!Init
  OBVIOUS
<1>1. \A c \in ConsentIds : StatusOf(c) = "unasked"
  BY StatusReads DEF GInit, NoEntries
<1>2. GrantsMade = {}
  BY DEF GInit, NoEntries, GrantsMade
<1> QED
  BY <1>1, <1>2 DEF Contract!Init

\* Offers lose their records together, when the process stops or in a sweep.
LEMMA ShrinkingLapses ==
  ASSUME GrantInvariant, OnlyShrinks
  PROVE  Contract!Next \/ UNCHANGED Contract!contractVars
<1> DEFINE S == {c \in ConsentIds :
                   StatusOf(c) = "open" /\ c \notin DOMAIN consentRecords'}
<1> asked' = asked /\ answer' = answer /\ minted' = minted /\ redeemed' = redeemed
  BY DEF OnlyShrinks, history
<1>1. \A c \in S : StatusOf(c) = "open"
  OBVIOUS
<1>2. \A c \in ConsentIds :
        StatusOf(c)' = IF c \in S THEN "lapsed" ELSE StatusOf(c)
  <2> SUFFICES ASSUME NEW c \in ConsentIds
               PROVE  StatusOf(c)' = IF c \in S THEN "lapsed" ELSE StatusOf(c)
    OBVIOUS
  <2>1. answer[c] \in {"none", "approved", "declined"}
        /\ DOMAIN consentRecords' \subseteq DOMAIN consentRecords
    BY DEF GrantInvariant, GTypeOK, OnlyShrinks
  <2> QED
    BY <2>1, StatusReads, NextStatusReads
<1>3. GrantsMade' = GrantsMade
  BY GrantsStay
<1>4. S \in SUBSET ConsentIds
  OBVIOUS
<1> HIDE DEF S
<1>5. Contract!Lapse(S)
  BY <1>1, <1>2, <1>3, <1>4 DEF Contract!Lapse
<1> QED
  BY <1>4, <1>5 DEF Contract!Next

\* POST /offer asks the holder.
LEMMA OfferAsks ==
  ASSUME NEW c \in ConsentIds, NEW ty \in ConsentTypes,
         GrantInvariant, OfferWithConsent(c, ty)
  PROVE  Contract!Next
<1> /\ UNCHANGED <<answer, minted, redeemed>>
    /\ DOMAIN asked' = DOMAIN asked \union {c}
    /\ DOMAIN consentRecords' = DOMAIN consentRecords \union {c}
    /\ c \notin DOMAIN asked
    /\ answer[c] = "none"
  BY DEF OfferWithConsent, MapSet, GrantInvariant, UnaskedUntouched
<1>1. StatusOf(c) = "unasked" /\ StatusOf(c)' = "open"
  BY StatusReads, NextStatusReads
<1>2. \A d \in ConsentIds \ {c} : StatusOf(d)' = StatusOf(d)
  BY StatusReads, NextStatusReads
<1>3. GrantsMade' = GrantsMade
  BY GrantsStay
<1>4. Contract!Ask(c)
  BY <1>1, <1>2, <1>3 DEF Contract!Ask
<1> QED
  BY <1>4 DEF Contract!Next

\* Neither a direct offer nor a look at the claims changes what the holder
\* was promised.
LEMMA OthersStutter ==
  ASSUME GrantInvariant,
         \/ \E k \in Codes, ty \in DirectTypes : OfferDirectly(k, ty)
         \/ \E c \in ConsentIds : GetClaims(c) /\ ~EvictConsentRecord(c)
  PROVE  UNCHANGED Contract!contractVars
<1>1. /\ UNCHANGED <<asked, answer, redeemed, consentRecords>>
      /\ \A k \in DOMAIN minted : minted'[k] = minted[k]
  <2>1. CASE \E k \in Codes, ty \in DirectTypes : OfferDirectly(k, ty)
    BY <2>1, IssueReads DEF OfferDirectly
  <2>2. CASE \E c \in ConsentIds : GetClaims(c) /\ ~EvictConsentRecord(c)
    BY <2>2 DEF GetClaims
  <2> QED
    BY <2>1, <2>2
<1>2. GrantsMade' = GrantsMade
  BY <1>1, GrantsStay
<1>3. \A c \in ConsentIds : StatusOf(c)' = StatusOf(c)
  BY <1>1 DEF StatusOf
<1> QED
  BY <1>2, <1>3 DEF Contract!contractVars

\* A decision answers the open offer, or fails and leaves it open.
LEMMA DecisionAnswers ==
  ASSUME NEW c \in ConsentIds, GrantInvariant, Decide(c),
         Decline(c) \/ \E k \in Codes : Approve(c, k)
  PROVE  Contract!Next \/ UNCHANGED Contract!contractVars
<1> /\ UNCHANGED <<asked, redeemed>>
    /\ c \in DOMAIN consentRecords
    /\ consentRecords[c].verdict = "PENDING"
  BY DEF Decide, Decline, Approve, Undecided
<1>1. answer[c] = "none" /\ c \in DOMAIN asked
      /\ answer \in [ConsentIds -> {"none", "approved", "declined"}]
  BY DEF GrantInvariant, RecordsAwaitVerdict, GTypeOK, IsMap
<1>2. GrantsMade' = GrantsMade
  BY GrantsStay, IssueReads DEF Decline, Approve
<1>3. \/ \E verdict \in {"approved", "declined"} :
           answer' = [answer EXCEPT ![c] = verdict]
      \/ answer' = answer
  BY DEF Decline, Approve
<1>4. DOMAIN consentRecords' = DOMAIN consentRecords
  BY TombstoneReads DEF Decline, Approve
<1>5. StatusOf(c) = "open"
  BY <1>1, StatusReads
<1>6. CASE answer' = answer
  <2>1. \A d \in ConsentIds : StatusOf(d)' = StatusOf(d)
    BY <1>4, <1>6 DEF StatusOf
  <2> QED
    BY <1>2, <2>1 DEF Contract!contractVars
<1>7. ASSUME NEW verdict \in {"approved", "declined"},
             answer' = [answer EXCEPT ![c] = verdict]
      PROVE  Contract!Next
  <2>1. StatusOf(c)' = verdict
    BY <1>1, <1>7, NextStatusReads
  <2>2. \A d \in ConsentIds \ {c} : StatusOf(d)' = StatusOf(d)
    BY <1>1, <1>4, <1>7, StatusReads, NextStatusReads
  <2>3. Contract!Answer(c, verdict)
    BY <1>2, <1>5, <2>1, <2>2 DEF Contract!Answer
  <2> QED
    BY <2>3 DEF Contract!Next
<1> QED
  BY <1>3, <1>6, <1>7

\* An exchange collects the grant of an approved offer, the first one; or the
\* code was a direct one, or too old.
LEMMA ExchangeCollects ==
  ASSUME NEW k \in Codes, NEW t \in Tokens, GrantInvariant, PostToken(k, t)
  PROVE  Contract!Next \/ UNCHANGED Contract!contractVars
<1> /\ UNCHANGED <<consentRecords, asked, answer, minted>>
    /\ k \in DOMAIN preAuthCodes
    /\ minted[k].sent
  BY DEF PostToken
<1>1. /\ k \in DOMAIN minted
      /\ \A u \in DOMAIN redeemed :
           redeemed[u] \in DOMAIN minted /\ minted[redeemed[u]].sent
           /\ redeemed[u] # k
  BY DEF GrantInvariant, GTypeOK, IsMap, RedeemedAreGone
<1>2. \A c \in ConsentIds : StatusOf(c)' = StatusOf(c)
  BY DEF StatusOf
<1>3. CASE redeemed' = redeemed
  <2>1. GrantsMade' = GrantsMade
    BY <1>3, GrantsStay
  <2> QED
    BY <1>2, <2>1 DEF Contract!contractVars
<1>4. CASE redeemed' # redeemed
  <2>1. /\ t \notin DOMAIN redeemed
        /\ DOMAIN redeemed' = DOMAIN redeemed \union {t}
        /\ redeemed'[t] = k
        /\ \A u \in DOMAIN redeemed : redeemed'[u] = redeemed[u]
    BY <1>4 DEF PostToken, MapSet
  <2>2. CASE ConsentOf(k) = Null
    <3>1. GrantsMade' = GrantsMade
      BY <2>1, <2>2 DEF GrantsMade, ConsentOf
    <3> QED
      BY <1>2, <3>1 DEF Contract!contractVars
  <2>3. CASE ConsentOf(k) # Null
    <3>1. GrantsMade' = GrantsMade \union {<<ConsentOf(k), t>>}
      BY <2>1, <2>3 DEF GrantsMade, ConsentOf
    <3>2. ConsentOf(k) \in ConsentIds /\ ConsentOf(k) \in DOMAIN asked
      BY <1>1, <2>3 DEF GrantInvariant, OriginsAsked, GTypeOK, IsMap
    <3>3. StatusOf(ConsentOf(k)) = "approved"
      BY <1>1, <2>3, <3>2, StatusReads DEF GrantInvariant, SentCodesFollowVerdict
    <3>4. \A g \in GrantsMade : g[1] # ConsentOf(k)
      BY <1>1, <2>3 DEF GrantInvariant, SentCodesFollowVerdict, GrantsMade
    <3>5. Contract!Collect(ConsentOf(k), t)
      BY <1>2, <3>1, <3>2, <3>3, <3>4 DEF Contract!Collect
    <3> QED
      BY <3>2, <3>5 DEF Contract!Next
  <2> QED
    BY <2>2, <2>3
<1> QED
  BY <1>3, <1>4

\* Every step is a step of the contract or none.
LEMMA NextContract ==
  GrantInvariant /\ GrantEffect => [Contract!Next]_Contract!contractVars
<1> SUFFICES ASSUME GrantInvariant, GrantEffect
             PROVE  Contract!Next \/ UNCHANGED Contract!contractVars
  OBVIOUS
<1>1. GTypeOK
  BY DEF GrantInvariant
<1> QED
  BY <1>1, StepsByKind, ShrinkingLapses, OfferAsks, OthersStutter,
     DecisionAnswers, ExchangeCollects

\* The stores, timers and handlers of offer.ts, consent.ts and token.ts
\* implement the promise to the holder: asked once, answered at most once, at
\* most one grant, and only after an approval.
THEOREM GrantsKeepContract == GSpec => KeepsContract
BY InitContract, NextContract, StepHasEffect, GrantsInvariant, PTL
DEF GSpec, KeepsContract, Contract!Spec

-----------------------------------------------------------------------------
(* Deadlines *)

\* The two timers of a running process are never overdue nor far away.
TimersKeepUp ==
  up => /\ now <= consentSweepAt /\ consentSweepAt <= now + SWEEP_PERIOD
        /\ now <= tokenSweepAt /\ tokenSweepAt <= now + SWEEP_PERIOD

\* An entry is swept at most one period after it expires, and expires at most
\* the sum of the lifetimes so far after its consent id was drawn.
RecordAges ==
  \A c \in DOMAIN consentRecords :
    /\ consentRecords[c].expiresAt = asked[c] + CONSENT_TTL
    /\ consentSweepAt <= consentRecords[c].expiresAt + SWEEP_PERIOD

CodeAges ==
  \A k \in DOMAIN preAuthCodes :
    /\ tokenSweepAt <= preAuthCodes[k].expiresAt + SWEEP_PERIOD
    /\ ConsentOf(k) # Null =>
         preAuthCodes[k].expiresAt <= asked[ConsentOf(k)] + CONSENT_TTL + CODE_TTL

TokenAges ==
  \A t \in DOMAIN accessTokens :
    /\ tokenSweepAt <= accessTokens[t].expiresAt + SWEEP_PERIOD
    /\ ConsentOf(redeemed[t]) # Null =>
         accessTokens[t].expiresAt
           <= asked[ConsentOf(redeemed[t])] + CONSENT_TTL + CODE_TTL + TOKEN_TTL

AgeInvariant == TimersKeepUp /\ RecordAges /\ CodeAges /\ TokenAges

-----------------------------------------------------------------------------
(* Retention *)

\* The quantities the arithmetic below is about.
LEMMA TimesAreNumbers ==
  ASSUME GrantInvariant
  PROVE  /\ now \in Nat /\ consentSweepAt \in Nat /\ tokenSweepAt \in Nat
         /\ CONSENT_TTL \in Nat /\ CODE_TTL \in Nat /\ TOKEN_TTL \in Nat
         /\ SWEEP_PERIOD \in Nat
         /\ \A c \in DOMAIN asked : asked[c] \in Nat
         /\ \A c \in DOMAIN consentRecords :
              c \in DOMAIN asked /\ consentRecords[c].expiresAt \in Nat
         /\ \A k \in DOMAIN minted :
              ConsentOf(k) # Null => ConsentOf(k) \in DOMAIN asked
         /\ \A k \in DOMAIN preAuthCodes :
              k \in DOMAIN minted /\ preAuthCodes[k].expiresAt \in Nat
         /\ \A t \in DOMAIN redeemed : redeemed[t] \in DOMAIN minted
         /\ \A t \in DOMAIN accessTokens :
              t \in DOMAIN redeemed /\ accessTokens[t].expiresAt \in Nat
<1>1. GTypeOK /\ OriginsAsked
  BY DEF GrantInvariant
<1>2. /\ \A c \in DOMAIN consentRecords :
           c \in DOMAIN asked /\ consentRecords[c].expiresAt \in Nat
      /\ \A c \in DOMAIN asked : asked[c] \in Nat
  BY <1>1 DEF GTypeOK, IsMap, ConsentRecord, PendingConsentRecord,
              DecidedConsentTombstone
<1>3. \A k \in DOMAIN preAuthCodes :
        k \in DOMAIN minted /\ preAuthCodes[k].expiresAt \in Nat
  BY <1>1 DEF GTypeOK, IsMap, PreAuthCodeEntry
<1>4. /\ \A t \in DOMAIN redeemed : redeemed[t] \in DOMAIN minted
      /\ \A t \in DOMAIN accessTokens :
           t \in DOMAIN redeemed /\ accessTokens[t].expiresAt \in Nat
  BY <1>1 DEF GTypeOK, IsMap, AccessTokenEntry
<1> QED
  BY <1>1, <1>2, <1>3, <1>4, LifetimesAssumption DEF GTypeOK, OriginsAsked

\* The timers: a sweep is set one period ahead, and the clock does not run
\* past it.
LEMMA NextTimers ==
  ASSUME GrantInvariant, TimersKeepUp, GrantEffect
  PROVE  TimersKeepUp'
<1> /\ now \in Nat /\ consentSweepAt \in Nat /\ tokenSweepAt \in Nat
    /\ SWEEP_PERIOD \in Nat
  BY TimesAreNumbers
<1>1. CASE Halt \/ Crash \/ OfferRejects
  BY <1>1 DEF Crash, OfferRejects, Halt, TimersKeepUp
<1>2. CASE Start
  BY <1>2 DEF Start, TimersKeepUp
<1>3. CASE Tick
  BY <1>3 DEF Tick, timers, TimersKeepUp
<1>4. CASE SweepExpiredConsentRecords
  BY <1>4 DEF SweepExpiredConsentRecords, TimersKeepUp
<1>5. CASE SweepExpiredTokens
  BY <1>5 DEF SweepExpiredTokens, TimersKeepUp
<1>6. CASE UNCHANGED <<now, up, consentSweepAt, tokenSweepAt>>
  BY <1>6 DEF TimersKeepUp
<1>7. \/ Halt \/ Crash \/ OfferRejects \/ Start \/ Tick
      \/ SweepExpiredConsentRecords \/ SweepExpiredTokens
      \/ UNCHANGED <<now, up, consentSweepAt, tokenSweepAt>>
  BY DEF GrantEffect, GNext, gvars, timers, ChangeConfig, OfferWithConsent, OfferDirectly,
         GetClaims, Decide, PostToken, EvictAccessToken, RotateNonce
<1> QED
  BY <1>1, <1>2, <1>3, <1>4, <1>5, <1>6, <1>7

\* Steps that keep the timers, or set one when it fires, and only take
\* entries away.
LEMMA ShrinkingKeepsAges ==
  ASSUME GrantInvariant, AgeInvariant, OnlyShrinks, GrantEffect
  PROVE  RecordAges' /\ CodeAges' /\ TokenAges'
<1> /\ asked' = asked /\ minted' = minted /\ redeemed' = redeemed
  BY DEF OnlyShrinks, history
<1>1. CASE ~up \/ ~up'
  <2>1. ~up' \/ Start \/ UNCHANGED stores
    BY <1>1 DEF GrantEffect, GNext, gvars, ChangeConfig, Tick,
       OfferWithConsent, OfferDirectly,
       GetClaims, Decide, PostToken, EvictAccessToken, RotateNonce, Crash,
       Halt, OfferRejects, SweepExpiredConsentRecords, SweepExpiredTokens
  <2>2. GTypeOK /\ GTypeOK'
    BY NextType DEF GrantInvariant
  <2>3. ~up' \/ ~up
    BY <1>1
  <2>4. /\ DOMAIN consentRecords' = {}
        /\ DOMAIN preAuthCodes' = {}
        /\ DOMAIN accessTokens' = {}
    BY <2>1, <2>2, <2>3 DEF GTypeOK, Start, stores
  <2> QED
    BY <2>4 DEF RecordAges, CodeAges, TokenAges
<1>2. CASE UNCHANGED timers
  BY <1>2
  DEF timers, AgeInvariant, RecordAges, CodeAges, TokenAges, OnlyShrinks, ConsentOf
<1>3. CASE up /\ SweepExpiredConsentRecords
  <2>1. consentSweepAt' = now + SWEEP_PERIOD /\ tokenSweepAt' = tokenSweepAt
    BY <1>3 DEF SweepExpiredConsentRecords
  <2>2. \A c \in DOMAIN consentRecords' : ~(consentRecords[c].expiresAt < now)
    BY <1>3 DEF SweepExpiredConsentRecords, MapDelete, ExpiredKeys, Expired
  <2>3. RecordAges'
    BY <2>1, <2>2, TimesAreNumbers DEF AgeInvariant, RecordAges, OnlyShrinks
  <2> QED
    BY <2>1, <2>3 DEF AgeInvariant, CodeAges, TokenAges, OnlyShrinks, ConsentOf
<1>4. CASE up /\ SweepExpiredTokens
  <2>1. tokenSweepAt' = now + SWEEP_PERIOD /\ consentSweepAt' = consentSweepAt
    BY <1>4 DEF SweepExpiredTokens
  <2>2. /\ \A k \in DOMAIN preAuthCodes' : ~(preAuthCodes[k].expiresAt < now)
        /\ \A t \in DOMAIN accessTokens' : ~(accessTokens[t].expiresAt < now)
    BY <1>4 DEF SweepExpiredTokens, MapDelete, ExpiredKeys, Expired
  <2>3. CodeAges'
    BY <2>1, <2>2, TimesAreNumbers
    DEF AgeInvariant, CodeAges, OnlyShrinks, ConsentOf
  <2>4. TokenAges'
    BY <2>1, <2>2, TimesAreNumbers
    DEF AgeInvariant, TokenAges, OnlyShrinks, ConsentOf
  <2> QED
    BY <2>1, <2>3, <2>4 DEF AgeInvariant, RecordAges, OnlyShrinks
<1>5. \/ ~up \/ ~up' \/ UNCHANGED timers
      \/ SweepExpiredConsentRecords \/ SweepExpiredTokens
  BY DEF GrantEffect, GNext, gvars, Tick, ChangeConfig, OfferWithConsent,
     OfferDirectly,
     GetClaims, Decide, PostToken, EvictAccessToken, RotateNonce, Crash,
     OfferRejects, Halt, Start, timers
<1> QED
  BY <1>1, <1>2, <1>3, <1>4, <1>5

\* A record expires one lifetime after its id was drawn, and the timer is
\* less than a period away.
LEMMA OfferKeepsAges ==
  ASSUME NEW c \in ConsentIds, NEW ty \in ConsentTypes,
         GrantInvariant, AgeInvariant, OfferWithConsent(c, ty)
  PROVE  RecordAges' /\ CodeAges' /\ TokenAges'
<1> /\ UNCHANGED <<preAuthCodes, accessTokens, consentSweepAt, tokenSweepAt,
                   minted, redeemed>>
    /\ up
    /\ c \notin DOMAIN asked
    /\ asked'[c] = now
    /\ \A d \in DOMAIN asked : asked'[d] = asked[d]
    /\ DOMAIN consentRecords' = DOMAIN consentRecords \union {c}
    /\ consentRecords'[c].expiresAt = now + CONSENT_TTL
    /\ \A d \in DOMAIN consentRecords :
         d # c => consentRecords'[d] = consentRecords[d]
  BY DEF OfferWithConsent, MapSet, timers
<1>1. RecordAges'
  BY TimesAreNumbers DEF AgeInvariant, TimersKeepUp, RecordAges
<1>2. CodeAges'
  BY TimesAreNumbers DEF AgeInvariant, CodeAges, ConsentOf
<1>3. TokenAges'
  <2> SUFFICES ASSUME NEW t \in DOMAIN accessTokens
               PROVE  ConsentOf(redeemed[t]) # Null =>
                        asked'[ConsentOf(redeemed[t])] = asked[ConsentOf(redeemed[t])]
    BY DEF AgeInvariant, TokenAges, ConsentOf
  <2> QED
    BY TimesAreNumbers
<1> QED
  BY <1>1, <1>2, <1>3

\* A code is issued with a full lifetime, and from a record only while that
\* is alive.
LEMMA IssueKeepsAges ==
  ASSUME NEW k, NEW ty, NEW claims, NEW origin, GrantInvariant, AgeInvariant,
         up, IssuePreAuthCode(k, ty, claims, origin),
         origin.consent # Null =>
           /\ origin.consent \in DOMAIN asked
           /\ now <= asked[origin.consent] + CONSENT_TTL,
         UNCHANGED <<accessTokens, timers, asked, redeemed>>
  PROVE  CodeAges' /\ TokenAges'
<1> /\ k \notin DOMAIN minted
    /\ minted'[k] = origin
    /\ \A j \in DOMAIN minted : minted'[j] = minted[j]
    /\ DOMAIN preAuthCodes' = DOMAIN preAuthCodes \union {k}
    /\ preAuthCodes'[k].expiresAt = now + CODE_TTL
    /\ \A j \in DOMAIN preAuthCodes : j # k => preAuthCodes'[j] = preAuthCodes[j]
    /\ consentSweepAt' = consentSweepAt /\ tokenSweepAt' = tokenSweepAt
  BY IssueReads DEF timers
<1>1. /\ tokenSweepAt <= now + CODE_TTL + SWEEP_PERIOD
      /\ origin.consent # Null =>
           now + CODE_TTL <= asked[origin.consent] + CONSENT_TTL + CODE_TTL
  BY TimesAreNumbers DEF AgeInvariant, TimersKeepUp
<1>2. CodeAges'
  <2> SUFFICES ASSUME NEW j \in DOMAIN preAuthCodes'
               PROVE  /\ tokenSweepAt <= preAuthCodes'[j].expiresAt + SWEEP_PERIOD
                      /\ minted'[j].consent # Null =>
                           preAuthCodes'[j].expiresAt
                             <= asked[minted'[j].consent] + CONSENT_TTL + CODE_TTL
    BY DEF CodeAges, ConsentOf
  <2>1. CASE j = k
    BY <1>1, <2>1
  <2>2. CASE j # k
    BY <2>2, TimesAreNumbers DEF AgeInvariant, CodeAges, ConsentOf
  <2> QED
    BY <2>1, <2>2
<1>3. TokenAges'
  BY TimesAreNumbers DEF AgeInvariant, TokenAges, ConsentOf
<1> QED
  BY <1>2, <1>3

\* Deciding leaves the expiry of the record as it was.
LEMMA DecideKeepsAges ==
  ASSUME NEW c \in ConsentIds, GrantInvariant, AgeInvariant, Decide(c),
         Decline(c) \/ \E k \in Codes : Approve(c, k)
  PROVE  RecordAges' /\ CodeAges' /\ TokenAges'
<1> /\ UNCHANGED <<accessTokens, timers, asked, redeemed>>
    /\ up /\ c \in DOMAIN consentRecords
    /\ consentSweepAt' = consentSweepAt /\ tokenSweepAt' = tokenSweepAt
  BY DEF Decide, timers
<1>1. RecordAges'
  <2>1. \/ UNCHANGED consentRecords
        \/ \E verdict \in {"APPROVED", "DECLINED"} :
             consentRecords' = MapSet(consentRecords, c,
                                      TombstoneOf(consentRecords[c], verdict))
    BY DEF Decline, Approve
  <2>2. /\ DOMAIN consentRecords' = DOMAIN consentRecords
        /\ \A d \in DOMAIN consentRecords :
             consentRecords'[d].expiresAt = consentRecords[d].expiresAt
    BY <2>1, TombstoneReads
  <2> QED
    BY <2>2 DEF AgeInvariant, RecordAges
<1>2. CASE Decline(c)
  BY <1>1, <1>2 DEF Decline, AgeInvariant, CodeAges, TokenAges, ConsentOf
<1>3. ASSUME NEW k \in Codes, Approve(c, k)
      PROVE  CodeAges' /\ TokenAges'
  <2> DEFINE origin == [consent |-> c, sent |-> config # BadConfig]
  <2>1. /\ IssuePreAuthCode(k, consentRecords[c].type,
                            ClaimsSnapshot(consentRecords[c]), origin)
        /\ origin.consent = c
        /\ ~(consentRecords[c].expiresAt < now)
    BY <1>3 DEF Approve, Undecided, Expired
  <2> HIDE DEF origin
  <2>2. c \in DOMAIN asked /\ now <= asked[c] + CONSENT_TTL
    BY <2>1, TimesAreNumbers DEF AgeInvariant, RecordAges
  <2> QED
    BY <2>1, <2>2, IssueKeepsAges
<1> QED
  BY <1>1, <1>2, <1>3

\* A token gets a full lifetime from a code that is alive.
LEMMA PostTokenKeepsAges ==
  ASSUME NEW k \in Codes, NEW t \in Tokens, GrantInvariant, AgeInvariant,
         PostToken(k, t)
  PROVE  RecordAges' /\ CodeAges' /\ TokenAges'
<1> /\ UNCHANGED <<consentRecords, consentSweepAt, tokenSweepAt, asked, minted>>
    /\ up /\ k \in DOMAIN preAuthCodes
  BY DEF PostToken, timers
<1>1. RecordAges'
  BY DEF AgeInvariant, RecordAges
<1>2. CodeAges'
  BY DEF PostToken, CodesWithout, MapDelete, AgeInvariant, CodeAges, ConsentOf
<1>3. CASE UNCHANGED <<accessTokens, redeemed>>
  BY <1>1, <1>2, <1>3 DEF AgeInvariant, TokenAges, ConsentOf
<1>4. CASE ~UNCHANGED <<accessTokens, redeemed>>
  <2>1. /\ t \notin DOMAIN redeemed
        /\ redeemed'[t] = k
        /\ \A u \in DOMAIN redeemed : redeemed'[u] = redeemed[u]
        /\ DOMAIN accessTokens' = DOMAIN accessTokens \union {t}
        /\ accessTokens'[t].expiresAt = now + TOKEN_TTL
        /\ \A u \in DOMAIN accessTokens : u # t => accessTokens'[u] = accessTokens[u]
        /\ ~(preAuthCodes[k].expiresAt < now)
    BY <1>4 DEF PostToken, MapSet, Expired
  <2>2. /\ tokenSweepAt <= now + TOKEN_TTL + SWEEP_PERIOD
        /\ ConsentOf(k) # Null =>
             now + TOKEN_TTL
               <= asked[ConsentOf(k)] + CONSENT_TTL + CODE_TTL + TOKEN_TTL
    <3>1. /\ ConsentOf(k) # Null =>
               /\ asked[ConsentOf(k)] \in Nat
               /\ preAuthCodes[k].expiresAt
                    <= asked[ConsentOf(k)] + CONSENT_TTL + CODE_TTL
          /\ preAuthCodes[k].expiresAt \in Nat
      BY TimesAreNumbers DEF AgeInvariant, CodeAges
    <3> QED
      BY <2>1, <3>1, TimesAreNumbers DEF AgeInvariant, TimersKeepUp
  <2>3. TokenAges'
    <3> SUFFICES ASSUME NEW u \in DOMAIN accessTokens'
                 PROVE  /\ tokenSweepAt <= accessTokens'[u].expiresAt + SWEEP_PERIOD
                        /\ ConsentOf(redeemed'[u]) # Null =>
                             accessTokens'[u].expiresAt
                               <= asked[ConsentOf(redeemed'[u])]
                                    + CONSENT_TTL + CODE_TTL + TOKEN_TTL
      BY DEF TokenAges, ConsentOf
    <3>1. CASE u = t
      BY <2>1, <2>2, <3>1
    <3>2. CASE u # t
      BY <2>1, <3>2, TimesAreNumbers DEF AgeInvariant, TokenAges
    <3> QED
      BY <3>1, <3>2
  <2> QED
    BY <1>1, <1>2, <2>3
<1> QED
  BY <1>3, <1>4

\* Every step keeps the ages.
LEMMA NextAges ==
  GrantInvariant /\ AgeInvariant /\ GrantEffect => AgeInvariant'
<1> SUFFICES ASSUME GrantInvariant, AgeInvariant, GrantEffect
             PROVE  RecordAges' /\ CodeAges' /\ TokenAges'
  BY NextTimers DEF AgeInvariant
<1>1. ASSUME NEW k \in Codes, NEW ty \in DirectTypes, OfferDirectly(k, ty)
      PROVE  RecordAges' /\ CodeAges' /\ TokenAges'
  <2> DEFINE origin == [consent |-> Null, sent |-> TRUE]
  <2>1. IssuePreAuthCode(k, ty, Null, origin) /\ origin.consent = Null
    BY <1>1 DEF OfferDirectly
  <2> HIDE DEF origin
  <2>2. CodeAges' /\ TokenAges'
    BY <1>1, <2>1, IssueKeepsAges DEF OfferDirectly
  <2> QED
    BY <1>1, <2>2 DEF OfferDirectly, timers, AgeInvariant, RecordAges
<1>2. ASSUME NEW c \in ConsentIds, GetClaims(c), ~EvictConsentRecord(c)
      PROVE  RecordAges' /\ CodeAges' /\ TokenAges'
  BY <1>2
  DEF GetClaims, timers, AgeInvariant, RecordAges, CodeAges, TokenAges, ConsentOf
<1>3. GTypeOK
  BY DEF GrantInvariant
<1> QED
  BY <1>1, <1>2, <1>3, StepsByKind, ShrinkingKeepsAges, OfferKeepsAges,
     DecideKeepsAges, PostTokenKeepsAges

\* Empty stores hold nothing old.
LEMMA InitAges == GInit => AgeInvariant
BY LifetimesAssumption
DEF GInit, NoEntries, AgeInvariant, TimersKeepUp, RecordAges, CodeAges, TokenAges

\* The ages bound how long the stores keep what.
LEMMA AgesBoundRetention == GrantInvariant /\ AgeInvariant => HolderDataRetention
<1> SUFFICES ASSUME GrantInvariant, AgeInvariant
             PROVE  HolderDataRetention
  OBVIOUS
<1>1. CASE ~up
  BY <1>1 DEF GrantInvariant, GTypeOK, HolderDataRetention, PendingIds
<1>2. CASE up
  <2>1. \A c \in PendingIds : now <= asked[c] + CONSENT_TTL + SWEEP_PERIOD
    BY <1>2, TimesAreNumbers DEF AgeInvariant, TimersKeepUp, RecordAges, PendingIds
  <2>2. ASSUME NEW k \in DOMAIN preAuthCodes, ConsentOf(k) # Null
        PROVE  now <= asked[ConsentOf(k)] + CONSENT_TTL + CODE_TTL + SWEEP_PERIOD
    <3>1. asked[ConsentOf(k)] \in Nat /\ preAuthCodes[k].expiresAt \in Nat
      BY <2>2, TimesAreNumbers
    <3> QED
      BY <1>2, <2>2, <3>1, TimesAreNumbers DEF AgeInvariant, TimersKeepUp, CodeAges
  <2>3. ASSUME NEW t \in DOMAIN accessTokens, ConsentOf(redeemed[t]) # Null
        PROVE  now <= asked[ConsentOf(redeemed[t])]
                        + CONSENT_TTL + CODE_TTL + TOKEN_TTL + SWEEP_PERIOD
    <3>1. asked[ConsentOf(redeemed[t])] \in Nat /\ accessTokens[t].expiresAt \in Nat
      BY <2>3, TimesAreNumbers
    <3> QED
      BY <1>2, <2>3, <3>1, TimesAreNumbers DEF AgeInvariant, TimersKeepUp, TokenAges
  <2> QED
    BY <2>1, <2>2, <2>3 DEF HolderDataRetention
<1> QED
  BY <1>1, <1>2

\* The stores keep the personal data of an offer no longer than the lifetimes
\* of what was issued from it, plus one sweep period (consent.ts:67-90,
\* token.ts:31-60).
THEOREM RetentionIsBounded == GSpec => []HolderDataRetention
BY InitAges, NextAges, StepHasEffect, AgesBoundRetention, GrantsInvariant, PTL
DEF GSpec

=============================================================================
