------------------------------- MODULE Grants -------------------------------
(***************************************************************************)
(* The issuance grants of the gateway: POST /offer (oid4vci/offer.ts), the *)
(* consent gate (oid4vci/consent.ts) and the pre-authorized codes and      *)
(* access tokens (oid4vci/token.ts).                                       *)
(*                                                                         *)
(* The three stores are JavaScript Maps of one single-threaded process:    *)
(* every handler below is synchronous from its first read of a store to    *)
(* its last write, so a handler is one action.  The process may stop at    *)
(* any point between two handlers and then loses all three Maps.           *)
(*                                                                         *)
(* Time is a clock of coarse units.  The identifiers are 128-bit (codes,   *)
(* consent ids) and 256-bit (tokens) random strings: an identifier drawn   *)
(* is one never drawn before, and a wallet presents only an identifier it  *)
(* was sent.                                                               *)
(***************************************************************************)
EXTENDS Naturals, FiniteSets

CONSTANTS
  ConsentIds, Codes, Tokens,     \* identifiers the program draws
  ConsentTypes, DirectTypes,     \* templates with and without requiresConsent
  Configs,                       \* contents the configuration file can have
  BadConfig,                     \* a file loadConfig cannot read or parse
  ClaimSets,                     \* what buildClaims can return
  Null,                          \* undefined; also a field a tombstone lacks
  MapsFields(_, _),              \* template, configuration |-> the mappings
                                 \* resolve the template's required fields
  BuildClaims(_, _, _)           \* template, configuration, date |-> claims,
                                 \* or Null when they cannot be built

CONSTANTS
  CONSENT_TTL, CODE_TTL, TOKEN_TTL, C_NONCE_TTL,  \* lifetimes
  SWEEP_PERIOD,                                   \* of the two setIntervals
  MAX_PENDING_RECORDS

CONSTANTS                        \* bounds of the model, not of the code
  MaxTime,                       \* the clock stops here
  MaxRotations,                  \* c_nonce rotations of one token
  Outages                        \* the environment may stop the process

Types == ConsentTypes \union DirectTypes

ASSUME TypesAssumption ==
  /\ ConsentTypes \intersect DirectTypes = {}
  /\ Null \notin Types \union ClaimSets \union ConsentIds
  /\ BadConfig \notin Configs
  /\ \A ty \in Types, c \in Configs, d \in 0 .. MaxTime :
        /\ BuildClaims(ty, c, d) \in ClaimSets \union {Null}
        /\ BuildClaims(ty, c, d) # Null => MapsFields(ty, c)

ASSUME LifetimesAssumption ==
  /\ CONSENT_TTL \in Nat
  /\ CODE_TTL \in Nat
  /\ TOKEN_TTL \in Nat
  /\ C_NONCE_TTL \in Nat
  /\ SWEEP_PERIOD \in Nat \ {0}
  /\ MAX_PENDING_RECORDS \in Nat
  /\ MaxTime \in Nat
  /\ MaxRotations \in Nat
  /\ Outages \in BOOLEAN

VARIABLES
  now,              \* Date.now()
  up,               \* the process is running
  config,           \* the configuration file
  consentRecords,   \* Map: consent id |-> pending record or tombstone
  preAuthCodes,     \* Map: code |-> entry
  accessTokens,     \* Map: token |-> entry
  consentSweepAt,   \* when sweepExpiredConsentRecords fires next
  tokenSweepAt      \* when sweepExpiredTokens fires next

\* History, read by the properties only and, to draw fresh identifiers or to
\* know what a wallet holds, by the guards.
VARIABLES
  asked,            \* consent id drawn |-> the time its record was created
  shown,            \* consent id |-> claims GET .../claims last returned
  answer,           \* consent id |-> what POST .../decide answered with 200
  minted,           \* code drawn |-> the consent it came from, and whether
                    \* a response carried it out of the process
  redeemed          \* token drawn |-> the code it was exchanged for

stores  == <<consentRecords, preAuthCodes, accessTokens>>
history == <<asked, shown, answer, minted, redeemed>>
timers  == <<consentSweepAt, tokenSweepAt>>
gvars   == <<now, up, config, stores, timers, history>>

-----------------------------------------------------------------------------
(* Maps *)

NoEntries == [x \in {} |-> Null]

MapSet(m, k, v) == [x \in DOMAIN m \union {k} |-> IF x = k THEN v ELSE m[x]]

MapDelete(m, ks) == [x \in DOMAIN m \ ks |-> m[x]]

Expired(entry) == entry.expiresAt < now

ExpiredKeys(m) == {k \in DOMAIN m : Expired(m[k])}

IsMap(m, K, V) == DOMAIN m \subseteq K /\ \A k \in DOMAIN m : m[k] \in V

-----------------------------------------------------------------------------
(* Types of the state *)

PendingConsentRecord ==
  [verdict : {"PENDING"}, type : ConsentTypes, claims : ClaimSets,
   expiresAt : Nat]

DecidedConsentTombstone ==
  [verdict : {"APPROVED", "DECLINED"}, type : {Null}, claims : {Null},
   expiresAt : Nat]

ConsentRecord == PendingConsentRecord \union DecidedConsentTombstone

PreAuthCodeEntry ==
  [type : Types, claims : ClaimSets \union {Null}, expiresAt : Nat]

AccessTokenEntry ==
  [type : Types, claims : ClaimSets \union {Null}, expiresAt : Nat,
   cNonce : Nat, cNonceExpiresAt : Nat]

Origin == [consent : ConsentIds \union {Null}, sent : BOOLEAN]

\* The stores hold entries of the right shape under identifiers that were
\* drawn, and hold nothing while the process is down.
GTypeOK ==
  /\ now \in 0 .. MaxTime
  /\ up \in BOOLEAN
  /\ config \in Configs \union {BadConfig}
  /\ IsMap(consentRecords, DOMAIN asked, ConsentRecord)
  /\ IsMap(preAuthCodes, DOMAIN minted, PreAuthCodeEntry)
  /\ IsMap(accessTokens, DOMAIN redeemed, AccessTokenEntry)
  /\ consentSweepAt \in Nat
  /\ tokenSweepAt \in Nat
  /\ IsMap(asked, ConsentIds, Nat)
  /\ shown \in [ConsentIds -> ClaimSets \union {Null}]
  /\ answer \in [ConsentIds -> {"none", "approved", "declined"}]
  /\ IsMap(minted, Codes, Origin)
  /\ IsMap(redeemed, Tokens, DOMAIN minted)
  /\ ~up => /\ DOMAIN consentRecords = {}
            /\ DOMAIN preAuthCodes = {}
            /\ DOMAIN accessTokens = {}

GInit ==
  /\ now = 0
  /\ up = TRUE
  /\ config \in Configs
  /\ consentRecords = NoEntries
  /\ preAuthCodes = NoEntries
  /\ accessTokens = NoEntries
  /\ consentSweepAt = SWEEP_PERIOD
  /\ tokenSweepAt = SWEEP_PERIOD
  /\ asked = NoEntries
  /\ shown = [c \in ConsentIds |-> Null]
  /\ answer = [c \in ConsentIds |-> "none"]
  /\ minted = NoEntries
  /\ redeemed = NoEntries

-----------------------------------------------------------------------------
(* The process, its clock and its configuration *)

\* The process stops: the Maps are gone, and so are the timers.
Halt ==
  /\ up' = FALSE
  /\ consentRecords' = NoEntries
  /\ preAuthCodes' = NoEntries
  /\ accessTokens' = NoEntries
  /\ UNCHANGED <<now, config, timers, history>>

Crash == Outages /\ up /\ Halt

\* Start-up reads the configuration first and exits when it cannot; the two
\* setInterval timers start counting from here.
Start ==
  /\ ~up
  /\ config # BadConfig
  /\ up' = TRUE
  /\ consentSweepAt' = now + SWEEP_PERIOD
  /\ tokenSweepAt' = now + SWEEP_PERIOD
  /\ UNCHANGED <<now, config, stores, history>>

\* The clock does not run past a timer that is due: the event loop is idle
\* far more often than once per unit of time.
Tick ==
  /\ now < MaxTime
  /\ up => now < consentSweepAt /\ now < tokenSweepAt
  /\ now' = now + 1
  /\ UNCHANGED <<up, config, stores, timers, history>>

\* An administrator saves other settings or mappings, or the file becomes
\* unreadable; loadConfig reads it anew on every call.
ChangeConfig ==
  /\ \E c \in (Configs \union {BadConfig}) \ {config} : config' = c
  /\ UNCHANGED <<now, up, stores, timers, history>>

-----------------------------------------------------------------------------
(* oid4vci/token.ts: issuePreAuthCode *)

\* Draws a code and stores the entry; sent says whether the handler that
\* calls it gets to answer with the offer.
IssuePreAuthCode(k, ty, claims, origin) ==
  /\ k \in Codes \ DOMAIN minted
  /\ preAuthCodes' = MapSet(preAuthCodes, k,
       [type |-> ty, claims |-> claims, expiresAt |-> now + CODE_TTL])
  /\ minted' = MapSet(minted, k, origin)

(* oid4vci/offer.ts: POST /offer, from the answer of the data source on *)

PendingIds ==
  {c \in DOMAIN consentRecords : consentRecords[c].verdict = "PENDING"}

\* Mutant: the bound is off by one.
HasCapacityForOneMore == Cardinality(PendingIds) <= MAX_PENDING_RECORDS

HasCapacity == Cardinality(PendingIds) < MAX_PENDING_RECORDS

\* A template with requiresConsent: a record instead of a code, unless the
\* claims cannot be built (400) or the cap is reached (503).
OfferWithConsent(c, ty) ==
  /\ up
  /\ config # BadConfig
  /\ c \in ConsentIds \ DOMAIN asked
  /\ BuildClaims(ty, config, now) # Null
  /\ HasCapacity
  /\ consentRecords' = MapSet(consentRecords, c,
       [verdict |-> "PENDING", type |-> ty,
        claims |-> BuildClaims(ty, config, now),
        expiresAt |-> now + CONSENT_TTL])
  /\ asked' = MapSet(asked, c, now)
  /\ UNCHANGED <<now, up, config, preAuthCodes, accessTokens, timers,
                 shown, answer, minted, redeemed>>

\* Any other template: a code right away, without a claims snapshot, unless
\* a required field has no mapping (400).
OfferDirectly(k, ty) ==
  /\ up
  /\ config # BadConfig
  /\ MapsFields(ty, config)
  /\ IssuePreAuthCode(k, ty, Null, [consent |-> Null, sent |-> TRUE])
  /\ UNCHANGED <<now, up, config, consentRecords, accessTokens, timers,
                 asked, shown, answer, redeemed>>

\* loadConfig throws inside the async handler: nothing handles the rejected
\* promise and the process ends.
OfferRejects == up /\ config = BadConfig /\ Halt

-----------------------------------------------------------------------------
(* oid4vci/consent.ts *)

\* getConsentRecord evicts an expired record it is asked for.
EvictConsentRecord(c) ==
  /\ Expired(consentRecords[c])
  /\ consentRecords' = MapDelete(consentRecords, {c})
  /\ UNCHANGED <<shown, answer, preAuthCodes, minted>>

\* GET /consent/:id/claims.
GetClaims(c) ==
  /\ up
  /\ c \in DOMAIN consentRecords
  /\ \/ EvictConsentRecord(c)
     \/ /\ ~Expired(consentRecords[c])
        /\ consentRecords[c].verdict = "PENDING"
        /\ shown' = [shown EXCEPT ![c] = consentRecords[c].claims]
        /\ UNCHANGED <<consentRecords, answer, preAuthCodes, minted>>
  /\ UNCHANGED <<now, up, config, accessTokens, timers, asked, redeemed>>

\* What decideConsent leaves of a record: no claims, the same expiry.
TombstoneOf(record, verdict) ==
  [verdict |-> verdict, type |-> Null, claims |-> Null,
   expiresAt |-> record.expiresAt]

\* Mutant: a decided record is not turned away.
UnexpiredOnly(c) == ~Expired(consentRecords[c])

Undecided(c) ==
  ~Expired(consentRecords[c]) /\ consentRecords[c].verdict = "PENDING"

Decline(c) ==
  /\ Undecided(c)
  /\ consentRecords' = MapSet(consentRecords, c,
                              TombstoneOf(consentRecords[c], "DECLINED"))
  /\ answer' = [answer EXCEPT ![c] = "declined"]
  /\ UNCHANGED <<shown, preAuthCodes, minted>>

\* Mutant: the claims are computed again when the holder approves.
RecomputedClaims(record) ==
  IF config \in Configs THEN BuildClaims(record.type, config, now)
  ELSE record.claims

ClaimsSnapshot(record) == record.claims

\* The code is issued with the claims of the record before the offer is
\* built, and the offer before the tombstone replaces the record.
Approve(c, k) ==
  /\ Undecided(c)
  /\ IssuePreAuthCode(k, consentRecords[c].type,
                      ClaimsSnapshot(consentRecords[c]),
                      [consent |-> c, sent |-> config # BadConfig])
  /\ \/ /\ config # BadConfig
        /\ consentRecords' = MapSet(consentRecords, c,
                                    TombstoneOf(consentRecords[c], "APPROVED"))
        /\ answer' = [answer EXCEPT ![c] = "approved"]
     \/ \* buildCredentialOffer throws: 500, and the record stays PENDING
        /\ config = BadConfig
        /\ UNCHANGED <<consentRecords, answer>>
  /\ UNCHANGED shown

\* POST /consent/:id/decide.
Decide(c) ==
  /\ up
  /\ c \in DOMAIN consentRecords
  /\ EvictConsentRecord(c) \/ Decline(c) \/ \E k \in Codes : Approve(c, k)
  /\ UNCHANGED <<now, up, config, accessTokens, timers, asked, redeemed>>

SweepExpiredConsentRecords ==
  /\ up
  /\ now >= consentSweepAt
  /\ consentRecords' = MapDelete(consentRecords, ExpiredKeys(consentRecords))
  /\ consentSweepAt' = now + SWEEP_PERIOD
  /\ UNCHANGED <<now, up, config, preAuthCodes, accessTokens, tokenSweepAt,
                 history>>

-----------------------------------------------------------------------------
(* oid4vci/token.ts *)

\* Mutant: a redeemed code stays in the store until it expires.
CodesKept(k) == preAuthCodes

CodesWithout(k) == MapDelete(preAuthCodes, {k})

\* POST /token with a code some response carried out.
PostToken(k, t) ==
  /\ up
  /\ k \in DOMAIN preAuthCodes
  /\ minted[k].sent
  /\ preAuthCodes' = CodesWithout(k)
  /\ \/ /\ Expired(preAuthCodes[k])
        /\ UNCHANGED <<accessTokens, redeemed>>
     \/ /\ ~Expired(preAuthCodes[k])
        /\ t \in Tokens \ DOMAIN redeemed
        /\ accessTokens' = MapSet(accessTokens, t,
             [type |-> preAuthCodes[k].type, claims |-> preAuthCodes[k].claims,
              expiresAt |-> now + TOKEN_TTL,
              cNonce |-> 0, cNonceExpiresAt |-> now + C_NONCE_TTL])
        /\ redeemed' = MapSet(redeemed, t, k)
  /\ UNCHANGED <<now, up, config, consentRecords, timers, asked, shown,
                 answer, minted>>

\* lookupAccessToken finds an entry; a dead one it evicts.
LiveToken(t) == t \in DOMAIN accessTokens /\ ~Expired(accessTokens[t])

EvictAccessToken(t) ==
  /\ up
  /\ t \in DOMAIN accessTokens
  /\ Expired(accessTokens[t])
  /\ accessTokens' = MapDelete(accessTokens, {t})
  /\ UNCHANGED <<now, up, config, consentRecords, preAuthCodes, timers,
                 history>>

\* Mutant: the nonce stays, only its lifetime starts anew.
ProlongedTokens(t) ==
  IF LiveToken(t)
  THEN [accessTokens EXCEPT ![t].cNonceExpiresAt = now + C_NONCE_TTL]
  ELSE accessTokens

\* rotateNonce: the n-th nonce drawn for a token is the number n.
RotatedTokens(t) ==
  IF LiveToken(t)
  THEN [accessTokens EXCEPT
          ![t].cNonce = @ + 1, ![t].cNonceExpiresAt = now + C_NONCE_TTL]
  ELSE accessTokens

RotateNonce(t) ==
  /\ up
  /\ LiveToken(t)
  /\ accessTokens[t].cNonce < MaxRotations
  /\ accessTokens' = RotatedTokens(t)
  /\ UNCHANGED <<now, up, config, consentRecords, preAuthCodes, timers,
                 history>>

\* Mutant: the sweep forgets the second store.
SweepExpiredCodesOnly ==
  /\ up
  /\ now >= tokenSweepAt
  /\ preAuthCodes' = MapDelete(preAuthCodes, ExpiredKeys(preAuthCodes))
  /\ tokenSweepAt' = now + SWEEP_PERIOD
  /\ UNCHANGED <<now, up, config, consentRecords, accessTokens,
                 consentSweepAt, history>>

SweepExpiredTokens ==
  /\ up
  /\ now >= tokenSweepAt
  /\ preAuthCodes' = MapDelete(preAuthCodes, ExpiredKeys(preAuthCodes))
  /\ accessTokens' = MapDelete(accessTokens, ExpiredKeys(accessTokens))
  /\ tokenSweepAt' = now + SWEEP_PERIOD
  /\ UNCHANGED <<now, up, config, consentRecords, consentSweepAt, history>>

-----------------------------------------------------------------------------

GNext ==
  \/ Crash \/ Start \/ Tick \/ ChangeConfig
  \/ \E c \in ConsentIds, ty \in ConsentTypes : OfferWithConsent(c, ty)
  \/ \E k \in Codes, ty \in DirectTypes : OfferDirectly(k, ty)
  \/ OfferRejects
  \/ \E c \in ConsentIds : GetClaims(c) \/ Decide(c)
  \/ \E k \in Codes, t \in Tokens : PostToken(k, t)
  \/ \E t \in Tokens : EvictAccessToken(t) \/ RotateNonce(t)
  \/ SweepExpiredConsentRecords
  \/ SweepExpiredTokens

GSpec == GInit /\ [][GNext]_gvars

-----------------------------------------------------------------------------
(* Safety *)

ConsentOf(k) == minted[k].consent

\* A token stands for what its holder reviewed: it carries a consent-gated
\* type exactly when its code came from a consent record, that record was
\* approved, and the claims it will be issued with are those the holder's
\* page showed (consent.ts:225-230, token.ts:64-71), whatever happened to the
\* configuration, the clock or the stores in between.
GrantMatchesReview ==
  \A t \in DOMAIN accessTokens :
    LET c == ConsentOf(redeemed[t])
        entry == accessTokens[t]
    IN  /\ entry.type \in ConsentTypes <=> c # Null
        /\ c # Null => /\ answer[c] = "approved"
                       /\ entry.claims # Null
                       /\ shown[c] \in {Null, entry.claims}

\* A code leaves the process only with an approval, and one approval carries
\* out one code, however often POST .../decide is repeated, fails in
\* buildCredentialOffer, or races the expiry of its record.
SentCodesFollowVerdict ==
  \A k \in DOMAIN minted :
    minted[k].sent /\ ConsentOf(k) # Null =>
      /\ answer[ConsentOf(k)] = "approved"
      /\ \A j \in DOMAIN minted :
           minted[j].sent /\ ConsentOf(j) = ConsentOf(k) => j = k

\* POST /token exchanges a code at most once (token.ts:147-157), also when the
\* exchange is repeated at the edge of the code's lifetime.
RedeemedOnce ==
  \A t, u \in DOMAIN redeemed : redeemed[t] = redeemed[u] => t = u

\* How long the stores keep the personal data of one offer: the record, the
\* code and the token each outlive their expiresAt by at most one sweep
\* period (consent.ts:67-90, token.ts:31-60), and the chain of the three is
\* bounded from the moment the holder was asked.
HolderDataRetention ==
  /\ \A c \in PendingIds : now <= asked[c] + CONSENT_TTL + SWEEP_PERIOD
  /\ \A k \in DOMAIN preAuthCodes :
       ConsentOf(k) # Null =>
         now <= asked[ConsentOf(k)] + CONSENT_TTL + CODE_TTL + SWEEP_PERIOD
  /\ \A t \in DOMAIN accessTokens :
       ConsentOf(redeemed[t]) # Null =>
         now <= asked[ConsentOf(redeemed[t])]
                  + CONSENT_TTL + CODE_TTL + TOKEN_TTL + SWEEP_PERIOD

PendingBounded == Cardinality(PendingIds) <= MAX_PENDING_RECORDS

\* The cap on pending records holds, and not at the cost of a holder: a pending
\* record disappears only by its own decision, its own expiry or the end of the
\* process, never to make room for another (consent.ts:60-63, 143, 162-166).
CapWithoutEviction ==
  [][/\ PendingBounded'
     /\ \A c \in PendingIds :
          c \in PendingIds' \/ answer'[c] # answer[c]
          \/ Expired(consentRecords[c]) \/ ~up']_gvars

\* The first answer to POST .../decide is final: no later call changes it or
\* makes the offer undecided again, across expiry, sweeps and restarts.
VerdictFinal ==
  [][\A c \in ConsentIds :
        answer[c] # "none" => answer'[c] = answer[c] /\ c \notin PendingIds']_gvars

\* Stated by the comment at consent.ts:211-215: declining discards holderData
\* and claims at once.
DeclineDiscardsHolderData ==
  \A c \in ConsentIds : answer[c] = "declined" =>
    \A k \in DOMAIN preAuthCodes : ConsentOf(k) # c

-----------------------------------------------------------------------------
(* The promise to the holder *)

StatusOf(c) ==
  CASE c \notin DOMAIN asked                              -> "unasked"
    [] c \in DOMAIN asked /\ answer[c] # "none"           -> answer[c]
    [] /\ c \in DOMAIN asked /\ answer[c] = "none"
       /\ c \in DOMAIN consentRecords                     -> "open"
    [] OTHER                                              -> "lapsed"

GrantsMade ==
  {<<ConsentOf(redeemed[t]), t>> :
      t \in {u \in DOMAIN redeemed : ConsentOf(redeemed[u]) # Null}}

Contract == INSTANCE ConsentContract WITH
  status <- [c \in ConsentIds |-> StatusOf(c)], grants <- GrantsMade

\* The stores, timers and handlers implement the promise.
KeepsContract == Contract!Spec

=============================================================================
