----------------------------- MODULE StatusList -----------------------------
(***************************************************************************)
(* The revocation status list (revocation/statuslist.ts, router.ts): a     *)
(* JSON file, rewritten as a whole by the synchronous handlers that assign *)
(* and revoke, and a signed list served to verifiers from a cache.  A      *)
(* fetch that misses the cache waits for a signature while other handlers  *)
(* run, and fills the cache when the signature is there.                   *)
(*                                                                         *)
(* The process may stop at any point, also in the middle of rewriting the  *)
(* file, and a write may fail while the process goes on: the file is then  *)
(* no JSON document any more.                                              *)
(*                                                                         *)
(* A fetch loads the file, waits for the key pair (line 165) and looks at  *)
(* the cache.  The pair is cached, so that the wait is one turn of the     *)
(* microtask queue, in which no handler that writes the file can run: the  *)
(* three are one step here.                                                *)
(***************************************************************************)
EXTENDS Naturals

CONSTANTS
  CredentialIds,    \* identifiers POST /credentials draws
  Fetches,          \* slots for GET /status/:listId in flight
  LIST_SIZE,
  STATUSLIST_CACHE_TTL,
  Null,
  MaxTime,          \* bound of the model: the clock stops here
  Outages           \* the environment may stop the process or fail a write

ASSUME StatusListAssumption ==
  /\ LIST_SIZE \in Nat
  /\ STATUSLIST_CACHE_TTL \in Nat
  /\ MaxTime \in Nat
  /\ Outages \in BOOLEAN
  /\ Null \notin CredentialIds \union Nat

Indices == 0 .. LIST_SIZE - 1

ASSUME NullIsNoSet ==
  /\ \A S \in SUBSET Indices : S # Null
  /\ \A S \in SUBSET CredentialIds : S # Null

VARIABLES
  now,
  up,
  readable,             \* statuslist.json holds a JSON document
  nextIndex,            \* the fields it holds, or held last: the next slot,
  issuedCredentials,    \* slot |-> the credential and whether it is revoked,
  revokedIndices,       \* the slots whose bit is set
  cachedStatusListJWT,  \* Null, or the indices and the time of a signature
  builds                \* fetch |-> the indices being signed, or Null

\* History.
VARIABLES
  acknowledged,         \* slots whose revocation was answered with success
  floor,                \* fetch in flight |-> revokedIndices when it began
  answers               \* fetch |-> indices in the last list it was sent

store   == <<readable, nextIndex, issuedCredentials, revokedIndices>>
history == <<acknowledged, floor, answers>>
vars    == <<now, up, store, cachedStatusListJWT, builds, history>>

-----------------------------------------------------------------------------

Entry == [credentialId : CredentialIds, revoked : BOOLEAN]

CachedJWT == [indices : SUBSET Indices, timestamp : 0 .. MaxTime]

TypeOK ==
  /\ now \in 0 .. MaxTime
  /\ up \in BOOLEAN
  /\ readable \in BOOLEAN
  /\ nextIndex \in 0 .. LIST_SIZE
  /\ issuedCredentials \in [0 .. nextIndex - 1 -> Entry]
  /\ revokedIndices \subseteq 0 .. nextIndex - 1
  /\ cachedStatusListJWT \in {Null} \union CachedJWT
  /\ builds \in [Fetches -> {Null} \union SUBSET Indices]
  /\ acknowledged \subseteq Indices
  /\ floor \in [Fetches -> {Null} \union SUBSET Indices]
  /\ answers \in [Fetches -> {Null} \union SUBSET Indices]
  /\ ~up => cachedStatusListJWT = Null /\ \A f \in Fetches : builds[f] = Null

Idle == [f \in Fetches |-> Null]

Init ==
  /\ now = 0
  /\ up = TRUE
  /\ readable = TRUE
  /\ nextIndex = 0
  /\ issuedCredentials = [i \in {} |-> Null]
  /\ revokedIndices = {}
  /\ cachedStatusListJWT = Null
  /\ builds = Idle
  /\ acknowledged = {}
  /\ floor = Idle
  /\ answers = Idle

-----------------------------------------------------------------------------
(* The process and its clock *)

Halt ==
  /\ up' = FALSE
  /\ cachedStatusListJWT' = Null
  /\ builds' = Idle
  /\ floor' = Idle
  /\ UNCHANGED <<now, acknowledged, answers>>

Crash == Outages /\ up /\ Halt /\ UNCHANGED store

Unrevoked == {i \in DOMAIN issuedCredentials : ~issuedCredentials[i].revoked}

\* The process stops while saveStore rewrites the file (a new entry or a
\* revocation is being saved), or because the write of a new entry fails, which
\* rejects an asynchronous handler: nobody is answered.
CrashWhileSaving ==
  /\ Outages /\ up /\ readable
  /\ nextIndex < LIST_SIZE \/ Unrevoked # {}
  /\ Halt
  /\ readable' = FALSE
  /\ UNCHANGED <<nextIndex, issuedCredentials, revokedIndices>>

Start ==
  /\ ~up
  /\ up' = TRUE
  /\ UNCHANGED <<now, store, cachedStatusListJWT, builds, history>>

Tick ==
  /\ now < MaxTime
  /\ now' = now + 1
  /\ UNCHANGED <<up, store, cachedStatusListJWT, builds, history>>

-----------------------------------------------------------------------------
(* The handlers that write the file *)

\* Mutant: a file that does not parse is taken for an empty one.
LoadedAnyhow == up

\* loadStore throws on a file that does not parse.
Loaded == up /\ readable

\* Mutant: the bound of the list is off by one.
SlotLeftOrFull == nextIndex <= LIST_SIZE

SlotLeft == nextIndex < LIST_SIZE

\* Mutant: the slot of a revoked credential is used again.
EntriesRecycling(id) ==
  LET slot == IF revokedIndices # {} THEN CHOOSE i \in revokedIndices : TRUE
              ELSE nextIndex
  IN  [i \in 0 .. nextIndex |->
         IF i \in {slot, nextIndex} THEN [credentialId |-> id, revoked |-> FALSE]
         ELSE issuedCredentials[i]]

EntriesWith(id) ==
  [i \in 0 .. nextIndex |->
     IF i = nextIndex THEN [credentialId |-> id, revoked |-> FALSE]
     ELSE issuedCredentials[i]]

\* assignStatusIndex, for a credential about to be signed.
AssignStatusIndex(id) ==
  /\ Loaded
  /\ SlotLeft
  /\ \A i \in DOMAIN issuedCredentials : issuedCredentials[i].credentialId # id
  /\ nextIndex' = nextIndex + 1
  /\ issuedCredentials' = EntriesWith(id)
  /\ UNCHANGED <<now, up, readable, revokedIndices, cachedStatusListJWT,
                 builds, history>>

\* assignStatusIndex inside POST /credentials, which is asynchronous: a full
\* list or an unreadable file rejects its promise and ends the process.
AssignRejects ==
  /\ up
  /\ ~readable \/ ~SlotLeft
  /\ Halt
  /\ UNCHANGED store

\* Mutant: only the bit of the list is set.
EntriesUnmarked(i) == issuedCredentials

EntriesRevoking(i) == [issuedCredentials EXCEPT ![i].revoked = TRUE]

SaveRevoked(i) ==
  /\ issuedCredentials' = EntriesRevoking(i)
  /\ revokedIndices' = revokedIndices \union {i}
  /\ UNCHANGED <<readable, nextIndex>>

\* POST /admin/revoke and /admin/api/credentials/:id/revoke, which find the
\* entry by its credential id.
RevokeCredential(id) ==
  \E i \in Unrevoked :
    /\ Loaded
    /\ issuedCredentials[i].credentialId = id
    /\ SaveRevoked(i)
    /\ cachedStatusListJWT' = Null
    /\ acknowledged' = acknowledged \union {i}
    /\ UNCHANGED <<now, up, builds, floor, answers>>

\* The same, and the process stops between the save and the answer.
RevokeUntold(id) ==
  \E i \in Unrevoked :
    /\ Outages /\ Loaded
    /\ issuedCredentials[i].credentialId = id
    /\ SaveRevoked(i)
    /\ Halt

\* The write of a revocation fails (a full disk, say) and leaves the file
\* torn.  The handler is synchronous: it throws, Express answers 500, and the
\* process goes on, with the cache and the signatures under way as they were.
RevokeFails ==
  /\ Outages /\ Loaded
  /\ Unrevoked # {}
  /\ readable' = FALSE
  /\ UNCHANGED <<now, up, nextIndex, issuedCredentials, revokedIndices,
                 cachedStatusListJWT, builds, history>>

-----------------------------------------------------------------------------
(* GET /status/:listId *)

\* Mutant: the cache is trusted until its lifetime ends.
CacheUnexpired ==
  /\ cachedStatusListJWT # Null
  /\ now - cachedStatusListJWT.timestamp < STATUSLIST_CACHE_TTL

\* revokedIndicesHash determines the set of indices that was signed.
CacheValid ==
  /\ cachedStatusListJWT # Null
  /\ cachedStatusListJWT.indices = revokedIndices
  /\ now - cachedStatusListJWT.timestamp < STATUSLIST_CACHE_TTL

ServeCached(f) ==
  /\ Loaded
  /\ builds[f] = Null
  /\ CacheValid
  /\ answers' = [answers EXCEPT ![f] = cachedStatusListJWT.indices]
  /\ UNCHANGED <<now, up, store, cachedStatusListJWT, builds, acknowledged,
                 floor>>

StartBuild(f) ==
  /\ Loaded
  /\ builds[f] = Null
  /\ ~CacheValid
  /\ builds' = [builds EXCEPT ![f] = revokedIndices]
  /\ floor' = [floor EXCEPT ![f] = revokedIndices]
  /\ UNCHANGED <<now, up, store, cachedStatusListJWT, acknowledged, answers>>

\* Mutant: a signature that a revocation has overtaken is thrown away.
SignedCurrent(f) == builds[f] \notin {Null} /\ builds[f] = revokedIndices

Signed(f) == builds[f] # Null

\* The signature is there: the cache is filled and the fetch answered, whatever
\* cache and file hold by now.
FinishBuild(f) ==
  /\ up
  /\ Signed(f)
  /\ cachedStatusListJWT' = [indices |-> builds[f], timestamp |-> now]
  /\ answers' = [answers EXCEPT ![f] = builds[f]]
  /\ builds' = [builds EXCEPT ![f] = Null]
  /\ floor' = [floor EXCEPT ![f] = Null]
  /\ UNCHANGED <<now, up, store, acknowledged>>

\* getListId throws inside the asynchronous handler.  (So does loadConfig when
\* it cannot read the configuration, which is no part of this module: that is
\* one more moment for Crash.)
FetchRejects == up /\ ~readable /\ Halt /\ UNCHANGED store

-----------------------------------------------------------------------------

Next ==
  \/ Crash \/ CrashWhileSaving \/ Start \/ Tick
  \/ \E id \in CredentialIds :
       AssignStatusIndex(id) \/ RevokeCredential(id) \/ RevokeUntold(id)
  \/ RevokeFails \/ AssignRejects \/ FetchRejects
  \/ \E f \in Fetches : ServeCached(f) \/ StartBuild(f) \/ FinishBuild(f)

Spec == Init /\ [][Next]_vars

\* WebCrypto settles the signature and the event loop resumes the handler.
FairSpec == Spec /\ \A f \in Fetches : WF_vars(FinishBuild(f))

-----------------------------------------------------------------------------
(* Properties *)

\* A list names slots, and a verifier looks up the slot of the credential it
\* was shown: the credentials whose slots are in S.
OwnersOf(S) == {issuedCredentials[i].credentialId : i \in S}

OwnersByFetch(slots) ==
  [f \in Fetches |-> IF slots[f] = Null THEN Null ELSE OwnersOf(slots[f])]

\* A fetch that gets an answer learns of every credential whose revocation was
\* recorded before it began, acknowledged or not, and of none that was not
\* revoked by then or since, although signatures taken before a revocation fill
\* the cache after it, in any order, a save fails meanwhile, and new credentials
\* are given slots (statuslist.ts:75-108, 163-204).
Registry == INSTANCE RevocationRegistry WITH
  revoked <- OwnersOf(revokedIndices),
  floor   <- OwnersByFetch(floor),
  answers <- OwnersByFetch(answers)

KeepsRegistry == Registry!Spec

\* The registry reads the lists as a verifier does: a credential is reported
\* exactly when the bit of the slot signed into it is set, because no two
\* entries name one credential.
BitsMeanCredentials ==
  \A f \in Fetches, i \in DOMAIN issuedCredentials :
    answers[f] # Null =>
      (i \in answers[f]
         <=> issuedCredentials[i].credentialId \in OwnersByFetch(answers)[f])

\* Every revocation the console was told of is in the file, also when a save
\* fails or the process stops before the console is told, and the flag the
\* console reads agrees with the list verifiers read (statuslist.ts:92-105).
RevocationsAgree ==
  /\ acknowledged \subseteq revokedIndices
  /\ revokedIndices = DOMAIN issuedCredentials \ Unrevoked

\* A slot belongs to one credential for ever, and a revocation is never taken
\* back: not by an assignment, a restart or a later revocation
\* (statuslist.ts:75-105).
SlotsPermanent ==
  [][\A i \in DOMAIN issuedCredentials :
        /\ i \in DOMAIN issuedCredentials'
        /\ issuedCredentials'[i].credentialId = issuedCredentials[i].credentialId
        /\ issuedCredentials[i].revoked => issuedCredentials'[i].revoked]_vars

\* A torn file is never extended, written over or read as an empty list, whether
\* the process stopped over it or goes on after a failed save: no slot is
\* assigned, no revocation acknowledged and no signature begun.  The fetches that
\* had read the file before it was torn may still be answered, each with what it
\* read (statuslist.ts:43-57, 105, 180-204).
TornFileFailsClosed ==
  [][~readable =>
       /\ UNCHANGED <<store, acknowledged>>
       /\ \A f \in Fetches :
            /\ builds'[f] \in {builds[f], Null}
            /\ answers'[f] # answers[f] =>
                 builds[f] # Null /\ answers'[f] = builds[f]]_vars

\* Every fetch that waits for a signature is answered, unless the process
\* stops.
FetchesAnswered == \A f \in Fetches : builds[f] # Null ~> builds[f] = Null

=============================================================================
