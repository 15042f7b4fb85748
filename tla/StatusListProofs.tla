-------------------------- MODULE StatusListProofs --------------------------
(***************************************************************************)
(* Proofs about StatusList, for every list size, cache lifetime and number *)
(* of concurrent fetches, with the process stopping and writes failing     *)
(* anywhere.                                                               *)
(***************************************************************************)
EXTENDS StatusList, TLAPS

\* What is being signed for a fetch lies between what was revoked when it began
\* and what is revoked now, and what it was answered was revoked.
BuildsCurrent ==
  \A f \in Fetches :
    /\ builds[f] = Null <=> floor[f] = Null
    /\ builds[f] # Null => /\ floor[f] \subseteq builds[f]
                           /\ builds[f] \subseteq revokedIndices
    /\ answers[f] # Null => answers[f] \subseteq revokedIndices

ListInvariant == TypeOK /\ RevocationsAgree /\ BuildsCurrent

-----------------------------------------------------------------------------
(* Types *)

\* The slots assigned are slots of the list.
LEMMA SlotsAreIndices == TypeOK => revokedIndices \subseteq Indices
BY StatusListAssumption DEF TypeOK, Indices

\* The process, the clock, and the handlers that end the process.
LEMMA ProcessType ==
  TypeOK /\ (Crash \/ CrashWhileSaving \/ Start \/ Tick \/ AssignRejects
             \/ FetchRejects \/ RevokeFails) => TypeOK'
<1> SUFFICES ASSUME TypeOK, \/ Crash \/ CrashWhileSaving \/ Start \/ Tick
                            \/ AssignRejects \/ FetchRejects \/ RevokeFails
             PROVE  TypeOK'
  OBVIOUS
<1>1. CASE Crash \/ CrashWhileSaving \/ AssignRejects \/ FetchRejects
  BY <1>1
  DEF Crash, CrashWhileSaving, AssignRejects, FetchRejects, Halt, Idle, store, TypeOK
<1>2. CASE Start
  BY <1>2 DEF Start, store, history, TypeOK
<1>3. CASE Tick
  BY <1>3, StatusListAssumption DEF Tick, store, history, TypeOK
<1>4. CASE RevokeFails
  BY <1>4 DEF RevokeFails, history, TypeOK
<1> QED
  BY <1>1, <1>2, <1>3, <1>4

\* A new entry takes the next slot and keeps the ones before it.
LEMMA AssignReads ==
  ASSUME NEW id \in CredentialIds, TypeOK, AssignStatusIndex(id)
  PROVE  /\ nextIndex' = nextIndex + 1 /\ nextIndex' \in 0 .. LIST_SIZE
         /\ DOMAIN issuedCredentials = 0 .. nextIndex - 1
         /\ 0 .. nextIndex' - 1 = (0 .. nextIndex - 1) \union {nextIndex}
         /\ nextIndex \notin 0 .. nextIndex - 1
         /\ issuedCredentials' \in [0 .. nextIndex' - 1 -> Entry]
         /\ ~issuedCredentials'[nextIndex].revoked
         /\ \A i \in 0 .. nextIndex - 1 :
              issuedCredentials'[i] = issuedCredentials[i]
<1> nextIndex \in Nat /\ LIST_SIZE \in Nat /\ nextIndex < LIST_SIZE
  BY StatusListAssumption DEF TypeOK, AssignStatusIndex, SlotLeft
<1>1. /\ nextIndex' = nextIndex + 1 /\ nextIndex' \in 0 .. LIST_SIZE
      /\ DOMAIN issuedCredentials = 0 .. nextIndex - 1
      /\ 0 .. nextIndex' - 1 = (0 .. nextIndex - 1) \union {nextIndex}
      /\ nextIndex \notin 0 .. nextIndex - 1
      /\ 0 .. nextIndex = 0 .. nextIndex' - 1
  BY DEF TypeOK, AssignStatusIndex
<1>2. [credentialId |-> id, revoked |-> FALSE] \in Entry
  BY DEF Entry
<1>3. \A i \in 0 .. nextIndex - 1 : issuedCredentials[i] \in Entry
  BY DEF TypeOK
<1> QED
  BY <1>1, <1>2, <1>3 DEF AssignStatusIndex, EntriesWith

\* Revoking marks one entry.
LEMMA RevokeReads ==
  ASSUME NEW i \in DOMAIN issuedCredentials, TypeOK
  PROVE  /\ EntriesRevoking(i) \in [0 .. nextIndex - 1 -> Entry]
         /\ EntriesRevoking(i)[i].revoked
         /\ EntriesRevoking(i)[i].credentialId = issuedCredentials[i].credentialId
         /\ \A j \in DOMAIN issuedCredentials :
              j # i => EntriesRevoking(i)[j] = issuedCredentials[j]
<1>1. issuedCredentials \in [0 .. nextIndex - 1 -> Entry]
  BY DEF TypeOK
<1>2. \A e \in Entry : [e EXCEPT !.revoked = TRUE] \in Entry
  BY DEF Entry
<1> QED
  BY <1>1, <1>2 DEF EntriesRevoking, Entry

\* A revocation that is saved, told or not.
LEMMA SavedReads ==
  ASSUME NEW id \in CredentialIds, RevokeCredential(id) \/ RevokeUntold(id)
  PROVE  \E i \in DOMAIN issuedCredentials :
           /\ issuedCredentials[i].credentialId = id
           /\ issuedCredentials' = EntriesRevoking(i)
           /\ revokedIndices' = revokedIndices \union {i}
           /\ acknowledged' \in {acknowledged, acknowledged \union {i}}
           /\ UNCHANGED <<now, readable, nextIndex, answers>>
<1>1. CASE RevokeCredential(id)
  BY <1>1 DEF RevokeCredential, SaveRevoked, Unrevoked
<1>2. CASE RevokeUntold(id)
  BY <1>2 DEF RevokeUntold, SaveRevoked, Unrevoked, Halt
<1> QED
  BY <1>1, <1>2

\* The handlers that write the file.
LEMMA WriteType ==
  ASSUME NEW id \in CredentialIds, TypeOK,
         AssignStatusIndex(id) \/ RevokeCredential(id) \/ RevokeUntold(id)
  PROVE  TypeOK'
<1>1. CASE AssignStatusIndex(id)
  BY <1>1, AssignReads DEF TypeOK, AssignStatusIndex, history
<1>2. CASE RevokeCredential(id) \/ RevokeUntold(id)
  <2> PICK i \in DOMAIN issuedCredentials :
             /\ issuedCredentials' = EntriesRevoking(i)
             /\ revokedIndices' = revokedIndices \union {i}
             /\ acknowledged' \in {acknowledged, acknowledged \union {i}}
             /\ UNCHANGED <<now, readable, nextIndex, answers>>
    BY <1>2, SavedReads
  <2>1. i \in 0 .. nextIndex - 1 /\ i \in Indices
    BY StatusListAssumption DEF TypeOK, Indices
  <2>2. /\ up' \in BOOLEAN
        /\ cachedStatusListJWT' = Null
        /\ builds' \in [Fetches -> {Null} \union SUBSET Indices]
        /\ floor' \in [Fetches -> {Null} \union SUBSET Indices]
        /\ ~up' => \A f \in Fetches : builds'[f] = Null
    BY <1>2 DEF RevokeCredential, RevokeUntold, Halt, Idle, Loaded, TypeOK
  <2> QED
    BY <2>1, <2>2, RevokeReads DEF TypeOK
<1> QED
  BY <1>1, <1>2

\* GET /status/:listId.
LEMMA FetchType ==
  ASSUME NEW f \in Fetches, TypeOK,
         ServeCached(f) \/ StartBuild(f) \/ FinishBuild(f)
  PROVE  TypeOK'
<1>1. CASE ServeCached(f)
  <2>1. cachedStatusListJWT.indices \in SUBSET Indices
    BY <1>1, SlotsAreIndices DEF ServeCached, CacheValid
  <2> QED
    BY <1>1, <2>1 DEF ServeCached, TypeOK, store
<1>2. CASE StartBuild(f)
  BY <1>2, SlotsAreIndices DEF StartBuild, Loaded, TypeOK, store
<1>3. CASE FinishBuild(f)
  <2>1. builds[f] \in SUBSET Indices
    BY <1>3 DEF FinishBuild, Signed, TypeOK
  <2>2. [indices |-> builds[f], timestamp |-> now] \in CachedJWT
    BY <2>1 DEF CachedJWT, TypeOK
  <2> QED
    BY <1>3, <2>1, <2>2 DEF FinishBuild, TypeOK, store
<1> QED
  BY <1>1, <1>2, <1>3

\* Every step keeps the file, the cache and the fetches well typed.
LEMMA NextType == TypeOK /\ [Next]_vars => TypeOK'
<1> SUFFICES ASSUME TypeOK, [Next]_vars
             PROVE  TypeOK'
  OBVIOUS
<1>1. CASE UNCHANGED vars
  BY <1>1 DEF vars, store, history, TypeOK
<1>2. CASE Next
  BY <1>2, ProcessType, WriteType, FetchType DEF Next
<1> QED
  BY <1>1, <1>2

-----------------------------------------------------------------------------
(* The invariant *)

\* It holds of the empty list.
LEMMA InitInvariant == Init => ListInvariant
<1> SUFFICES ASSUME Init
             PROVE  ListInvariant
  OBVIOUS
<1>1. TypeOK
  <2>1. issuedCredentials \in [0 .. nextIndex - 1 -> Entry]
    BY DEF Init
  <2> QED
    BY <2>1, StatusListAssumption DEF Init, Idle, TypeOK
<1>2. RevocationsAgree
  BY DEF Init, RevocationsAgree, Unrevoked
<1>3. BuildsCurrent
  BY DEF Init, Idle, BuildsCurrent
<1> QED
  BY <1>1, <1>2, <1>3 DEF ListInvariant

\* The file and what the console was told agree after every step.
LEMMA NextAgree ==
  ASSUME TypeOK, RevocationsAgree, [Next]_vars
  PROVE  RevocationsAgree'
<1>1. ASSUME NEW id \in CredentialIds, AssignStatusIndex(id)
      PROVE  RevocationsAgree'
  <2>1. DOMAIN issuedCredentials' = DOMAIN issuedCredentials \union {nextIndex}
    BY <1>1, AssignReads
  <2> QED
    BY <1>1, <2>1, AssignReads
    DEF AssignStatusIndex, history, RevocationsAgree, Unrevoked
<1>2. ASSUME NEW id \in CredentialIds, RevokeCredential(id) \/ RevokeUntold(id)
      PROVE  RevocationsAgree'
  <2> PICK i \in DOMAIN issuedCredentials :
             /\ issuedCredentials' = EntriesRevoking(i)
             /\ revokedIndices' = revokedIndices \union {i}
             /\ acknowledged' \in {acknowledged, acknowledged \union {i}}
    BY <1>2, SavedReads
  <2>1. DOMAIN issuedCredentials' = DOMAIN issuedCredentials
    BY RevokeReads DEF TypeOK
  <2> QED
    BY <2>1, RevokeReads DEF RevocationsAgree, Unrevoked
<1>3. CASE UNCHANGED <<issuedCredentials, revokedIndices, acknowledged>>
  BY <1>3 DEF RevocationsAgree, Unrevoked
<1> QED
  BY <1>1, <1>2, <1>3
  DEF Next, vars, store, history, Crash, CrashWhileSaving, Halt, Start, Tick,
      RevokeFails, AssignRejects, FetchRejects, ServeCached, StartBuild,
      FinishBuild

\* What is being signed stays between the two bounds.
LEMMA NextBuilds ==
  ASSUME ListInvariant, [Next]_vars
  PROVE  BuildsCurrent'
<1> builds \in [Fetches -> {Null} \union SUBSET Indices]
    /\ floor \in [Fetches -> {Null} \union SUBSET Indices]
    /\ answers \in [Fetches -> {Null} \union SUBSET Indices]
    /\ revokedIndices \in SUBSET Indices
  BY SlotsAreIndices DEF ListInvariant, TypeOK
<1>1. CASE Crash \/ CrashWhileSaving \/ AssignRejects \/ FetchRejects
  BY <1>1 DEF Crash, CrashWhileSaving, AssignRejects, FetchRejects, Halt, Idle,
              store, ListInvariant, BuildsCurrent
<1>6. ASSUME NEW id \in CredentialIds, RevokeUntold(id)
      PROVE  BuildsCurrent'
  BY <1>6 DEF RevokeUntold, SaveRevoked, Halt, Idle, ListInvariant, BuildsCurrent
<1>2. ASSUME NEW f \in Fetches, StartBuild(f)
      PROVE  BuildsCurrent'
  BY <1>2, NullIsNoSet DEF StartBuild, Loaded, store, ListInvariant, BuildsCurrent
<1>3. ASSUME NEW f \in Fetches, FinishBuild(f)
      PROVE  BuildsCurrent'
  BY <1>3 DEF FinishBuild, store, ListInvariant, BuildsCurrent
<1>4. ASSUME NEW f \in Fetches, ServeCached(f)
      PROVE  BuildsCurrent'
  BY <1>4 DEF ServeCached, CacheValid, store, ListInvariant, BuildsCurrent
<1>5. CASE /\ UNCHANGED <<builds, floor, answers>>
           /\ revokedIndices \subseteq revokedIndices'
  BY <1>5 DEF ListInvariant, BuildsCurrent
<1> QED
  BY <1>1, <1>2, <1>3, <1>4, <1>5, <1>6
  DEF Next, vars, store, history, Start, Tick, AssignStatusIndex,
      RevokeCredential, SaveRevoked, RevokeFails

\* Every step keeps the invariant.
LEMMA NextInvariant == ListInvariant /\ [Next]_vars => ListInvariant'
BY NextType, NextAgree, NextBuilds DEF ListInvariant

\* The invariant holds throughout.
THEOREM ListsInvariant == Spec => []ListInvariant
BY InitInvariant, NextInvariant, PTL DEF Spec

\* The file, the cache and the fetches stay well formed, and no slot lies
\* outside the list (statuslist.ts:75-89).
THEOREM ListTypeCorrect == Spec => []TypeOK
BY ListsInvariant, PTL DEF ListInvariant

\* Every revocation the console was told of is in the file, and the two
\* places of the file that record it agree (statuslist.ts:92-105).
THEOREM RevocationsAlwaysAgree == Spec => []RevocationsAgree
BY ListsInvariant, PTL DEF ListInvariant

-----------------------------------------------------------------------------
(* Steps of the file *)

\* A step keeps the slots, their owners and their revocations.
LEMMA SlotsStay ==
  ASSUME TypeOK, [Next]_vars, NEW i \in DOMAIN issuedCredentials
  PROVE  /\ i \in DOMAIN issuedCredentials'
         /\ issuedCredentials'[i].credentialId
              = issuedCredentials[i].credentialId
         /\ issuedCredentials[i].revoked => issuedCredentials'[i].revoked
<1>1. ASSUME NEW id \in CredentialIds, AssignStatusIndex(id)
      PROVE  /\ i \in DOMAIN issuedCredentials'
             /\ issuedCredentials'[i] = issuedCredentials[i]
  BY <1>1, AssignReads
<1>2. ASSUME NEW id \in CredentialIds, RevokeCredential(id) \/ RevokeUntold(id)
      PROVE  /\ i \in DOMAIN issuedCredentials'
             /\ issuedCredentials'[i].credentialId = issuedCredentials[i].credentialId
             /\ issuedCredentials[i].revoked => issuedCredentials'[i].revoked
  BY <1>2, SavedReads, RevokeReads DEF TypeOK
<1>3. CASE UNCHANGED issuedCredentials
  BY <1>3
<1> QED
  BY <1>1, <1>2, <1>3
  DEF Next, vars, store, Crash, CrashWhileSaving, Start, Tick, RevokeFails,
      AssignRejects, FetchRejects, ServeCached, StartBuild, FinishBuild

\* A slot belongs to one credential for ever and stays revoked once it is
\* (statuslist.ts:75-105).
THEOREM SlotsNeverReused == Spec => SlotsPermanent
<1>1. TypeOK /\ [Next]_vars =>
        [\A i \in DOMAIN issuedCredentials :
           /\ i \in DOMAIN issuedCredentials'
           /\ issuedCredentials'[i].credentialId = issuedCredentials[i].credentialId
           /\ issuedCredentials[i].revoked => issuedCredentials'[i].revoked]_vars
  BY SlotsStay
<1> QED
  BY <1>1, ListTypeCorrect, PTL DEF Spec, SlotsPermanent

\* A step over a torn file leaves the file and what was acknowledged alone, and
\* begins no signature.
LEMMA TornStays ==
  ASSUME Next, ~readable
  PROVE  /\ UNCHANGED <<store, acknowledged>>
         /\ \/ UNCHANGED <<builds, answers>>
            \/ builds' = Idle /\ answers' = answers
            \/ \E f \in Fetches : FinishBuild(f)
<1>1. ~Loaded
  BY DEF Loaded
<1> QED
  BY <1>1
  DEF Next, store, history, Crash, CrashWhileSaving, Halt, Start, Tick,
      AssignStatusIndex, RevokeCredential, RevokeUntold, RevokeFails,
      AssignRejects, FetchRejects, ServeCached, StartBuild, FinishBuild

\* A torn file is not extended, written over or read as empty, by a process that
\* went on or by its successors: no slot, no acknowledgement and no signature
\* come of it, and a fetch is answered only with what it had read before
\* (statuslist.ts:43-57, 105, 180-204).
THEOREM TornFilesFailClosed == Spec => TornFileFailsClosed
<1>1. TypeOK /\ [Next]_vars =>
        [~readable =>
           /\ UNCHANGED <<store, acknowledged>>
           /\ \A f \in Fetches :
                /\ builds'[f] \in {builds[f], Null}
                /\ answers'[f] # answers[f] =>
                     builds[f] # Null /\ answers'[f] = builds[f]]_vars
  <2> SUFFICES ASSUME TypeOK, Next, ~readable
               PROVE  /\ UNCHANGED <<store, acknowledged>>
                      /\ \A f \in Fetches :
                           /\ builds'[f] \in {builds[f], Null}
                           /\ answers'[f] # answers[f] =>
                                builds[f] # Null /\ answers'[f] = builds[f]
    OBVIOUS
  <2>1. ASSUME NEW f \in Fetches, NEW g \in Fetches, FinishBuild(g)
        PROVE  /\ builds'[f] \in {builds[f], Null}
               /\ answers'[f] # answers[f] =>
                    builds[f] # Null /\ answers'[f] = builds[f]
    BY <2>1 DEF FinishBuild, Signed, TypeOK
  <2> QED
    BY <2>1, TornStays DEF Idle
<1> QED
  BY <1>1, ListTypeCorrect, PTL DEF Spec, TornFileFailsClosed

-----------------------------------------------------------------------------
(* The promise to the verifier *)

\* Owners are credentials, and more slots have more owners.
LEMMA OwnersType ==
  ASSUME TypeOK, NEW S, S \subseteq DOMAIN issuedCredentials
  PROVE  /\ OwnersOf(S) \in SUBSET CredentialIds
         /\ OwnersOf(S) # Null
         /\ \A T \in SUBSET S : OwnersOf(T) \subseteq OwnersOf(S)
<1>1. OwnersOf(S) \in SUBSET CredentialIds
  BY DEF TypeOK, Entry, OwnersOf
<1>2. \A T \in SUBSET S : OwnersOf(T) \subseteq OwnersOf(S)
  BY DEF OwnersOf
<1> QED
  BY <1>1, <1>2, NullIsNoSet

\* The slots that were given out keep their owners.
LEMMA OwnersStay ==
  ASSUME TypeOK, [Next]_vars, NEW S, S \subseteq DOMAIN issuedCredentials
  PROVE  {issuedCredentials'[i].credentialId : i \in S} = OwnersOf(S)
<1>1. \A i \in S : issuedCredentials'[i].credentialId
                     = issuedCredentials[i].credentialId
  BY SlotsStay
<1> QED
  BY <1>1 DEF OwnersOf

\* A fetch that holds nothing reads as such, and one that holds slots as their
\* owners.
LEMMA ByFetchReads ==
  ASSUME TypeOK, NEW slots, NEW f \in Fetches,
         slots[f] # Null => slots[f] \subseteq DOMAIN issuedCredentials
  PROVE  /\ OwnersByFetch(slots)[f] =
              IF slots[f] = Null THEN Null ELSE OwnersOf(slots[f])
         /\ OwnersByFetch(slots)[f] = Null <=> slots[f] = Null
BY OwnersType DEF OwnersByFetch

\* Changing what one fetch holds.
LEMMA ByFetchChanges ==
  ASSUME NEW slots \in [Fetches -> {Null} \union SUBSET Indices],
         NEW f \in Fetches, NEW S
  PROVE  OwnersByFetch([slots EXCEPT ![f] = S])
           = [OwnersByFetch(slots) EXCEPT
                ![f] = IF S = Null THEN Null ELSE OwnersOf(S)]
BY DEF OwnersByFetch

\* How the registry reads after a step: the slots in its variables were all
\* given out before.
LEMMA RegistryReads ==
  ASSUME ListInvariant, [Next]_vars
  PROVE  /\ OwnersOf(revokedIndices)' = OwnersOf(revokedIndices')
         /\ OwnersByFetch(floor)' = OwnersByFetch(floor')
         /\ OwnersByFetch(answers)' = OwnersByFetch(answers')
<1>1. TypeOK /\ RevocationsAgree /\ BuildsCurrent'
  BY NextInvariant DEF ListInvariant
<1>2. revokedIndices' \subseteq DOMAIN issuedCredentials
  BY <1>1
  DEF RevocationsAgree, Next, vars, store, Crash, CrashWhileSaving, Start, Tick,
      AssignStatusIndex, RevokeCredential, RevokeUntold, SaveRevoked, Unrevoked,
      RevokeFails, AssignRejects, FetchRejects, ServeCached, StartBuild,
      FinishBuild
<1>3. \A f \in Fetches :
        /\ floor'[f] # Null => floor'[f] \subseteq revokedIndices'
        /\ answers'[f] # Null => answers'[f] \subseteq revokedIndices'
  BY <1>1 DEF BuildsCurrent
<1>4. \A S : S \subseteq DOMAIN issuedCredentials =>
        {issuedCredentials'[i].credentialId : i \in S} = OwnersOf(S)
  BY <1>1, OwnersStay
<1>5. OwnersOf(revokedIndices)' = OwnersOf(revokedIndices')
  <2>1. OwnersOf(revokedIndices)'
          = {issuedCredentials'[i].credentialId : i \in revokedIndices'}
    BY DEF OwnersOf
  <2> QED
    BY <1>2, <1>4, <2>1
<1>6. \A f \in Fetches :
        /\ floor'[f] # Null =>
             {issuedCredentials'[i].credentialId : i \in floor'[f]}
               = OwnersOf(floor'[f])
        /\ answers'[f] # Null =>
             {issuedCredentials'[i].credentialId : i \in answers'[f]}
               = OwnersOf(answers'[f])
  BY <1>2, <1>3, <1>4
<1>7. OwnersByFetch(floor)' = OwnersByFetch(floor')
  <2>1. OwnersByFetch(floor)' =
          [f \in Fetches |->
             IF floor'[f] = Null THEN Null
             ELSE {issuedCredentials'[i].credentialId : i \in floor'[f]}]
    BY DEF OwnersByFetch, OwnersOf
  <2> QED
    BY <1>6, <2>1 DEF OwnersByFetch
<1>8. OwnersByFetch(answers)' = OwnersByFetch(answers')
  <2>1. OwnersByFetch(answers)' =
          [f \in Fetches |->
             IF answers'[f] = Null THEN Null
             ELSE {issuedCredentials'[i].credentialId : i \in answers'[f]}]
    BY DEF OwnersByFetch, OwnersOf
  <2> QED
    BY <1>6, <2>1 DEF OwnersByFetch
<1> QED
  BY <1>5, <1>7, <1>8

\* Every step is a step of the registry or none.
LEMMA NextRegistry ==
  ListInvariant /\ [Next]_vars => [Registry!Next]_Registry!registryVars
<1> SUFFICES ASSUME ListInvariant, [Next]_vars
             PROVE  Registry!Next \/ UNCHANGED Registry!registryVars
  OBVIOUS
<1> /\ builds \in [Fetches -> {Null} \union SUBSET Indices]
    /\ floor \in [Fetches -> {Null} \union SUBSET Indices]
    /\ answers \in [Fetches -> {Null} \union SUBSET Indices]
    /\ revokedIndices \in SUBSET Indices
    /\ revokedIndices \subseteq DOMAIN issuedCredentials
    /\ TypeOK
    /\ BuildsCurrent
  BY SlotsAreIndices DEF ListInvariant, TypeOK, RevocationsAgree
<1>a. /\ OwnersOf(revokedIndices)' = OwnersOf(revokedIndices')
      /\ OwnersByFetch(floor)' = OwnersByFetch(floor')
      /\ OwnersByFetch(answers)' = OwnersByFetch(answers')
  BY RegistryReads
<1>b. \A f \in Fetches :
        /\ OwnersByFetch(floor)[f] =
             IF floor[f] = Null THEN Null ELSE OwnersOf(floor[f])
        /\ OwnersByFetch(floor)[f] = Null <=> floor[f] = Null
  BY ByFetchReads DEF BuildsCurrent
<1>c. OwnersByFetch(Idle) = Registry!NoFetch
  BY DEF OwnersByFetch, Idle, Registry!NoFetch
<1>1. CASE Crash \/ CrashWhileSaving \/ AssignRejects \/ FetchRejects
  <2>1. floor' = Idle /\ revokedIndices' = revokedIndices /\ answers' = answers
    BY <1>1
    DEF Crash, CrashWhileSaving, AssignRejects, FetchRejects, Halt, store
  <2>2. Registry!Abandon
    BY <1>a, <1>c, <2>1 DEF Registry!Abandon
  <2> QED
    BY <2>2 DEF Registry!Next
<1>2. ASSUME NEW id \in CredentialIds, RevokeCredential(id) \/ RevokeUntold(id)
      PROVE  Registry!Next
  <2>1. PICK i \in DOMAIN issuedCredentials :
             /\ issuedCredentials[i].credentialId = id
             /\ revokedIndices' = revokedIndices \union {i}
             /\ answers' = answers
    BY <1>2, SavedReads
  <2>2. floor' \in {floor, Idle}
    BY <1>2 DEF RevokeCredential, RevokeUntold, Halt
  <2>3. OwnersOf(revokedIndices \union {i})
          = OwnersOf(revokedIndices) \union {id}
    BY <2>1 DEF OwnersOf
  <2>4. Registry!Revoke(id)
    BY <1>a, <1>c, <2>1, <2>2, <2>3 DEF Registry!Revoke
  <2> QED
    BY <2>4 DEF Registry!Next
<1>3. ASSUME NEW f \in Fetches, ServeCached(f)
      PROVE  Registry!Next
  <2>1. /\ answers' = [answers EXCEPT ![f] = revokedIndices]
        /\ floor' = floor /\ revokedIndices' = revokedIndices
        /\ floor[f] = Null
    BY <1>3 DEF ServeCached, CacheValid, BuildsCurrent, store
  <2>2. revokedIndices # Null
    BY NullIsNoSet DEF TypeOK
  <2>3. OwnersByFetch(answers')
          = [OwnersByFetch(answers) EXCEPT ![f] = OwnersOf(revokedIndices)]
    <3>1. OwnersByFetch([answers EXCEPT ![f] = revokedIndices])
            = [OwnersByFetch(answers) EXCEPT
                 ![f] = IF revokedIndices = Null THEN Null
                        ELSE OwnersOf(revokedIndices)]
      BY ByFetchChanges
    <3> QED
      BY <2>1, <2>2, <3>1
  <2>4. Registry!AnswerAtOnce(f)
    BY <1>a, <1>b, <2>1, <2>3 DEF Registry!AnswerAtOnce
  <2> QED
    BY <2>4 DEF Registry!Next
<1>4. ASSUME NEW f \in Fetches, StartBuild(f)
      PROVE  Registry!Next
  <2>1. /\ floor' = [floor EXCEPT ![f] = revokedIndices]
        /\ answers' = answers /\ revokedIndices' = revokedIndices
        /\ floor[f] = Null
    BY <1>4 DEF StartBuild, BuildsCurrent, store
  <2>2. revokedIndices # Null
    BY NullIsNoSet DEF TypeOK
  <2>3. OwnersByFetch(floor')
          = [OwnersByFetch(floor) EXCEPT ![f] = OwnersOf(revokedIndices)]
    <3>1. OwnersByFetch([floor EXCEPT ![f] = revokedIndices])
            = [OwnersByFetch(floor) EXCEPT
                 ![f] = IF revokedIndices = Null THEN Null
                        ELSE OwnersOf(revokedIndices)]
      BY ByFetchChanges
    <3> QED
      BY <2>1, <2>2, <3>1
  <2>4. Registry!Begin(f)
    BY <1>a, <1>b, <2>1, <2>3 DEF Registry!Begin
  <2> QED
    BY <2>4 DEF Registry!Next
<1>5. ASSUME NEW f \in Fetches, FinishBuild(f)
      PROVE  Registry!Next
  <2> DEFINE S == builds[f]
  <2>1. /\ S # Null /\ floor[f] # Null
        /\ floor[f] \subseteq S /\ S \subseteq revokedIndices
        /\ floor' = [floor EXCEPT ![f] = Null]
        /\ answers' = [answers EXCEPT ![f] = S]
        /\ revokedIndices' = revokedIndices
    BY <1>5 DEF FinishBuild, Signed, BuildsCurrent, store
  <2> HIDE DEF S
  <2>2. /\ OwnersOf(S) \in SUBSET CredentialIds
        /\ OwnersOf(floor[f]) \subseteq OwnersOf(S)
    BY <2>1, OwnersType
  <2>3. OwnersOf(S) \subseteq OwnersOf(revokedIndices)
    BY <2>1, OwnersType
  <2>4. OwnersByFetch(floor') = [OwnersByFetch(floor) EXCEPT ![f] = Null]
    BY <2>1, ByFetchChanges
  <2>5. OwnersByFetch(answers')
          = [OwnersByFetch(answers) EXCEPT ![f] = OwnersOf(S)]
    BY <2>1, ByFetchChanges
  <2>6. Registry!Answer(f, OwnersOf(S))
    BY <1>a, <1>b, <2>1, <2>2, <2>3, <2>4, <2>5 DEF Registry!Answer
  <2> QED
    BY <2>2, <2>6 DEF Registry!Next
<1>6. CASE revokedIndices' = revokedIndices /\ floor' = floor /\ answers' = answers
  BY <1>a, <1>6 DEF Registry!registryVars
<1> QED
  BY <1>1, <1>2, <1>3, <1>4, <1>5, <1>6
  DEF Next, vars, store, history, Start, Tick, AssignStatusIndex, RevokeFails

\* The slots, their cached and concurrently signed lists and their owners
\* implement the registry: what a verifier is answered reports every credential
\* whose revocation was recorded before it asked, and none that is not revoked
\* (statuslist.ts:75-108, 163-204).
THEOREM ListsKeepRegistry == Spec => KeepsRegistry
<1>1. Init => Registry!Init
  BY DEF Init, Idle, OwnersOf, OwnersByFetch, Registry!Init, Registry!NoFetch
<1> QED
  BY <1>1, NextRegistry, ListsInvariant, PTL DEF Spec, KeepsRegistry, Registry!Spec

\* No two entries of the file name one credential.
EntriesDistinct ==
  \A i, j \in DOMAIN issuedCredentials :
    issuedCredentials[i].credentialId = issuedCredentials[j].credentialId => i = j

\* A new entry names a new credential, and the others stay as they are.
LEMMA NextDistinct ==
  TypeOK /\ EntriesDistinct /\ [Next]_vars => EntriesDistinct'
<1> SUFFICES ASSUME TypeOK, EntriesDistinct, [Next]_vars
             PROVE  EntriesDistinct'
  OBVIOUS
<1>1. ASSUME NEW id \in CredentialIds, AssignStatusIndex(id)
      PROVE  EntriesDistinct'
  <2>1. /\ DOMAIN issuedCredentials' = DOMAIN issuedCredentials \union {nextIndex}
        /\ \A i \in DOMAIN issuedCredentials :
             issuedCredentials'[i] = issuedCredentials[i]
    BY <1>1, AssignReads
  <2>2. issuedCredentials'[nextIndex].credentialId = id
    BY <1>1, AssignReads DEF AssignStatusIndex, EntriesWith
  <2>3. \A i \in DOMAIN issuedCredentials : issuedCredentials[i].credentialId # id
    BY <1>1 DEF AssignStatusIndex
  <2> QED
    BY <2>1, <2>2, <2>3 DEF EntriesDistinct
<1>2. ASSUME NEW id \in CredentialIds, RevokeCredential(id) \/ RevokeUntold(id)
      PROVE  EntriesDistinct'
  <2>1. /\ DOMAIN issuedCredentials' = DOMAIN issuedCredentials
        /\ \A i \in DOMAIN issuedCredentials :
             issuedCredentials'[i].credentialId = issuedCredentials[i].credentialId
    BY <1>2, SavedReads, RevokeReads, SlotsStay DEF TypeOK
  <2> QED
    BY <2>1 DEF EntriesDistinct
<1>3. CASE UNCHANGED issuedCredentials
  BY <1>3 DEF EntriesDistinct
<1> QED
  BY <1>1, <1>2, <1>3
  DEF Next, vars, store, Crash, CrashWhileSaving, Start, Tick, RevokeFails,
      AssignRejects, FetchRejects, ServeCached, StartBuild, FinishBuild

\* What the registry says of a credential is what the bit of its slot says to a
\* verifier (statuslist.ts:64-72, 92-105).
THEOREM BitsMeanTheirCredentials == Spec => []BitsMeanCredentials
<1>1. Init => EntriesDistinct
  BY DEF Init, EntriesDistinct
<1>2. ListInvariant /\ EntriesDistinct => BitsMeanCredentials
  <2> SUFFICES ASSUME ListInvariant, EntriesDistinct,
                      NEW f \in Fetches, NEW i \in DOMAIN issuedCredentials,
                      answers[f] # Null
               PROVE  i \in answers[f]
                        <=> issuedCredentials[i].credentialId
                              \in OwnersByFetch(answers)[f]
    BY DEF BitsMeanCredentials
  <2>1. answers[f] \subseteq DOMAIN issuedCredentials
    BY DEF ListInvariant, BuildsCurrent, RevocationsAgree
  <2>2. OwnersByFetch(answers)[f] = OwnersOf(answers[f])
    BY DEF OwnersByFetch
  <2> QED
    BY <2>1, <2>2 DEF OwnersOf, EntriesDistinct
<1>3. ListInvariant => TypeOK
  BY DEF ListInvariant
<1> QED
  BY <1>1, <1>2, <1>3, NextDistinct, ListsInvariant, PTL DEF Spec

=============================================================================
