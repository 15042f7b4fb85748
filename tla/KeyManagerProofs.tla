-------------------------- MODULE KeyManagerProofs --------------------------
(***************************************************************************)
(* Proofs about KeyManager.  The types hold for any number of rotations in *)
(* flight.  What the DID document promises holds, for any number of keys,  *)
(* requests and crashes, in every behaviour whose rotations do not         *)
(* overlap; the run keys_overlapping shows that it fails with two that do. *)
(***************************************************************************)
EXTENDS KeyManager, TLAPS

-----------------------------------------------------------------------------
(* Types *)

\* Archiving keeps the history a list of drawn keys.
LEMMA ArchiveType ==
  ASSUME TypeOK
  PROVE  HistoryWithCurrent \in Seq(drawn)
BY DEF TypeOK, HistoryWithCurrent

\* Every step keeps the files, the cached pair and the rotations well typed.
LEMMA NextType == TypeOK /\ [Next]_vars => TypeOK'
<1> SUFFICES ASSUME TypeOK, [Next]_vars
             PROVE  TypeOK'
  OBVIOUS
<1> \A k \in drawn : k # Null
  BY KeyManagerAssumption DEF TypeOK
<1>1. CASE Start
  <2>1. CASE keyFile # Null /\ UNCHANGED <<keyFile, drawn>>
    BY <1>1, <2>1 DEF Start, TypeOK
  <2>2. ASSUME NEW k \in Kids \ drawn,
               keyFile' = k, cached' = k, drawn' = drawn \union {k}
        PROVE  TypeOK'
    <3>1. k # Null /\ rotations = Idle /\ keyHistory \in Seq(drawn')
      BY <1>1, <2>2, KeyManagerAssumption DEF Start, TypeOK
    <3>2. rotations \in [Rotations ->
            [pc : {"generating"}, kid : {Null}] \union [pc : {"saved"}, kid : drawn']
              \union {NoRotation}]
      BY <3>1 DEF Idle
    <3> QED
      BY <1>1, <2>2, <3>1, <3>2 DEF Start, TypeOK
  <2> QED
    BY <1>1, <2>1, <2>2 DEF Start
<1>2. CASE Crash \/ DidRejects
  BY <1>2 DEF Crash, DidRejects, Halt, files, Idle, TypeOK
<1>3. ASSUME StartRejects \/ \E s \in Rotations : ArchiveFails(s)
      PROVE  TypeOK'
  <2>1. torn' \subseteq Files
    BY <1>3 DEF StartRejects, ArchiveFails, WriteFails, Files, TypeOK
  <2> QED
    BY <1>3, <2>1 DEF StartRejects, ArchiveFails, TypeOK
<1>4. ASSUME NEW s \in Rotations, SaveFails(s)
      PROVE  TypeOK'
  BY <1>4 DEF SaveFails, WriteFails, Files, NoRotation, TypeOK
<1>5. CASE Capture \/ \E k \in Kids : Sign(k)
  BY <1>5 DEF Capture, Sign, files, TypeOK
<1>6. ASSUME NEW s \in Rotations, StartRotation(s)
      PROVE  TypeOK'
  BY <1>6, ArchiveType DEF StartRotation, TypeOK
<1>7. ASSUME NEW s \in Rotations, NEW k \in Kids, SaveKey(s, k)
      PROVE  TypeOK'
  <2>1. keyHistory \in Seq(drawn') /\ drawn \subseteq drawn' /\ k \in drawn'
    BY <1>7 DEF SaveKey, TypeOK
  <2> QED
    BY <1>7, <2>1, KeyManagerAssumption DEF SaveKey, Files, TypeOK
<1>8. ASSUME NEW s \in Rotations, FinishRotation(s)
      PROVE  TypeOK'
  <2>1. rotations[s].kid \in drawn
    BY <1>8 DEF FinishRotation, NoRotation, TypeOK
  <2> QED
    BY <1>8, <2>1 DEF FinishRotation, files, TypeOK
<1>9. CASE UNCHANGED vars
  BY <1>9 DEF vars, files, TypeOK
<1> QED
  BY <1>1, <1>2, <1>3, <1>4, <1>5, <1>6, <1>7, <1>8, <1>9 DEF Next

\* No key, no history, no rotation.
LEMMA InitType == Init => TypeOK
<1> SUFFICES ASSUME Init
             PROVE  TypeOK
  OBVIOUS
<1>1. keyHistory \in Seq(drawn)
  BY DEF Init
<1>2. rotations \in [Rotations ->
        [pc : {"generating"}, kid : {Null}] \union [pc : {"saved"}, kid : drawn]
          \union {NoRotation}]
  BY DEF Init, Idle
<1> QED
  BY <1>1, <1>2 DEF Init, TypeOK

\* The key files and the cached pair are well formed, whatever rotations
\* overlap (keys/manager.ts).
THEOREM KeysTypeCorrect == Spec => []TypeOK
<1>1. Init => TypeOK
  BY InitType
<1> QED
  BY <1>1, NextType, PTL DEF Spec

-----------------------------------------------------------------------------
(* One rotation at a time, whatever writes fail *)

\* No rotation begins while another one waits.  This is said of the behaviour
\* and not of the number of slots: nothing in keys/manager.ts or
\* admin/router.ts sees to it, the operator does.
OneAtATime ==
  \A s, t \in Rotations :
    rotations[s].pc # "idle" /\ rotations[t].pc # "idle" => s = t

\* The DID document lists the pair the server signs with, and the pairs the
\* handlers in flight will.
SigningKeyPublished ==
  /\ up => cached \in PublishedKeys
  /\ captured \subseteq PublishedKeys

\* A rotation that generates has archived the current pair, and nothing has
\* torn issuer-key.json since it was read (a request that fails to archive may
\* tear the history meanwhile); one that has saved its pair is about to cache
\* the pair in the file; before that, the cached pair is the one in the file.
RotationsInOrder ==
  /\ \A s \in Rotations :
       /\ rotations[s].pc = "generating" =>
            /\ "issuer-key.json" \notin torn
            /\ \E i \in DOMAIN keyHistory : keyHistory[i] = keyFile
       /\ rotations[s].pc = "saved" => rotations[s].kid = keyFile
  /\ up /\ (\A s \in Rotations : rotations[s].pc # "saved") => cached = keyFile

\* What was signed is covered by what the files held when they last parsed.
SignedPublished == signedWith \subseteq PublishedKeys

KeyInvariant ==
  TypeOK /\ RotationsInOrder /\ SignedPublished /\ SigningKeyPublished

\* Archiving adds the current pair and loses none.
LEMMA ArchiveReads ==
  ASSUME TypeOK
  PROVE  /\ \A i \in DOMAIN keyHistory :
              \E j \in DOMAIN HistoryWithCurrent :
                HistoryWithCurrent[j] = keyHistory[i]
         /\ keyFile # Null =>
              \E j \in DOMAIN HistoryWithCurrent : HistoryWithCurrent[j] = keyFile
<1>1. CASE keyFile = Null
  BY <1>1 DEF HistoryWithCurrent
<1>2. CASE keyFile # Null
  <2>1. keyHistory \in Seq(drawn) /\ keyFile \in drawn
    BY <1>2 DEF TypeOK
  <2>2. /\ DOMAIN keyHistory = 1 .. Len(keyHistory)
        /\ Len(keyHistory) \in Nat
        /\ DOMAIN HistoryWithCurrent = 1 .. (Len(keyHistory) + 1)
        /\ HistoryWithCurrent[Len(keyHistory) + 1] = keyFile
        /\ \A i \in 1 .. Len(keyHistory) : HistoryWithCurrent[i] = keyHistory[i]
    BY <1>2, <2>1 DEF HistoryWithCurrent
  <2> QED
    BY <2>2
<1> QED
  BY <1>1, <1>2

\* Without overlapping rotations no step withdraws a key, or overwrites a
\* file that does not parse.
LEMMA NothingWithdrawn ==
  ASSUME TypeOK, RotationsInOrder, [Next]_vars
  PROVE  (Readable' => Readable) /\ PublishedKeys \subseteq PublishedKeys'
<1>1. CASE Start
  BY <1>1 DEF Start, Readable, PublishedKeys
<1>2. CASE StartRejects \/ \E s \in Rotations : ArchiveFails(s) \/ SaveFails(s)
  BY <1>2 DEF StartRejects, ArchiveFails, SaveFails, WriteFails, Readable, PublishedKeys
<1>3. ASSUME NEW s \in Rotations, StartRotation(s)
      PROVE  (Readable' => Readable) /\ PublishedKeys \subseteq PublishedKeys'
  BY <1>3, ArchiveReads DEF StartRotation, Readable, PublishedKeys
<1>4. ASSUME NEW s \in Rotations, NEW k \in Kids, SaveKey(s, k)
      PROVE  (Readable' => Readable) /\ PublishedKeys \subseteq PublishedKeys'
  <2>1. /\ "issuer-key.json" \notin torn /\ keyHistory' = keyHistory
        /\ \E i \in DOMAIN keyHistory : keyHistory[i] = keyFile
        /\ torn' = torn
    BY <1>4 DEF SaveKey, RotationsInOrder
  <2> QED
    BY <2>1 DEF Readable, PublishedKeys
<1>5. CASE UNCHANGED files
  BY <1>5 DEF files, Readable, PublishedKeys
<1> QED
  BY <1>1, <1>2, <1>3, <1>4, <1>5
  DEF Next, vars, files, Crash, DidRejects, Halt, Capture, Sign, FinishRotation

\* While one rotation waits no other does.
LEMMA OthersIdle ==
  ASSUME OneAtATime, NEW s \in Rotations, rotations[s].pc # "idle"
  PROVE  \A t \in Rotations : t # s => rotations[t].pc = "idle"
BY DEF OneAtATime

\* Every step keeps the order of a rotation.
LEMMA NextInOrder ==
  ASSUME OneAtATime, OneAtATime', TypeOK, RotationsInOrder, [Next]_vars
  PROVE  RotationsInOrder'
<1>1. CASE Start
  BY <1>1 DEF Start, TypeOK, Idle, NoRotation, RotationsInOrder
<1>2. CASE Crash \/ DidRejects
  BY <1>2 DEF Crash, DidRejects, Halt, files, Idle, NoRotation, RotationsInOrder
<1>3. CASE StartRejects
  BY <1>3 DEF StartRejects, TypeOK, Idle, NoRotation, RotationsInOrder
<1>4. ASSUME NEW s \in Rotations, ArchiveFails(s)
      PROVE  RotationsInOrder'
  BY <1>4 DEF ArchiveFails, WriteFails, TypeOK, RotationsInOrder
<1>5. ASSUME NEW s \in Rotations, StartRotation(s)
      PROVE  RotationsInOrder'
  <2>1. \A t \in Rotations : t # s => rotations'[t].pc = "idle"
    BY <1>5 DEF OneAtATime, StartRotation, TypeOK
  <2>2. \A t \in Rotations : rotations[t].pc = "idle"
    BY <1>5, <2>1 DEF StartRotation, TypeOK
  <2>3. keyFile # Null /\ cached = keyFile
    BY <1>5, <2>2 DEF StartRotation, RotationsInOrder, TypeOK
  <2> QED
    BY <1>5, <2>1, <2>3, ArchiveReads
    DEF StartRotation, Readable, RotationsInOrder, TypeOK
<1>6. ASSUME NEW s \in Rotations, NEW k \in Kids, SaveKey(s, k)
      PROVE  RotationsInOrder'
  <2>1. \A t \in Rotations : t # s => rotations'[t].pc = "idle"
    BY <1>6, OthersIdle DEF SaveKey, TypeOK
  <2> QED
    BY <1>6, <2>1 DEF SaveKey, RotationsInOrder, TypeOK
<1>7. ASSUME NEW s \in Rotations, SaveFails(s)
      PROVE  RotationsInOrder'
  <2>1. \A t \in Rotations : rotations'[t].pc = "idle"
    BY <1>7, OthersIdle DEF SaveFails, NoRotation, TypeOK
  <2>2. \A t \in Rotations : rotations[t].pc # "saved"
    BY <1>7, OthersIdle DEF SaveFails
  <2> QED
    BY <1>7, <2>1, <2>2 DEF SaveFails, RotationsInOrder
<1>8. ASSUME NEW s \in Rotations, FinishRotation(s)
      PROVE  RotationsInOrder'
  <2>1. \A t \in Rotations : rotations'[t].pc = "idle"
    BY <1>8, OthersIdle DEF FinishRotation, NoRotation, TypeOK
  <2> QED
    BY <1>8, <2>1 DEF FinishRotation, files, RotationsInOrder
<1>9. CASE UNCHANGED <<up, files, cached, rotations>>
  BY <1>9 DEF files, Readable, RotationsInOrder
<1> QED
  BY <1>1, <1>2, <1>3, <1>4, <1>5, <1>6, <1>7, <1>8, <1>9 
  DEF Next, vars, files, Capture, Sign

\* Every step keeps the invariant.
LEMMA NextInvariant ==
  ASSUME OneAtATime, OneAtATime', KeyInvariant, [Next]_vars
  PROVE  KeyInvariant'
<1> TypeOK /\ RotationsInOrder /\ SignedPublished /\ SigningKeyPublished
  BY DEF KeyInvariant
<1>1. TypeOK' /\ RotationsInOrder'
  BY NextType, NextInOrder
<1>2. PublishedKeys \subseteq PublishedKeys'
  BY NothingWithdrawn
<1>3. SignedPublished'
  BY <1>2 DEF SignedPublished, SigningKeyPublished, Next, vars, Start, StartRejects,
     Crash, DidRejects, Halt, Capture, Sign, StartRotation, ArchiveFails, SaveKey,
     SaveFails, FinishRotation
<1>4. SigningKeyPublished'
  <2>1. CASE Start
    BY <1>1, <1>2, <2>1 DEF Start, SigningKeyPublished, PublishedKeys, TypeOK
  <2>2. ASSUME NEW s \in Rotations, FinishRotation(s)
        PROVE  SigningKeyPublished'
    <3>1. cached' = keyFile' /\ cached' # Null
      BY <1>1, <2>2 DEF FinishRotation, files, RotationsInOrder, TypeOK
    <3>2. cached' \in PublishedKeys'
      BY <3>1 DEF PublishedKeys
    <3> QED
      BY <1>2, <2>2, <3>2 DEF FinishRotation, SigningKeyPublished
  <2>3. CASE UNCHANGED <<cached, captured>> /\ (up' => up)
    BY <1>2, <2>3 DEF SigningKeyPublished
  <2>5. CASE Capture \/ \E k \in Kids : Sign(k)
    BY <1>2, <2>5 DEF Capture, Sign, SigningKeyPublished
  <2>4. CASE Crash \/ DidRejects
    BY <2>4 DEF Crash, DidRejects, Halt, SigningKeyPublished
  <2> QED
    BY <2>1, <2>2, <2>3, <2>4, <2>5
    DEF Next, vars, StartRejects, StartRotation, ArchiveFails, SaveKey, SaveFails
<1> QED
  BY <1>1, <1>3, <1>4 DEF KeyInvariant

\* The invariant holds throughout.
LEMMA SerialInvariant == Spec /\ []OneAtATime => []KeyInvariant
<1>1. Init => KeyInvariant
  BY InitType DEF Init, Idle, NoRotation, KeyInvariant, RotationsInOrder,
                  SignedPublished, SigningKeyPublished
<1>2. OneAtATime /\ OneAtATime' /\ KeyInvariant /\ [Next]_vars => KeyInvariant'
  BY NextInvariant
<1> QED
  BY <1>1, <1>2, PTL DEF Spec

\* Without overlapping rotations every credential ever signed stays verifiable
\* against the DID document, through crashes and failing writes at any point of
\* a rotation (keys/manager.ts:41-92; walkthrough.md:194-195).
THEOREM SerialRotationsVerifiable ==
  Spec /\ []OneAtATime => []IssuedStayVerifiable
<1>1. KeyInvariant => IssuedStayVerifiable
  BY DEF KeyInvariant, SignedPublished, IssuedStayVerifiable
<1> QED
  BY <1>1, SerialInvariant, PTL

\* Without overlapping rotations no key is withdrawn from the DID document,
\* and no torn file is overwritten (keys/manager.ts:26-27, 44-63).
THEOREM SerialRotationsKeepKeys ==
  Spec /\ []OneAtATime => KeysNeverWithdrawn
<1>1. KeyInvariant /\ [Next]_vars =>
        [Readable' => Readable /\ PublishedKeys \subseteq PublishedKeys']_vars
  BY NothingWithdrawn DEF KeyInvariant
<1> QED
  BY <1>1, SerialInvariant, PTL DEF Spec, KeysNeverWithdrawn

\* Without overlapping rotations the server signs with the pair in the file
\* whenever no rotation is under way (keys/manager.ts:63-70).
THEOREM SerialRotationsCache ==
  Spec /\ []OneAtATime => []CacheMatchesFile
<1>1. KeyInvariant => CacheMatchesFile
  BY DEF KeyInvariant, RotationsInOrder, CacheMatchesFile
<1> QED
  BY <1>1, SerialInvariant, PTL

=============================================================================
