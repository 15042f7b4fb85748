----------------------------- MODULE KeyManager -----------------------------
(***************************************************************************)
(* The issuer's signing keys (keys/manager.ts) and the DID document        *)
(* (did/publisher.ts).  The current pair is in issuer-key.json, replaced   *)
(* ones in key-history.json; the server signs with a copy cached in        *)
(* memory.  A rotation archives the current pair before its first await    *)
(* and replaces it after generating the next, so that two rotations, or a  *)
(* rotation and a request, interleave.  A handler that signs takes the     *)
(* cached pair before its waits, and may sign with one replaced meanwhile. *)
(* Both files are rewritten in place, and a crash or a full disk can leave *)
(* one torn.                                                               *)
(***************************************************************************)
EXTENDS Naturals, Sequences

CONSTANTS
  Kids,            \* key identifiers the program draws
  Rotations,       \* slots for POST /admin/api/rotate-keys in flight
  Null,
  MaxHistory,      \* bound of the model: length of key-history.json
  Outages          \* the environment may stop the process or fail a write

ASSUME KeyManagerAssumption ==
  /\ Null \notin Kids
  /\ MaxHistory \in Nat
  /\ Outages \in BOOLEAN

VARIABLES
  up,
  keyFile,         \* issuer-key.json: the current kid, or Null
  keyHistory,      \* key-history.json
  torn,            \* the files that do not parse; the two variables above then
                   \* say what was lost
  cached,          \* the pair the server signs with, or Null
  captured,        \* pairs that handlers in flight took from it
  rotations        \* slot |-> a rotation waiting

\* History.
VARIABLES
  drawn,           \* kids generated so far
  signedWith       \* kids whose signature is on some credential or list

files == <<keyFile, keyHistory, torn>>
vars  == <<up, files, cached, captured, rotations, drawn, signedWith>>

NoRotation == [pc |-> "idle", kid |-> Null]

Idle == [s \in Rotations |-> NoRotation]

Files == {"issuer-key.json", "key-history.json"}

TypeOK ==
  /\ up \in BOOLEAN
  /\ keyFile \in drawn \union {Null}
  /\ keyHistory \in Seq(drawn)
  /\ torn \subseteq Files
  /\ cached \in drawn \union {Null}
  /\ captured \subseteq drawn
  /\ rotations \in [Rotations ->
       [pc : {"generating"}, kid : {Null}] \union [pc : {"saved"}, kid : drawn]
         \union {NoRotation}]
  /\ drawn \subseteq Kids
  /\ signedWith \subseteq drawn
  /\ up <=> cached # Null
  /\ ~up => rotations = Idle /\ captured = {}

Init ==
  /\ up = FALSE
  /\ keyFile = Null
  /\ keyHistory = << >>
  /\ torn = {}
  /\ cached = Null
  /\ captured = {}
  /\ rotations = Idle
  /\ drawn = {}
  /\ signedWith = {}

-----------------------------------------------------------------------------

\* writeFileSync truncates the file and writes it anew: where it fails the
\* file is as it was, if it could not be opened, or torn.
WriteFails(file) == Outages /\ torn' \in {torn, torn \union {file}}

\* Mutant: the server listens although no pair was ever generated.
StartWithoutGenerating ==
  /\ ~up
  /\ up' = TRUE
  /\ cached' = keyFile
  /\ UNCHANGED <<files, captured, rotations, drawn, signedWith>>

\* Before it listens the server awaits getIssuerKeyPair, which loads the
\* current pair, or generates the first one.  It does not read the history.
Start ==
  /\ ~up
  /\ "issuer-key.json" \notin torn
  /\ up' = TRUE
  /\ \/ /\ keyFile # Null
        /\ cached' = keyFile
        /\ UNCHANGED <<keyFile, drawn>>
     \/ /\ keyFile = Null
        /\ \E k \in Kids \ drawn :
             keyFile' = k /\ cached' = k /\ drawn' = drawn \union {k}
  /\ UNCHANGED <<keyHistory, torn, captured, rotations, signedWith>>

\* The rejection of getIssuerKeyPair ends the process before it listens: the
\* file is there and does not parse, or the first pair cannot be saved.
StartRejects ==
  /\ ~up
  /\ \/ "issuer-key.json" \in torn /\ torn' = torn
     \/ keyFile = Null /\ WriteFails("issuer-key.json")
  /\ UNCHANGED <<up, keyFile, keyHistory, cached, captured, rotations, drawn,
                 signedWith>>

\* The process stops between two handlers or continuations; the files stay.
Halt ==
  /\ up
  /\ up' = FALSE
  /\ cached' = Null
  /\ captured' = {}
  /\ rotations' = Idle
  /\ UNCHANGED <<files, drawn, signedWith>>

Crash == Outages /\ Halt

Readable == torn = {}

\* GET /.well-known/did.json parses both files in an async handler.
DidRejects == ~Readable /\ Halt

\* Mutant: the current pair is not archived.
HistoryUnchanged == keyHistory

\* Mutant: only the pair just replaced is kept.
HistoryOfOne == IF keyFile = Null THEN keyHistory ELSE <<keyFile>>

HistoryWithCurrent ==
  IF keyFile = Null THEN keyHistory ELSE Append(keyHistory, keyFile)

\* rotateIssuerKeyPair up to generateKeyPair; it throws, and the answer is
\* 500, where a file does not parse.
StartRotation(s) ==
  /\ up
  /\ rotations[s].pc = "idle"
  /\ Readable
  /\ Len(keyHistory) < MaxHistory
  /\ keyHistory' = HistoryWithCurrent
  /\ rotations' = [rotations EXCEPT ![s] = [pc |-> "generating", kid |-> Null]]
  /\ UNCHANGED <<up, keyFile, torn, cached, captured, drawn, signedWith>>

\* The current pair cannot be archived: 500.
ArchiveFails(s) ==
  /\ up
  /\ rotations[s].pc = "idle"
  /\ Readable
  /\ WriteFails("key-history.json")
  /\ UNCHANGED <<up, keyFile, keyHistory, cached, captured, rotations, drawn,
                 signedWith>>

\* Its first continuation, up to importJWK: the new pair is in the file.
SaveKey(s, k) ==
  /\ up
  /\ rotations[s].pc = "generating"
  /\ k \in Kids \ drawn
  /\ keyFile' = k
  /\ torn' = torn \ {"issuer-key.json"}
  /\ drawn' = drawn \union {k}
  /\ rotations' = [rotations EXCEPT ![s] = [pc |-> "saved", kid |-> k]]
  /\ UNCHANGED <<up, keyHistory, cached, captured, signedWith>>

\* The new pair cannot be saved: 500, and the server goes on signing with the
\* pair it had.
SaveFails(s) ==
  /\ up
  /\ rotations[s].pc = "generating"
  /\ WriteFails("issuer-key.json")
  /\ rotations' = [rotations EXCEPT ![s] = NoRotation]
  /\ UNCHANGED <<up, keyFile, keyHistory, cached, captured, drawn, signedWith>>

\* Mutant: the cached pair is not replaced.
FinishWithoutCaching(s) ==
  /\ up
  /\ rotations[s].pc = "saved"
  /\ rotations' = [rotations EXCEPT ![s] = NoRotation]
  /\ UNCHANGED <<up, files, cached, captured, drawn, signedWith>>

\* Its last continuation: the server signs with the new pair.
FinishRotation(s) ==
  /\ up
  /\ rotations[s].pc = "saved"
  /\ cached' = rotations[s].kid
  /\ rotations' = [rotations EXCEPT ![s] = NoRotation]
  /\ UNCHANGED <<up, files, captured, drawn, signedWith>>

\* POST /credentials or GET /status/:listId takes the cached pair (issuer.ts:84,
\* statuslist.ts:165) and goes on to its waits.
Capture ==
  /\ up
  /\ captured' = captured \union {cached}
  /\ UNCHANGED <<up, files, cached, rotations, drawn, signedWith>>

\* Its credential or list is signed, with the pair it took, or it has failed.
\* Other handlers may hold the same pair.
Sign(k) ==
  /\ k \in captured
  /\ signedWith' \in {signedWith, signedWith \union {k}}
  /\ captured' \in {captured, captured \ {k}}
  /\ UNCHANGED <<up, files, cached, rotations, drawn>>

Next ==
  \/ Start \/ StartRejects \/ Crash \/ DidRejects \/ Capture
  \/ \E k \in Kids : Sign(k)
  \/ \E s \in Rotations : \/ StartRotation(s) \/ ArchiveFails(s)
                          \/ SaveFails(s) \/ FinishRotation(s)
  \/ \E s \in Rotations, k \in Kids : SaveKey(s, k)

Spec == Init /\ [][Next]_vars

-----------------------------------------------------------------------------
(* Properties *)

\* getAllPublicKeys: what /.well-known/did.json serves where it is Readable.
PublishedKeys ==
  {keyHistory[i] : i \in DOMAIN keyHistory} \union ({keyFile} \ {Null})

\* Stated by walkthrough.md:194-195: the DID document keeps serving the keys
\* of credentials issued before a rotation.
IssuedStayVerifiable == Readable => signedWith \subseteq PublishedKeys

\* A key once listed is never withdrawn, also not by a crash between archiving
\* the old pair and saving the new one, and files of which one is torn are not
\* replaced by a start-up or a rotation that takes it for missing or empty
\* (keys/manager.ts:26-27, 44-63).
KeysNeverWithdrawn ==
  [][Readable' => Readable /\ PublishedKeys \subseteq PublishedKeys']_vars

\* With no rotation under way, and also after one that failed, the server
\* signs with the pair in the file, the one it would load after a restart.
CacheMatchesFile ==
  /\ up /\ "issuer-key.json" \notin torn
  /\ \A s \in Rotations : rotations[s].pc = "idle"
  => cached = keyFile

=============================================================================
