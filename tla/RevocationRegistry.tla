------------------------- MODULE RevocationRegistry -------------------------
(***************************************************************************)
(* What a verifier may rely on when it fetches the status list: the answer *)
(* reports every credential whose revocation was recorded before the fetch *)
(* began, and none that is not revoked.  No slot, file, cache, signature   *)
(* or process appears.                                                     *)
(***************************************************************************)
CONSTANTS CredentialIds, Fetches, Null

VARIABLES
  revoked,   \* credentials whose revocation was recorded
  floor,     \* fetch |-> what was revoked when it began, or Null
  answers    \* fetch |-> the credentials its last answer reports, or Null

registryVars == <<revoked, floor, answers>>

NoFetch == [f \in Fetches |-> Null]

Init ==
  /\ revoked = {}
  /\ floor = NoFetch
  /\ answers = NoFetch

\* The server may stop as soon as it has recorded a revocation.
Revoke(id) ==
  /\ revoked' = revoked \union {id}
  /\ floor' \in {floor, NoFetch}
  /\ UNCHANGED answers

Begin(f) ==
  /\ floor[f] = Null
  /\ floor' = [floor EXCEPT ![f] = revoked]
  /\ UNCHANGED <<revoked, answers>>

Answer(f, S) ==
  /\ floor[f] # Null
  /\ floor[f] \subseteq S /\ S \subseteq revoked
  /\ floor' = [floor EXCEPT ![f] = Null]
  /\ answers' = [answers EXCEPT ![f] = S]
  /\ UNCHANGED revoked

AnswerAtOnce(f) ==
  /\ floor[f] = Null
  /\ answers' = [answers EXCEPT ![f] = revoked]
  /\ UNCHANGED <<revoked, floor>>

\* Fetches the server drops without an answer.
Abandon ==
  /\ floor' = NoFetch
  /\ UNCHANGED <<revoked, answers>>

Next ==
  \/ \E id \in CredentialIds : Revoke(id)
  \/ \E f \in Fetches : Begin(f) \/ AnswerAtOnce(f)
  \/ \E f \in Fetches, S \in SUBSET CredentialIds : Answer(f, S)
  \/ Abandon

Spec == Init /\ [][Next]_registryVars

=============================================================================
