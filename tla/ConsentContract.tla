--------------------------- MODULE ConsentContract ---------------------------
(***************************************************************************)
(* What the consent gate promises its holder, without stores, codes,       *)
(* timers or crashes: an offer that needs consent is put to the holder     *)
(* once, is answered at most once, and yields at most one grant (an access *)
(* token), and only if the answer was an approval.                         *)
(***************************************************************************)
CONSTANTS ConsentIds, Tokens

VARIABLES
  status,    \* consent id |-> where the offer stands
  grants     \* the pairs <<consent id, access token>> handed out

contractVars == <<status, grants>>

Status == {"unasked", "open", "approved", "declined", "lapsed"}

ContractTypeOK ==
  /\ status \in [ConsentIds -> Status]
  /\ grants \subseteq ConsentIds \X Tokens

Init ==
  /\ status = [c \in ConsentIds |-> "unasked"]
  /\ grants = {}

Ask(c) ==
  /\ status[c] = "unasked"
  /\ status' = [status EXCEPT ![c] = "open"]
  /\ UNCHANGED grants

Answer(c, verdict) ==
  /\ status[c] = "open"
  /\ status' = [status EXCEPT ![c] = verdict]
  /\ UNCHANGED grants

\* Offers nobody answered in time, or that a crash wiped out.
Lapse(S) ==
  /\ \A c \in S : status[c] = "open"
  /\ status' = [c \in ConsentIds |-> IF c \in S THEN "lapsed" ELSE status[c]]
  /\ UNCHANGED grants

Collect(c, t) ==
  /\ status[c] = "approved"
  /\ \A g \in grants : g[1] # c
  /\ grants' = grants \union {<<c, t>>}
  /\ UNCHANGED status

Next ==
  \/ \E c \in ConsentIds : Ask(c)
  \/ \E c \in ConsentIds, v \in {"approved", "declined"} : Answer(c, v)
  \/ \E S \in SUBSET ConsentIds : Lapse(S)
  \/ \E c \in ConsentIds, t \in Tokens : Collect(c, t)

Spec == Init /\ [][Next]_contractVars

=============================================================================
