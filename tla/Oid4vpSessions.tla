--------------------------- MODULE Oid4vpSessions ---------------------------
(***************************************************************************)
(* The sessions of wallet presentations (oid4vp/router.ts).  An instance   *)
(* of the gateway answers from a cache of an encrypted file, which it      *)
(* reads again before every look-up and replaces, by renaming a temporary  *)
(* file, after every change.  A presentation is verified across awaits     *)
(* while other handlers, and other instances on the same file, run.        *)
(*                                                                         *)
(* What is verified of a presentation is not modelled: it is accepted with *)
(* some claims, or rejected.  The encryption key never changes.            *)
(***************************************************************************)
EXTENDS Naturals

CONSTANTS
  Instances,         \* processes that share DATA_DIR
  Responses,         \* slots for POST .../response/:sessionId in flight
  SessionIds,        \* identifiers the program draws
  Claims,            \* what a presentation can disclose
  Null,
  EXPIRY_WINDOW,     \* 30 minutes
  DiskErrors,        \* writing the file may fail
  Outages,           \* the environment may stop an instance
  MaxTime            \* bound of the model: the clock stops here

ASSUME SessionsAssumption ==
  /\ Null \notin Claims \union Instances \union SessionIds
  /\ EXPIRY_WINDOW \in Nat
  /\ MaxTime \in Nat
  /\ DiskErrors \in BOOLEAN
  /\ Outages \in BOOLEAN

VARIABLES
  now,
  up,                \* instance |-> it is running
  cache,             \* instance |-> its Map of sessions
  written,           \* oid4vp_sessions.json exists
  file,              \* the sessions it holds
  responses          \* slot |-> a presentation being verified

\* History.
VARIABLES
  created,           \* session id drawn |-> when its creation was answered
  accepted,          \* session |-> the claims of the verdict told last
  verdicts,          \* all verdicts told to a wallet, as session and claims
  unsaved            \* sessions whose last write to the file failed

store   == <<written, file>>
history == <<created, accepted, verdicts, unsaved>>
vars    == <<now, up, cache, store, responses, history>>

NoSessions == [s \in {} |-> Null]

NoResponse == [instance |-> Null, id |-> Null, session |-> Null]

Session ==
  [status : {"initiated"}, claims : {Null}, timestamp : 0 .. MaxTime]
    \union [status : {"verified"}, claims : Claims, timestamp : 0 .. MaxTime]

AreSessions(m) ==
  /\ DOMAIN m \subseteq DOMAIN created
  /\ \A s \in DOMAIN m : m[s] \in Session /\ m[s].timestamp = created[s]

\* Whatever holds a session holds one that was drawn, with its own timestamp.
TypeOK ==
  /\ now \in 0 .. MaxTime
  /\ up \in [Instances -> BOOLEAN]
  /\ DOMAIN cache = Instances
  /\ \A i \in Instances : AreSessions(cache[i])
  /\ written \in BOOLEAN
  /\ AreSessions(file)
  /\ DOMAIN created \subseteq SessionIds
  /\ \A s \in DOMAIN created : created[s] \in 0 .. now
  /\ DOMAIN accepted \subseteq DOMAIN created
  /\ \A s \in DOMAIN accepted : <<s, accepted[s]>> \in verdicts
  /\ verdicts \subseteq SessionIds \X Claims
  /\ unsaved \subseteq DOMAIN created
  /\ DOMAIN responses = Responses
  /\ \A r \in Responses : responses[r] # NoResponse =>
       /\ responses[r].instance \in Instances
       /\ up[responses[r].instance]
       /\ responses[r].id \in DOMAIN created
       /\ responses[r].session \in Session
       /\ responses[r].session.timestamp = created[responses[r].id]

Init ==
  /\ now = 0
  /\ up = [i \in Instances |-> FALSE]
  /\ cache = [i \in Instances |-> NoSessions]
  /\ written = FALSE
  /\ file = NoSessions
  /\ responses = [r \in Responses |-> NoResponse]
  /\ created = NoSessions
  /\ accepted = NoSessions
  /\ verdicts = {}
  /\ unsaved = {}

-----------------------------------------------------------------------------
(* Oid4vpSessionStore *)

Expired(session) == now > session.timestamp + EXPIRY_WINDOW

Unexpired(sessions) ==
  [s \in {t \in DOMAIN sessions : ~Expired(sessions[t])} |-> sessions[s]]

With(sessions, s, session) ==
  [t \in DOMAIN sessions \union {s} |-> IF t = s THEN session ELSE sessions[t]]

\* load: the cache is what the file holds, or stays when there is no file.
Loaded(i) == IF written THEN file ELSE cache[i]

\* Mutant: a verified session starts its lifetime anew.
Renewed(session, claims) ==
  [status |-> "verified", claims |-> claims, timestamp |-> now]

Verified(session, claims) ==
  [status |-> "verified", claims |-> claims, timestamp |-> session.timestamp]

\* Mutant: expired sessions are dropped before the new one is added.
PrunedThenSet(i, s, session) == With(Unexpired(cache[i]), s, session)

\* What set leaves in the cache and save writes.
SetThenPruned(i, s, session) == Unexpired(With(cache[i], s, session))

\* set and save: an error while writing is logged and forgotten.
SetSession(i, s, session) ==
  /\ cache' = [cache EXCEPT ![i] = SetThenPruned(i, s, session)]
  /\ \/ /\ written' = TRUE
        /\ file' = SetThenPruned(i, s, session)
        /\ unsaved' = unsaved \ {s}
     \/ /\ DiskErrors
        /\ UNCHANGED store
        /\ unsaved' = unsaved \union {s}

-----------------------------------------------------------------------------
(* The instances and the clock *)

Crash(i) ==
  /\ Outages /\ up[i]
  /\ up' = [up EXCEPT ![i] = FALSE]
  /\ cache' = [cache EXCEPT ![i] = NoSessions]
  /\ responses' = [r \in Responses |->
       IF responses[r].instance = i THEN NoResponse ELSE responses[r]]
  /\ UNCHANGED <<now, store, history>>

\* Mutant: the constructor does not load the file.
StartEmpty(i) ==
  /\ ~up[i]
  /\ up' = [up EXCEPT ![i] = TRUE]
  /\ UNCHANGED <<now, cache, store, responses, history>>

\* The constructor of the store loads the file.
Start(i) ==
  /\ ~up[i]
  /\ up' = [up EXCEPT ![i] = TRUE]
  /\ cache' = [cache EXCEPT ![i] = Loaded(i)]
  /\ UNCHANGED <<now, store, responses, history>>

Tick ==
  /\ now < MaxTime
  /\ now' = now + 1
  /\ UNCHANGED <<up, cache, store, responses, history>>

-----------------------------------------------------------------------------
(* The handlers *)

\* POST /api/oid4vp/initiate, from the QR code on.
Initiate(i, s) ==
  /\ up[i]
  /\ s \notin DOMAIN created
  /\ SetSession(i, s, [status |-> "initiated", claims |-> Null, timestamp |-> now])
  /\ created' = With(created, s, now)
  /\ UNCHANGED <<now, up, responses, accepted, verdicts>>

\* GET .../request/:sessionId and .../session/:sessionId, and every look-up
\* that finds no session: they only load.
LookUp(i) ==
  /\ up[i]
  /\ cache' = [cache EXCEPT ![i] = Loaded(i)]
  /\ UNCHANGED <<now, up, store, responses, history>>

\* POST .../response/:sessionId up to the wait: the handler keeps the session
\* it looked up.
StartResponse(i, r, s) ==
  /\ up[i]
  /\ responses[r] = NoResponse
  /\ s \in DOMAIN Loaded(i)
  /\ cache' = [cache EXCEPT ![i] = Loaded(i)]
  /\ responses' = [responses EXCEPT ![r] =
       [instance |-> i, id |-> s, session |-> Loaded(i)[s]]]
  /\ UNCHANGED <<now, up, store, history>>

\* Mutant: the session is filled in before the last check has passed.
RejectTooLate(r) ==
  LET resp == responses[r] IN
  /\ resp # NoResponse
  /\ \E c \in Claims :
       cache' = [cache EXCEPT ![resp.instance] =
                   With(@, resp.id, Verified(resp.session, c))]
  /\ responses' = [responses EXCEPT ![r] = NoResponse]
  /\ UNCHANGED <<now, up, store, history>>

\* A signature, the issuer, the key binding or the nonce is wrong: 401.
RejectResponse(r) ==
  /\ responses[r] # NoResponse
  /\ responses' = [responses EXCEPT ![r] = NoResponse]
  /\ UNCHANGED <<now, up, cache, store, history>>

\* The session kept from before the wait is stored as verified, whatever the
\* cache holds by now, and the wallet is told so.
AcceptResponse(r, claims) ==
  LET resp == responses[r] IN
  /\ resp # NoResponse
  /\ SetSession(resp.instance, resp.id, Verified(resp.session, claims))
  /\ accepted' = With(accepted, resp.id, claims)
  /\ verdicts' = verdicts \union {<<resp.id, claims>>}
  /\ responses' = [responses EXCEPT ![r] = NoResponse]
  /\ UNCHANGED <<now, up, created>>

Next ==
  \/ Tick
  \/ \E i \in Instances : Crash(i) \/ Start(i) \/ LookUp(i)
  \/ \E i \in Instances, s \in SessionIds :
       Initiate(i, s) \/ \E r \in Responses : StartResponse(i, r, s)
  \/ \E r \in Responses : RejectResponse(r) \/ \E c \in Claims : AcceptResponse(r, c)

Spec == Init /\ [][Next]_vars

-----------------------------------------------------------------------------
(* Properties *)

\* A session the gateway answered for can be looked up until it expires, with
\* the verdict and the claims of the presentation it accepted last, unless
\* writing that very session failed: by the instance that created it, by any
\* other (the comment at oid4vp/router.ts:114) and after a restart, however
\* the changes of several sessions, several presentations for one session and
\* the failures of their writes interleave.
SessionsSurvive ==
  \A s \in DOMAIN created \ unsaved : now <= created[s] + EXPIRY_WINDOW =>
    /\ s \in DOMAIN file
    /\ s \in DOMAIN accepted =>
         file[s].status = "verified" /\ file[s].claims = accepted[s]

\* What any instance or the file shows as verified was accepted from a wallet,
\* for that very session and with those claims, however the stores of several
\* instances overwrite each other.
VerdictsEarned ==
  \A m \in {cache[i] : i \in Instances} \union {file} : \A s \in DOMAIN m :
    m[s].status = "verified" => <<s, m[s].claims>> \in verdicts

\* An expired session that was dropped from the file never returns to it
\* (oid4vp/router.ts:85-95), not from a cache another instance kept, nor from
\* a handler that looked it up before it expired and stores it after.
ExpiredStaysGone ==
  [][\A s \in DOMAIN created :
        now > created[s] + EXPIRY_WINDOW /\ s \notin DOMAIN file =>
          s \notin DOMAIN file']_vars

=============================================================================
