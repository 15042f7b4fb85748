------------------------ MODULE Oid4vpSessionsProofs ------------------------
(***************************************************************************)
(* Theorems about Oid4vpSessions.  Types, VerdictsEarned and               *)
(* ExpiredStaysGone hold for any number of instances and with failing      *)
(* writes; SessionsSurvive needs that no two instances run at a time (the  *)
(* run presentations_instances shows why), and rests on the agreement of   *)
(* the running one's cache with the file.                                  *)
(***************************************************************************)
EXTENDS Oid4vpSessions, TLAPS

-----------------------------------------------------------------------------
(* The store *)

\* AreSessions, said of any record of the times of creation.
Dated(m, times) ==
  /\ DOMAIN m \subseteq DOMAIN times
  /\ \A s \in DOMAIN m : m[s] \in Session /\ m[s].timestamp = times[s]

\* Adding or replacing one session, with its own timestamp, and dropping the
\* expired ones keeps a map of sessions what it is.
LEMMA SetIsDated ==
  ASSUME NEW i, NEW times, Dated(cache[i], times), NEW s \in DOMAIN times,
         NEW session \in Session, session.timestamp = times[s]
  PROVE  Dated(SetThenPruned(i, s, session), times)
<1>1. Dated(With(cache[i], s, session), times)
  BY DEF Dated, With
<1> QED
  BY <1>1 DEF SetThenPruned, Unexpired, Dated

\* What SetSession leaves is dated, in every cache and in the file.
LEMMA SetSessionKeeps ==
  ASSUME TypeOK, NEW i \in Instances, NEW times,
         \A j \in Instances : Dated(cache[j], times), Dated(file, times),
         NEW s \in DOMAIN times, NEW session \in Session,
         session.timestamp = times[s], SetSession(i, s, session)
  PROVE  /\ DOMAIN cache' = Instances
         /\ \A j \in Instances : Dated(cache'[j], times)
         /\ written' \in BOOLEAN
         /\ Dated(file', times)
<1>1. Dated(SetThenPruned(i, s, session), times)
  BY SetIsDated
<1>2. cache' = [cache EXCEPT ![i] = SetThenPruned(i, s, session)]
  BY DEF SetSession
<1>3. DOMAIN cache = Instances
  BY DEF TypeOK
<1>4. DOMAIN cache' = Instances
  BY <1>2, <1>3
<1>5. \A j \in Instances : Dated(cache'[j], times)
  BY <1>1, <1>2, <1>3
<1>6. written' \in BOOLEAN /\ Dated(file', times)
  BY <1>1 DEF SetSession, store, history, TypeOK
<1> QED
  BY <1>4, <1>5, <1>6

\* A new session changes the date of no other.
LEMMA DatedGrows ==
  ASSUME NEW times, NEW m, Dated(m, times), NEW s, s \notin DOMAIN times, NEW t
  PROVE  Dated(m, With(times, s, t))
  BY DEF Dated, With

\* The caches and the file, after a step that loads the file into a cache.
LEMMA LoadKeeps ==
  ASSUME TypeOK, NEW i \in Instances,
         cache' = [cache EXCEPT ![i] = Loaded(i)]
  PROVE  /\ DOMAIN cache' = Instances
         /\ \A j \in Instances : Dated(cache'[j], created)
<1>1. Dated(Loaded(i), created)
  BY DEF TypeOK, AreSessions, Dated, Loaded
<1>2. \A j \in Instances : Dated(cache[j], created)
  BY DEF TypeOK, AreSessions, Dated
<1> QED
  BY <1>1, <1>2 DEF TypeOK

\* A verified session is a session of the same date.
LEMMA VerifiedIsSession ==
  ASSUME NEW session \in Session, NEW claims \in Claims
  PROVE  /\ Verified(session, claims) \in Session
         /\ Verified(session, claims).timestamp = session.timestamp
  BY DEF Session, Verified

-----------------------------------------------------------------------------
(* Types *)

\* TypeOK in two parts: the maps of sessions, and the rest.
MapsOK ==
  /\ DOMAIN cache = Instances
  /\ \A i \in Instances : Dated(cache[i], created)
  /\ written \in BOOLEAN
  /\ Dated(file, created)

ResponseOK(r) ==
  /\ responses[r].instance \in Instances
  /\ up[responses[r].instance]
  /\ responses[r].id \in DOMAIN created
  /\ responses[r].session \in Session
  /\ responses[r].session.timestamp = created[responses[r].id]

RestOK ==
  /\ now \in 0 .. MaxTime
  /\ up \in [Instances -> BOOLEAN]
  /\ DOMAIN created \subseteq SessionIds
  /\ \A s \in DOMAIN created : created[s] \in 0 .. now
  /\ DOMAIN accepted \subseteq DOMAIN created
  /\ \A s \in DOMAIN accepted : <<s, accepted[s]>> \in verdicts
  /\ verdicts \subseteq SessionIds \X Claims
  /\ unsaved \subseteq DOMAIN created
  /\ DOMAIN responses = Responses
  /\ \A r \in Responses : responses[r] # NoResponse => ResponseOK(r)

LEMMA TypeParts == TypeOK <=> MapsOK /\ RestOK
  BY DEF TypeOK, MapsOK, RestOK, ResponseOK, AreSessions, Dated

\* Every step keeps the maps maps of sessions.
LEMMA MapsStep ==
  ASSUME SessionsAssumption, TypeOK, Next
  PROVE  MapsOK'
<1>0. MapsOK /\ RestOK
  BY TypeParts
<1>1. CASE Tick
  BY <1>0, <1>1 DEF Tick, store, history, MapsOK, Dated
<1>2. ASSUME NEW i \in Instances, Crash(i)
      PROVE  MapsOK'
  <2>1. Dated(NoSessions, created)
    BY DEF Dated, NoSessions
  <2> QED
    BY <1>0, <1>2, <2>1 DEF Crash, store, history, MapsOK, Dated
<1>3. ASSUME NEW i \in Instances,
             Start(i) \/ LookUp(i) \/
             \E r \in Responses, s \in SessionIds : StartResponse(i, r, s)
      PROVE  MapsOK'
  <2>1. /\ cache' = [cache EXCEPT ![i] = Loaded(i)]
        /\ UNCHANGED <<store, history>>
    BY <1>3 DEF Start, LookUp, StartResponse
  <2>2. DOMAIN cache' = Instances /\ \A j \in Instances : Dated(cache'[j], created)
    BY <2>1, LoadKeeps
  <2> QED
    BY <1>0, <2>1, <2>2 DEF MapsOK, Dated, store, history
<1>4. ASSUME NEW i \in Instances, NEW s \in SessionIds, Initiate(i, s)
      PROVE  MapsOK'
  <2> DEFINE session == [status |-> "initiated", claims |-> Null, timestamp |-> now]
             times == With(created, s, now)
  <2>1. session \in Session
    BY <1>0 DEF Session, RestOK
  <2>2. \A j \in Instances : Dated(cache[j], times)
    BY <1>0, <1>4, DatedGrows DEF MapsOK, Initiate
  <2>3. Dated(file, times)
    BY <1>0, <1>4, DatedGrows DEF MapsOK, Initiate
  <2>4. s \in DOMAIN times /\ session.timestamp = times[s]
    BY DEF With
  <2>5. SetSession(i, s, session) /\ created' = times
    BY <1>4 DEF Initiate
  <2> HIDE DEF session, times
  <2>6. /\ DOMAIN cache' = Instances
        /\ \A j \in Instances : Dated(cache'[j], times)
        /\ written' \in BOOLEAN
        /\ Dated(file', times)
    BY <2>1, <2>2, <2>3, <2>4, <2>5, SetSessionKeeps
  <2> QED
    BY <2>5, <2>6 DEF MapsOK, Dated
<1>5. ASSUME NEW r \in Responses, RejectResponse(r)
      PROVE  MapsOK'
  BY <1>0, <1>5 DEF RejectResponse, store, history, MapsOK, Dated
<1>6. ASSUME NEW r \in Responses, NEW c \in Claims, AcceptResponse(r, c)
      PROVE  MapsOK'
  <2> DEFINE resp == responses[r]
  <2>1. ResponseOK(r)
    BY <1>0, <1>6 DEF AcceptResponse, history, RestOK
  <2>2. /\ Verified(resp.session, c) \in Session
        /\ Verified(resp.session, c).timestamp = created[resp.id]
    BY <2>1, VerifiedIsSession DEF ResponseOK
  <2>3. /\ SetSession(resp.instance, resp.id, Verified(resp.session, c))
        /\ created' = created
    BY <1>6 DEF AcceptResponse
  <2>4. resp.instance \in Instances /\ resp.id \in DOMAIN created
    BY <2>1 DEF ResponseOK
  <2>5. (\A j \in Instances : Dated(cache[j], created)) /\ Dated(file, created)
    BY <1>0 DEF MapsOK
  <2>6. /\ DOMAIN cache' = Instances
        /\ \A j \in Instances : Dated(cache'[j], created)
        /\ written' \in BOOLEAN
        /\ Dated(file', created)
    BY <2>2, <2>3, <2>4, <2>5, SetSessionKeeps
  <2> QED
    BY <2>3, <2>6 DEF MapsOK, Dated
<1> QED
  BY <1>1, <1>2, <1>3, <1>4, <1>5, <1>6 DEF Next

\* Every step keeps the clock, the instances and the responses in flight.
LEMMA RestStep ==
  ASSUME SessionsAssumption, TypeOK, Next
  PROVE  RestOK'
<1>0. MapsOK /\ RestOK
  BY TypeParts
<1>1. CASE Tick
  BY <1>0, <1>1 DEF Tick, history, RestOK, ResponseOK, SessionsAssumption
<1>2. ASSUME NEW i \in Instances, Crash(i)
      PROVE  RestOK'
  <2>1. \A r \in Responses : responses'[r] # NoResponse =>
          responses'[r] = responses[r] /\ responses[r].instance # i
    BY <1>2 DEF Crash
  <2>2. \A r \in Responses : responses'[r] # NoResponse => ResponseOK(r)'
    BY <1>0, <1>2, <2>1 DEF Crash, history, RestOK, ResponseOK
  <2> QED
    BY <1>0, <1>2, <2>2 DEF Crash, history, RestOK
<1>3. ASSUME NEW i \in Instances, Start(i)
      PROVE  RestOK'
  BY <1>0, <1>3 DEF Start, history, RestOK, ResponseOK
<1>4. ASSUME NEW i \in Instances, LookUp(i)
      PROVE  RestOK'
  BY <1>0, <1>4 DEF LookUp, history, RestOK, ResponseOK
<1>5. ASSUME NEW i \in Instances, NEW s \in SessionIds, Initiate(i, s)
      PROVE  RestOK'
  <2>1. \A t \in DOMAIN created : t \in DOMAIN created' /\ created'[t] = created[t]
    BY <1>5 DEF Initiate, With
  <2>2. \A r \in Responses : responses'[r] # NoResponse => ResponseOK(r)'
    BY <1>0, <1>5, <2>1 DEF Initiate, RestOK, ResponseOK
  <2>3. \A t \in DOMAIN created' : created'[t] \in 0 .. now'
    BY <1>0, <1>5 DEF Initiate, With, RestOK
  <2> QED
    BY <1>0, <1>5, <2>1, <2>2, <2>3 DEF Initiate, With, RestOK, SetSession
<1>6. ASSUME NEW i \in Instances, NEW r \in Responses, NEW s \in SessionIds,
             StartResponse(i, r, s)
      PROVE  RestOK'
  <2>1. s \in DOMAIN Loaded(i) /\ Dated(Loaded(i), created)
    BY <1>0, <1>6 DEF StartResponse, MapsOK, Loaded
  <2>2. Loaded(i)[s] \in Session /\ Loaded(i)[s].timestamp = created[s]
    BY <2>1 DEF Dated
  <2>3. s \in DOMAIN created
    BY <2>1 DEF Dated
  <2>4. \A q \in Responses : responses'[q] # NoResponse => ResponseOK(q)'
    <3> SUFFICES ASSUME NEW q \in Responses, responses'[q] # NoResponse
                 PROVE  ResponseOK(q)'
      OBVIOUS
    <3>1. CASE q = r
      BY <1>0, <1>6, <2>2, <2>3, <3>1 DEF StartResponse, history, RestOK, ResponseOK
    <3>2. CASE q # r
      BY <1>0, <1>6, <3>2 DEF StartResponse, history, RestOK, ResponseOK
    <3> QED
      BY <3>1, <3>2
  <2> QED
    BY <1>0, <1>6, <2>4 DEF StartResponse, history, RestOK
<1>7. ASSUME NEW r \in Responses, RejectResponse(r)
      PROVE  RestOK'
  BY <1>0, <1>7 DEF RejectResponse, history, RestOK, ResponseOK
<1>8. ASSUME NEW r \in Responses, NEW c \in Claims, AcceptResponse(r, c)
      PROVE  RestOK'
  <2> DEFINE t == responses[r].id
  <2>1. /\ t \in DOMAIN created /\ t \in SessionIds /\ created' = created
        /\ accepted' = With(accepted, t, c) /\ verdicts' = verdicts \union {<<t, c>>}
        /\ unsaved' \subseteq unsaved \union {t}
    BY <1>0, <1>8 DEF AcceptResponse, RestOK, ResponseOK, SetSession
  <2> HIDE DEF t
  <2>2. /\ DOMAIN accepted' \subseteq DOMAIN created'
        /\ \A s \in DOMAIN accepted' : <<s, accepted'[s]>> \in verdicts'
        /\ verdicts' \subseteq SessionIds \X Claims
        /\ unsaved' \subseteq DOMAIN created'
    BY <1>0, <2>1 DEF With, RestOK
  <2>3. \A q \in Responses : responses'[q] # NoResponse => ResponseOK(q)'
    BY <1>0, <1>8 DEF AcceptResponse, RestOK, ResponseOK
  <2> QED
    BY <1>0, <1>8, <2>2, <2>3 DEF AcceptResponse, RestOK
<1> QED
  BY <1>1, <1>2, <1>3, <1>4, <1>5, <1>6, <1>7, <1>8 DEF Next

\* Caches, file and handlers hold sessions that were created, each with the
\* time of its creation, for any number of instances and with failing writes.
THEOREM SessionsTypeCorrect == Spec => []TypeOK
<1>1. Init => TypeOK
  <2> SUFFICES ASSUME Init
               PROVE  TypeOK
    OBVIOUS
  <2>1. DOMAIN NoSessions = {}
    BY DEF NoSessions
  <2>2. MapsOK
    BY <2>1 DEF Init, MapsOK, Dated
  <2>3. \A r \in Responses : responses[r] = NoResponse
    BY DEF Init
  <2>4. RestOK
    BY <2>1, <2>3, SessionsAssumption DEF Init, RestOK, SessionsAssumption
  <2> QED
    BY <2>2, <2>4, TypeParts
<1>2. TypeOK /\ [Next]_vars => TypeOK'
  <2> SUFFICES ASSUME TypeOK, [Next]_vars
               PROVE  TypeOK'
    OBVIOUS
  <2>1. CASE Next
    <3>1. MapsOK' /\ RestOK'
      BY <2>1, MapsStep, RestStep, SessionsAssumption
    <3> QED
      BY <3>1 DEF TypeOK, MapsOK, RestOK, ResponseOK, AreSessions, Dated
  <2>2. CASE UNCHANGED vars
    BY <2>2 DEF vars, store, history, TypeOK, AreSessions
  <2> QED
    BY <2>1, <2>2
<1> QED
  BY <1>1, <1>2, PTL DEF Spec

-----------------------------------------------------------------------------
(* Expired sessions *)

\* A step leaves the file alone, or leaves no expired session in it.
LEMMA FileSteps ==
  ASSUME SessionsAssumption, TypeOK, [Next]_vars, NEW s \in DOMAIN file',
         s \notin DOMAIN file, s \in DOMAIN created
  PROVE  now <= created[s] + EXPIRY_WINDOW
<1>0. MapsOK /\ RestOK
  BY TypeParts
<1>1. file' # file
  OBVIOUS
<1>2. \/ \E i \in Instances, t \in SessionIds : Initiate(i, t)
      \/ \E r \in Responses, c \in Claims : AcceptResponse(r, c)
  BY <1>1 DEF Next, vars, store, history, Tick, Crash, Start, LookUp, StartResponse,
              RejectResponse
<1>3. PICK i, t, session :
        file' = SetThenPruned(i, t, session) /\ UNCHANGED now
  BY <1>1, <1>2 DEF Initiate, AcceptResponse, SetSession, store, history
<1>4. ~Expired(file'[s])
  BY <1>3 DEF SetThenPruned, Unexpired
<1>5. file'[s].timestamp = created[s]
  <2>1. s \in DOMAIN created' /\ created'[s] = created[s]
    BY <1>2 DEF Initiate, AcceptResponse, With
  <2>2. CASE Next
    BY <2>1, <2>2, MapsStep DEF MapsOK, Dated
  <2> QED
    BY <1>1, <2>2 DEF vars, store, history
<1>6. created[s] \in Nat /\ now \in Nat /\ EXPIRY_WINDOW \in Nat
  BY <1>0 DEF RestOK, SessionsAssumption
<1> QED
  BY <1>4, <1>5, <1>6 DEF Expired

\* An expired session that left the file stays out of it (oid4vp/router.ts:
\* 85-95), for any number of instances, crashes and failing writes.
THEOREM ExpiredNeverReturns == Spec => ExpiredStaysGone
<1>1. TypeOK /\ [Next]_vars =>
        [\A s \in DOMAIN created :
           now > created[s] + EXPIRY_WINDOW /\ s \notin DOMAIN file =>
             s \notin DOMAIN file']_vars
  <2> SUFFICES ASSUME TypeOK, [Next]_vars, NEW s \in DOMAIN created,
                      now > created[s] + EXPIRY_WINDOW, s \notin DOMAIN file,
                      s \in DOMAIN file'
               PROVE  FALSE
    OBVIOUS
  <2>1. now <= created[s] + EXPIRY_WINDOW
    BY FileSteps, SessionsAssumption
  <2>2. created[s] \in Nat /\ now \in Nat /\ EXPIRY_WINDOW \in Nat
    BY SessionsAssumption DEF TypeOK, SessionsAssumption
  <2> QED
    BY <2>1, <2>2
<1> QED
  BY <1>1, SessionsTypeCorrect, PTL DEF Spec, ExpiredStaysGone

-----------------------------------------------------------------------------
(* One instance at a time *)

\* An instance may replace another, but never runs beside it.  This is said of
\* the behaviour: nothing in the code prevents a second instance.
OneInstanceAtATime == \A i, j \in Instances : up[i] /\ up[j] => i = j

\* The cache of the running instance holds what the file holds, but for
\* expired sessions and those whose own write failed.
CacheAgrees ==
  /\ ~written => file = NoSessions
  /\ \A i \in Instances : up[i] =>
       \A s \in DOMAIN file \ unsaved : ~Expired(file[s]) =>
         s \in DOMAIN cache[i] /\ cache[i][s] = file[s]

\* A look-up or a start leaves the cache as the file.
LEMMA LoadAgrees ==
  ASSUME TypeOK, NEW i \in Instances, \A j \in Instances : up'[j] => j = i,
         ~written => file = NoSessions, cache' = [cache EXCEPT ![i] = Loaded(i)],
         UNCHANGED <<now, store, unsaved>>
  PROVE  CacheAgrees'
<1>1. cache'[i] = Loaded(i)
  BY DEF TypeOK
<1>2. CASE written
  BY <1>1, <1>2 DEF CacheAgrees, Loaded, store
<1>3. CASE ~written
  BY <1>3 DEF CacheAgrees, store, NoSessions
<1> QED
  BY <1>2, <1>3

\* What a store of session s does to the others.
LEMMA StoreAgrees ==
  ASSUME TypeOK, NEW i \in Instances, \A j \in Instances : up[j] => j = i,
         CacheAgrees, up[i], NEW s, NEW session, SetSession(i, s, session),
         UNCHANGED <<now, up>>
  PROVE  /\ CacheAgrees'
         /\ \A t \in DOMAIN file \ unsaved' : t # s /\ ~Expired(file[t]) =>
              t \in DOMAIN file' /\ file'[t] = file[t]
         /\ s \notin unsaved' /\ ~Expired(session) =>
              s \in DOMAIN file' /\ file'[s] = session
<1> DEFINE stored == SetThenPruned(i, s, session)
<1>1. cache'[i] = stored /\ written \in BOOLEAN
  BY DEF TypeOK, SetSession
<1>2. \A t \in DOMAIN cache[i] : t # s /\ ~Expired(cache[i][t]) =>
        t \in DOMAIN stored /\ stored[t] = cache[i][t]
  BY DEF SetThenPruned, Unexpired, With
<1>3. ~Expired(session) => s \in DOMAIN stored /\ stored[s] = session
  BY DEF SetThenPruned, Unexpired, With
<1>4. \A t \in DOMAIN file \ unsaved : t # s /\ ~Expired(file[t]) =>
        t \in DOMAIN stored /\ stored[t] = file[t]
  BY <1>2 DEF CacheAgrees
<1> HIDE DEF stored
<1>5. CASE written' /\ file' = stored /\ unsaved' = unsaved \ {s}
  BY <1>1, <1>3, <1>4, <1>5 DEF CacheAgrees
<1>6. CASE UNCHANGED store /\ unsaved' = unsaved \union {s}
  <2>1. file' = file /\ written' = written
    BY <1>6 DEF store
  <2>2. \A m : Expired(m)' <=> Expired(m)
    BY DEF Expired
  <2>3. \A t \in DOMAIN file' \ unsaved' : ~Expired(file'[t]) =>
          t \in DOMAIN stored /\ stored[t] = file'[t]
    BY <1>4, <1>6, <2>1
  <2>4. CacheAgrees'
    BY <1>1, <2>1, <2>2, <2>3 DEF CacheAgrees, Expired
  <2> QED
    BY <1>6, <2>1, <2>4
<1> QED
  BY <1>5, <1>6 DEF SetSession, stored

\* Every step keeps cache and file in agreement.
LEMMA AgreementStep ==
  ASSUME SessionsAssumption, TypeOK, OneInstanceAtATime, OneInstanceAtATime',
         CacheAgrees, [Next]_vars
  PROVE  CacheAgrees'
<1>0. /\ up \in [Instances -> BOOLEAN]
      /\ now \in Nat /\ EXPIRY_WINDOW \in Nat
      /\ \A s \in DOMAIN file : file[s].timestamp \in Nat
      /\ \A r \in Responses : responses[r] # NoResponse =>
           responses[r].instance \in Instances /\ up[responses[r].instance]
  BY DEF TypeOK, AreSessions, SessionsAssumption
<1>1. CASE (\E r \in Responses : RejectResponse(r)) \/ UNCHANGED vars
  BY <1>1 DEF RejectResponse, vars, store, history, CacheAgrees, Expired
<1>2. CASE Tick
  <2>1. \A s \in DOMAIN file : Expired(file[s]) => Expired(file[s])'
    BY <1>0, <1>2 DEF Tick, store, Expired
  <2> QED
    BY <1>2, <2>1 DEF Tick, store, history, CacheAgrees
<1>3. ASSUME NEW i \in Instances, Crash(i)
      PROVE  CacheAgrees'
  <2>1. \A j \in Instances : up'[j] => j # i /\ up[j] /\ cache'[j] = cache[j]
    BY <1>0, <1>3 DEF Crash, TypeOK
  <2> QED
    BY <1>3, <2>1 DEF Crash, store, history, CacheAgrees, Expired
<1>4. ASSUME NEW i \in Instances,
             Start(i) \/ LookUp(i) \/
             \E r \in Responses, s \in SessionIds : StartResponse(i, r, s)
      PROVE  CacheAgrees'
  <2>1. /\ cache' = [cache EXCEPT ![i] = Loaded(i)]
        /\ UNCHANGED <<now, store, unsaved>>
    BY <1>4 DEF Start, LookUp, StartResponse, history
  <2>2. up'[i]
    BY <1>0, <1>4 DEF Start, LookUp, StartResponse
  <2> QED
    BY <2>1, <2>2, LoadAgrees DEF OneInstanceAtATime, CacheAgrees
<1>5. ASSUME NEW i \in Instances, NEW s \in SessionIds, Initiate(i, s)
      PROVE  CacheAgrees'
  BY <1>5, StoreAgrees DEF OneInstanceAtATime, Initiate
<1>6. ASSUME NEW r \in Responses, NEW c \in Claims, AcceptResponse(r, c)
      PROVE  CacheAgrees'
  <2>1. /\ responses[r].instance \in Instances /\ up[responses[r].instance]
        /\ SetSession(responses[r].instance, responses[r].id,
                      Verified(responses[r].session, c))
        /\ UNCHANGED <<now, up>>
    BY <1>0, <1>6 DEF AcceptResponse
  <2> QED
    BY <2>1, StoreAgrees DEF OneInstanceAtATime
<1> QED
  BY <1>1, <1>2, <1>3, <1>4, <1>5, <1>6 DEF Next

\* Storing session t for an instance keeps the others where they are.
LEMMA SurvivalOfOthers ==
  ASSUME SessionsAssumption, TypeOK, SessionsSurvive,
         NEW t, NEW s \in DOMAIN created \ unsaved', s # t,
         now <= created[s] + EXPIRY_WINDOW, unsaved \subseteq unsaved' \union {t},
         \A u \in DOMAIN file \ unsaved' : u # t /\ ~Expired(file[u]) =>
           u \in DOMAIN file' /\ file'[u] = file[u]
  PROVE  /\ s \in DOMAIN file'
         /\ s \in DOMAIN accepted =>
              file'[s].status = "verified" /\ file'[s].claims = accepted[s]
<1>1. /\ s \in DOMAIN file
      /\ s \in DOMAIN accepted =>
           file[s].status = "verified" /\ file[s].claims = accepted[s]
  BY DEF SessionsSurvive
<1>2. ~Expired(file[s])
  BY <1>1 DEF Expired, TypeOK, AreSessions, SessionsAssumption
<1> QED
  BY <1>1, <1>2

\* No step loses a session that has not expired.
LEMMA SurvivalStep ==
  ASSUME SessionsAssumption, TypeOK, OneInstanceAtATime, CacheAgrees,
         SessionsSurvive, [Next]_vars
  PROVE  SessionsSurvive'
<1>0. /\ now \in Nat /\ EXPIRY_WINDOW \in Nat
      /\ DOMAIN accepted \subseteq DOMAIN created
      /\ \A s \in DOMAIN created : created[s] \in Nat
  BY DEF TypeOK, SessionsAssumption
<1>1. CASE /\ UNCHANGED <<file, created, accepted, unsaved>>
           /\ now' = now \/ now' = now + 1
  BY <1>0, <1>1 DEF SessionsSurvive
<1>2. ASSUME NEW i \in Instances, NEW t \in SessionIds, Initiate(i, t)
      PROVE  SessionsSurvive'
  <2> DEFINE session == [status |-> "initiated", claims |-> Null, timestamp |-> now]
  <2>1. /\ \A s \in DOMAIN file \ unsaved' : s # t /\ ~Expired(file[s]) =>
             s \in DOMAIN file' /\ file'[s] = file[s]
        /\ t \notin unsaved' /\ ~Expired(session) => t \in DOMAIN file'
    BY <1>2, StoreAgrees DEF OneInstanceAtATime, Initiate
  <2>2. ~Expired(session)
    BY <1>0 DEF Expired
  <2>3. /\ DOMAIN created' = DOMAIN created \union {t}
        /\ \A s \in DOMAIN created : s # t /\ created'[s] = created[s]
        /\ t \notin DOMAIN accepted /\ accepted' = accepted /\ now' = now
        /\ unsaved \subseteq unsaved' \union {t}
    BY <1>0, <1>2 DEF Initiate, With, SetSession
  <2> HIDE DEF session
  <2>4. SUFFICES ASSUME NEW s \in DOMAIN created' \ unsaved',
                        now <= created'[s] + EXPIRY_WINDOW
                 PROVE  /\ s \in DOMAIN file'
                        /\ s \in DOMAIN accepted =>
                             /\ file'[s].status = "verified"
                             /\ file'[s].claims = accepted[s]
    BY <2>3 DEF SessionsSurvive
  <2>5. CASE s = t
    BY <2>1, <2>2, <2>3, <2>4, <2>5
  <2>6. CASE s # t
    BY <2>1, <2>3, <2>4, <2>6, SurvivalOfOthers
  <2> QED
    BY <2>5, <2>6
<1>3. ASSUME NEW r \in Responses, NEW c \in Claims, AcceptResponse(r, c)
      PROVE  SessionsSurvive'
  <2> DEFINE i == responses[r].instance
             t == responses[r].id
             session == Verified(responses[r].session, c)
  <2>1. /\ i \in Instances /\ up[i]
        /\ t \in DOMAIN created /\ session.timestamp = created[t]
        /\ session.status = "verified" /\ session.claims = c
    BY <1>3 DEF AcceptResponse, TypeOK, Verified
  <2>2. /\ SetSession(i, t, session) /\ UNCHANGED <<now, up, created>>
        /\ accepted' = With(accepted, t, c)
    BY <1>3, <2>1 DEF AcceptResponse
  <2> HIDE DEF i, t, session
  <2>3. /\ \A s \in DOMAIN file \ unsaved' : s # t /\ ~Expired(file[s]) =>
             s \in DOMAIN file' /\ file'[s] = file[s]
        /\ t \notin unsaved' /\ ~Expired(session) =>
             t \in DOMAIN file' /\ file'[t] = session
    BY <2>1, <2>2, StoreAgrees DEF OneInstanceAtATime
  <2>4. unsaved \subseteq unsaved' \union {t}
    BY <2>2 DEF SetSession
  <2>5. /\ accepted'[t] = c
        /\ \A s : s # t => /\ s \in DOMAIN accepted' <=> s \in DOMAIN accepted
                           /\ s \in DOMAIN accepted => accepted'[s] = accepted[s]
    BY <2>2 DEF With
  <2>6. SUFFICES ASSUME NEW s \in DOMAIN created \ unsaved',
                        now <= created[s] + EXPIRY_WINDOW
                 PROVE  /\ s \in DOMAIN file'
                        /\ s \in DOMAIN accepted' =>
                             /\ file'[s].status = "verified"
                             /\ file'[s].claims = accepted'[s]
    BY <2>2 DEF SessionsSurvive
  <2>7. CASE s = t
    <3>1. ~Expired(session)
      BY <1>0, <2>1, <2>6, <2>7 DEF Expired
    <3> QED
      BY <2>1, <2>3, <2>5, <2>6, <2>7, <3>1
  <2>8. CASE s # t
    BY <2>3, <2>4, <2>5, <2>6, <2>8, SurvivalOfOthers
  <2> QED
    BY <2>7, <2>8
<1> QED
  <2>1. CASE UNCHANGED vars
    BY <1>1, <2>1 DEF vars, store, history
  <2>2. CASE Tick
    BY <1>1, <2>2 DEF Tick, store, history
  <2>3. CASE \E i \in Instances : Crash(i) \/ Start(i) \/ LookUp(i)
    BY <1>1, <2>3 DEF Crash, Start, LookUp, store, history
  <2>4. CASE \E i \in Instances, s \in SessionIds, r \in Responses :
               StartResponse(i, r, s)
    BY <1>1, <2>4 DEF StartResponse, store, history
  <2>5. CASE \E r \in Responses : RejectResponse(r)
    BY <1>1, <2>5 DEF RejectResponse, store, history
  <2> QED
    BY <1>2, <1>3, <2>1, <2>2, <2>3, <2>4, <2>5 DEF Next

\* Instances that replace one another, and never run side by side, lose no
\* unexpired session and no verdict they told a wallet, unless writing that
\* very session failed, across crashes, restarts and failures to write other
\* sessions (oid4vp/router.ts:55-122).
THEOREM OneInstanceKeepsSessions ==
  Spec /\ []OneInstanceAtATime => []SessionsSurvive
<1>1. Init => CacheAgrees /\ SessionsSurvive
  BY DEF Init, CacheAgrees, SessionsSurvive, NoSessions
<1>2. /\ TypeOK /\ OneInstanceAtATime /\ OneInstanceAtATime'
      /\ CacheAgrees /\ SessionsSurvive /\ [Next]_vars
      => (CacheAgrees /\ SessionsSurvive)'
  BY AgreementStep, SurvivalStep, SessionsAssumption
<1> QED
  BY <1>1, <1>2, SessionsTypeCorrect, PTL DEF Spec

-----------------------------------------------------------------------------
(* Verdicts *)

\* VerdictsEarned, said of one map of sessions.
Earned(m) ==
  \A s \in DOMAIN m : m[s].status = "verified" => <<s, m[s].claims>> \in verdicts

LEMMA VerdictParts ==
  VerdictsEarned <=> (\A i \in Instances : Earned(cache[i])) /\ Earned(file)
BY DEF VerdictsEarned, Earned

\* Storing a session that was earned leaves earned maps, whoever stores it.
LEMMA StoreEarned ==
  ASSUME TypeOK, VerdictsEarned, verdicts \subseteq verdicts',
         NEW i \in Instances, NEW s, NEW session, SetSession(i, s, session),
         session.status = "verified" => <<s, session.claims>> \in verdicts'
  PROVE  VerdictsEarned'
<1> DEFINE stored == SetThenPruned(i, s, session)
<1>1. (\A j \in Instances : Earned(cache[j])) /\ Earned(file)
  BY VerdictParts
<1>2. \A t \in DOMAIN stored :
        \/ t = s /\ stored[t] = session
        \/ t \in DOMAIN cache[i] /\ stored[t] = cache[i][t]
  BY DEF SetThenPruned, Unexpired, With
<1>3. \A t \in DOMAIN stored :
        stored[t].status = "verified" => <<t, stored[t].claims>> \in verdicts'
  BY <1>1, <1>2 DEF Earned
<1>4. cache' = [cache EXCEPT ![i] = stored] /\ file' \in {file, stored}
  BY DEF SetSession, store
<1> HIDE DEF stored
<1>5. \A j \in Instances : cache'[j] \in {cache[j], stored}
  BY <1>4 DEF TypeOK
<1>6. \A j \in Instances : Earned(cache[j])'
  BY <1>1, <1>3, <1>5 DEF Earned
<1>7. Earned(file)'
  BY <1>1, <1>3, <1>4 DEF Earned
<1> QED
  BY <1>6, <1>7 DEF VerdictsEarned, Earned

\* Every step keeps the verdicts earned.
LEMMA EarnedStep ==
  ASSUME TypeOK, VerdictsEarned, [Next]_vars
  PROVE  VerdictsEarned'
<1>0. (\A j \in Instances : Earned(cache[j])) /\ Earned(file)
  BY VerdictParts
<1>1. CASE UNCHANGED <<cache, store, verdicts>>
  BY <1>1 DEF store, VerdictsEarned
<1>2. ASSUME NEW i \in Instances, Crash(i)
      PROVE  VerdictsEarned'
  <2>1. \A j \in Instances : cache'[j] \in {cache[j], NoSessions}
    BY <1>2 DEF Crash, TypeOK
  <2>2. file' = file /\ verdicts' = verdicts
    BY <1>2 DEF Crash, store, history
  <2> QED
    BY <1>0, <2>1, <2>2 DEF VerdictsEarned, Earned, NoSessions
<1>3. ASSUME NEW i \in Instances,
             Start(i) \/ LookUp(i) \/
             \E r \in Responses, s \in SessionIds : StartResponse(i, r, s)
      PROVE  VerdictsEarned'
  <2>1. /\ cache' = [cache EXCEPT ![i] = Loaded(i)]
        /\ file' = file /\ verdicts' = verdicts
    BY <1>3 DEF Start, LookUp, StartResponse, store, history
  <2>2. \A j \in Instances : cache'[j] \in {cache[j], file}
    BY <2>1 DEF Loaded, TypeOK
  <2> QED
    BY <1>0, <2>1, <2>2 DEF VerdictsEarned, Earned
<1>4. ASSUME NEW i \in Instances, NEW s \in SessionIds, Initiate(i, s)
      PROVE  VerdictsEarned'
  BY <1>4, StoreEarned DEF Initiate
<1>5. ASSUME NEW r \in Responses, NEW c \in Claims, AcceptResponse(r, c)
      PROVE  VerdictsEarned'
  <2>1. /\ responses[r].instance \in Instances
        /\ SetSession(responses[r].instance, responses[r].id,
                      Verified(responses[r].session, c))
        /\ verdicts' = verdicts \union {<<responses[r].id, c>>}
    BY <1>5 DEF AcceptResponse, TypeOK
  <2>2. Verified(responses[r].session, c).claims = c
    BY DEF Verified
  <2> QED
    BY <2>1, <2>2, StoreEarned
<1> QED
  BY <1>1, <1>2, <1>3, <1>4, <1>5 DEF Next, Tick, RejectResponse, vars, history

\* No cache and no file ever shows a verdict that was not told to a wallet for
\* that session, or claims other than such a wallet disclosed, for any number
\* of instances that overwrite each other's file (oid4vp/router.ts:393-399).
THEOREM VerdictsAreEarned == Spec => []VerdictsEarned
<1>1. Init => VerdictsEarned
  BY DEF Init, VerdictsEarned, NoSessions
<1>2. TypeOK /\ VerdictsEarned /\ [Next]_vars => VerdictsEarned'
  BY EarnedStep
<1> QED
  BY <1>1, <1>2, SessionsTypeCorrect, PTL DEF Spec

=============================================================================
