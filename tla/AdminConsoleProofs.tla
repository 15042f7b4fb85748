------------------------- MODULE AdminConsoleProofs -------------------------
(***************************************************************************)
(* Proofs about AdminAuth and AdminConsole, for any number of sessions and *)
(* tokens, any lifetimes, any templates and any address of the issuer.     *)
(***************************************************************************)
EXTENDS AdminConsole, TLAPS

-----------------------------------------------------------------------------
(* The Maps of the middleware *)

\* Pruning and deleting take entries away and change none.
LEMMA PrunedSessions ==
  /\ DOMAIN LiveSessions \subseteq DOMAIN sessions
  /\ \A s \in DOMAIN LiveSessions : LiveSessions[s] = sessions[s]
  /\ LiveSessions = [s \in DOMAIN LiveSessions |-> LiveSessions[s]]
BY DEF LiveSessions, RestrictDomain, Restrict

LEMMA PrunedTokens ==
  /\ DOMAIN LiveCsrfTokens \subseteq DOMAIN csrfTokens
  /\ \A t \in DOMAIN LiveCsrfTokens : LiveCsrfTokens[t] = csrfTokens[t]
  /\ LiveCsrfTokens = [t \in DOMAIN LiveCsrfTokens |-> LiveCsrfTokens[t]]
BY DEF LiveCsrfTokens, RestrictDomain, Restrict

LEMMA TokensWithoutOne ==
  ASSUME NEW t
  PROVE  /\ DOMAIN TokensWithout(t) \subseteq DOMAIN csrfTokens \ {t}
         /\ \A u \in DOMAIN TokensWithout(t) : TokensWithout(t)[u] = csrfTokens[u]
         /\ TokensWithout(t) = [u \in DOMAIN TokensWithout(t) |-> TokensWithout(t)[u]]
<1> DEFINE D == DOMAIN LiveCsrfTokens \ {t}
<1>1. TokensWithout(t) = [u \in D |-> LiveCsrfTokens[u]]
  BY DEF TokensWithout, Restrict
<1> HIDE DEF D
<1>2. DOMAIN TokensWithout(t) = D /\ \A u \in D : TokensWithout(t)[u] = LiveCsrfTokens[u]
  BY <1>1
<1>3. D \subseteq DOMAIN csrfTokens \ {t} /\ \A u \in D : LiveCsrfTokens[u] = csrfTokens[u]
  BY PrunedTokens DEF D
<1> QED
  BY <1>1, <1>2, <1>3

-----------------------------------------------------------------------------
(* What the middleware knows *)

\* Every entry expires its lifetime after it was made, and a token belongs to
\* the session it was handed to.
SessionTimes ==
  \A s \in DOMAIN sessions : sessions[s] = loggedIn[s] + SESSION_TTL

TokenTimes ==
  \A t \in DOMAIN csrfTokens :
    /\ csrfTokens[t].sessionId = handed[t].sessionId
    /\ csrfTokens[t].expiry = handed[t].at + CSRF_TTL

\* Only tokens that were handed out were ever accepted.
AcceptedHanded == \A p \in accepted : p[2] \in DOMAIN handed

AuthInvariant ==
  AuthTypeOK /\ SessionTimes /\ TokenTimes /\ AcceptedHanded /\ CsrfSingleUse

\* What the handlers and the start-up do to the middleware.
AuthNext ==
  \/ AuthStart \/ AuthHalt \/ Tick \/ PruneOnly
  \/ \E c \in DOMAIN loggedIn, t \in DOMAIN handed : PassCookie(c, t)
  \/ \E s \in SessionIds : Login(s) \/ Logout(s)
  \/ \E c \in Cookies, t \in CsrfIds : CsrfHandshake(c, t)
  \/ UNCHANGED authVars

LEMMA NextAuth == [Next]_vars => AuthNext
BY DEF Next, vars, Start, StartTearsDefault, Halt, Deploy, Setup, SaveMapping,
   OtherPost, SaveFails, AuthOnly, Authorised, PassBearer, AuthNext

\* A step that only takes sessions and tokens away.
LEMMA FewerEntries ==
  ASSUME AuthInvariant, UNCHANGED <<up, now, loggedIn, ended, handed, accepted>>,
         up,
         sessions' = [s \in DOMAIN sessions' |-> sessions'[s]],
         DOMAIN sessions' \subseteq DOMAIN sessions,
         \A s \in DOMAIN sessions' : sessions'[s] = sessions[s],
         csrfTokens' = [t \in DOMAIN csrfTokens' |-> csrfTokens'[t]],
         DOMAIN csrfTokens' \subseteq DOMAIN csrfTokens,
         \A t \in DOMAIN csrfTokens' : csrfTokens'[t] = csrfTokens[t]
  PROVE  AuthInvariant'
<1>1. sessions' \in [DOMAIN sessions' -> Nat]
  BY DEF AuthInvariant, AuthTypeOK
<1>2. csrfTokens' \in [DOMAIN csrfTokens' -> CsrfTokenEntry]
  BY DEF AuthInvariant, AuthTypeOK
<1>3. AuthTypeOK'
  BY <1>1, <1>2 DEF AuthInvariant, AuthTypeOK
<1>4. SessionTimes' /\ TokenTimes' /\ AcceptedHanded' /\ CsrfSingleUse'
  BY DEF AuthInvariant, SessionTimes, TokenTimes, AcceptedHanded, CsrfSingleUse
<1> QED
  BY <1>3, <1>4 DEF AuthInvariant

LEMMA PrunedSessionsNext ==
  ASSUME sessions' = LiveSessions
  PROVE  /\ sessions' = [s \in DOMAIN sessions' |-> sessions'[s]]
         /\ DOMAIN sessions' \subseteq DOMAIN sessions
         /\ \A s \in DOMAIN sessions' : sessions'[s] = sessions[s]
BY PrunedSessions

LEMMA PruneOnlyStep ==
  ASSUME AuthInvariant, PruneOnly
  PROVE  AuthInvariant'
<1>1. /\ csrfTokens' = [t \in DOMAIN csrfTokens' |-> csrfTokens'[t]]
      /\ DOMAIN csrfTokens' \subseteq DOMAIN csrfTokens
      /\ \A t \in DOMAIN csrfTokens' : csrfTokens'[t] = csrfTokens[t]
  BY PrunedTokens DEF PruneOnly
<1> QED
  BY <1>1, PrunedSessionsNext, FewerEntries DEF PruneOnly, authHistory

\* A logout, which keeps the tokens of the session.
LEMMA LogoutStep ==
  ASSUME AuthInvariant, NEW s \in SessionIds, Logout(s)
  PROVE  AuthInvariant'
<1>1. /\ DOMAIN sessions' = DOMAIN sessions \ {s}
      /\ sessions' \in [DOMAIN sessions' -> Nat]
      /\ \A x \in DOMAIN sessions' : sessions'[x] = sessions[x]
  BY DEF Logout, Restrict, AuthInvariant, AuthTypeOK
<1>2. AuthTypeOK'
  BY <1>1 DEF Logout, AuthInvariant, AuthTypeOK
<1>3. SessionTimes' /\ TokenTimes' /\ AcceptedHanded' /\ CsrfSingleUse'
  BY <1>1 DEF Logout, AuthInvariant, SessionTimes, TokenTimes, AcceptedHanded,
     CsrfSingleUse
<1> QED
  BY <1>2, <1>3 DEF AuthInvariant

LEMMA LoginStep ==
  ASSUME AuthInvariant, NEW s \in SessionIds, Login(s)
  PROVE  AuthInvariant'
<1>1. now \in Nat /\ now + SESSION_TTL \in Nat
  BY AdminAuthAssumption DEF AuthInvariant, AuthTypeOK
<1>2. /\ DOMAIN sessions' = DOMAIN sessions \union {s}
      /\ sessions'[s] = now + SESSION_TTL
      /\ \A x \in DOMAIN sessions : x # s => sessions'[x] = sessions[x]
      /\ sessions' = [x \in DOMAIN sessions' |-> sessions'[x]]
  BY DEF Login, With
<1>3. /\ DOMAIN loggedIn' = DOMAIN loggedIn \union {s}
      /\ loggedIn'[s] = now
      /\ \A x \in DOMAIN loggedIn : x # s => loggedIn'[x] = loggedIn[x]
      /\ loggedIn' = [x \in DOMAIN loggedIn' |-> loggedIn'[x]]
  BY DEF Login, With
<1>4. sessions' \in [DOMAIN sessions' -> Nat] /\ loggedIn' \in [DOMAIN loggedIn' -> Nat]
  <2>1. \A x \in DOMAIN sessions' : sessions'[x] \in Nat
    BY <1>1, <1>2 DEF AuthInvariant, AuthTypeOK
  <2>2. \A x \in DOMAIN loggedIn' : loggedIn'[x] \in Nat
    BY <1>1, <1>3 DEF AuthInvariant, AuthTypeOK
  <2> QED
    BY <1>2, <1>3, <2>1, <2>2
<1>5. AuthTypeOK'
  BY <1>2, <1>3, <1>4 DEF Login, AuthInvariant, AuthTypeOK
<1>6. SessionTimes'
  BY <1>2, <1>3 DEF Login, AuthInvariant, AuthTypeOK, SessionTimes
<1>7. TokenTimes' /\ AcceptedHanded' /\ CsrfSingleUse'
  BY DEF Login, AuthInvariant, TokenTimes, AcceptedHanded, CsrfSingleUse
<1> QED
  BY <1>5, <1>6, <1>7 DEF AuthInvariant

LEMMA CsrfHandshakeStep ==
  ASSUME AuthInvariant, NEW c \in Cookies, NEW t \in CsrfIds, CsrfHandshake(c, t)
  PROVE  AuthInvariant'
<1>1. PICK others :
        /\ HandOut(c, t, others)
        /\ others = csrfTokens \/ others = LiveCsrfTokens
  BY DEF CsrfHandshake
<1>2. /\ DOMAIN others \subseteq DOMAIN csrfTokens
      /\ \A u \in DOMAIN others : others[u] = csrfTokens[u]
  BY <1>1, PrunedTokens
<1>3. /\ sessions' \in [DOMAIN sessions' -> Nat]
      /\ DOMAIN sessions' \subseteq DOMAIN sessions
      /\ \A s \in DOMAIN sessions' : sessions'[s] = sessions[s]
  BY PrunedSessionsNext DEF CsrfHandshake, AuthInvariant, AuthTypeOK
<1>4. /\ DOMAIN csrfTokens' = DOMAIN others \union {t}
      /\ csrfTokens'[t] = [sessionId |-> c, expiry |-> now + CSRF_TTL]
      /\ \A u \in DOMAIN others : u # t => csrfTokens'[u] = others[u]
      /\ csrfTokens' = [u \in DOMAIN csrfTokens' |-> csrfTokens'[u]]
  BY <1>1 DEF HandOut, With
<1>5. /\ DOMAIN handed' = DOMAIN handed \union {t}
      /\ handed'[t] = [sessionId |-> c, at |-> now]
      /\ \A u \in DOMAIN handed : u # t => handed'[u] = handed[u]
      /\ handed' = [u \in DOMAIN handed' |-> handed'[u]]
  BY <1>1 DEF HandOut, With
<1>6. now \in Nat /\ now + CSRF_TTL \in Nat
  BY AdminAuthAssumption DEF AuthInvariant, AuthTypeOK
<1>7. csrfTokens' \in [DOMAIN csrfTokens' -> CsrfTokenEntry]
  <2>1. csrfTokens'[t] \in CsrfTokenEntry
    BY <1>4, <1>6 DEF CsrfTokenEntry
  <2>2. \A u \in DOMAIN others : others[u] \in CsrfTokenEntry
    BY <1>2 DEF AuthInvariant, AuthTypeOK
  <2> QED
    BY <1>4, <2>1, <2>2
<1>8. handed' \in [DOMAIN handed' -> [sessionId : Cookies, at : Nat]]
  <2>1. handed'[t] \in [sessionId : Cookies, at : Nat]
    BY <1>5, <1>6
  <2>2. \A u \in DOMAIN handed : handed[u] \in [sessionId : Cookies, at : Nat]
    BY DEF AuthInvariant, AuthTypeOK
  <2> QED
    BY <1>5, <2>1, <2>2
<1>9. t \notin DOMAIN handed /\ up
      /\ UNCHANGED <<up, now, loggedIn, ended, accepted>>
  BY <1>1 DEF HandOut, CsrfHandshake
<1>10. AuthTypeOK'
  BY <1>2, <1>3, <1>4, <1>5, <1>7, <1>8, <1>9 DEF AuthInvariant, AuthTypeOK
<1>11. SessionTimes'
  BY <1>3, <1>9 DEF AuthInvariant, SessionTimes
<1>12. TokenTimes'
  <2>1. \A u \in DOMAIN others : u # t /\ u \in DOMAIN csrfTokens /\ u \in DOMAIN handed
    BY <1>2, <1>9 DEF AuthInvariant, AuthTypeOK
  <2> QED
    BY <1>2, <1>4, <1>5, <2>1 DEF AuthInvariant, TokenTimes
<1>13. AcceptedHanded' /\ CsrfSingleUse'
  BY <1>2, <1>4, <1>5, <1>9 DEF AuthInvariant, AcceptedHanded, CsrfSingleUse
<1> QED
  BY <1>10, <1>11, <1>12, <1>13 DEF AuthInvariant

LEMMA PassCookieStep ==
  ASSUME AuthInvariant, NEW c \in DOMAIN loggedIn, NEW t \in DOMAIN handed,
         PassCookie(c, t)
  PROVE  AuthInvariant'
<1>1. /\ csrfTokens' = [u \in DOMAIN csrfTokens' |-> csrfTokens'[u]]
      /\ DOMAIN csrfTokens' \subseteq DOMAIN csrfTokens \ {t}
      /\ \A u \in DOMAIN csrfTokens' : csrfTokens'[u] = csrfTokens[u]
  BY TokensWithoutOne DEF PassCookie
<1>2. /\ sessions' = [s \in DOMAIN sessions' |-> sessions'[s]]
      /\ DOMAIN sessions' \subseteq DOMAIN sessions
      /\ \A s \in DOMAIN sessions' : sessions'[s] = sessions[s]
  BY PrunedSessionsNext DEF PassCookie
<1>3. /\ accepted' = accepted \union {<<c, t>>} /\ t \in DOMAIN csrfTokens
      /\ up /\ UNCHANGED <<up, now, loggedIn, ended, handed>>
  BY DEF PassCookie, ValidCsrf
<1>4. sessions' \in [DOMAIN sessions' -> Nat]
  BY <1>2 DEF AuthInvariant, AuthTypeOK
<1>5. csrfTokens' \in [DOMAIN csrfTokens' -> CsrfTokenEntry]
  BY <1>1 DEF AuthInvariant, AuthTypeOK
<1>6. AuthTypeOK'
  BY <1>1, <1>2, <1>3, <1>4, <1>5 DEF AuthInvariant, AuthTypeOK
<1>7. SessionTimes' /\ TokenTimes' /\ AcceptedHanded'
  BY <1>1, <1>2, <1>3 DEF AuthInvariant, SessionTimes, TokenTimes, AcceptedHanded
<1>8. CsrfSingleUse'
  BY <1>1, <1>3 DEF AuthInvariant, CsrfSingleUse
<1> QED
  BY <1>6, <1>7, <1>8 DEF AuthInvariant

LEMMA AuthHaltStep ==
  ASSUME AuthInvariant, AuthHalt
  PROVE  AuthInvariant'
<1>1. /\ DOMAIN sessions' = {} /\ sessions' \in [DOMAIN sessions' -> Nat]
      /\ DOMAIN csrfTokens' = {} /\ csrfTokens' \in [DOMAIN csrfTokens' -> CsrfTokenEntry]
  BY DEF AuthHalt, NoEntries
<1> QED
  BY <1>1 DEF AuthHalt, AuthInvariant, AuthTypeOK, SessionTimes, TokenTimes,
     AcceptedHanded, CsrfSingleUse

LEMMA NextAuthInvariant == AuthInvariant /\ [Next]_vars => AuthInvariant'
<1> SUFFICES ASSUME AuthInvariant, AuthNext
             PROVE  AuthInvariant'
  BY NextAuth
<1>1. CASE AuthStart
  BY <1>1 DEF AuthStart, authStores, authHistory, AuthInvariant, AuthTypeOK,
     SessionTimes, TokenTimes, AcceptedHanded, CsrfSingleUse
<1>2. CASE Tick
  BY <1>2 DEF Tick, authStores, authHistory, AuthInvariant, AuthTypeOK,
     SessionTimes, TokenTimes, AcceptedHanded, CsrfSingleUse
<1>3. CASE UNCHANGED authVars
  BY <1>3 DEF authVars, authStores, authHistory, AuthInvariant, AuthTypeOK,
     SessionTimes, TokenTimes, AcceptedHanded, CsrfSingleUse
<1> QED
  BY <1>1, <1>2, <1>3, AuthHaltStep, PruneOnlyStep, LoginStep, LogoutStep,
     CsrfHandshakeStep, PassCookieStep DEF AuthNext

LEMMA InitAuthInvariant == Init => AuthInvariant
<1> SUFFICES ASSUME Init PROVE AuthInvariant
  OBVIOUS
<1>1. NoEntries = [x \in {} |-> 0] /\ DOMAIN NoEntries = {}
  BY DEF NoEntries
<1>2. \A S : NoEntries \in [{} -> S]
  BY DEF NoEntries
<1>3. AuthTypeOK
  BY <1>1, <1>2 DEF Init, AuthInit, AuthTypeOK
<1> QED
  BY <1>1, <1>3 DEF Init, AuthInit, AuthInvariant, SessionTimes, TokenTimes,
     AcceptedHanded, CsrfSingleUse


\* A CSRF token lets one POST through, whatever races, expires, logs in again
\* or restarts (auth.ts:47-56).
THEOREM TokensSpentOnce == Spec => []CsrfSingleUse
<1>1. AuthInvariant => CsrfSingleUse
  BY DEF AuthInvariant
<1> QED
  BY <1>1, InitAuthInvariant, NextAuthInvariant, PTL DEF Spec

\* A POST passes with a session that is alive and a token of that session
\* (auth.ts:45-67, 102-121).
LEMMA NewPostsAuthorised ==
  ASSUME AuthInvariant, [Next]_vars, NEW p \in accepted' \ accepted
  PROVE  LET s == p[1]  t == p[2] IN
         /\ s \in DOMAIN loggedIn \ ended
         /\ now < loggedIn[s] + SESSION_TTL
         /\ handed[t].sessionId = s
         /\ now <= handed[t].at + CSRF_TTL
<1>1. PICK c \in DOMAIN loggedIn, t \in DOMAIN handed : PassCookie(c, t)
  BY NextAuth DEF AuthNext, AuthStart, AuthHalt, Tick, PruneOnly, Login, Logout,
     CsrfHandshake, HandOut, authVars, authStores, authHistory
<1>2. p = <<c, t>> /\ p[1] = c /\ p[2] = t
  BY <1>1 DEF PassCookie
<1>3. /\ c \in DOMAIN sessions /\ sessions[c] > now
      /\ t \in DOMAIN csrfTokens
      /\ csrfTokens[t].expiry >= now /\ csrfTokens[t].sessionId = c
  BY <1>1 DEF PassCookie, ValidSession, ValidCsrf
<1>4. c \in DOMAIN loggedIn \ ended /\ sessions[c] = loggedIn[c] + SESSION_TTL
  BY <1>3 DEF AuthInvariant, AuthTypeOK, SessionTimes
<1>5. csrfTokens[t].sessionId = handed[t].sessionId
      /\ csrfTokens[t].expiry = handed[t].at + CSRF_TTL
  BY <1>3 DEF AuthInvariant, TokenTimes
<1>6. now \in Nat /\ loggedIn[c] \in Nat /\ handed[t].at \in Nat
  BY <1>4 DEF AuthInvariant, AuthTypeOK
<1> QED
  BY <1>2, <1>3, <1>4, <1>5, <1>6, AdminAuthAssumption

\* Whoever passes requireAdmin and requireCsrf with a cookie logged in, did
\* not log out, and holds a token of that very login.
THEOREM PostsAreAuthorised == Spec => PostsAuthorised
<1>1. AuthInvariant /\ [Next]_vars =>
        [\A p \in accepted' \ accepted :
           LET s == p[1]  t == p[2] IN
           /\ s \in DOMAIN loggedIn \ ended
           /\ now < loggedIn[s] + SESSION_TTL
           /\ handed[t].sessionId = s
           /\ now <= handed[t].at + CSRF_TTL]_authVars
  BY NewPostsAuthorised
<1> QED
  BY <1>1, InitAuthInvariant, NextAuthInvariant, PTL DEF Spec, PostsAuthorised

-----------------------------------------------------------------------------
(* The configuration file *)

LEMMA DefaultConfigType ==
  /\ DEFAULT_CONFIG \in Config
  /\ DEFAULT_CONFIG.type \in Templates
  /\ MappingsCover(DEFAULT_CONFIG.type, DEFAULT_CONFIG.fieldMappings)
<1>1. /\ DefaultType \in Templates /\ RequiredFields[DefaultType] \in SUBSET Fields
      /\ (IF ISSUER_URL = Unset THEN Localhost ELSE ISSUER_URL) \in Hosts
  BY AdminConsoleAssumption
<1> QED
  BY <1>1 DEF DEFAULT_CONFIG, Config, MappingsCover

LEMMA LoadConfigType ==
  ASSUME configFile \in Config \union {Absent, Torn}
  PROVE  /\ loadConfig \in Config
         /\ loadConfig.type = IF configFile \in Config THEN configFile.type
                              ELSE DEFAULT_CONFIG.type
         /\ loadConfig.fieldMappings = IF configFile \in Config
                                       THEN configFile.fieldMappings
                                       ELSE DEFAULT_CONFIG.fieldMappings
         /\ loadConfig.options = IF configFile \in Config THEN configFile.options
                                 ELSE DEFAULT_CONFIG.options
         /\ loadConfig.dataSource = IF configFile \in Config THEN configFile.dataSource
                                    ELSE DEFAULT_CONFIG.dataSource
<1> DEFINE stored == IF configFile \in Config THEN configFile ELSE DEFAULT_CONFIG
<1>1. stored \in Config
  BY DefaultConfigType
<1>2. loadConfig = IF ISSUER_URL = Unset THEN stored
                   ELSE [stored EXCEPT !.host = ISSUER_URL]
  BY DEF loadConfig
<1>3. ISSUER_URL # Unset => ISSUER_URL \in Hosts
  BY AdminConsoleAssumption
<1> HIDE DEF stored
<1>4. /\ loadConfig \in Config
      /\ loadConfig.type = stored.type
      /\ loadConfig.fieldMappings = stored.fieldMappings
      /\ loadConfig.options = stored.options
      /\ loadConfig.dataSource = stored.dataSource
  BY <1>1, <1>2, <1>3 DEF Config
<1> QED
  BY <1>4 DEF stored

\* Template and mappings of a file that was found in order still are.
FileInOrder ==
  validated /\ configFile \in Config =>
    /\ configFile.type \in Templates
    /\ MappingsCover(configFile.type, configFile.fieldMappings)

FileInvariant ==
  /\ configFile \in Config \union {Absent, Torn} /\ validated \in BOOLEAN
  /\ FileInOrder

\* What loadConfig returns is in order as well.
LEMMA LoadedInOrder ==
  ASSUME FileInvariant, validated, Readable
  PROVE  /\ loadConfig.type \in Templates
         /\ MappingsCover(loadConfig.type, loadConfig.fieldMappings)
BY LoadConfigType, DefaultConfigType DEF FileInvariant, FileInOrder, Readable

LEMMA SetupStep ==
  ASSUME FileInvariant, Setup
  PROVE  FileInvariant'
<1>1. PICK name \in BOOLEAN, host \in Hosts, source \in BOOLEAN \union {Unset} :
        configFile' = SetupConfig(name, host, source)
  BY DEF Setup, Saved
<1>2. loadConfig \in Config
  BY LoadConfigType DEF FileInvariant
<1> DEFINE config == loadConfig
<1>3. config \in Config /\ config.dataSource \in BOOLEAN
  BY <1>2 DEF Config
<1>4. configFile' = [config EXCEPT !.named = name, !.host = host,
                       !.dataSource = IF source = Unset THEN @ ELSE source]
  BY <1>1 DEF SetupConfig
<1>5. (IF source = Unset THEN config.dataSource ELSE source) \in BOOLEAN
  BY <1>3
<1> HIDE DEF config
<1>6. /\ configFile' \in Config
      /\ configFile'.type = config.type
      /\ configFile'.fieldMappings = config.fieldMappings
  BY <1>3, <1>4, <1>5 DEF Config
<1>7. validated' = validated /\ Readable
  BY DEF Setup
<1> QED
  BY <1>6, <1>7, LoadedInOrder DEF FileInvariant, FileInOrder, config

LEMMA SaveMappingStep ==
  ASSUME FileInvariant, SaveMapping
  PROVE  FileInvariant'
<1>1. PICK ty \in Templates \union {UnknownType}, mappings \in SUBSET Fields :
        /\ ValidMapping(ty, mappings)
        /\ configFile' = [loadConfig EXCEPT !.type = ty, !.fieldMappings = mappings]
  BY DEF SaveMapping, Saved
<1>2. loadConfig \in Config
  BY LoadConfigType DEF FileInvariant
<1>3. /\ configFile' \in Config
      /\ configFile'.type = ty /\ configFile'.fieldMappings = mappings
  BY <1>1, <1>2 DEF Config
<1>4. validated' = TRUE
  BY DEF SaveMapping
<1> QED
  BY <1>1, <1>3, <1>4 DEF FileInvariant, FileInOrder, ValidMapping

LEMMA StartStep ==
  ASSUME FileInvariant, Start
  PROVE  FileInvariant'
<1>1. /\ configFile' = IF configFile = Absent THEN DEFAULT_CONFIG ELSE configFile
      /\ validated' = (validated \/ startupOk(loadConfig))
      /\ configFile # Torn
  BY DEF Start, Readable
<1>2. startupOk(loadConfig) /\ configFile \in Config =>
        /\ configFile.type \in Templates
        /\ MappingsCover(configFile.type, configFile.fieldMappings)
  BY LoadConfigType DEF FileInvariant, startupOk
<1>3. configFile' \in Config
  BY <1>1, DefaultConfigType DEF FileInvariant
<1>4. validated' \in BOOLEAN
  BY <1>1 DEF startupOk
<1>5. FileInOrder'
  <2>1. CASE configFile = Absent
    BY <1>1, <2>1, DefaultConfigType DEF FileInOrder
  <2>2. CASE configFile # Absent
    BY <1>1, <1>2, <2>2 DEF FileInvariant, FileInOrder
  <2> QED
    BY <2>1, <2>2
<1> QED
  BY <1>3, <1>4, <1>5 DEF FileInvariant

LEMMA NextFile == FileInvariant /\ [Next]_vars => FileInvariant'
<1> SUFFICES ASSUME FileInvariant, [Next]_vars
             PROVE  FileInvariant'
  OBVIOUS
<1>1. CASE UNCHANGED vars \/ Halt \/ OtherPost \/ AuthOnly
  BY <1>1 DEF vars, Halt, OtherPost, AuthOnly, FileInvariant, FileInOrder
<1>2. CASE StartTearsDefault
  BY <1>2, AdminConsoleAssumption DEF StartTearsDefault, FileInvariant, FileInOrder
<1>3. CASE SaveFails
  BY <1>3, AdminConsoleAssumption DEF SaveFails, WriteFails, FileInvariant, FileInOrder
<1>4. CASE Deploy
  BY <1>4, AdminConsoleAssumption DEF Deploy, FileInvariant, FileInOrder
<1> QED
  BY <1>1, <1>2, <1>3, <1>4, StartStep, SetupStep, SaveMappingStep DEF Next

LEMMA FileAlwaysInvariant == Spec => []FileInvariant
<1>1. Init => FileInvariant
  BY AdminConsoleAssumption DEF Init, FileInvariant, FileInOrder
<1> QED
  BY <1>1, NextFile, PTL DEF Spec

\* The Maps of the middleware and the configuration file keep their types.
THEOREM ConsoleTypeCorrect == Spec => []TypeOK
<1>1. AuthInvariant /\ FileInvariant => TypeOK
  BY DEF AuthInvariant, FileInvariant, TypeOK
<1> QED
  BY <1>1, InitAuthInvariant, NextAuthInvariant, FileAlwaysInvariant, PTL DEF Spec

\* The console never saves a template or mappings that the next start-up
\* refuses once they were in order, for any templates and required fields
\* (admin/router.ts:54-73, 199-234, server.ts:46-92).
THEOREM SavedConfigsStart == Spec => []SavedConfigStarts
<1>1. FileInvariant => SavedConfigStarts
  <2> SUFFICES ASSUME FileInvariant, validated, configFile \in Config,
                      configFile.options, configFile.dataSource
               PROVE  Startable(loadConfig)
    BY DEF SavedConfigStarts
  <2>1. /\ loadConfig.type \in Templates
        /\ MappingsCover(loadConfig.type, loadConfig.fieldMappings)
        /\ loadConfig.options /\ loadConfig.dataSource
    BY LoadConfigType DEF FileInvariant, FileInOrder
  <2> QED
    BY <2>1 DEF Startable, startupOk
<1> QED
  BY <1>1, FileAlwaysInvariant, PTL

\* Nothing but the operator repairs a torn file (config/loader.ts:44).
THEOREM TornConfigsFailClosed == Spec => TornConfigFailsClosed
<1>1. [Next]_vars => [configFile = Torn =>
                        /\ configFile' # Torn => ~up
                        /\ ~up => ~up']_vars
  <2> SUFFICES ASSUME Next, configFile = Torn
               PROVE  (configFile' # Torn => ~up) /\ (~up => ~up')
    OBVIOUS
  <2>1. ~Start /\ ~StartTearsDefault /\ ~Setup /\ ~SaveMapping /\ ~SaveFails
    BY AdminConsoleAssumption DEF Start, StartTearsDefault, Setup, SaveMapping,
       SaveFails, WriteFails, Readable
  <2>2. CASE Halt
    BY <2>2 DEF Halt, AuthHalt
  <2>3. CASE Deploy
    BY <2>3 DEF Deploy, authVars
  <2>4. CASE OtherPost \/ AuthOnly
    <3>1. UNCHANGED <<up, configFile>>
      BY <2>4 DEF OtherPost, Authorised, PassBearer, PassCookie, authVars, AuthOnly,
         Login, Logout, CsrfHandshake, HandOut, PruneOnly, Tick
    <3> QED
      BY <3>1
  <2> QED
    BY <2>1, <2>2, <2>3, <2>4 DEF Next
<1> QED
  BY <1>1, PTL DEF Spec, TornConfigFailsClosed

=============================================================================
