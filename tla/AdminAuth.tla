------------------------------ MODULE AdminAuth ------------------------------
(***************************************************************************)
(* Who may use the admin console (middleware/auth.ts and the login, logout *)
(* and csrf-handshake handlers of admin/router.ts).  Sessions and CSRF     *)
(* tokens live in two Maps of the process: a restart forgets them.  A      *)
(* request carries any cookie and any token ever handed out; a request     *)
(* with the admin API key (bearer) bypasses both.                          *)
(***************************************************************************)
EXTENDS Naturals, Functions

CONSTANTS
  SessionIds,      \* the values of admin_session the program draws
  CsrfIds,         \* the CSRF tokens it draws
  NoCookie,        \* getSessionId(req) ?? ''
  SESSION_TTL,
  CSRF_TTL,
  MaxTime          \* bound of the model: the clock stops here

ASSUME AdminAuthAssumption ==
  /\ NoCookie \notin SessionIds
  /\ SESSION_TTL \in Nat /\ CSRF_TTL \in Nat /\ MaxTime \in Nat

VARIABLES
  up,
  now,
  sessions,        \* session id |-> expiry
  csrfTokens       \* token |-> its session and expiry

\* History: logins, sessions that ended by a logout or with their process,
\* tokens handed out, and the cookie-authorised POSTs that were let through.
VARIABLES loggedIn, ended, handed, accepted

authStores  == <<sessions, csrfTokens>>
authHistory == <<loggedIn, ended, handed, accepted>>
authVars    == <<up, now, authStores, authHistory>>

Cookies == SessionIds \union {NoCookie}

CsrfTokenEntry == [sessionId : Cookies, expiry : Nat]

AuthTypeOK ==
  /\ up \in BOOLEAN
  /\ now \in Nat
  /\ sessions \in [DOMAIN sessions -> Nat]
  /\ csrfTokens \in [DOMAIN csrfTokens -> CsrfTokenEntry]
  /\ loggedIn \in [DOMAIN loggedIn -> Nat] /\ DOMAIN loggedIn \subseteq SessionIds
  /\ handed \in [DOMAIN handed -> [sessionId : Cookies, at : Nat]]
  /\ DOMAIN handed \subseteq CsrfIds
  /\ DOMAIN sessions \subseteq DOMAIN loggedIn \ ended
  /\ DOMAIN csrfTokens \subseteq DOMAIN handed
  /\ ended \subseteq DOMAIN loggedIn
  /\ accepted \subseteq SessionIds \X CsrfIds
  /\ ~up => DOMAIN sessions = {} /\ DOMAIN csrfTokens = {}

NoEntries == [x \in {} |-> 0]

AuthInit ==
  /\ up = FALSE
  /\ now = 0
  /\ sessions = NoEntries /\ csrfTokens = NoEntries
  /\ loggedIn = NoEntries /\ ended = {} /\ handed = NoEntries /\ accepted = {}

-----------------------------------------------------------------------------
(* The middleware *)

With(f, x, v) == [y \in DOMAIN f \union {x} |-> IF y = x THEN v ELSE f[y]]

\* pruneExpired
LiveSessions   == RestrictDomain(sessions, LAMBDA s : sessions[s] >= now)
LiveCsrfTokens == RestrictDomain(csrfTokens, LAMBDA t : csrfTokens[t].expiry >= now)

\* requireAdmin lets a cookie pass, after it pruned both Maps.
ValidSession(c) == c \in DOMAIN sessions /\ sessions[c] > now

\* Mutant: the token of any session will do.
UnboundCsrf(c, t) == t \in DOMAIN csrfTokens /\ csrfTokens[t].expiry >= now

\* validateCsrf
ValidCsrf(c, t) ==
  /\ t \in DOMAIN csrfTokens
  /\ csrfTokens[t].expiry >= now
  /\ csrfTokens[t].sessionId = c

\* Mutant: a token is not consumed.
TokensKept(t) == LiveCsrfTokens

TokensWithout(t) == Restrict(LiveCsrfTokens, DOMAIN LiveCsrfTokens \ {t})

\* requireAdmin and requireCsrf let a POST through.
PassCookie(c, t) ==
  /\ up
  /\ ValidSession(c) /\ ValidCsrf(c, t)
  /\ sessions' = LiveSessions
  /\ csrfTokens' = TokensWithout(t)
  /\ accepted' = accepted \union {<<c, t>>}
  /\ UNCHANGED <<up, now, loggedIn, ended, handed>>

PassBearer == up /\ UNCHANGED authVars

Authorised ==
  \/ PassBearer
  \/ \E c \in DOMAIN loggedIn, t \in DOMAIN handed : PassCookie(c, t)

\* 401, or 403 of a POST without a valid token, or an admitted GET: whatever
\* the answer, a cookie made requireAdmin prune.
PruneOnly ==
  /\ up
  /\ sessions' = LiveSessions
  /\ csrfTokens' = LiveCsrfTokens
  /\ UNCHANGED <<up, now, authHistory>>

-----------------------------------------------------------------------------
(* The handlers *)

\* POST /admin/login with the admin API key
Login(s) ==
  /\ up
  /\ s \in SessionIds \ DOMAIN loggedIn
  /\ sessions' = With(sessions, s, now + SESSION_TTL)
  /\ loggedIn' = With(loggedIn, s, now)
  /\ UNCHANGED <<up, now, csrfTokens, ended, handed, accepted>>

\* Mutant: logging out clears the browser's cookie only.
LogoutOfBrowser(s) ==
  /\ up
  /\ s \in DOMAIN sessions
  /\ ended' = ended \union {s}
  /\ UNCHANGED <<up, now, authStores, loggedIn, handed, accepted>>

\* GET /admin/logout needs no authentication; the session's CSRF tokens stay.
Logout(s) ==
  /\ up
  /\ s \in DOMAIN sessions
  /\ sessions' = Restrict(sessions, DOMAIN sessions \ {s})
  /\ ended' = ended \union {s}
  /\ UNCHANGED <<up, now, csrfTokens, loggedIn, handed, accepted>>

\* createCsrfToken for the cookie c, after a prune left the tokens others.
HandOut(c, t, others) ==
  /\ t \in CsrfIds \ DOMAIN handed
  /\ csrfTokens' = With(others, t, [sessionId |-> c, expiry |-> now + CSRF_TTL])
  /\ handed' = With(handed, t, [sessionId |-> c, at |-> now])
  /\ UNCHANGED <<up, now, loggedIn, ended, accepted>>

\* GET /admin/api/csrf-handshake with a valid session, or with the API key and
\* whatever cookie: also none, or that of a session that ended.
CsrfHandshake(c, t) ==
  /\ up
  /\ \/ /\ ValidSession(c)
        /\ sessions' = LiveSessions
        /\ HandOut(c, t, LiveCsrfTokens)
     \/ /\ c \in DOMAIN loggedIn \union {NoCookie}
        /\ sessions' = sessions
        /\ HandOut(c, t, csrfTokens)

Tick == now < MaxTime /\ now' = now + 1 /\ UNCHANGED <<up, authStores, authHistory>>

\* The process ends, and another starts with empty Maps.
AuthHalt ==
  /\ up
  /\ up' = FALSE
  /\ sessions' = NoEntries /\ csrfTokens' = NoEntries
  /\ ended' = DOMAIN loggedIn
  /\ UNCHANGED <<now, loggedIn, handed, accepted>>

AuthStart == ~up /\ up' = TRUE /\ UNCHANGED <<now, authStores, authHistory>>

-----------------------------------------------------------------------------
(* Properties *)

\* A POST let through with a cookie comes from a login of this process run
\* less than SESSION_TTL ago that did not log out since, and carries a token
\* handed to that very session at most CSRF_TTL ago (auth.ts:45-67).
PostsAuthorised ==
  [][\A p \in accepted' \ accepted :
       LET s == p[1]  t == p[2] IN
       /\ s \in DOMAIN loggedIn \ ended
       /\ now < loggedIn[s] + SESSION_TTL
       /\ handed[t].sessionId = s
       /\ now <= handed[t].at + CSRF_TTL]_authVars

\* One CSRF token lets one POST through: "single-use" (auth.ts:47), although
\* requests race, sessions log in again and the process restarts.
CsrfSingleUse ==
  /\ \A p, q \in accepted : p[2] = q[2] => p = q
  /\ \A p \in accepted : p[2] \notin DOMAIN csrfTokens

=============================================================================
