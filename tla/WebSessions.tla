----------------------------- MODULE WebSessions -----------------------------
(***************************************************************************)
(* Sessions of the API server: the registries of WebUserManager, the       *)
(* binding of a session to its websocket (Session, SessionApi) and the     *)
(* sockets of WebServerManager.                                            *)
(*                                                                         *)
(* Workers are the threads of the "tasks" service: they run API requests   *)
(* and the expiration timer.  IoThreads are the threads of the "ios"       *)
(* service: they authenticate HTTP requests and deliver disconnects.       *)
(* A setting gives the number of both; with the value 1 there is one of    *)
(* each.  A step of a thread is what it does under one lock, so a call     *)
(* that takes several locks is several steps (task[t].pc names the next).  *)
(*                                                                         *)
(* A bearer session is looked up by a token of its own, and a basic-auth   *)
(* session by "user:password", the credential it was opened with.  Local   *)
(* ids and the other tokens are random and taken to be distinct.  Left     *)
(* out: the activeSessions statistic, extension sessions, listeners that   *)
(* only forward events, failed logins (the throttle is in FloodCounter)    *)
(* and replaceWebUsers, which nothing here calls.                          *)
(***************************************************************************)
EXTENDS Naturals, FiniteSets

CONSTANTS Users,      \* WebUser objects
          Passwords,
          Sessions,   \* Session objects
          Sockets,    \* WebSocket objects
          Tokens,     \* refresh tokens
          Workers, IoThreads,
          NoUser, NoSession, NoSocket, NoToken

Credentials == Users \X Passwords
AuthTokens == Sessions \cup Credentials

ASSUME SessionAssumption ==
  /\ NoUser \notin Users /\ NoSession \notin Sessions
  /\ NoSocket \notin Sockets /\ NoToken \notin Tokens
  /\ Sessions \cap Credentials = {}

Threads == Workers \cup IoThreads

VARIABLES
  users,       \* WebUserManager::users
  password,    \* WebUser::password
  refreshTokens, \* WebUserManager::refreshTokens
  tokenOwner,  \* TokenInfo::user of every token that has been issued
  remoteId,    \* WebUserManager::sessionsRemoteId: auth token -> session
  localId,     \* WebUserManager::sessionsLocalId
  owner, authToken, \* Session::user and Session::token
  expired,     \* sessions whose last activity is older than they allow
  sockState,   \* WebServerManager::sockets, and sockets told to close
  sockSession, \* WebSocket::session
  loaded,      \* sessions whose lazily constructed API module exists
  modSocket,   \* SubscribableApiModule::socket of that module
  httpQueue,   \* posted logout requests, by the session their HTTP thread found
  task         \* what every thread is doing

userVars == <<users, password, refreshTokens, tokenOwner>>
regVars  == <<remoteId, localId, owner, authToken>>
modVars  == <<loaded, modSocket>>
sockVars == <<sockState, sockSession, modVars>>
vars == <<userVars, regVars, expired, sockVars, httpQueue, task>>

Idle == [pc |-> "idle", session |-> NoSession, socket |-> NoSocket, old |-> NoSocket,
         user |-> NoUser, token |-> NoToken, todo |-> {}, remove |-> FALSE]

PCs == {"idle", "consume", "emplace", "basic.emplace", "attach", "detach", "modules", "bind", "issue",
        "logout.erase", "logout.socket", "check", "reread", "notify", "clear",
        "expire", "expire.erase", "revoke", "revoked", "collect",
        "user", "user.erase", "crashed"}

TypeOK ==
  /\ users \in SUBSET Users
  /\ password \in [Users -> Passwords]
  /\ refreshTokens \in SUBSET Tokens
  /\ tokenOwner \in [Tokens -> Users \cup {NoUser}]
  /\ remoteId \in [AuthTokens -> Sessions \cup {NoSession}]
  /\ localId \in SUBSET Sessions
  /\ owner \in [Sessions -> Users \cup {NoUser}]
  /\ authToken \in [Sessions -> AuthTokens]
  /\ expired \in SUBSET Sessions
  /\ sockState \in [Sockets -> {"new", "open", "closing", "gone"}]
  /\ sockSession \in [Sockets -> Sessions \cup {NoSession}]
  /\ loaded \in SUBSET Sessions
  /\ modSocket \in [Sessions -> Sockets \cup {NoSocket}]
  /\ httpQueue \in SUBSET Sessions
  /\ task \in [Threads -> [pc : PCs, session : Sessions \cup {NoSession},
                           socket : Sockets \cup {NoSocket}, old : Sockets \cup {NoSocket},
                           user : Users \cup {NoUser}, token : Tokens \cup Credentials \cup {NoToken},
                           todo : SUBSET (Sessions \cup Tokens), remove : BOOLEAN]]
  /\ \A s \in localId : owner[s] \in Users
  /\ \A r \in refreshTokens : tokenOwner[r] \in Users

Init ==
  /\ users = Users
  /\ password \in [Users -> Passwords]
  /\ refreshTokens = {}
  /\ tokenOwner = [r \in Tokens |-> NoUser]
  /\ remoteId = [key \in AuthTokens |-> NoSession]
  /\ localId = {}
  /\ owner = [s \in Sessions |-> NoUser]
  /\ authToken = [s \in Sessions |-> s]
  /\ expired = {}
  /\ sockState = [k \in Sockets |-> "new"]
  /\ sockSession = [k \in Sockets |-> NoSession]
  /\ loaded = {}
  /\ modSocket = [s \in Sessions |-> NoSocket]
  /\ httpQueue = {}
  /\ task = [t \in Threads |-> Idle]

-----------------------------------------------------------------------------
IsBasic(s) == authToken[s] \in Credentials
Connected    == {k \in Sockets : sockState[k] \in {"open", "closing"}}

\* WebServerManager::getSocket(LocalSessionId): connected sockets of a session.
SocketsOf(s) == {k \in Connected : sockSession[k] = s}

Start(t, rec) == /\ task[t] = Idle
                 /\ task' = [task EXCEPT ![t] = rec]
\* A session event reaches the modules that exist.
TellModule(s, k) == /\ modSocket' = [modSocket EXCEPT ![s] = IF s \in loaded THEN k ELSE @]
                    /\ UNCHANGED loaded

At(t, where)  == task[t].pc = where
Goto(t, where) == task' = [task EXCEPT ![t].pc = where]
Finish(t)     == task' = [task EXCEPT ![t] = Idle]

\* A request on a socket that has no session yet (routeAuthRequest), or over HTTP.
\* The task may run after the socket that posted it has gone.
Unauthenticated == {k \in Sockets : sockState[k] # "new" /\ sockSession[k] = NoSession}

\* Bound: a login starts only if a Session object is left for it.
SessionsLeft ==
  Cardinality({s \in Sessions : owner[s] = NoUser})
    > Cardinality({t \in Threads : task[t].pc \in {"consume", "emplace", "basic.emplace"}})

-----------------------------------------------------------------------------
(* Logging in: SessionApi::handleLogin and WebUserManager::createSession. *)

\* grant_type "password": the user exists and the password matches.
PasswordLogin(w, k, u) ==
  /\ k \in Unauthenticated \cup {NoSocket} /\ u \in users /\ SessionsLeft
  /\ Start(w, [Idle EXCEPT !.pc = "emplace", !.socket = k, !.user = u])
  /\ UNCHANGED <<userVars, regVars, expired, sockVars, httpQueue>>

\* grant_type "refresh_token": found under the read lock ...
RefreshLogin(w, k, r) ==
  /\ k \in Unauthenticated \cup {NoSocket} /\ r \in refreshTokens /\ SessionsLeft
  /\ Start(w, [Idle EXCEPT !.pc = "consume", !.socket = k, !.user = tokenOwner[r], !.token = r])
  /\ UNCHANGED <<userVars, regVars, expired, sockVars, httpQueue>>

\* ... and erased under the write lock, whether it is still there or not.
ConsumeToken(w) ==
  /\ At(w, "consume")
  /\ refreshTokens' = refreshTokens \ {task[w].token}
  /\ Goto(w, "emplace")
  /\ UNCHANGED <<users, password, tokenOwner, regVars, expired, sockVars, httpQueue>>

\* createSession: both maps under one lock; emplace keeps an entry with the same key.
AddSession(s, u, key) ==
  /\ owner[s] = NoUser
  /\ owner' = [owner EXCEPT ![s] = u]
  /\ authToken' = [authToken EXCEPT ![s] = key]
  /\ localId' = localId \cup {s}
  /\ remoteId' = [remoteId EXCEPT ![key] = IF @ = NoSession THEN s ELSE @]

EmplaceSession(w) ==
  /\ At(w, "emplace")
  /\ \E s \in Sessions :
       /\ AddSession(s, task[w].user, s)
       /\ task' = [task EXCEPT ![w] = [@ EXCEPT !.session = s,
                                                !.pc = IF task[w].socket = NoSocket THEN "issue" ELSE "attach"]]
  /\ UNCHANGED <<userVars, expired, sockVars, httpQueue>>

\* parseHttpSession: no session has the token, so the user and the password in it are
\* checked; they become the token of the new session.
BasicLogin(i, u) ==
  LET token == <<u, password[u]>> IN
  /\ remoteId[token] = NoSession /\ u \in users /\ SessionsLeft
  /\ Start(i, [Idle EXCEPT !.pc = "basic.emplace", !.user = u, !.token = token])
  /\ UNCHANGED <<userVars, regVars, expired, sockVars, httpQueue>>

EmplaceBasic(i) ==
  /\ At(i, "basic.emplace")
  /\ \E s \in Sessions : AddSession(s, task[i].user, task[i].token)
  /\ Finish(i)
  /\ UNCHANGED <<userVars, expired, sockVars, httpQueue>>

\* SessionApi::handleSocketConnect: an existing session is looked up by its token.
ConnectSocket(w, k, key) ==
  /\ k \in Unauthenticated /\ remoteId[key] # NoSession
  /\ Start(w, [Idle EXCEPT !.pc = "attach", !.socket = k, !.session = remoteId[key]])
  /\ UNCHANGED <<userVars, regVars, expired, sockVars, httpQueue>>

\* onSocketConnected: looks for another socket of the session ...
FindOldSocket(w) ==
  /\ At(w, "attach")
  /\ LET found == SocketsOf(task[w].session) IN
     IF found = {} THEN Goto(w, "modules")
     ELSE \E k \in found : task' = [task EXCEPT ![w] = [@ EXCEPT !.old = k, !.pc = "detach"]]
  /\ UNCHANGED <<userVars, regVars, expired, sockVars, httpQueue>>

\* Mutant: the old socket is left as it is.
DetachNothing(w) ==
  /\ At(w, "detach")
  /\ Goto(w, "modules")
  /\ UNCHANGED <<userVars, regVars, expired, sockVars, httpQueue>>

\* ... which the modules are told of once more; it loses the session and is closed.
DetachOldSocket(w) ==
  /\ At(w, "detach")
  /\ LET old == task[w].old IN
     /\ TellModule(task[w].session, old)
     /\ sockSession' = [sockSession EXCEPT ![old] = NoSession]
     /\ sockState' = [sockState EXCEPT ![old] = IF @ = "open" THEN "closing" ELSE @]
  /\ Goto(w, "modules")
  /\ UNCHANGED <<userVars, regVars, expired, httpQueue>>

\* The modules are told of the new socket.
ConnectModules(w) ==
  /\ At(w, "modules")
  /\ TellModule(task[w].session, task[w].socket)
  /\ Goto(w, "bind")
  /\ UNCHANGED <<userVars, regVars, expired, sockState, sockSession, httpQueue>>

\* Mutant: a socket that connects gets a refresh token too.
BindAndIssue(w) ==
  /\ At(w, "bind")
  /\ sockSession' = [sockSession EXCEPT ![task[w].socket] = task[w].session]
  /\ Goto(w, "issue")
  /\ UNCHANGED <<userVars, regVars, expired, sockState, modVars, httpQueue>>

\* aSocket->setSession(session); a login also gets a refresh token.
BindSocket(w) ==
  /\ At(w, "bind")
  /\ sockSession' = [sockSession EXCEPT ![task[w].socket] = task[w].session]
  /\ IF task[w].user = NoUser THEN Finish(w) ELSE Goto(w, "issue")
  /\ UNCHANGED <<userVars, regVars, expired, sockState, modVars, httpQueue>>

\* createRefreshToken; the model stops handing out tokens when Tokens is used up.
IssueToken(w) ==
  /\ At(w, "issue")
  /\ LET unused == {r \in Tokens : tokenOwner[r] = NoUser} IN
     IF unused = {} THEN UNCHANGED <<refreshTokens, tokenOwner>>
     ELSE \E r \in unused : /\ refreshTokens' = refreshTokens \cup {r}
                             /\ tokenOwner' = [tokenOwner EXCEPT ![r] = task[w].user]
  /\ Finish(w)
  /\ UNCHANGED <<users, password, regVars, expired, sockVars, httpQueue>>

-----------------------------------------------------------------------------
(* Logging out: SessionApi::logout and WebUserManager::logout. *)

\* An HTTP thread has found the session of a logout request and posts its task.
PostHttpLogout(key) ==
  /\ remoteId[key] # NoSession
  /\ httpQueue' = httpQueue \cup {remoteId[key]}
  /\ UNCHANGED <<userVars, regVars, expired, sockVars, task>>

\* The request's own session (HTTP or socket), or one found by its local id.
\* Basic-auth sessions are refused.
Logout(w, s) ==
  /\ s \in localId \cup httpQueue \/ \E k \in Sockets : sockSession[k] = s
  /\ ~IsBasic(s)
  /\ httpQueue' = httpQueue \ {s}
  /\ Start(w, [Idle EXCEPT !.pc = "logout.erase", !.session = s])
  /\ UNCHANGED <<userVars, regVars, expired, sockVars>>

\* Mutant: the token still leads to the session.
EraseLocalIdOnly(w) ==
  /\ \E next \in {<<"logout.erase", "logout.socket">>, <<"expire.erase", "expire">>,
                  <<"user.erase", "user">>} : At(w, next[1]) /\ Goto(w, next[2])
  /\ localId' = localId \ {task[w].session}
  /\ UNCHANGED <<userVars, remoteId, owner, authToken, expired, sockVars, httpQueue>>

\* removeSession: both maps under one lock, erased by key.
EraseSession(w) ==
  /\ \E next \in {<<"logout.erase", "logout.socket">>, <<"expire.erase", "expire">>,
                  <<"user.erase", "user">>} : At(w, next[1]) /\ Goto(w, next[2])
  /\ remoteId' = [remoteId EXCEPT ![authToken[task[w].session]] = NoSession]
  /\ localId' = localId \ {task[w].session}
  /\ UNCHANGED <<userVars, owner, authToken, expired, sockVars, httpQueue>>

\* Mutant: the socket keeps its session.
KeepLogoutSocket(w) ==
  /\ At(w, "logout.socket")
  /\ Finish(w)
  /\ UNCHANGED <<userVars, regVars, expired, sockVars, httpQueue>>

\* logout: is there a socket to reset?
FindLogoutSocket(w) ==
  /\ At(w, "logout.socket")
  /\ LET found == SocketsOf(task[w].session) IN
     IF found = {} THEN Finish(w)
     ELSE \E k \in found : task' = [task EXCEPT ![w] = [@ EXCEPT !.socket = k, !.pc = "check"]]
  /\ UNCHANGED <<userVars, regVars, expired, sockVars, httpQueue>>

-----------------------------------------------------------------------------
(* resetSocketSession, for a logout or a disconnected socket. *)

CheckSession(t) ==
  /\ At(t, "check")
  /\ IF sockSession[task[t].socket] = NoSession THEN Finish(t) ELSE Goto(t, "reread")
  /\ UNCHANGED <<userVars, regVars, expired, sockVars, httpQueue>>

\* The session is read again.  A null one is dereferenced, which ends the process; here
\* the others go on, which only adds behaviours.
ReadSession(t) ==
  /\ At(t, "reread")
  /\ LET s == sockSession[task[t].socket] IN
     IF s = NoSession THEN Goto(t, "crashed")
     ELSE task' = [task EXCEPT ![t] = [@ EXCEPT !.session = s, !.pc = "notify"]]
  /\ UNCHANGED <<userVars, regVars, expired, sockVars, httpQueue>>

\* Mutant: the modules are not told.
NotifyActivityOnly(t) ==
  /\ At(t, "notify")
  /\ expired' = expired \ {task[t].session}
  /\ Goto(t, "clear")
  /\ UNCHANGED <<userVars, regVars, sockVars, httpQueue>>

\* onSocketDisconnected: its idle time restarts and its modules drop their socket.
NotifyDisconnected(t) ==
  /\ At(t, "notify")
  /\ expired' = expired \ {task[t].session}
  /\ TellModule(task[t].session, NoSocket)
  /\ Goto(t, "clear")
  /\ UNCHANGED <<userVars, regVars, sockState, sockSession, httpQueue>>

ClearSession(t) ==
  /\ At(t, "clear")
  /\ sockSession' = [sockSession EXCEPT ![task[t].socket] = NoSession]
  /\ Finish(t)
  /\ UNCHANGED <<userVars, regVars, expired, sockState, modVars, httpQueue>>

-----------------------------------------------------------------------------
(* Sockets and time. *)

AddSocket(k) ==
  /\ sockState[k] = "new"
  /\ sockState' = [sockState EXCEPT ![k] = "open"]
  /\ UNCHANGED <<userVars, regVars, expired, sockSession, modVars, httpQueue, task>>

\* pingTimer: sockets that have no session in time are closed.
AuthenticationTimeout(k) ==
  /\ sockState[k] = "open" /\ sockSession[k] = NoSession
  /\ sockState' = [sockState EXCEPT ![k] = "closing"]
  /\ UNCHANGED <<userVars, regVars, expired, sockSession, modVars, httpQueue, task>>

\* handleSocketDisconnected: out of the map, then the listeners are told.
SocketDisconnected(i, k) ==
  /\ k \in Connected
  /\ sockState' = [sockState EXCEPT ![k] = "gone"]
  /\ Start(i, [Idle EXCEPT !.pc = "check", !.socket = k])
  /\ UNCHANGED <<userVars, regVars, expired, sockSession, modVars, httpQueue>>

\* ApiRouter::handleRequest updates the activity of the session it serves.  The first
\* request for a module constructs it, with the socket the session has then.
ApiRequest(w, s) ==
  /\ task[w] = Idle
  /\ s \in localId \/ \E k \in Connected : sockSession[k] = s
  /\ expired' = expired \ {s}
  /\ \/ UNCHANGED modVars
     \/ /\ s \notin loaded
        /\ loaded' = loaded \cup {s}
        /\ \E k \in IF SocketsOf(s) = {} THEN {NoSocket} ELSE SocketsOf(s) :
             modSocket' = [modSocket EXCEPT ![s] = k]
  /\ UNCHANGED <<userVars, regVars, sockState, sockSession, httpQueue, task>>

Inactivity(s) ==
  /\ s \in localId
  /\ expired' = expired \cup {s}
  /\ UNCHANGED <<userVars, regVars, sockVars, httpQueue, task>>

-----------------------------------------------------------------------------
(* checkExpiredSessions, run by a timer. *)

CollectExpired(w) ==
  /\ localId \cap expired # {}
  /\ Start(w, [Idle EXCEPT !.pc = "expire", !.todo = localId \cap expired])
  /\ UNCHANGED <<userVars, regVars, expired, sockVars, httpQueue>>

\* Mutant: a session with a socket ends the loop.
NextExpiredOrStop(w) ==
  /\ At(w, "expire")
  /\ \/ task[w].todo = {} /\ Finish(w)
     \/ \E s \in task[w].todo :
          IF SocketsOf(s) # {} THEN Finish(w)
          ELSE task' = [task EXCEPT ![w] = [@ EXCEPT !.todo = task[w].todo \ {s}, !.session = s,
                                                     !.pc = "expire.erase"]]
  /\ UNCHANGED <<userVars, regVars, expired, sockVars, httpQueue>>

\* "Don't remove sessions with active socket"
NextExpired(w) ==
  /\ At(w, "expire")
  /\ \/ task[w].todo = {} /\ Finish(w)
     \/ \E s \in task[w].todo :
          task' = [task EXCEPT ![w] = [@ EXCEPT !.todo = task[w].todo \ {s},
                                                !.session = IF SocketsOf(s) = {} THEN s ELSE NoSession,
                                                !.pc = IF SocketsOf(s) = {} THEN "expire.erase" ELSE "expire"]]
  /\ UNCHANGED <<userVars, regVars, expired, sockVars, httpQueue>>

\* checkExpiredTokens, in the same timer.
ExpireTokens ==
  /\ \E old \in SUBSET refreshTokens : old # {} /\ refreshTokens' = refreshTokens \ old
  /\ UNCHANGED <<users, password, tokenOwner, regVars, expired, sockVars, httpQueue, task>>

-----------------------------------------------------------------------------
(* removeUser and updateUser. *)

RemoveUser(w, u) ==
  /\ u \in users
  /\ Start(w, [Idle EXCEPT !.pc = "revoke", !.user = u, !.remove = TRUE])
  /\ UNCHANGED <<userVars, regVars, expired, sockVars, httpQueue>>

\* WebUserApi::handleUpdateUser: parseUser may set the password.  The sessions have to
\* authenticate again, unless the user updates itself or a later field is refused.
UpdateUser(w, u) ==
  /\ u \in users
  /\ \E p \in Passwords : password' = [password EXCEPT ![u] = p]
  /\ task[w] = Idle
  /\ \/ task' = [task EXCEPT ![w] = [Idle EXCEPT !.pc = "revoke", !.user = u]]
     \/ UNCHANGED task
  /\ UNCHANGED <<users, refreshTokens, tokenOwner, regVars, expired, sockVars, httpQueue>>

\* removeRefreshTokens: collected under the read lock, erased under the write lock.
CollectTokens(w) ==
  /\ At(w, "revoke")
  /\ task' = [task EXCEPT ![w] = [@ EXCEPT !.todo = {r \in refreshTokens : tokenOwner[r] = task[w].user},
                                           !.pc = "revoked"]]
  /\ UNCHANGED <<userVars, regVars, expired, sockVars, httpQueue>>

EraseTokens(w) ==
  /\ At(w, "revoked")
  /\ refreshTokens' = refreshTokens \ task[w].todo
  /\ Goto(w, "collect")
  /\ UNCHANGED <<users, password, tokenOwner, regVars, expired, sockVars, httpQueue>>

\* Mutant: only the sessions that have a socket.
CollectConnected(w) ==
  /\ At(w, "collect")
  /\ task' = [task EXCEPT ![w] = [@ EXCEPT !.todo = {s \in localId : /\ owner[s] = task[w].user
                                                                     /\ SocketsOf(s) # {}},
                                           !.pc = "user"]]
  /\ UNCHANGED <<userVars, regVars, expired, sockVars, httpQueue>>

\* removeSessions: the user's sessions are collected, then removed one by one.
CollectSessions(w) ==
  /\ At(w, "collect")
  /\ task' = [task EXCEPT ![w] = [@ EXCEPT !.todo = {s \in localId : owner[s] = task[w].user},
                                           !.pc = "user"]]
  /\ UNCHANGED <<userVars, regVars, expired, sockVars, httpQueue>>

\* The session's socket is told to close; it keeps its session until it has.
CloseUserSocket(w) ==
  /\ At(w, "user")
  /\ \E s \in task[w].todo :
       /\ task' = [task EXCEPT ![w] = [@ EXCEPT !.todo = task[w].todo \ {s}, !.session = s, !.pc = "user.erase"]]
       /\ \E found \in IF SocketsOf(s) = {} THEN {NoSocket} ELSE SocketsOf(s) :
            sockState' = [k \in Sockets |-> IF k = found THEN "closing" ELSE sockState[k]]
  /\ UNCHANGED <<userVars, regVars, expired, sockSession, modVars, httpQueue>>

EraseUser(w) ==
  /\ At(w, "user") /\ task[w].todo = {}
  /\ users' = IF task[w].remove THEN users \ {task[w].user} ELSE users
  /\ Finish(w)
  /\ UNCHANGED <<password, refreshTokens, tokenOwner, regVars, expired, sockVars, httpQueue>>

-----------------------------------------------------------------------------
ResetStep(t) == CheckSession(t) \/ ReadSession(t) \/ NotifyDisconnected(t) \/ ClearSession(t)

WorkerStep(w) ==
  \/ ConsumeToken(w) \/ IssueToken(w)
  \/ FindOldSocket(w) \/ DetachOldSocket(w) \/ ConnectModules(w) \/ BindSocket(w)
  \/ EraseSession(w) \/ FindLogoutSocket(w)
  \/ NextExpired(w)
  \/ CollectTokens(w) \/ EraseTokens(w) \/ CollectSessions(w) \/ CloseUserSocket(w) \/ EraseUser(w)

Continue(t) == EmplaceSession(t) \/ EmplaceBasic(t) \/ ResetStep(t) \/ WorkerStep(t)

WorkerCall(w) ==
  \/ \E k \in Sockets \cup {NoSocket} : \/ \E u \in Users : PasswordLogin(w, k, u)
                                        \/ \E r \in Tokens : RefreshLogin(w, k, r)
  \/ \E k \in Sockets, key \in AuthTokens : ConnectSocket(w, k, key)
  \/ \E s \in Sessions : Logout(w, s) \/ ApiRequest(w, s)
  \/ CollectExpired(w)
  \/ \E u \in Users : RemoveUser(w, u) \/ UpdateUser(w, u)

IoCall(i) == \/ \E u \in Users : BasicLogin(i, u)
             \/ \E k \in Sockets : SocketDisconnected(i, k)

Environment == \/ \E key \in AuthTokens : PostHttpLogout(key)
               \/ \E k \in Sockets : AddSocket(k) \/ AuthenticationTimeout(k)
               \/ \E s \in Sessions : Inactivity(s)
               \/ ExpireTokens

Next == \/ \E t \in Threads : Continue(t)
        \/ \E w \in Workers : WorkerCall(w)
        \/ \E i \in IoThreads : IoCall(i)
        \/ Environment

Spec == Init /\ [][Next]_vars

\* A call that has begun runs on.  The expiration timer fires again and again
\* and the task queue is first come, first served: it gets its turn.
FairSpec == /\ Spec
            /\ \A t \in Threads : WF_vars(Continue(t))
            /\ SF_vars(\E w \in Workers : CollectExpired(w))

-----------------------------------------------------------------------------
Quiet   == \A t \in Threads : task[t] = Idle
WorkersIdle == \A w \in Workers : task[w] = Idle
Crashed == \E t \in Threads : At(t, "crashed")

(* The registries agree: a token leads to a session that is also found by  *)
(* its local id and carries that token, and every bearer session that has  *)
(* a local id is found by its token.  (A basic-auth session may lose its   *)
(* token entry to another session opened with the same credential.)        *)
RegistriesAgree ==
  /\ \A key \in AuthTokens : remoteId[key] # NoSession =>
       remoteId[key] \in localId /\ authToken[remoteId[key]] = key
  /\ \A s \in localId : ~IsBasic(s) => remoteId[s] = s

(* "Websockets are closed when session is removed" (Session.h:36): an open *)
(* socket serves a registered session, unless a thread is just working on  *)
(* that session or socket.                                                 *)
SocketsServeRegistered ==
  \A k \in Sockets : sockState[k] = "open" /\ sockSession[k] # NoSession =>
    \/ sockSession[k] \in localId
    \/ \E t \in Threads : task[t].socket = k \/ task[t].session = sockSession[k]

(* A session has at most one open socket.                                  *)
OneSocketPerSession ==
  \A s \in Sessions : Cardinality({k \in Sockets : sockState[k] = "open" /\ sockSession[k] = s}) =< 1

(* checkExpiredSessions says: "Don't remove sessions with active socket".  *)
ExpirySparesActive ==
  \A w \in Workers : At(w, "expire.erase") => SocketsOf(task[w].session) = {}

(* createSession asserts that the user of a new basic-auth session has no  *)
(* other one: "Single session per user when using basic auth".             *)
SingleBasicSession ==
  \A i \in Threads, key \in Credentials :
    At(i, "basic.emplace") /\ remoteId[key] # NoSession => owner[remoteId[key]] # task[i].user

(* Between requests and timer calls nothing that a removed user was given  *)
(* authenticates any more: neither a bearer session nor a refresh token,   *)
(* whatever io threads did during the removal.  (A basic-auth login that   *)
(* was checked before the removal may be registered after it.)             *)
RemovedUserIsOut ==
  WorkersIdle => /\ \A s \in localId : ~IsBasic(s) => owner[s] \in users
                 /\ \A r \in refreshTokens : tokenOwner[r] \in users

(* Between requests no module sends to an open socket that serves another  *)
(* session or none, although disconnects are still being handled.          *)
ModulesSendToOwn ==
  WorkersIdle => \A s \in loaded, k \in Sockets :
                   sockState[k] = "open" /\ modSocket[s] = k => sockSession[k] = s

(* The module of a session sends to the socket that serves it: when no     *)
(* call is running, neither of the two refers to the other one-sidedly.    *)
ModulesFollowSocket ==
  Quiet => \A s \in loaded, k \in Sockets :
             sockState[k] = "open" => (sockSession[k] = s <=> modSocket[s] = k)

(* A session that stays idle without a socket is removed in the end (unless *)
(* the process has died).                                                   *)
ExpiredAreRemoved ==
  \A s \in Sessions :
    s \in localId /\ s \in expired /\ SocketsOf(s) = {}
      ~> s \notin localId \/ s \notin expired \/ SocketsOf(s) # {} \/ Crashed
=============================================================================
