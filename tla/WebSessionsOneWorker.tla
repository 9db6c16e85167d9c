------------------------ MODULE WebSessionsOneWorker ------------------------
(***************************************************************************)
(* Theorems about WebSessions with one thread in the "tasks" service       *)
(* (OneWorker: the setting for the number of threads is 1), and any        *)
(* numbers of "ios" threads, users, sessions, sockets and tokens.          *)
(*                                                                         *)
(* Logins, logouts, expirations and removals then follow each other;       *)
(* threads of the "ios" service still report disconnected sockets and      *)
(* begin basic-auth sessions in between.  InOrder says what the worker may *)
(* rely on at each step; OwnersIn and Sending say what it knows of the     *)
(* user and of the modules it works on.                                    *)
(***************************************************************************)
EXTENDS WebSessionsProofs, FiniteSetTheorems

OneWorker == \A v, w \in Workers : v = w

Attaching == {"attach", "detach", "modules", "bind"}
Resetting == {"check", "reread", "notify", "clear"}

\* What the worker knows of the sockets of its session at each step of a call.
Stage(t) ==
  /\ task[t].pc \in Attaching => task[t].session \in localId
  /\ At(t, "detach") => SocketsOf(task[t].session) \subseteq {task[t].old}
  /\ task[t].pc \in {"modules", "bind", "expire.erase"} => SocketsOf(task[t].session) = {}
  /\ At(t, "user.erase") => \A k \in SocketsOf(task[t].session) : sockState[k] # "open"

Stages == \A t \in Threads : Stage(t)

\* Threads of the "ios" service only begin basic-auth sessions and report
\* disconnected sockets.
IoCalls == \A t \in Threads \ Workers : task[t].pc \in Resetting \cup {"idle", "basic.emplace",
   "crashed"}

Distinct == \A k, j \in Connected :
              sockSession[k] = sockSession[j] /\ sockSession[k] # NoSession => k = j

NewSockets == \A k \in Sockets : sockState[k] = "new" =>
                sockSession[k] = NoSession /\ \A t \in Threads : task[t].socket # k /\ task[t].old # k

\* An open socket of a session that has gone is being reset.
Leaving(t, k) == \/ At(t, "logout.socket") /\ task[t].session = sockSession[k]
                 \/ task[t].pc \in Resetting /\ task[t].socket = k
Served == \A k \in Sockets : sockState[k] = "open" /\ sockSession[k] \notin localId \cup {NoSession} =>
            \E t \in Workers : Leaving(t, k)

InOrder == IoCalls /\ Stages /\ Distinct /\ NewSockets /\ Served

\* What the worker knows of the user it works for, whom it alone may remove.
UserStage(w) ==
  /\ task[w].pc \in {"consume", "emplace", "issue"} => task[w].user \in users
  /\ task[w].pc \in Attaching => task[w].user \in users \cup {NoUser}
  /\ At(w, "revoked") => \A r \in refreshTokens : tokenOwner[r] = task[w].user => r \in task[w].todo
  /\ task[w].pc \in {"collect", "user", "user.erase"} =>
       \A r \in refreshTokens : tokenOwner[r] # task[w].user
  /\ At(w, "user") => \A s \in localId : ~IsBasic(s) /\ owner[s] = task[w].user => s \in task[w].todo
  /\ At(w, "user.erase") => \A s \in localId : ~IsBasic(s) /\ owner[s] = task[w].user =>
                                s \in task[w].todo \cup {task[w].session}

OwnersIn == /\ \A w \in Workers : UserStage(w)
            /\ \A s \in localId : ~IsBasic(s) => owner[s] \in users
            /\ \A r \in refreshTokens : tokenOwner[r] \in users

\* What it knows of the socket it works on, which only the worker may give a
\* session, and of its session's module, which io threads only take a socket from.
SocketStage(w) ==
  /\ task[w].pc \in {"consume", "emplace"} /\ task[w].socket # NoSocket =>
       sockSession[task[w].socket] = NoSession
  /\ task[w].pc \in Attaching => sockSession[task[w].socket] = NoSession
  /\ task[w].pc \in {"notify", "clear"} /\ sockState[task[w].socket] = "open" =>
       sockSession[task[w].socket] = task[w].session
  /\ At(w, "clear") /\ task[w].session \in loaded => modSocket[task[w].session] = NoSocket

Sending ==
  /\ \A w \in Workers : SocketStage(w)
  /\ \A t \in Threads \ Workers : task[t].pc \in Resetting => sockState[task[t].socket] = "gone"
  /\ \A s \in loaded, k \in Sockets :
       /\ sockState[k] = "new" => modSocket[s] # k
       /\ sockState[k] = "open" /\ modSocket[s] = k =>
            sockSession[k] = s \/ \E w \in Workers : /\ At(w, "bind") /\ task[w].socket = k
                                                     /\ task[w].session = s

-----------------------------------------------------------------------------
\* A step changes the task of one thread.
Others(t) == \A v \in Threads : v # t => task'[v] = task[v]

LEMMA Changed ==
  ASSUME TypeOK, NEW t \in Threads, NEW rec, task' = [task EXCEPT ![t] = rec]
  PROVE  task'[t] = rec /\ Others(t)
BY DEF TypeOK, Others

\* What the steps with a choice do to the task, field by field.
HasRead(t) ==
  LET s == sockSession[task[t].socket]
  IN  /\ Others(t)
      /\ task'[t].socket = task[t].socket /\ task'[t].old = task[t].old
      /\ IF s = NoSession THEN task'[t].pc = "crashed"
                          ELSE task'[t].session = s /\ task'[t].pc = "notify"

LEMMA ReadTask == ASSUME TypeOK, NEW t \in Threads, ReadSession(t) PROVE HasRead(t)
<1> DEFINE s == sockSession[task[t].socket]
           rec == [task[t] EXCEPT !.session = s, !.pc = "notify"]
           dead == [task[t] EXCEPT !.pc = "crashed"]
<1>1. CASE s = NoSession
  <2>1. task' = [task EXCEPT ![t] = dead]
    BY <1>1 DEF ReadSession, Goto
  <2>2. dead.socket = task[t].socket /\ dead.old = task[t].old /\ dead.pc = "crashed"
    BY DEF TypeOK
  <2> HIDE DEF dead
  <2> QED
    BY <1>1, <2>1, <2>2, Changed DEF HasRead
<1>2. CASE s # NoSession
  <2>1. task' = [task EXCEPT ![t] = rec]
    BY <1>2 DEF ReadSession
  <2>2. rec.socket = task[t].socket /\ rec.old = task[t].old /\ rec.session = s /\ rec.pc = "notify"
    BY DEF TypeOK
  <2> HIDE DEF rec
  <2> QED
    BY <1>2, <2>1, <2>2, Changed DEF HasRead
<1> QED
  BY <1>1, <1>2

FoundOld(t) ==
  /\ Others(t)
  /\ task'[t].session = task[t].session
  /\ task'[t].socket = task[t].socket /\ task'[t].user = task[t].user
  /\ IF SocketsOf(task[t].session) = {} THEN task'[t].pc = "modules" /\ task'[t].old = task[t].old
     ELSE task'[t].pc = "detach" /\ task'[t].old \in SocketsOf(task[t].session)

LEMMA FindOldTask == ASSUME TypeOK, NEW t \in Threads, FindOldSocket(t) PROVE FoundOld(t)
<1>1. CASE SocketsOf(task[t].session) = {}
  <2> DEFINE rec == [task[t] EXCEPT !.pc = "modules"]
  <2>1. task' = [task EXCEPT ![t] = rec]
    BY <1>1 DEF FindOldSocket, Goto
  <2>2. /\ rec.session = task[t].session /\ rec.socket = task[t].socket
        /\ rec.user = task[t].user /\ rec.old = task[t].old /\ rec.pc = "modules"
    BY DEF TypeOK
  <2> HIDE DEF rec
  <2> QED
    BY <1>1, <2>1, <2>2, Changed DEF FoundOld
<1>2. CASE SocketsOf(task[t].session) # {}
  <2>1. PICK k \in SocketsOf(task[t].session) :
          task' = [task EXCEPT ![t] = [task[t] EXCEPT !.old = k, !.pc = "detach"]]
    BY <1>2 DEF FindOldSocket
  <2> DEFINE rec == [task[t] EXCEPT !.old = k, !.pc = "detach"]
  <2>2. /\ rec.session = task[t].session /\ rec.socket = task[t].socket
        /\ rec.user = task[t].user /\ rec.old = k /\ rec.pc = "detach"
    BY DEF TypeOK
  <2>3. task' = [task EXCEPT ![t] = rec]
    BY <2>1
  <2> HIDE DEF rec
  <2> QED
    BY <1>2, <2>2, <2>3, Changed DEF FoundOld
<1> QED
  BY <1>1, <1>2

FoundLogout(t) ==
  /\ Others(t)
  /\ IF SocketsOf(task[t].session) = {} THEN task'[t] = Idle
     ELSE task'[t].pc = "check" /\ task'[t].old = task[t].old
          /\ task'[t].socket \in SocketsOf(task[t].session)

LEMMA FindLogoutTask == ASSUME TypeOK, NEW t \in Threads, FindLogoutSocket(t) PROVE FoundLogout(t)
<1>1. CASE SocketsOf(task[t].session) = {}
  <2>1. task' = [task EXCEPT ![t] = Idle]
    BY <1>1 DEF FindLogoutSocket, Finish
  <2> QED
    BY <1>1, <2>1, Changed DEF FoundLogout
<1>2. CASE SocketsOf(task[t].session) # {}
  <2>1. PICK k \in SocketsOf(task[t].session) :
          task' = [task EXCEPT ![t] = [task[t] EXCEPT !.socket = k, !.pc = "check"]]
    BY <1>2 DEF FindLogoutSocket
  <2> DEFINE rec == [task[t] EXCEPT !.socket = k, !.pc = "check"]
  <2>2. rec.socket = k /\ rec.old = task[t].old /\ rec.pc = "check"
    BY DEF TypeOK
  <2>3. task' = [task EXCEPT ![t] = rec]
    BY <2>1
  <2> HIDE DEF rec
  <2> QED
    BY <1>2, <2>2, <2>3, Changed DEF FoundLogout
<1> QED
  BY <1>1, <1>2

TookNext(t) ==
  /\ Others(t)
  /\ \/ task'[t] = Idle
     \/ \E s \in task[t].todo :
          /\ task'[t].session = IF SocketsOf(s) = {} THEN s ELSE NoSession
          /\ task'[t].pc = IF SocketsOf(s) = {} THEN "expire.erase" ELSE "expire"
          /\ task'[t].socket = task[t].socket /\ task'[t].old = task[t].old

LEMMA NextExpiredTask == ASSUME TypeOK, NEW t \in Threads, NextExpired(t) PROVE TookNext(t)
<1> USE DEF TookNext
<1>1. CASE Finish(t)
  BY <1>1, Changed DEF Finish
<1>2. ASSUME NEW s \in task[t].todo,
             task' = [task EXCEPT ![t] = [@ EXCEPT !.todo = task[t].todo \ {s},
                                                   !.session = IF SocketsOf(s) = {} THEN s ELSE NoSession,
                                                   !.pc = IF SocketsOf(s) = {} THEN "expire.erase" ELSE "expire"]]
      PROVE  /\ Others(t)
             /\ task'[t].session = IF SocketsOf(s) = {} THEN s ELSE NoSession
             /\ task'[t].pc = IF SocketsOf(s) = {} THEN "expire.erase" ELSE "expire"
             /\ task'[t].socket = task[t].socket /\ task'[t].old = task[t].old
  <2> DEFINE rec == [task[t] EXCEPT !.todo = task[t].todo \ {s},
                                    !.session = IF SocketsOf(s) = {} THEN s ELSE NoSession,
                                    !.pc = IF SocketsOf(s) = {} THEN "expire.erase" ELSE "expire"]
  <2>1. task' = [task EXCEPT ![t] = rec]
    BY <1>2
  <2>2. /\ rec.session = IF SocketsOf(s) = {} THEN s ELSE NoSession
        /\ rec.pc = IF SocketsOf(s) = {} THEN "expire.erase" ELSE "expire"
        /\ rec.socket = task[t].socket /\ rec.old = task[t].old
    BY DEF TypeOK
  <2> HIDE DEF rec
  <2> QED
    BY <2>1, <2>2, Changed
<1> QED
  BY <1>1, <1>2 DEF NextExpired

Collected(t, pc, todo) ==
  /\ Others(t)
  /\ task'[t].pc = pc /\ task'[t].todo = todo
  /\ task'[t].socket = task[t].socket /\ task'[t].old = task[t].old /\ task'[t].user = task[t].user

LEMMA CollectTask ==
  ASSUME TypeOK, NEW t \in Threads, NEW todo, NEW pc,
         task' = [task EXCEPT ![t] = [@ EXCEPT !.todo = todo, !.pc = pc]]
  PROVE  Collected(t, pc, todo)
<1> DEFINE rec == [task[t] EXCEPT !.todo = todo, !.pc = pc]
<1>1. task' = [task EXCEPT ![t] = rec]
  OBVIOUS
<1>2. rec.pc = pc /\ rec.socket = task[t].socket /\ rec.old = task[t].old
     /\ rec.user = task[t].user /\ rec.todo = todo
  BY DEF TypeOK
<1> HIDE DEF rec
<1> QED
  BY <1>1, <1>2, Changed DEF Collected

-----------------------------------------------------------------------------
\* One worker: every step keeps the order.
LEMMA OrderStep == OneWorker /\ IInv /\ TypeOK' /\ InOrder /\ [Next]_vars => InOrder'
<1> SUFFICES ASSUME OneWorker, IInv, TypeOK', InOrder, [Next]_vars PROVE InOrder'
  OBVIOUS
<1>0. \A t \in Threads : task[t] \in TaskType /\ Operands(task[t])
  BY DEF IInv, TypeOK, TaskType, OperandsSet
<1> USE SessionAssumption DEF TypeOK, TaskType, At, Goto, Finish, Start, Idle, Threads, userVars,
   regVars, sockVars, modVars
<1> USE DEF OneWorker, InOrder, IoCalls, Stages, Stage, Distinct, NewSockets, Served, Leaving,
   Attaching, Resetting, Connected, SocketsOf
<1>1. ASSUME NEW t \in Threads, EmplaceSession(t) PROVE InOrder'
  BY <1>0, <1>1 DEF IInv, Operands, EmplaceSession, AddSession
<1>2. ASSUME NEW t \in Threads, EmplaceBasic(t) PROVE InOrder'
  BY <1>0, <1>2 DEF IInv, Operands, EmplaceBasic, AddSession
<1>3. ASSUME NEW t \in Threads, CheckSession(t) PROVE InOrder'
  BY <1>0, <1>3 DEF IInv, Operands, CheckSession
<1>4. ASSUME NEW t \in Threads, ReadSession(t) PROVE InOrder'
  <2>0. At(t, "reread") /\ UNCHANGED <<userVars, regVars, expired, sockVars, httpQueue>>
    BY <1>4 DEF ReadSession
  <2>1. TypeOK
    BY DEF IInv
  <2>2. HasRead(t)
    BY <1>4, <2>1, ReadTask
  <2> QED
    BY <1>0, <2>0, <2>2 DEF IInv, Operands, Others, HasRead
<1>5. ASSUME NEW t \in Threads, NotifyDisconnected(t) PROVE InOrder'
  BY <1>0, <1>5 DEF IInv, Operands, NotifyDisconnected, TellModule
<1>6. ASSUME NEW t \in Threads, ClearSession(t) PROVE InOrder'
  BY <1>0, <1>6 DEF IInv, Operands, ClearSession
<1>7. ASSUME NEW t \in Threads, ConsumeToken(t) PROVE InOrder'
  BY <1>0, <1>7 DEF IInv, Operands, ConsumeToken
<1>8. ASSUME NEW t \in Threads, IssueToken(t) PROVE InOrder'
  BY <1>0, <1>8 DEF IInv, Operands, IssueToken
<1>9. ASSUME NEW t \in Threads, FindOldSocket(t) PROVE InOrder'
  <2>0. At(t, "attach") /\ UNCHANGED <<userVars, regVars, expired, sockVars, httpQueue>>
    BY <1>9 DEF FindOldSocket
  <2>1. TypeOK
    BY DEF IInv
  <2>2. FoundOld(t)
    BY <1>9, <2>1, FindOldTask
  <2> QED
    BY <1>0, <2>0, <2>2 DEF IInv, Operands, Others, FoundOld
<1>10. ASSUME NEW t \in Threads, DetachOldSocket(t) PROVE InOrder'
  BY <1>0, <1>10 DEF IInv, Operands, DetachOldSocket, TellModule
<1>11. ASSUME NEW t \in Threads, ConnectModules(t) PROVE InOrder'
  BY <1>0, <1>11 DEF IInv, Operands, ConnectModules, TellModule
<1>12. ASSUME NEW t \in Threads, BindSocket(t) PROVE InOrder'
  BY <1>0, <1>12 DEF IInv, Operands, BindSocket
<1>13. ASSUME NEW t \in Threads, EraseSession(t) PROVE InOrder'
  <2>1. /\ localId' = localId \ {task[t].session} /\ UNCHANGED <<userVars, expired, sockVars, httpQueue>>
        /\ \E next \in {<<"logout.erase", "logout.socket">>, <<"expire.erase", "expire">>,
                        <<"user.erase", "user">>} : At(t, next[1]) /\ Goto(t, next[2])
    BY <1>13 DEF EraseSession
  <2>2. CASE At(t, "logout.erase") /\ Goto(t, "logout.socket")
    BY <1>0, <2>1, <2>2 DEF IInv, Operands
  <2>3. CASE At(t, "expire.erase") /\ Goto(t, "expire")
    BY <1>0, <2>1, <2>3 DEF IInv, Operands
  <2>4. CASE At(t, "user.erase") /\ Goto(t, "user")
    BY <1>0, <2>1, <2>4 DEF IInv, Operands
  <2> QED
    BY <2>1, <2>2, <2>3, <2>4
<1>14. ASSUME NEW t \in Threads, FindLogoutSocket(t) PROVE InOrder'
  <2>0. At(t, "logout.socket") /\ UNCHANGED <<userVars, regVars, expired, sockVars, httpQueue>>
    BY <1>14 DEF FindLogoutSocket
  <2>1. TypeOK
    BY DEF IInv
  <2>2. FoundLogout(t)
    BY <1>14, <2>1, FindLogoutTask
  <2> QED
    BY <1>0, <2>0, <2>2 DEF IInv, Operands, Others, FoundLogout
<1>15. ASSUME NEW t \in Threads, NextExpired(t) PROVE InOrder'
  <2>0. At(t, "expire") /\ UNCHANGED <<userVars, regVars, expired, sockVars, httpQueue>>
    BY <1>15 DEF NextExpired
  <2>1. TypeOK
    BY DEF IInv
  <2>2. TookNext(t)
    BY <1>15, <2>1, NextExpiredTask
  <2> QED
    BY <1>0, <2>0, <2>2 DEF IInv, Operands, Others, TookNext
<1>16. ASSUME NEW t \in Threads, CollectTokens(t) PROVE InOrder'
  <2>0. At(t, "revoke") /\ UNCHANGED <<userVars, regVars, expired, sockVars, httpQueue>>
    BY <1>16 DEF CollectTokens
  <2>1. TypeOK
    BY DEF IInv
  <2>2. Collected(t, "revoked", {r \in refreshTokens : tokenOwner[r] = task[t].user})
    BY <1>16, <2>1, CollectTask DEF CollectTokens
  <2> QED
    BY <1>0, <2>0, <2>2 DEF IInv, Operands, Others, Collected
<1>17. ASSUME NEW t \in Threads, EraseTokens(t) PROVE InOrder'
  BY <1>0, <1>17 DEF IInv, Operands, EraseTokens
<1>18. ASSUME NEW t \in Threads, CollectSessions(t) PROVE InOrder'
  <2>0. At(t, "collect") /\ UNCHANGED <<userVars, regVars, expired, sockVars, httpQueue>>
    BY <1>18 DEF CollectSessions
  <2>1. TypeOK
    BY DEF IInv
  <2>2. Collected(t, "user", {s \in localId : owner[s] = task[t].user})
    BY <1>18, <2>1, CollectTask DEF CollectSessions
  <2> QED
    BY <1>0, <2>0, <2>2 DEF IInv, Operands, Others, Collected
<1>19. ASSUME NEW t \in Threads, CloseUserSocket(t) PROVE InOrder'
  BY <1>0, <1>19 DEF IInv, Operands, CloseUserSocket
<1>20. ASSUME NEW t \in Threads, EraseUser(t) PROVE InOrder'
  BY <1>0, <1>20 DEF IInv, Operands, EraseUser
<1>21. ASSUME NEW t \in Workers, NEW k \in Sockets \cup {NoSocket}, NEW u \in Users,
       PasswordLogin(t, k, u) PROVE InOrder'
  BY <1>0, <1>21 DEF IInv, Operands, PasswordLogin, Unauthenticated
<1>22. ASSUME NEW t \in Workers, NEW k \in Sockets \cup {NoSocket}, NEW r \in Tokens,
       RefreshLogin(t, k, r) PROVE InOrder'
  BY <1>0, <1>22 DEF IInv, Operands, RefreshLogin, Unauthenticated
<1>23. ASSUME NEW t \in Workers, NEW k \in Sockets, NEW key \in AuthTokens,
       ConnectSocket(t, k, key) PROVE InOrder'
  <2>1. IoCalls'
    BY <1>0, <1>23 DEF IInv, Operands, ConnectSocket, RegistriesAgree, Unauthenticated
  <2>2. Stages'
    BY <1>0, <1>23 DEF IInv, Operands, ConnectSocket, RegistriesAgree, Unauthenticated
  <2>3. Distinct'
    BY <1>0, <1>23 DEF IInv, Operands, ConnectSocket, RegistriesAgree, Unauthenticated
  <2>4. NewSockets'
    BY <1>0, <1>23 DEF IInv, Operands, ConnectSocket, RegistriesAgree, Unauthenticated
  <2>5. Served'
    BY <1>0, <1>23 DEF IInv, Operands, ConnectSocket, RegistriesAgree, Unauthenticated
  <2> QED
    BY <2>1, <2>2, <2>3, <2>4, <2>5
<1>24. ASSUME NEW t \in Workers, NEW s \in Sessions, Logout(t, s) PROVE InOrder'
  BY <1>0, <1>24 DEF IInv, Operands, Logout
<1>25. ASSUME NEW t \in Workers, NEW s \in Sessions, ApiRequest(t, s) PROVE InOrder'
  BY <1>0, <1>25 DEF IInv, Operands, ApiRequest
<1>26. ASSUME NEW t \in Workers, CollectExpired(t) PROVE InOrder'
  BY <1>0, <1>26 DEF IInv, Operands, CollectExpired
<1>27. ASSUME NEW t \in Workers, NEW u \in Users, RemoveUser(t, u) \/ UpdateUser(t, u)
       PROVE InOrder'
  <2>1. CASE RemoveUser(t, u)
    BY <1>0, <2>1 DEF IInv, Operands, RemoveUser
  <2>2. CASE UpdateUser(t, u)
    <3>1. CASE UNCHANGED task
      BY <1>0, <2>2, <3>1 DEF IInv, Operands, UpdateUser
    <3>2. CASE task' = [task EXCEPT ![t] = [Idle EXCEPT !.pc = "revoke", !.user = u]]
      BY <1>0, <2>2, <3>2 DEF IInv, Operands, UpdateUser
    <3> QED
      BY <2>2, <3>1, <3>2 DEF UpdateUser
  <2> QED
    BY <1>27, <2>1, <2>2
<1>28. ASSUME NEW t \in IoThreads, NEW u \in Users, BasicLogin(t, u) PROVE InOrder'
  BY <1>0, <1>28 DEF IInv, Operands, BasicLogin
<1>29. ASSUME NEW t \in IoThreads, NEW k \in Sockets, SocketDisconnected(t, k) PROVE InOrder'
  BY <1>0, <1>29 DEF IInv, Operands, SocketDisconnected
<1>30. ASSUME NEW key \in AuthTokens, PostHttpLogout(key) PROVE InOrder'
  BY <1>0, <1>30 DEF IInv, Operands, PostHttpLogout
<1>31. ASSUME NEW k \in Sockets, AddSocket(k) PROVE InOrder'
  BY <1>0, <1>31 DEF IInv, Operands, AddSocket
<1>32. ASSUME NEW k \in Sockets, AuthenticationTimeout(k) PROVE InOrder'
  BY <1>0, <1>32 DEF IInv, Operands, AuthenticationTimeout
<1>33. ASSUME NEW s \in Sessions, Inactivity(s) PROVE InOrder'
  BY <1>0, <1>33 DEF IInv, Operands, Inactivity
<1>34. CASE ExpireTokens
  BY <1>0, <1>34 DEF IInv, Operands, ExpireTokens
<1>35. CASE UNCHANGED vars
  BY <1>35 DEF vars
<1> QED
  BY <1>1, <1>2, <1>3, <1>4, <1>5, <1>6, <1>7, <1>8, <1>9, <1>10, <1>11, <1>12, <1>13, <1>14,
     <1>15, <1>16, <1>17, <1>18, <1>19, <1>20, <1>21, <1>22, <1>23, <1>24, <1>25, <1>26, <1>27,
        <1>28, <1>29, <1>30, <1>31, <1>32, <1>33, <1>34, <1>35 DEF Next, Continue, ResetStep,
           WorkerStep, WorkerCall, IoCall, Environment

\* One worker: every step keeps sessions and tokens to the users there are.
LEMMA UserOutStep == OneWorker /\ InOrder /\ IInv /\ TypeOK' /\ OwnersIn /\ [Next]_vars => OwnersIn'
<1> SUFFICES ASSUME OneWorker, InOrder, IInv, TypeOK', OwnersIn, [Next]_vars PROVE OwnersIn'
  OBVIOUS
<1>0. \A t \in Threads : task[t] \in TaskType /\ Operands(task[t])
  BY DEF IInv, TypeOK, TaskType, OperandsSet
<1> USE SessionAssumption DEF TypeOK, TaskType, At, Goto, Finish, Start, Idle, Threads, userVars,
   regVars, sockVars, modVars
<1> USE DEF OneWorker, OwnersIn, UserStage, Attaching, InOrder, IoCalls, Resetting, IsBasic
<1>1. ASSUME NEW t \in Threads, EmplaceSession(t) PROVE OwnersIn'
  BY <1>0, <1>1 DEF IInv, Operands, EmplaceSession, AddSession
<1>2. ASSUME NEW t \in Threads, EmplaceBasic(t) PROVE OwnersIn'
  BY <1>0, <1>2 DEF IInv, Operands, EmplaceBasic, AddSession
<1>3. ASSUME NEW t \in Threads, CheckSession(t) PROVE OwnersIn'
  BY <1>0, <1>3 DEF IInv, Operands, CheckSession
<1>4. ASSUME NEW t \in Threads, ReadSession(t) PROVE OwnersIn'
  <2>0. At(t, "reread") /\ UNCHANGED <<userVars, regVars, expired, sockVars, httpQueue>>
    BY <1>4 DEF ReadSession
  <2>1. TypeOK
    BY DEF IInv
  <2>2. HasRead(t)
    BY <1>4, <2>1, ReadTask
  <2> QED
    BY <1>0, <2>0, <2>2 DEF IInv, Operands, Others, HasRead
<1>5. ASSUME NEW t \in Threads, NotifyDisconnected(t) PROVE OwnersIn'
  BY <1>0, <1>5 DEF IInv, Operands, NotifyDisconnected, TellModule
<1>6. ASSUME NEW t \in Threads, ClearSession(t) PROVE OwnersIn'
  BY <1>0, <1>6 DEF IInv, Operands, ClearSession
<1>7. ASSUME NEW t \in Threads, ConsumeToken(t) PROVE OwnersIn'
  BY <1>0, <1>7 DEF IInv, Operands, ConsumeToken
<1>8. ASSUME NEW t \in Threads, IssueToken(t) PROVE OwnersIn'
  BY <1>0, <1>8 DEF IInv, Operands, IssueToken
<1>9. ASSUME NEW t \in Threads, FindOldSocket(t) PROVE OwnersIn'
  <2>0. At(t, "attach") /\ UNCHANGED <<userVars, regVars, expired, sockVars, httpQueue>>
    BY <1>9 DEF FindOldSocket
  <2>1. TypeOK
    BY DEF IInv
  <2>2. FoundOld(t)
    BY <1>9, <2>1, FindOldTask
  <2> QED
    BY <1>0, <2>0, <2>2 DEF IInv, Operands, Others, FoundOld
<1>10. ASSUME NEW t \in Threads, DetachOldSocket(t) PROVE OwnersIn'
  BY <1>0, <1>10 DEF IInv, Operands, DetachOldSocket, TellModule
<1>11. ASSUME NEW t \in Threads, ConnectModules(t) PROVE OwnersIn'
  BY <1>0, <1>11 DEF IInv, Operands, ConnectModules, TellModule
<1>12. ASSUME NEW t \in Threads, BindSocket(t) PROVE OwnersIn'
  BY <1>0, <1>12 DEF IInv, Operands, BindSocket
<1>13. ASSUME NEW t \in Threads, EraseSession(t) PROVE OwnersIn'
  BY <1>0, <1>13 DEF IInv, Operands, EraseSession
<1>14. ASSUME NEW t \in Threads, FindLogoutSocket(t) PROVE OwnersIn'
  <2>0. At(t, "logout.socket") /\ UNCHANGED <<userVars, regVars, expired, sockVars, httpQueue>>
    BY <1>14 DEF FindLogoutSocket
  <2>1. TypeOK
    BY DEF IInv
  <2>2. FoundLogout(t)
    BY <1>14, <2>1, FindLogoutTask
  <2> QED
    BY <1>0, <2>0, <2>2 DEF IInv, Operands, Others, FoundLogout
<1>15. ASSUME NEW t \in Threads, NextExpired(t) PROVE OwnersIn'
  <2>0. At(t, "expire") /\ UNCHANGED <<userVars, regVars, expired, sockVars, httpQueue>>
    BY <1>15 DEF NextExpired
  <2>1. TypeOK
    BY DEF IInv
  <2>2. TookNext(t)
    BY <1>15, <2>1, NextExpiredTask
  <2> QED
    BY <1>0, <2>0, <2>2 DEF IInv, Operands, Others, TookNext
<1>16. ASSUME NEW t \in Threads, CollectTokens(t) PROVE OwnersIn'
  <2>0. At(t, "revoke") /\ UNCHANGED <<userVars, regVars, expired, sockVars, httpQueue>>
    BY <1>16 DEF CollectTokens
  <2>1. TypeOK
    BY DEF IInv
  <2>2. Collected(t, "revoked", {r \in refreshTokens : tokenOwner[r] = task[t].user})
    BY <1>16, <2>1, CollectTask DEF CollectTokens
  <2> QED
    BY <1>0, <2>0, <2>2 DEF IInv, Operands, Others, Collected
<1>17. ASSUME NEW t \in Threads, EraseTokens(t) PROVE OwnersIn'
  BY <1>0, <1>17 DEF IInv, Operands, EraseTokens
<1>18. ASSUME NEW t \in Threads, CollectSessions(t) PROVE OwnersIn'
  <2>0. At(t, "collect") /\ UNCHANGED <<userVars, regVars, expired, sockVars, httpQueue>>
    BY <1>18 DEF CollectSessions
  <2>1. TypeOK
    BY DEF IInv
  <2>2. Collected(t, "user", {s \in localId : owner[s] = task[t].user})
    BY <1>18, <2>1, CollectTask DEF CollectSessions
  <2> QED
    BY <1>0, <2>0, <2>2 DEF IInv, Operands, Others, Collected
<1>19. ASSUME NEW t \in Threads, CloseUserSocket(t) PROVE OwnersIn'
  BY <1>0, <1>19 DEF IInv, Operands, CloseUserSocket
<1>20. ASSUME NEW t \in Threads, EraseUser(t) PROVE OwnersIn'
  BY <1>0, <1>20 DEF IInv, Operands, EraseUser
<1>21. ASSUME NEW t \in Workers, NEW k \in Sockets \cup {NoSocket}, NEW u \in Users,
       PasswordLogin(t, k, u) PROVE OwnersIn'
  BY <1>0, <1>21 DEF IInv, Operands, PasswordLogin, Unauthenticated
<1>22. ASSUME NEW t \in Workers, NEW k \in Sockets \cup {NoSocket}, NEW r \in Tokens,
       RefreshLogin(t, k, r) PROVE OwnersIn'
  BY <1>0, <1>22 DEF IInv, Operands, RefreshLogin, Unauthenticated
<1>23. ASSUME NEW t \in Workers, NEW k \in Sockets, NEW key \in AuthTokens,
       ConnectSocket(t, k, key) PROVE OwnersIn'
  BY <1>0, <1>23 DEF IInv, Operands, ConnectSocket, RegistriesAgree, Unauthenticated
<1>24. ASSUME NEW t \in Workers, NEW s \in Sessions, Logout(t, s) PROVE OwnersIn'
  BY <1>0, <1>24 DEF IInv, Operands, Logout
<1>25. ASSUME NEW t \in Workers, NEW s \in Sessions, ApiRequest(t, s) PROVE OwnersIn'
  BY <1>0, <1>25 DEF IInv, Operands, ApiRequest
<1>26. ASSUME NEW t \in Workers, CollectExpired(t) PROVE OwnersIn'
  BY <1>0, <1>26 DEF IInv, Operands, CollectExpired
<1>27. ASSUME NEW t \in Workers, NEW u \in Users, RemoveUser(t, u) \/ UpdateUser(t, u)
       PROVE OwnersIn'
  <2>1. CASE RemoveUser(t, u)
    BY <1>0, <2>1 DEF IInv, Operands, RemoveUser
  <2>2. CASE UpdateUser(t, u)
    <3>1. CASE UNCHANGED task
      BY <1>0, <2>2, <3>1 DEF IInv, Operands, UpdateUser
    <3>2. CASE task' = [task EXCEPT ![t] = [Idle EXCEPT !.pc = "revoke", !.user = u]]
      BY <1>0, <2>2, <3>2 DEF IInv, Operands, UpdateUser
    <3> QED
      BY <2>2, <3>1, <3>2 DEF UpdateUser
  <2> QED
    BY <1>27, <2>1, <2>2
<1>28. ASSUME NEW t \in IoThreads, NEW u \in Users, BasicLogin(t, u) PROVE OwnersIn'
  BY <1>0, <1>28 DEF IInv, Operands, BasicLogin
<1>29. ASSUME NEW t \in IoThreads, NEW k \in Sockets, SocketDisconnected(t, k) PROVE OwnersIn'
  BY <1>0, <1>29 DEF IInv, Operands, SocketDisconnected
<1>30. ASSUME NEW key \in AuthTokens, PostHttpLogout(key) PROVE OwnersIn'
  BY <1>0, <1>30 DEF IInv, Operands, PostHttpLogout
<1>31. ASSUME NEW k \in Sockets, AddSocket(k) PROVE OwnersIn'
  BY <1>0, <1>31 DEF IInv, Operands, AddSocket
<1>32. ASSUME NEW k \in Sockets, AuthenticationTimeout(k) PROVE OwnersIn'
  BY <1>0, <1>32 DEF IInv, Operands, AuthenticationTimeout
<1>33. ASSUME NEW s \in Sessions, Inactivity(s) PROVE OwnersIn'
  BY <1>0, <1>33 DEF IInv, Operands, Inactivity
<1>34. CASE ExpireTokens
  BY <1>0, <1>34 DEF IInv, Operands, ExpireTokens
<1>35. CASE UNCHANGED vars
  BY <1>35 DEF vars
<1> QED
  BY <1>1, <1>2, <1>3, <1>4, <1>5, <1>6, <1>7, <1>8, <1>9, <1>10, <1>11, <1>12, <1>13, <1>14,
     <1>15, <1>16, <1>17, <1>18, <1>19, <1>20, <1>21, <1>22, <1>23, <1>24, <1>25, <1>26, <1>27,
        <1>28, <1>29, <1>30, <1>31, <1>32, <1>33, <1>34, <1>35 DEF Next, Continue, ResetStep,
           WorkerStep, WorkerCall, IoCall, Environment

\* One worker: no step leaves a module with a socket of another session.
LEMMA SendStep == OneWorker /\ InOrder /\ IInv /\ TypeOK' /\ Sending /\ [Next]_vars => Sending'
<1> SUFFICES ASSUME OneWorker, InOrder, IInv, TypeOK', Sending, [Next]_vars PROVE Sending'
  OBVIOUS
<1>0. \A t \in Threads : task[t] \in TaskType /\ Operands(task[t])
  BY DEF IInv, TypeOK, TaskType, OperandsSet
<1> USE SessionAssumption DEF TypeOK, TaskType, At, Goto, Finish, Start, Idle, Threads, userVars,
   regVars, sockVars, modVars
<1> USE DEF OneWorker, Sending, IoCalls, SocketStage, Attaching, Resetting, InOrder, Stages, Stage,
   Distinct, NewSockets, Connected, SocketsOf
<1>1. ASSUME NEW t \in Threads, EmplaceSession(t) PROVE Sending'
  BY <1>0, <1>1 DEF IInv, Operands, EmplaceSession, AddSession
<1>2. ASSUME NEW t \in Threads, EmplaceBasic(t) PROVE Sending'
  BY <1>0, <1>2 DEF IInv, Operands, EmplaceBasic, AddSession
<1>3. ASSUME NEW t \in Threads, CheckSession(t) PROVE Sending'
  BY <1>0, <1>3 DEF IInv, Operands, CheckSession
<1>4. ASSUME NEW t \in Threads, ReadSession(t) PROVE Sending'
  <2>0. At(t, "reread") /\ UNCHANGED <<userVars, regVars, expired, sockVars, httpQueue>>
    BY <1>4 DEF ReadSession
  <2>1. TypeOK
    BY DEF IInv
  <2>2. HasRead(t)
    BY <1>4, <2>1, ReadTask
  <2> QED
    BY <1>0, <2>0, <2>2 DEF IInv, Operands, Others, HasRead
<1>5. ASSUME NEW t \in Threads, NotifyDisconnected(t) PROVE Sending'
  BY <1>0, <1>5 DEF IInv, Operands, NotifyDisconnected, TellModule
<1>6. ASSUME NEW t \in Threads, ClearSession(t) PROVE Sending'
  BY <1>0, <1>6 DEF IInv, Operands, ClearSession
<1>7. ASSUME NEW t \in Threads, ConsumeToken(t) PROVE Sending'
  BY <1>0, <1>7 DEF IInv, Operands, ConsumeToken
<1>8. ASSUME NEW t \in Threads, IssueToken(t) PROVE Sending'
  BY <1>0, <1>8 DEF IInv, Operands, IssueToken
<1>9. ASSUME NEW t \in Threads, FindOldSocket(t) PROVE Sending'
  <2>0. At(t, "attach") /\ UNCHANGED <<userVars, regVars, expired, sockVars, httpQueue>>
    BY <1>9 DEF FindOldSocket
  <2>1. TypeOK
    BY DEF IInv
  <2>2. FoundOld(t)
    BY <1>9, <2>1, FindOldTask
  <2> QED
    BY <1>0, <2>0, <2>2 DEF IInv, Operands, Others, FoundOld
<1>10. ASSUME NEW t \in Threads, DetachOldSocket(t) PROVE Sending'
  BY <1>0, <1>10 DEF IInv, Operands, DetachOldSocket, TellModule
<1>11. ASSUME NEW t \in Threads, ConnectModules(t) PROVE Sending'
  BY <1>0, <1>11 DEF IInv, Operands, ConnectModules, TellModule
<1>12. ASSUME NEW t \in Threads, BindSocket(t) PROVE Sending'
  BY <1>0, <1>12 DEF IInv, Operands, BindSocket
<1>13. ASSUME NEW t \in Threads, EraseSession(t) PROVE Sending'
  BY <1>0, <1>13 DEF IInv, Operands, EraseSession
<1>14. ASSUME NEW t \in Threads, FindLogoutSocket(t) PROVE Sending'
  <2>0. At(t, "logout.socket") /\ UNCHANGED <<userVars, regVars, expired, sockVars, httpQueue>>
    BY <1>14 DEF FindLogoutSocket
  <2>1. TypeOK
    BY DEF IInv
  <2>2. FoundLogout(t)
    BY <1>14, <2>1, FindLogoutTask
  <2> QED
    BY <1>0, <2>0, <2>2 DEF IInv, Operands, Others, FoundLogout
<1>15. ASSUME NEW t \in Threads, NextExpired(t) PROVE Sending'
  <2>0. At(t, "expire") /\ UNCHANGED <<userVars, regVars, expired, sockVars, httpQueue>>
    BY <1>15 DEF NextExpired
  <2>1. TypeOK
    BY DEF IInv
  <2>2. TookNext(t)
    BY <1>15, <2>1, NextExpiredTask
  <2> QED
    BY <1>0, <2>0, <2>2 DEF IInv, Operands, Others, TookNext
<1>16. ASSUME NEW t \in Threads, CollectTokens(t) PROVE Sending'
  <2>0. At(t, "revoke") /\ UNCHANGED <<userVars, regVars, expired, sockVars, httpQueue>>
    BY <1>16 DEF CollectTokens
  <2>1. TypeOK
    BY DEF IInv
  <2>2. Collected(t, "revoked", {r \in refreshTokens : tokenOwner[r] = task[t].user})
    BY <1>16, <2>1, CollectTask DEF CollectTokens
  <2> QED
    BY <1>0, <2>0, <2>2 DEF IInv, Operands, Others, Collected
<1>17. ASSUME NEW t \in Threads, EraseTokens(t) PROVE Sending'
  BY <1>0, <1>17 DEF IInv, Operands, EraseTokens
<1>18. ASSUME NEW t \in Threads, CollectSessions(t) PROVE Sending'
  <2>0. At(t, "collect") /\ UNCHANGED <<userVars, regVars, expired, sockVars, httpQueue>>
    BY <1>18 DEF CollectSessions
  <2>1. TypeOK
    BY DEF IInv
  <2>2. Collected(t, "user", {s \in localId : owner[s] = task[t].user})
    BY <1>18, <2>1, CollectTask DEF CollectSessions
  <2> QED
    BY <1>0, <2>0, <2>2 DEF IInv, Operands, Others, Collected
<1>19. ASSUME NEW t \in Threads, CloseUserSocket(t) PROVE Sending'
  BY <1>0, <1>19 DEF IInv, Operands, CloseUserSocket
<1>20. ASSUME NEW t \in Threads, EraseUser(t) PROVE Sending'
  BY <1>0, <1>20 DEF IInv, Operands, EraseUser
<1>21. ASSUME NEW t \in Workers, NEW k \in Sockets \cup {NoSocket}, NEW u \in Users,
       PasswordLogin(t, k, u) PROVE Sending'
  BY <1>0, <1>21 DEF IInv, Operands, PasswordLogin, Unauthenticated
<1>22. ASSUME NEW t \in Workers, NEW k \in Sockets \cup {NoSocket}, NEW r \in Tokens,
       RefreshLogin(t, k, r) PROVE Sending'
  BY <1>0, <1>22 DEF IInv, Operands, RefreshLogin, Unauthenticated
<1>23. ASSUME NEW t \in Workers, NEW k \in Sockets, NEW key \in AuthTokens,
       ConnectSocket(t, k, key) PROVE Sending'
  BY <1>0, <1>23 DEF IInv, Operands, ConnectSocket, RegistriesAgree, Unauthenticated
<1>24. ASSUME NEW t \in Workers, NEW s \in Sessions, Logout(t, s) PROVE Sending'
  BY <1>0, <1>24 DEF IInv, Operands, Logout
<1>25. ASSUME NEW t \in Workers, NEW s \in Sessions, ApiRequest(t, s) PROVE Sending'
  BY <1>0, <1>25 DEF IInv, Operands, ApiRequest
<1>26. ASSUME NEW t \in Workers, CollectExpired(t) PROVE Sending'
  BY <1>0, <1>26 DEF IInv, Operands, CollectExpired
<1>27. ASSUME NEW t \in Workers, NEW u \in Users, RemoveUser(t, u) \/ UpdateUser(t, u)
       PROVE Sending'
  <2>1. CASE RemoveUser(t, u)
    BY <1>0, <2>1 DEF IInv, Operands, RemoveUser
  <2>2. CASE UpdateUser(t, u)
    <3>1. CASE UNCHANGED task
      BY <1>0, <2>2, <3>1 DEF IInv, Operands, UpdateUser
    <3>2. CASE task' = [task EXCEPT ![t] = [Idle EXCEPT !.pc = "revoke", !.user = u]]
      BY <1>0, <2>2, <3>2 DEF IInv, Operands, UpdateUser
    <3> QED
      BY <2>2, <3>1, <3>2 DEF UpdateUser
  <2> QED
    BY <1>27, <2>1, <2>2
<1>28. ASSUME NEW t \in IoThreads, NEW u \in Users, BasicLogin(t, u) PROVE Sending'
  BY <1>0, <1>28 DEF IInv, Operands, BasicLogin
<1>29. ASSUME NEW t \in IoThreads, NEW k \in Sockets, SocketDisconnected(t, k) PROVE Sending'
  BY <1>0, <1>29 DEF IInv, Operands, SocketDisconnected
<1>30. ASSUME NEW key \in AuthTokens, PostHttpLogout(key) PROVE Sending'
  BY <1>0, <1>30 DEF IInv, Operands, PostHttpLogout
<1>31. ASSUME NEW k \in Sockets, AddSocket(k) PROVE Sending'
  BY <1>0, <1>31 DEF IInv, Operands, AddSocket
<1>32. ASSUME NEW k \in Sockets, AuthenticationTimeout(k) PROVE Sending'
  BY <1>0, <1>32 DEF IInv, Operands, AuthenticationTimeout
<1>33. ASSUME NEW s \in Sessions, Inactivity(s) PROVE Sending'
  BY <1>0, <1>33 DEF IInv, Operands, Inactivity
<1>34. CASE ExpireTokens
  BY <1>0, <1>34 DEF IInv, Operands, ExpireTokens
<1>35. CASE UNCHANGED vars
  BY <1>35 DEF vars
<1> QED
  BY <1>1, <1>2, <1>3, <1>4, <1>5, <1>6, <1>7, <1>8, <1>9, <1>10, <1>11, <1>12, <1>13, <1>14,
     <1>15, <1>16, <1>17, <1>18, <1>19, <1>20, <1>21, <1>22, <1>23, <1>24, <1>25, <1>26, <1>27,
        <1>28, <1>29, <1>30, <1>31, <1>32, <1>33, <1>34, <1>35 DEF Next, Continue, ResetStep,
           WorkerStep, WorkerCall, IoCall, Environment

-----------------------------------------------------------------------------
LEMMA TypesNext == IInv /\ [Next]_vars => IInv' /\ TypeOK'
<1>1. IInv /\ [Next]_vars => IInv'
  BY Inductive
<1>2. IInv' => TypeOK'
  BY DEF IInv
<1> QED
  BY <1>1, <1>2

LEMMA OrderInit == Init => InOrder
<1> SUFFICES ASSUME Init PROVE InOrder
  OBVIOUS
<1>1. \A t \in Threads : task[t] = Idle
  BY DEF Init
<1>2. \A k \in Sockets : sockSession[k] = NoSession /\ sockState[k] = "new" /\ k # NoSocket
  BY SessionAssumption DEF Init
<1> QED
  BY <1>1, <1>2 DEF InOrder, IoCalls, Stages, Stage, Distinct, NewSockets, Served, Attaching, Resetting,
                    Connected, SocketsOf, Idle, At, Threads

LEMMA OrderHolds == ASSUME OneWorker PROVE Spec => [](IInv /\ InOrder)
<1>1. Init => IInv /\ InOrder
  BY Initially, OrderInit DEF IInv
<1>2. IInv /\ InOrder /\ [Next]_vars => (IInv /\ InOrder)'
  BY OrderStep, TypesNext
<1> QED
  BY <1>1, <1>2, PTL DEF Spec

\* A session never serves two open sockets: onSocketConnected takes the session
\* from the old socket before it gives it to the new one, and with one thread in
\* the "tasks" service no other call comes between.
THEOREM OneSocketHolds == ASSUME OneWorker PROVE Spec => []OneSocketPerSession
<1>1. IInv /\ InOrder => OneSocketPerSession
  <2> SUFFICES ASSUME InOrder, NEW s \in Sessions
               PROVE  Cardinality({k \in Sockets : sockState[k] = "open" /\ sockSession[k] = s}) =< 1
    BY DEF OneSocketPerSession
  <2> DEFINE open == {k \in Sockets : sockState[k] = "open" /\ sockSession[k] = s}
  <2>1. \A k, j \in open : k = j
    BY SessionAssumption DEF InOrder, Distinct, Connected
  <2>2. open = {} \/ \E k : open = {k}
    BY <2>1
  <2>3. Cardinality({}) = 0 /\ \A k : Cardinality({k}) = 1
    BY FS_EmptySet, FS_Singleton
  <2> HIDE DEF open
  <2>4. Cardinality(open) \in {0, 1}
    BY <2>2, <2>3
  <2> QED
    BY <2>4 DEF open
<1> QED
  BY <1>1, OrderHolds, PTL

\* An open socket serves a registered session, or the thread that removes the
\* session is about to reset the socket (SessionApi::logout, removeSessions).
THEOREM ServeRegisteredHolds == ASSUME OneWorker PROVE Spec => []SocketsServeRegistered
<1>1. IInv /\ InOrder => SocketsServeRegistered
  BY DEF InOrder, Served, Leaving, SocketsServeRegistered, Threads
<1> QED
  BY <1>1, OrderHolds, PTL

\* After removeUser no bearer session and no refresh token of the user is left:
\* only the worker makes either, so none appears between the collection and the
\* removal, whatever logins the io threads check meanwhile.
THEOREM RemovedUserHolds == ASSUME OneWorker PROVE Spec => []RemovedUserIsOut
<1>1. Init => OwnersIn
  BY DEF Init, OwnersIn, UserStage, Attaching, At, Idle, Threads
<1>2. Spec => [](IInv /\ InOrder)
  BY OrderHolds
<1>3. IInv /\ InOrder /\ OwnersIn /\ [Next]_vars => OwnersIn'
  BY UserOutStep, TypesNext
<1>4. OwnersIn => RemovedUserIsOut
  BY DEF OwnersIn, RemovedUserIsOut
<1> QED
  BY <1>1, <1>2, <1>3, <1>4, PTL DEF Spec

\* Between requests no module sends to an open socket of another session: the
\* disconnects that io threads handle meanwhile only take sockets away.
THEOREM ModulesSendHolds == ASSUME OneWorker PROVE Spec => []ModulesSendToOwn
<1>1. Init => Sending
  <2> SUFFICES ASSUME Init PROVE Sending
    OBVIOUS
  <2>1. \A t \in Threads : task[t].pc = "idle"
    BY DEF Init, Idle
  <2> QED
    BY <2>1 DEF Init, Sending, SocketStage, Attaching, Resetting, At, Threads
<1>2. Spec => [](IInv /\ InOrder)
  BY OrderHolds
<1>3. IInv /\ InOrder /\ Sending /\ [Next]_vars => Sending'
  BY SendStep, TypesNext
<1>4. Sending => ModulesSendToOwn
  BY DEF Sending, ModulesSendToOwn, WorkersIdle, At, Idle
<1> QED
  BY <1>1, <1>2, <1>3, <1>4, PTL DEF Spec
=============================================================================
