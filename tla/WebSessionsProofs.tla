-------------------------- MODULE WebSessionsProofs --------------------------
(* Theorems about WebSessions, for any numbers of threads, users, passwords, *)
(* sessions, sockets and tokens.                                             *)
EXTENDS WebSessions, TLAPS

TaskType == [pc : PCs, session : Sessions \cup {NoSession},
             socket : Sockets \cup {NoSocket}, old : Sockets \cup {NoSocket},
             user : Users \cup {NoUser}, token : Tokens \cup Credentials \cup {NoToken},
             todo : SUBSET (Sessions \cup Tokens), remove : BOOLEAN]

\* Which operands of a task are set where the code uses them.
Operands(rec) ==
  /\ rec.pc \in {"consume", "emplace", "basic.emplace", "issue"} => rec.user \in Users
  /\ rec.pc \in {"attach", "detach", "modules", "bind", "logout.erase", "logout.socket",
                 "notify", "expire.erase", "user.erase"} => rec.session \in Sessions
  /\ rec.pc \in {"attach", "detach", "modules", "bind", "check", "reread", "notify", "clear"}
       => rec.socket \in Sockets
  /\ rec.pc = "basic.emplace" => rec.token \in Credentials
  /\ rec.pc = "detach" => rec.old \in Sockets
  /\ rec.pc \in {"expire", "user", "expire.erase", "user.erase"} => rec.todo \in SUBSET Sessions

OperandsSet == \A t \in Threads : Operands(task[t])
Owned == /\ \A s \in localId : owner[s] \in Users
         /\ \A s \in Sessions : authToken[s] = s \/ IsBasic(s)
         /\ \A r \in refreshTokens : tokenOwner[r] \in Users

-----------------------------------------------------------------------------
LEMMA IdleTask == Idle \in TaskType /\ Operands(Idle)
BY DEF Idle, TaskType, Operands, PCs

LEMMA Initially == Init => TypeOK /\ OperandsSet /\ Owned /\ RegistriesAgree
<1> SUFFICES ASSUME Init
             PROVE  TypeOK /\ OperandsSet /\ Owned /\ RegistriesAgree
  OBVIOUS
<1>1. TypeOK
  <2>1. task \in [Threads -> TaskType]
    BY IdleTask DEF Init
  <2>2. QED
    BY <2>1 DEF Init, TypeOK, TaskType, AuthTokens
<1>2. OperandsSet
  BY IdleTask DEF Init, OperandsSet
<1>3. Owned /\ RegistriesAgree
  BY DEF Init, Owned, RegistriesAgree, IsBasic
<1>4. QED
  BY <1>1, <1>2, <1>3

\* A step that gives one task a new value keeps the types of all tasks.
LEMMA TaskUpdate ==
  ASSUME TypeOK, OperandsSet, NEW t \in Threads, NEW rec,
         rec \in TaskType, Operands(rec), task' = [task EXCEPT ![t] = rec]
  PROVE  task' \in [Threads -> TaskType] /\ OperandsSet'
BY DEF TypeOK, OperandsSet, TaskType

LEMMA TaskSame == ASSUME TypeOK, OperandsSet, UNCHANGED task
                  PROVE  task' \in [Threads -> TaskType] /\ OperandsSet'
BY DEF TypeOK, OperandsSet, TaskType

LEMMA TaskFinish == ASSUME TypeOK, OperandsSet, NEW t \in Threads, Finish(t)
                    PROVE  task' \in [Threads -> TaskType] /\ OperandsSet'
BY TaskUpdate, IdleTask DEF Finish

LEMMA TaskGoto ==
  ASSUME TypeOK, OperandsSet, NEW t \in Threads, NEW pc \in PCs, Goto(t, pc),
         Operands([task[t] EXCEPT !.pc = pc])
  PROVE  task' \in [Threads -> TaskType] /\ OperandsSet'
<1>1. task' = [task EXCEPT ![t] = [task[t] EXCEPT !.pc = pc]]
  BY DEF Goto
<1>2. [task[t] EXCEPT !.pc = pc] \in TaskType
  BY DEF TypeOK, TaskType
<1>3. QED
  BY <1>1, <1>2, TaskUpdate

\* Every step gives the tasks legal values.
LEMMA TaskStep == TypeOK /\ OperandsSet /\ Owned /\ RegistriesAgree /\ [Next]_vars
                    => task' \in [Threads -> TaskType] /\ OperandsSet'
<1> SUFFICES ASSUME TypeOK, OperandsSet, Owned, RegistriesAgree, [Next]_vars
             PROVE  task' \in [Threads -> TaskType] /\ OperandsSet'
  OBVIOUS
<1> DEFINE Goal == task' \in [Threads -> TaskType] /\ OperandsSet'
<1>0. \A t \in Threads : task[t] \in TaskType /\ Operands(task[t])
  BY DEF TypeOK, TaskType, OperandsSet
<1>1. ASSUME NEW t \in Threads, Continue(t)
      PROVE  Goal
  <2>1. CASE EmplaceSession(t)
    <3>1. PICK s \in Sessions :
            task' = [task EXCEPT ![t] = [@ EXCEPT !.session = s,
                                                  !.pc = IF task[t].socket = NoSocket THEN "issue" ELSE "attach"]]
      BY <2>1 DEF EmplaceSession
    <3> DEFINE rec == [task[t] EXCEPT !.session = s,
                         !.pc = IF task[t].socket = NoSocket THEN "issue" ELSE "attach"]
    <3>2. task' = [task EXCEPT ![t] = rec]
      BY <3>1
    <3>3. rec \in TaskType /\ Operands(rec)
      BY <1>0, <2>1 DEF EmplaceSession, At, TaskType, Operands, PCs
    <3>4. QED
      BY <3>2, <3>3, TaskUpdate
  <2>2. CASE EmplaceBasic(t)
    BY <2>2, TaskFinish DEF EmplaceBasic
  <2>3. CASE ResetStep(t)
    <3>1. CASE CheckSession(t)
      <4>1. Operands([task[t] EXCEPT !.pc = "reread"])
        BY <1>0, <3>1 DEF CheckSession, At, Operands, TaskType
      <4>2. QED
        BY <3>1, <4>1, TaskFinish, TaskGoto DEF CheckSession, PCs
    <3>2. CASE ReadSession(t)
      <4> DEFINE s == sockSession[task[t].socket]
                 rec == [task[t] EXCEPT !.session = s, !.pc = "notify"]
      <4>1. CASE s = NoSession
        <5>1. Operands([task[t] EXCEPT !.pc = "crashed"])
          BY <1>0 DEF Operands, TaskType
        <5>2. QED
          BY <3>2, <4>1, <5>1, TaskGoto DEF ReadSession, PCs
      <4>2. CASE s # NoSession
        <5>1. task[t].socket \in Sockets /\ task' = [task EXCEPT ![t] = rec]
          BY <1>0, <3>2, <4>2 DEF ReadSession, At, Operands
        <5>2. s \in Sessions
          BY <4>2, <5>1 DEF TypeOK
        <5>3. rec \in TaskType /\ Operands(rec)
          BY <1>0, <5>1, <5>2 DEF TaskType, Operands, PCs
        <5>4. QED
          BY <5>1, <5>3, TaskUpdate
      <4>3. QED
        BY <4>1, <4>2
    <3>3. CASE NotifyDisconnected(t)
      <4>1. Operands([task[t] EXCEPT !.pc = "clear"])
        BY <1>0, <3>3 DEF NotifyDisconnected, At, Operands, TaskType
      <4>2. QED
        BY <3>3, <4>1, TaskGoto DEF NotifyDisconnected, PCs
    <3>4. QED
      BY <2>3, <3>1, <3>2, <3>3, TaskFinish DEF ResetStep, ClearSession
  <2>4. CASE ConsumeToken(t)
    <3>1. Operands([task[t] EXCEPT !.pc = "emplace"])
      BY <1>0, <2>4 DEF ConsumeToken, At, Operands, TaskType
    <3>2. QED
      BY <2>4, <3>1, TaskGoto DEF ConsumeToken, PCs
  <2>5. CASE FindOldSocket(t)
    <3>1. CASE SocketsOf(task[t].session) = {}
      <4>1. Operands([task[t] EXCEPT !.pc = "modules"])
        BY <1>0, <2>5 DEF FindOldSocket, At, Operands, TaskType
      <4>2. QED
        BY <2>5, <3>1, <4>1, TaskGoto DEF FindOldSocket, PCs
    <3>2. CASE SocketsOf(task[t].session) # {}
      <4>1. PICK k \in Sockets :
              task' = [task EXCEPT ![t] = [task[t] EXCEPT !.old = k, !.pc = "detach"]]
        BY <2>5, <3>2 DEF FindOldSocket, SocketsOf, Connected
      <4>2. [task[t] EXCEPT !.old = k, !.pc = "detach"] \in TaskType
            /\ Operands([task[t] EXCEPT !.old = k, !.pc = "detach"])
        BY <1>0, <2>5 DEF FindOldSocket, At, TaskType, Operands, PCs
      <4>3. QED
        BY <4>1, <4>2, TaskUpdate
    <3>3. QED
      BY <3>1, <3>2
  <2>6. CASE DetachOldSocket(t) \/ ConnectModules(t)
    <3>1. CASE DetachOldSocket(t)
      <4>1. Operands([task[t] EXCEPT !.pc = "modules"])
        BY <1>0, <3>1 DEF DetachOldSocket, At, Operands, TaskType
      <4>2. QED
        BY <3>1, <4>1, TaskGoto DEF DetachOldSocket, PCs
    <3>2. CASE ConnectModules(t)
      <4>1. Operands([task[t] EXCEPT !.pc = "bind"])
        BY <1>0, <3>2 DEF ConnectModules, At, Operands, TaskType
      <4>2. QED
        BY <3>2, <4>1, TaskGoto DEF ConnectModules, PCs
    <3>3. QED
      BY <2>6, <3>1, <3>2
  <2>7. CASE BindSocket(t)
    <3>1. CASE task[t].user = NoUser
      BY <2>7, <3>1, TaskFinish DEF BindSocket
    <3>2. CASE task[t].user # NoUser
      <4>1. Operands([task[t] EXCEPT !.pc = "issue"])
        BY <1>0, <3>2, <2>7 DEF BindSocket, At, Operands, TaskType
      <4>2. QED
        BY <2>7, <3>2, <4>1, TaskGoto DEF BindSocket, PCs
    <3>3. QED
      BY <3>1, <3>2
  <2>8. CASE EraseSession(t)
    <3>1. CASE At(t, "logout.erase") /\ Goto(t, "logout.socket")
      <4>1. Operands([task[t] EXCEPT !.pc = "logout.socket"])
        BY <1>0, <3>1 DEF At, Operands, TaskType
      <4>2. QED
        BY <3>1, <4>1, TaskGoto DEF PCs
    <3>2. CASE At(t, "expire.erase") /\ Goto(t, "expire")
      <4>1. Operands([task[t] EXCEPT !.pc = "expire"])
        BY <1>0, <3>2 DEF At, Operands, TaskType
      <4>2. QED
        BY <3>2, <4>1, TaskGoto DEF PCs
    <3>3. CASE At(t, "user.erase") /\ Goto(t, "user")
      <4>1. Operands([task[t] EXCEPT !.pc = "user"])
        BY <1>0, <3>3 DEF At, Operands, TaskType
      <4>2. QED
        BY <3>3, <4>1, TaskGoto DEF PCs
    <3>4. QED
      BY <2>8, <3>1, <3>2, <3>3 DEF EraseSession
  <2>9. CASE IssueToken(t)
    BY <2>9, TaskFinish DEF IssueToken
  <2>10. CASE FindLogoutSocket(t)
    <3>1. CASE SocketsOf(task[t].session) = {}
      BY <2>10, <3>1, TaskFinish DEF FindLogoutSocket
    <3>2. CASE SocketsOf(task[t].session) # {}
      <4>1. PICK k \in Sockets :
              task' = [task EXCEPT ![t] = [task[t] EXCEPT !.socket = k, !.pc = "check"]]
        BY <2>10, <3>2 DEF FindLogoutSocket, SocketsOf, Connected
      <4>2. [task[t] EXCEPT !.socket = k, !.pc = "check"] \in TaskType
            /\ Operands([task[t] EXCEPT !.socket = k, !.pc = "check"])
        BY <1>0 DEF TaskType, Operands, PCs
      <4>3. QED
        BY <4>1, <4>2, TaskUpdate
    <3>3. QED
      BY <3>1, <3>2
  <2>11. CASE NextExpired(t)
    <3>1. CASE Finish(t)
      BY <3>1, TaskFinish
    <3>2. ASSUME NEW s \in task[t].todo,
                 task' = [task EXCEPT ![t] = [@ EXCEPT !.todo = task[t].todo \ {s},
                                                       !.session = IF SocketsOf(s) = {} THEN s ELSE NoSession,
                                                       !.pc = IF SocketsOf(s) = {} THEN "expire.erase" ELSE "expire"]]
          PROVE  Goal
      <4> DEFINE next == [task[t] EXCEPT !.todo = task[t].todo \ {s},
                                                   !.session = IF SocketsOf(s) = {} THEN s ELSE NoSession,
                                                   !.pc = IF SocketsOf(s) = {} THEN "expire.erase" ELSE "expire"]
                 erase == [task[t] EXCEPT !.todo = task[t].todo \ {s}, !.session = s, !.pc = "expire.erase"]
                 spare == [task[t] EXCEPT !.todo = task[t].todo \ {s}, !.session = NoSession, !.pc = "expire"]
      <4>0. task' = [task EXCEPT ![t] = next]
        BY <3>2
      <4>1. task[t].todo \in SUBSET Sessions /\ s \in Sessions
        BY <1>0, <2>11, <3>2 DEF NextExpired, At, Operands
      <4>2. CASE SocketsOf(s) = {}
        <5>0. next = erase
          BY <1>0, <4>2 DEF TaskType
        <5> HIDE DEF next, erase
        <5>1. task' = [task EXCEPT ![t] = erase]
          BY <4>0, <5>0
        <5> USE DEF erase
        <5>2. erase \in TaskType
          BY <1>0, <4>1 DEF TaskType, PCs
        <5>3. Operands(erase)
          BY <1>0, <4>1 DEF TaskType, Operands
        <5>4. QED
          BY <5>1, <5>2, <5>3, TaskUpdate
      <4>3. CASE SocketsOf(s) # {}
        <5>0. next = spare
          BY <1>0, <4>3 DEF TaskType
        <5> HIDE DEF next, spare
        <5>1. task' = [task EXCEPT ![t] = spare]
          BY <4>0, <5>0
        <5> USE DEF spare
        <5>2. spare \in TaskType
          BY <1>0, <4>1 DEF TaskType, PCs
        <5>3. Operands(spare)
          BY <1>0, <4>1 DEF TaskType, Operands
        <5>4. QED
          BY <5>1, <5>2, <5>3, TaskUpdate
      <4>4. QED
        BY <4>2, <4>3
    <3>3. QED
      BY <2>11, <3>1, <3>2 DEF NextExpired
  <2>12. CASE CollectTokens(t)
    <3> DEFINE rec == [task[t] EXCEPT !.pc = "revoked",
                         !.todo = {r \in refreshTokens : tokenOwner[r] = task[t].user}]
    <3>1. task' = [task EXCEPT ![t] = rec]
      BY <2>12 DEF CollectTokens
    <3>2. {r \in refreshTokens : tokenOwner[r] = task[t].user} \in SUBSET (Sessions \cup Tokens)
      BY DEF TypeOK
    <3>3. rec \in TaskType
      BY <1>0, <3>2 DEF TaskType, PCs
    <3>4. Operands(rec)
      BY <1>0 DEF TaskType, Operands
    <3>5. QED
      BY <3>1, <3>3, <3>4, TaskUpdate
  <2>13. CASE EraseTokens(t)
    <3>1. Operands([task[t] EXCEPT !.pc = "collect"])
      BY <1>0 DEF Operands, TaskType
    <3>2. QED
      BY <2>13, <3>1, TaskGoto DEF EraseTokens, PCs
  <2>14. CASE CollectSessions(t)
    <3> DEFINE rec == [task[t] EXCEPT !.pc = "user",
                         !.todo = {s \in localId : owner[s] = task[t].user}]
    <3>1. task' = [task EXCEPT ![t] = rec]
      BY <2>14 DEF CollectSessions
    <3>2. {s \in localId : owner[s] = task[t].user} \in SUBSET Sessions
      BY DEF TypeOK
    <3>3. rec \in TaskType
      BY <1>0, <3>2 DEF TaskType, PCs
    <3>4. Operands(rec)
      BY <1>0, <3>2 DEF TaskType, Operands
    <3>5. QED
      BY <3>1, <3>3, <3>4, TaskUpdate
  <2>15. CASE CloseUserSocket(t)
    <3>1. PICK s \in task[t].todo : task' =
            [task EXCEPT ![t] = [@ EXCEPT !.todo = task[t].todo \ {s}, !.session = s, !.pc = "user.erase"]]
      BY <2>15 DEF CloseUserSocket
    <3> DEFINE rec == [task[t] EXCEPT !.todo = task[t].todo \ {s}, !.session = s, !.pc = "user.erase"]
    <3>2. task[t].todo \in SUBSET Sessions /\ s \in Sessions
      BY <1>0, <2>15 DEF CloseUserSocket, At, Operands
    <3>3. rec \in TaskType
      BY <1>0, <3>2 DEF TaskType, PCs
    <3>4. Operands(rec)
      BY <1>0, <3>2 DEF TaskType, Operands
    <3>5. QED
      BY <3>1, <3>3, <3>4, TaskUpdate
  <2>16. CASE EraseUser(t)
    BY <2>16, TaskFinish DEF EraseUser
  <2>17. QED
    BY <1>1, <2>1, <2>2, <2>3, <2>4, <2>5, <2>6, <2>7, <2>8, <2>9, <2>10, <2>11, <2>12,
       <2>13, <2>14, <2>15, <2>16 DEF Continue, WorkerStep
<1>2. ASSUME NEW t \in Threads, NEW rec, Start(t, rec), rec \in TaskType, Operands(rec)
      PROVE  Goal
  BY <1>2, TaskUpdate DEF Start
<1>3. ASSUME NEW w \in Workers, WorkerCall(w)
      PROVE  Goal
  <2>1. w \in Threads
    BY DEF Threads
  <2>2. ASSUME NEW k \in Sockets \cup {NoSocket}, NEW u \in Users, PasswordLogin(w, k, u)
        PROVE  Goal
    <3>1. [Idle EXCEPT !.pc = "emplace", !.socket = k, !.user = u] \in TaskType
          /\ Operands([Idle EXCEPT !.pc = "emplace", !.socket = k, !.user = u])
      BY DEF Idle, TaskType, Operands, PCs
    <3>2. QED
      BY <1>2, <2>1, <2>2, <3>1 DEF PasswordLogin
  <2>3. ASSUME NEW k \in Sockets \cup {NoSocket}, NEW r \in Tokens, RefreshLogin(w, k, r)
        PROVE  Goal
    <3> DEFINE rec == [Idle EXCEPT !.pc = "consume", !.socket = k, !.user = tokenOwner[r],
                                   !.token = r]
    <3>1. tokenOwner[r] \in Users
      BY <2>3 DEF RefreshLogin, Owned
    <3>2. rec \in TaskType /\ Operands(rec)
      BY <3>1 DEF Idle, TaskType, Operands, PCs
    <3>3. QED
      BY <1>2, <2>1, <2>3, <3>2 DEF RefreshLogin
  <2>4. ASSUME NEW k \in Sockets, NEW key \in AuthTokens, ConnectSocket(w, k, key)
        PROVE  Goal
    <3> DEFINE rec == [Idle EXCEPT !.pc = "attach", !.socket = k, !.session = remoteId[key]]
    <3>1. remoteId[key] \in Sessions
      BY <2>4 DEF ConnectSocket, TypeOK
    <3>2. rec \in TaskType /\ Operands(rec)
      BY <3>1 DEF Idle, TaskType, Operands, PCs
    <3>3. QED
      BY <1>2, <2>1, <2>4, <3>2 DEF ConnectSocket
  <2>5. ASSUME NEW s \in Sessions, Logout(w, s)
        PROVE  Goal
    <3>1. [Idle EXCEPT !.pc = "logout.erase", !.session = s] \in TaskType
          /\ Operands([Idle EXCEPT !.pc = "logout.erase", !.session = s])
      BY DEF Idle, TaskType, Operands, PCs
    <3>2. QED
      BY <1>2, <2>1, <2>5, <3>1 DEF Logout
  <2>5a. ASSUME NEW s \in Sessions, ApiRequest(w, s)
         PROVE  Goal
    BY <2>5a, TaskSame DEF ApiRequest
  <2>6. CASE CollectExpired(w)
    <3> DEFINE rec == [Idle EXCEPT !.pc = "expire", !.todo = localId \cap expired]
    <3>1. rec \in TaskType /\ Operands(rec)
      BY DEF Idle, TaskType, Operands, PCs, TypeOK
    <3>2. QED
      BY <1>2, <2>1, <2>6, <3>1 DEF CollectExpired
  <2>7. ASSUME NEW u \in Users, RemoveUser(w, u)
        PROVE  Goal
    <3>1. [Idle EXCEPT !.pc = "revoke", !.user = u, !.remove = TRUE] \in TaskType
          /\ Operands([Idle EXCEPT !.pc = "revoke", !.user = u, !.remove = TRUE])
      BY DEF Idle, TaskType, Operands, PCs
    <3>2. QED
      BY <1>2, <2>1, <2>7, <3>1 DEF RemoveUser
  <2>8. ASSUME NEW u \in Users, UpdateUser(w, u)
        PROVE  Goal
    <3> DEFINE rec == [Idle EXCEPT !.pc = "revoke", !.user = u]
    <3>1. rec \in TaskType /\ Operands(rec)
      BY DEF Idle, TaskType, Operands, PCs
    <3>2. CASE task' = [task EXCEPT ![w] = rec]
      <4> HIDE DEF rec
      <4>1. QED
        BY <2>1, <3>1, <3>2, TaskUpdate
    <3>3. CASE UNCHANGED task
      BY <3>3, TaskSame
    <3>4. QED
      BY <2>8, <3>2, <3>3 DEF UpdateUser
  <2>9. QED
    BY <1>3, <2>2, <2>3, <2>4, <2>5, <2>5a, <2>6, <2>7, <2>8 DEF WorkerCall
<1>4. ASSUME NEW i \in IoThreads, IoCall(i)
      PROVE  Goal
  <2>1. i \in Threads
    BY DEF Threads
  <2>2. ASSUME NEW u \in Users, BasicLogin(i, u)
        PROVE  Goal
    <3> DEFINE token == <<u, password[u]>>
               rec == [Idle EXCEPT !.pc = "basic.emplace", !.user = u, !.token = token]
    <3>1. token \in Credentials
      BY DEF TypeOK, Credentials
    <3>2. rec \in TaskType /\ Operands(rec)
      BY <3>1 DEF Idle, TaskType, Operands, PCs
    <3>3. Start(i, rec)
      BY <2>2 DEF BasicLogin
    <3> HIDE DEF rec
    <3>4. QED
      BY <1>2, <2>1, <3>2, <3>3
  <2>3. ASSUME NEW k \in Sockets, SocketDisconnected(i, k)
        PROVE  Goal
    <3>1. [Idle EXCEPT !.pc = "check", !.socket = k] \in TaskType
          /\ Operands([Idle EXCEPT !.pc = "check", !.socket = k])
      BY DEF Idle, TaskType, Operands, PCs
    <3>2. QED
      BY <1>2, <2>1, <2>3, <3>1 DEF SocketDisconnected
  <2>4. QED
    BY <1>4, <2>2, <2>3 DEF IoCall
<1>5. CASE Environment \/ UNCHANGED vars
  BY <1>5, TaskSame DEF Environment, PostHttpLogout, AddSocket, AuthenticationTimeout,
     Inactivity, ExpireTokens, vars
<1>6. QED
  BY <1>1, <1>3, <1>4, <1>5 DEF Next

-----------------------------------------------------------------------------
\* The steps that touch the registries, the tokens, and everything else.
LEMMA RegistryFrame ==
  [Next]_vars => \/ UNCHANGED regVars
                 \/ \E t \in Threads : EmplaceSession(t) \/ EmplaceBasic(t) \/ EraseSession(t)
BY DEF Next, Continue, ResetStep, WorkerStep, WorkerCall, IoCall, Environment,
   PasswordLogin, RefreshLogin, ConsumeToken, BasicLogin, ConnectSocket, FindOldSocket,
   DetachOldSocket, ConnectModules, BindSocket, IssueToken, PostHttpLogout, Logout, FindLogoutSocket,
   CheckSession, ReadSession, NotifyDisconnected, ClearSession, AddSocket, AuthenticationTimeout,
   SocketDisconnected, ApiRequest, Inactivity, CollectExpired, NextExpired, ExpireTokens,
   RemoveUser, UpdateUser, CollectTokens, EraseTokens, CollectSessions, CloseUserSocket, EraseUser,
   vars, regVars

LEMMA UserFrame ==
  [Next]_vars => \/ UNCHANGED userVars
                 \/ ExpireTokens \/ \E w \in Workers, u \in Users : UpdateUser(w, u)
                 \/ \E t \in Threads : ConsumeToken(t) \/ IssueToken(t) \/ EraseTokens(t) \/ EraseUser(t)
BY DEF Next, Continue, ResetStep, WorkerStep, WorkerCall, IoCall, Environment,
   PasswordLogin, RefreshLogin, EmplaceSession, BasicLogin, EmplaceBasic, ConnectSocket,
   FindOldSocket, DetachOldSocket, ConnectModules, BindSocket, PostHttpLogout, Logout, EraseSession,
   FindLogoutSocket, CheckSession, ReadSession, NotifyDisconnected, ClearSession, AddSocket,
   AuthenticationTimeout, SocketDisconnected, ApiRequest, Inactivity, CollectExpired, NextExpired,
   RemoveUser, CollectTokens, CollectSessions, CloseUserSocket, vars, userVars

LEMMA UserStep ==
  ASSUME TypeOK, OperandsSet, Owned, [Next]_vars
  PROVE  /\ users' \in SUBSET Users /\ password' \in [Users -> Passwords] /\ refreshTokens' \in SUBSET Tokens
         /\ tokenOwner' \in [Tokens -> Users \cup {NoUser}]
         /\ \A r \in refreshTokens' : tokenOwner'[r] \in Users
<1> DEFINE Goal == /\ users' \in SUBSET Users /\ password' \in [Users -> Passwords] /\ refreshTokens' \in SUBSET Tokens
                   /\ tokenOwner' \in [Tokens -> Users \cup {NoUser}]
                   /\ \A r \in refreshTokens' : tokenOwner'[r] \in Users
<1>1. CASE UNCHANGED userVars
  BY <1>1 DEF TypeOK, Owned, userVars
<1>2. CASE ExpireTokens
  BY <1>2 DEF ExpireTokens, TypeOK, Owned
<1>3. ASSUME NEW t \in Threads, ConsumeToken(t) \/ EraseTokens(t)
      PROVE  Goal
  BY <1>3 DEF ConsumeToken, EraseTokens, TypeOK, Owned
<1>4. ASSUME NEW t \in Threads, EraseUser(t)
      PROVE  Goal
  BY <1>4 DEF EraseUser, TypeOK, Owned
<1>4a. ASSUME NEW w \in Workers, NEW u \in Users, UpdateUser(w, u)
       PROVE  Goal
  BY <1>4a DEF UpdateUser, TypeOK, Owned
<1>5. ASSUME NEW t \in Threads, IssueToken(t)
      PROVE  Goal
  <2>1. task[t].user \in Users
    BY <1>5 DEF IssueToken, At, OperandsSet, Operands
  <2>2. users' = users /\ password' = password
    BY <1>5 DEF IssueToken
  <2>3. CASE UNCHANGED <<refreshTokens, tokenOwner>>
    BY <2>2, <2>3 DEF TypeOK, Owned
  <2>4. ASSUME NEW r \in Tokens, refreshTokens' = refreshTokens \cup {r},
               tokenOwner' = [tokenOwner EXCEPT ![r] = task[t].user]
        PROVE  Goal
    BY <2>1, <2>2, <2>4 DEF TypeOK, Owned
  <2>5. QED
    BY <1>5, <2>3, <2>4 DEF IssueToken
<1>6. QED
  BY <1>1, <1>2, <1>3, <1>4, <1>4a, <1>5, UserFrame

LEMMA SocketStep ==
  ASSUME TypeOK, OperandsSet, [Next]_vars
  PROVE  /\ expired' \in SUBSET Sessions /\ httpQueue' \in SUBSET Sessions
         /\ sockState' \in [Sockets -> {"new", "open", "closing", "gone"}]
         /\ sockSession' \in [Sockets -> Sessions \cup {NoSession}]
         /\ loaded' \in SUBSET Sessions /\ modSocket' \in [Sessions -> Sockets \cup {NoSocket}]
<1> DEFINE Goal == /\ expired' \in SUBSET Sessions /\ httpQueue' \in SUBSET Sessions
                   /\ sockState' \in [Sockets -> {"new", "open", "closing", "gone"}]
                   /\ sockSession' \in [Sockets -> Sessions \cup {NoSession}]
                   /\ loaded' \in SUBSET Sessions /\ modSocket' \in [Sessions -> Sockets \cup {NoSocket}]
<1>1. CASE UNCHANGED <<expired, sockVars, httpQueue>>
  BY <1>1 DEF TypeOK, sockVars, modVars
<1>2. ASSUME NEW t \in Threads, DetachOldSocket(t) \/ ConnectModules(t)
      PROVE  Goal
  <2>1. CASE DetachOldSocket(t)
    <3>1. task[t].session \in Sessions /\ task[t].old \in Sockets
      BY <2>1 DEF DetachOldSocket, At, OperandsSet, Operands
    <3>2. QED
      BY <2>1, <3>1 DEF DetachOldSocket, TellModule, TypeOK
  <2>2. CASE ConnectModules(t)
    <3>1. task[t].session \in Sessions /\ task[t].socket \in Sockets
      BY <2>2 DEF ConnectModules, At, OperandsSet, Operands
    <3>2. QED
      BY <2>2, <3>1 DEF ConnectModules, TellModule, TypeOK
  <2>3. QED
    BY <1>2, <2>1, <2>2
<1>3. ASSUME NEW t \in Threads, BindSocket(t)
      PROVE  Goal
  <2>1. task[t].session \in Sessions /\ task[t].socket \in Sockets
    BY <1>3 DEF BindSocket, At, OperandsSet, Operands
  <2>2. QED
    BY <1>3, <2>1 DEF BindSocket, TypeOK, modVars
<1>4. ASSUME NEW t \in Threads, ResetStep(t)
      PROVE  Goal
  <2>1. CASE CheckSession(t)
    BY <2>1 DEF CheckSession, TypeOK, sockVars, modVars
  <2>2. CASE ReadSession(t)
    BY <2>2 DEF ReadSession, TypeOK, sockVars, modVars
  <2>3. CASE NotifyDisconnected(t)
    BY <2>3 DEF NotifyDisconnected, TellModule, TypeOK
  <2>4. CASE ClearSession(t)
    BY <2>4 DEF ClearSession, TypeOK, modVars
  <2>5. QED
    BY <1>4, <2>1, <2>2, <2>3, <2>4 DEF ResetStep
<1>5. ASSUME NEW t \in Threads, CloseUserSocket(t)
      PROVE  Goal
  <2>1. PICK found \in Sockets \cup {NoSocket} :
          sockState' = [k \in Sockets |-> IF k = found THEN "closing" ELSE sockState[k]]
    BY <1>5 DEF CloseUserSocket, SocketsOf, Connected
  <2>2. sockState' \in [Sockets -> {"new", "open", "closing", "gone"}]
    BY <2>1 DEF TypeOK
  <2>3. QED
    BY <1>5, <2>2 DEF CloseUserSocket, TypeOK, modVars
<1>6. ASSUME NEW s \in Sessions, NEW w \in Workers, Logout(w, s)
      PROVE  Goal
  BY <1>6 DEF Logout, TypeOK, sockVars, modVars
<1>7. ASSUME NEW s \in Sessions, NEW w \in Workers, ApiRequest(w, s)
      PROVE  Goal
  <2>1. CASE UNCHANGED modVars
    BY <1>7, <2>1 DEF ApiRequest, TypeOK, modVars
  <2>2. ASSUME NEW k \in Sockets \cup {NoSocket}, loaded' = loaded \cup {s},
               modSocket' = [modSocket EXCEPT ![s] = k]
        PROVE  Goal
    BY <1>7, <2>2 DEF ApiRequest, TypeOK
  <2>3. QED
    BY <1>7, <2>1, <2>2 DEF ApiRequest, SocketsOf, Connected
<1>7a. ASSUME NEW s \in Sessions, Inactivity(s)
       PROVE  Goal
  BY <1>7a DEF Inactivity, TypeOK, sockVars, modVars
<1>8. ASSUME NEW k \in Sockets, NEW i \in IoThreads, SocketDisconnected(i, k)
      PROVE  Goal
  BY <1>8 DEF SocketDisconnected, Connected, TypeOK, modVars
<1>9. ASSUME NEW k \in Sockets, AddSocket(k) \/ AuthenticationTimeout(k)
      PROVE  Goal
  BY <1>9 DEF AddSocket, AuthenticationTimeout, TypeOK, modVars
<1>10. ASSUME NEW key \in AuthTokens, PostHttpLogout(key)
       PROVE  Goal
  <2>1. remoteId[key] \in Sessions
    BY <1>10 DEF PostHttpLogout, TypeOK
  <2>2. QED
    BY <1>10, <2>1 DEF PostHttpLogout, TypeOK, sockVars, modVars
<1>11. \/ UNCHANGED <<expired, sockVars, httpQueue>>
       \/ \E t \in Threads : \/ DetachOldSocket(t) \/ ConnectModules(t) \/ BindSocket(t)
                              \/ ResetStep(t) \/ CloseUserSocket(t)
       \/ \E s \in Sessions, w \in Workers : Logout(w, s) \/ ApiRequest(w, s)
       \/ \E s \in Sessions : Inactivity(s)
       \/ \E k \in Sockets, i \in IoThreads : SocketDisconnected(i, k)
       \/ \E k \in Sockets : AddSocket(k) \/ AuthenticationTimeout(k)
       \/ \E key \in AuthTokens : PostHttpLogout(key)
  BY DEF Next, Continue, WorkerStep, WorkerCall, IoCall, Environment,
     PasswordLogin, RefreshLogin, ConsumeToken, EmplaceSession, BasicLogin, EmplaceBasic,
     ConnectSocket, FindOldSocket, IssueToken, EraseSession, FindLogoutSocket, CollectExpired,
     NextExpired, ExpireTokens, RemoveUser, UpdateUser, CollectTokens, EraseTokens, CollectSessions,
     EraseUser, vars, sockVars, modVars
<1>12. QED
  BY <1>1, <1>2, <1>3, <1>4, <1>5, <1>6, <1>7, <1>7a, <1>8, <1>9, <1>10, <1>11

-----------------------------------------------------------------------------
RegistryType == /\ remoteId \in [AuthTokens -> Sessions \cup {NoSession}]
                /\ localId \in SUBSET Sessions
                /\ owner \in [Sessions -> Users \cup {NoUser}]
                /\ authToken \in [Sessions -> AuthTokens]

SessionsOwned == /\ \A s \in localId : owner[s] \in Users
                 /\ \A s \in Sessions : authToken[s] = s \/ IsBasic(s)

\* A new session takes a key of its own, or finds the key taken and stays
\* without one, which only a basic-auth session may.
LEMMA RegistryAdd ==
  ASSUME RegistryType, SessionsOwned, RegistriesAgree, SessionAssumption,
         NEW s \in Sessions, NEW u \in Users, NEW key \in {s} \cup Credentials,
         AddSession(s, u, key)
  PROVE  RegistryType' /\ SessionsOwned' /\ RegistriesAgree'
<1>1. owner[s] = NoUser /\ s \notin localId
  BY DEF AddSession, SessionsOwned, SessionAssumption, RegistryType
<1>2. /\ owner' = [owner EXCEPT ![s] = u]
      /\ authToken' = [authToken EXCEPT ![s] = key]
      /\ localId' = localId \cup {s}
      /\ remoteId' = [remoteId EXCEPT ![key] = IF remoteId[key] = NoSession THEN s
                                                ELSE remoteId[key]]
  BY DEF AddSession
<1>3. key \in AuthTokens
  BY DEF AuthTokens
<1>4. RegistryType'
  BY <1>2, <1>3 DEF RegistryType
<1>5. SessionsOwned'
  BY <1>2 DEF SessionsOwned, RegistryType, IsBasic
<1>6. s \in AuthTokens /\ remoteId[s] = NoSession
  <2>1. s \in AuthTokens
    BY DEF AuthTokens
  <2>2. ASSUME remoteId[s] # NoSession PROVE FALSE
    <3>1. remoteId[s] \in localId /\ authToken[remoteId[s]] = s
      BY <2>1, <2>2 DEF RegistriesAgree
    <3>2. authToken[remoteId[s]] = remoteId[s]
      BY <3>1 DEF RegistryType, SessionsOwned, IsBasic, SessionAssumption
    <3>3. QED
      BY <1>1, <3>1, <3>2
  <2>3. QED
    BY <2>1, <2>2
<1>7. \A x \in Sessions : x # s => authToken'[x] = authToken[x]
  BY <1>2 DEF RegistryType
<1>8. authToken'[s] = key
  BY <1>2 DEF RegistryType
<1>9. ASSUME NEW k \in AuthTokens, remoteId'[k] # NoSession
      PROVE  remoteId'[k] \in localId' /\ authToken'[remoteId'[k]] = k
  <2>1. CASE k = key /\ remoteId[key] = NoSession
    BY <1>2, <1>3, <1>8, <2>1 DEF RegistryType
  <2>2. CASE ~(k = key /\ remoteId[key] = NoSession)
    <3>1. remoteId'[k] = remoteId[k]
      BY <1>2, <1>3, <2>2 DEF RegistryType
    <3>2. remoteId[k] \in localId /\ authToken[remoteId[k]] = k
      BY <1>9, <3>1 DEF RegistriesAgree
    <3>3. remoteId[k] # s /\ remoteId[k] \in Sessions
      BY <1>1, <3>2 DEF RegistryType
    <3>4. QED
      BY <1>2, <1>7, <3>1, <3>2, <3>3
  <2>3. QED
    BY <2>1, <2>2
<1>10. ASSUME NEW x \in localId', authToken'[x] \notin Credentials
       PROVE  remoteId'[x] = x
  <2>1. CASE x = s
    <3>1. key = s
      BY <1>8, <1>10, <2>1
    <3>2. QED
      BY <1>2, <1>3, <1>6, <2>1, <3>1 DEF RegistryType
  <2>2. CASE x # s
    <3>1. x \in localId /\ x \in Sessions
      BY <1>2, <2>2 DEF RegistryType
    <3>2. remoteId[x] = x
      BY <1>7, <1>10, <2>2, <3>1 DEF RegistriesAgree, IsBasic
    <3>3. x # NoSession /\ x \in AuthTokens
      BY <3>1 DEF AuthTokens, SessionAssumption
    <3>4. QED
      BY <1>2, <1>3, <3>2, <3>3 DEF RegistryType
  <2>3. QED
    BY <2>1, <2>2
<1>11. QED
  BY <1>4, <1>5, <1>9, <1>10 DEF RegistriesAgree, IsBasic

\* Erasing a session frees no other session's key.
LEMMA RegistryErase ==
  ASSUME RegistryType, SessionsOwned, RegistriesAgree, SessionAssumption, NEW s \in Sessions,
         remoteId' = [remoteId EXCEPT ![authToken[s]] = NoSession],
         localId' = localId \ {s}, UNCHANGED <<owner, authToken>>
  PROVE  RegistryType' /\ SessionsOwned' /\ RegistriesAgree'
<1>1. authToken[s] \in AuthTokens
  BY DEF RegistryType
<1>2. RegistryType' /\ SessionsOwned'
  BY <1>1 DEF RegistryType, SessionsOwned, IsBasic
<1>3. ASSUME NEW k \in AuthTokens, remoteId'[k] # NoSession
      PROVE  remoteId'[k] \in localId' /\ authToken[remoteId'[k]] = k
  <2>1. k # authToken[s] /\ remoteId'[k] = remoteId[k]
    BY <1>1, <1>3 DEF RegistryType
  <2>2. remoteId[k] \in localId /\ authToken[remoteId[k]] = k
    BY <1>3, <2>1 DEF RegistriesAgree
  <2>3. QED
    BY <2>1, <2>2
<1>4. ASSUME NEW x \in localId', authToken[x] \notin Credentials
      PROVE  remoteId'[x] = x
  <2>1. x \in localId /\ x \in Sessions /\ x # s /\ remoteId[x] = x
    BY <1>4 DEF RegistryType, RegistriesAgree, IsBasic
  <2>2. x # authToken[s]
    BY <2>1 DEF IsBasic, SessionsOwned, SessionAssumption
  <2>3. QED
    BY <1>1, <2>1, <2>2 DEF RegistryType, AuthTokens
<1>5. QED
  BY <1>2, <1>3, <1>4 DEF RegistriesAgree, IsBasic

LEMMA RegistryStep ==
  ASSUME TypeOK, OperandsSet, Owned, RegistriesAgree, [Next]_vars
  PROVE  RegistryType' /\ SessionsOwned' /\ RegistriesAgree'
<1>1. RegistryType /\ SessionsOwned /\ SessionAssumption
  BY SessionAssumption DEF TypeOK, Owned, RegistryType, SessionsOwned
<1>2. CASE UNCHANGED regVars
  BY <1>1, <1>2 DEF regVars, RegistryType, SessionsOwned, RegistriesAgree, IsBasic
<1>3. ASSUME NEW t \in Threads, EmplaceSession(t) \/ EmplaceBasic(t)
      PROVE  RegistryType' /\ SessionsOwned' /\ RegistriesAgree'
  <2>1. task[t].user \in Users
    BY <1>3 DEF EmplaceSession, EmplaceBasic, At, OperandsSet, Operands
  <2>2. PICK s \in Sessions : \E key \in {s} \cup Credentials : AddSession(s, task[t].user, key)
    BY <1>3 DEF EmplaceSession, EmplaceBasic, At, OperandsSet, Operands
  <2>3. QED
    BY <1>1, <2>1, <2>2, RegistryAdd
<1>4. ASSUME NEW t \in Threads, EraseSession(t)
      PROVE  RegistryType' /\ SessionsOwned' /\ RegistriesAgree'
  <2>1. task[t].session \in Sessions
    BY <1>4 DEF EraseSession, At, OperandsSet, Operands
  <2>2. /\ remoteId' = [remoteId EXCEPT ![authToken[task[t].session]] = NoSession]
        /\ localId' = localId \ {task[t].session} /\ UNCHANGED <<owner, authToken>>
    BY <1>4 DEF EraseSession
  <2>3. QED
    BY <1>1, <2>1, <2>2, RegistryErase
<1>5. QED
  BY <1>2, <1>3, <1>4, RegistryFrame

-----------------------------------------------------------------------------
\* The inductive invariant.
IInv == TypeOK /\ OperandsSet /\ Owned /\ RegistriesAgree

LEMMA Inductive == IInv /\ [Next]_vars => IInv'
<1> SUFFICES ASSUME IInv, [Next]_vars PROVE IInv'
  OBVIOUS
<1>1. TypeOK /\ OperandsSet /\ Owned /\ RegistriesAgree
  BY DEF IInv
<1>2. task' \in [Threads -> TaskType] /\ OperandsSet'
  BY <1>1, TaskStep
<1>3. RegistryType' /\ SessionsOwned' /\ RegistriesAgree'
  BY <1>1, RegistryStep
<1>4. /\ users' \in SUBSET Users /\ password' \in [Users -> Passwords] /\ refreshTokens' \in SUBSET Tokens
      /\ tokenOwner' \in [Tokens -> Users \cup {NoUser}]
      /\ \A r \in refreshTokens' : tokenOwner'[r] \in Users
  BY <1>1, UserStep
<1>5. /\ expired' \in SUBSET Sessions /\ httpQueue' \in SUBSET Sessions
      /\ sockState' \in [Sockets -> {"new", "open", "closing", "gone"}]
      /\ sockSession' \in [Sockets -> Sessions \cup {NoSession}]
      /\ loaded' \in SUBSET Sessions /\ modSocket' \in [Sessions -> Sockets \cup {NoSocket}]
  BY <1>1, SocketStep
<1>6. TypeOK'
  BY <1>2, <1>3, <1>4, <1>5 DEF TypeOK, TaskType, RegistryType, SessionsOwned
<1>7. Owned'
  BY <1>3, <1>4 DEF Owned, SessionsOwned, IsBasic
<1>8. QED
  BY <1>2, <1>3, <1>6, <1>7 DEF IInv

LEMMA Invariance == Spec => []IInv
<1>1. Init => IInv
  BY Initially DEF IInv
<1>2. QED
  BY <1>1, Inductive, PTL DEF Spec

(* Every variable keeps its type, however many threads log in, log out,    *)
(* expire sessions and remove users at once.                               *)
THEOREM TypeCorrect == Spec => []TypeOK
<1>1. IInv => TypeOK
  BY DEF IInv
<1>2. QED
  BY <1>1, Invariance, PTL

(* sessionsRemoteId and sessionsLocalId never disagree (createSession and  *)
(* removeSession change both under one lock), whatever the interleaving:   *)
(* no token leads to a session that has been removed, and every registered *)
(* bearer session is found by its own token.                               *)
THEOREM RegistriesAgreeHolds == Spec => []RegistriesAgree
<1>1. IInv => RegistriesAgree
  BY DEF IInv
<1>2. QED
  BY <1>1, Invariance, PTL
=============================================================================
