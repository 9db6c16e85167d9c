-------------------------- MODULE HookModuleProofs ---------------------------
(* Theorems about HookModule, for any threads, hooks and answers and any    *)
(* size of the action id.                                                   *)
EXTENDS HookModule, TLAPS

PendingAction == [semaphore : Firers, data : Answers \cup {NoAnswer}]

\* The id an action gets is a legal one, and so is the counter left behind.
LEMMA NewIdInRange == ASSUME counter \in Ids
                      PROVE  NewId \in Ids /\ NewId + 1 \in Ids
BY HookAssumption DEF NewId, Ids

\* A pending id stores an action record.
LEMMA PendingEntry == ASSUME TypeOK, NEW i \in PendingIds
                      PROVE  i \in Ids /\ pending[i] \in PendingAction
BY DEF TypeOK, PendingIds, PendingAction

\* The variables of HookModule keep their types.  Cleanup and the handlers
\* of the pending map need the correspondence of PendingOwned for that.
LEMMA Initially == Init => TypeOK /\ PendingOwned
<1> SUFFICES ASSUME Init PROVE TypeOK /\ PendingOwned
  OBVIOUS
<1>1. 0 \in Ids /\ 1 \in Ids
  BY HookAssumption DEF Ids
<1>2. TypeOK
  BY <1>1 DEF Init, TypeOK
<1>3. PendingOwned
  BY DEF Init, PendingOwned, PendingIds, InCall
<1>4. QED
  BY <1>2, <1>3

LEMMA TypeStep == TypeOK /\ PendingOwned /\ [Next]_vars => TypeOK'
<1> SUFFICES ASSUME TypeOK, PendingOwned, [Next]_vars
             PROVE  TypeOK'
  OBVIOUS
<1> USE DEF TypeOK, callVars, discVars
<1>1. ASSUME NEW f \in Firers, NEW h \in Hooks, FireInactive(f, h) \/ FireActive(f, h)
      PROVE  TypeOK'
  BY <1>1 DEF FireInactive, FireActive
<1>2. ASSUME NEW f \in Firers, Register(f)
      PROVE  TypeOK'
  BY <1>2, NewIdInRange DEF Register
<1>3. ASSUME NEW f \in Firers, Send(f) \/ Wake(f) \/ Timeout(f)
      PROVE  TypeOK'
  BY <1>3 DEF Send, Wake, Timeout
<1>4. ASSUME NEW f \in Firers, Cleanup(f)
      PROVE  TypeOK'
  <2>1. id[f] \in PendingIds
    BY <1>4 DEF Cleanup, PendingOwned, InCall
  <2>2. pending[id[f]].data \in Answers \cup {NoAnswer}
    BY <2>1, PendingEntry DEF PendingAction
  <2>3. QED
    BY <1>4, <2>2 DEF Cleanup
<1>5. ASSUME NEW i \in Ids, NEW d \in Answers, HandleHookAction(i, d)
      PROVE  TypeOK'
  <2>1. pending[i] \in PendingAction
    BY <1>5, PendingEntry DEF HandleHookAction
  <2>2. [pending[i] EXCEPT !.data = d] \in PendingAction
    BY <2>1 DEF PendingAction
  <2>3. pending' = [pending EXCEPT ![i] = [pending[i] EXCEPT !.data = d]]
    BY <1>5 DEF HandleHookAction
  <2>4. QED
    BY <1>5, <2>2, <2>3 DEF HandleHookAction, PendingAction
<1>6. ASSUME NEW a \in ApiThreads, AddHookEnable(a) \/ \E h \in Hooks : AddHookCheck(a, h)
      PROVE  TypeOK'
  BY <1>6 DEF AddHookCheck, AddHookEnable
<1>7. ASSUME NEW h \in Hooks, RemoveHook(h) \/ DisableHook(h)
      PROVE  TypeOK'
  BY <1>7 DEF RemoveHook, DisableHook
<1>8. CASE SocketConnected \/ BeginDisconnect \/ SignalPending \/ EndDisconnect
  BY <1>8 DEF SocketConnected, BeginDisconnect, SignalPending, EndDisconnect
<1>9. CASE UNCHANGED vars
  BY <1>9 DEF vars
<1>10. QED
  BY <1>1, <1>2, <1>3, <1>4, <1>5, <1>6, <1>7, <1>8, <1>9
     DEF Next, FirerStep, Disconnecting

-----------------------------------------------------------------------------
\* Steps that touch neither the pending map nor the calls.
LEMMA OwnedFrame ==
  ASSUME PendingOwned, UNCHANGED <<pending, pc, id>>
  PROVE  PendingOwned'
BY DEF PendingOwned, PendingIds, InCall

LEMMA OwnedStep == TypeOK /\ PendingOwned /\ [Next]_vars => PendingOwned'
<1> SUFFICES ASSUME TypeOK, PendingOwned, [Next]_vars
             PROVE  PendingOwned'
  OBVIOUS
<1>1. ASSUME NEW f \in Firers, NEW h \in Hooks, FireInactive(f, h)
      PROVE  PendingOwned'
  BY <1>1, OwnedFrame DEF FireInactive
<1>2. ASSUME NEW f \in Firers, NEW h \in Hooks, FireActive(f, h)
      PROVE  PendingOwned'
  BY <1>2 DEF FireActive, PendingOwned, PendingIds, InCall, TypeOK
<1>3. ASSUME NEW f \in Firers, Register(f)
      PROVE  PendingOwned'
  <2>1. NewId \in Ids /\ NewId \notin PendingIds
    BY <1>3, NewIdInRange DEF Register, IdFresh, PendingIds, TypeOK
  <2>2. ~InCall(f)
    BY <1>3 DEF Register, InCall
  <2>3. \A g \in Firers : g # f => (InCall(g)' <=> InCall(g)) /\ id'[g] = id[g]
    BY <1>3 DEF Register, InCall, TypeOK
  <2>4. InCall(f)' /\ id'[f] = NewId
    BY <1>3 DEF Register, InCall, TypeOK
  <2>5. /\ pending'[NewId] = [semaphore |-> f, data |-> NoAnswer]
        /\ \A i \in Ids : i # NewId => pending'[i] = pending[i]
    BY <1>3, <2>1 DEF Register, TypeOK
  <2>6. PendingIds' = PendingIds \cup {NewId}
    <3>1. pending'[NewId] # NotPending
      BY <2>5, HookAssumption
    <3>2. QED
      BY <2>1, <2>5, <3>1 DEF PendingIds
  <2>7. ASSUME NEW i \in PendingIds'
        PROVE  InCall(pending[i].semaphore)' /\ (id[pending[i].semaphore] = i)'
    <3>1. CASE i = NewId
      BY <2>4, <2>5, <3>1
    <3>2. CASE i \in PendingIds /\ i # NewId
      <4>1. pending'[i] = pending[i] /\ pending[i].semaphore \in Firers
        BY <2>5, <3>2, PendingEntry DEF PendingAction
      <4>2. pending[i].semaphore # f
        BY <2>2, <3>2 DEF PendingOwned
      <4>3. QED
        BY <2>3, <3>2, <4>1, <4>2 DEF PendingOwned
    <3>3. QED
      BY <2>6, <3>1, <3>2
  <2>8. ASSUME NEW g \in Firers, InCall(g)'
        PROVE  (id[g] \in PendingIds)' /\ (pending[id[g]].semaphore = g)'
    <3>1. CASE g = f
      BY <2>4, <2>5, <2>6, <3>1
    <3>2. CASE g # f
      <4>1. InCall(g) /\ id'[g] = id[g]
        BY <2>3, <2>8, <3>2
      <4>2. id[g] \in PendingIds /\ id[g] # NewId
        BY <2>1, <4>1 DEF PendingOwned
      <4>3. QED
        BY <2>5, <2>6, <4>1, <4>2 DEF PendingOwned, PendingIds
    <3>3. QED
      BY <3>1, <3>2
  <2>9. QED
    BY <2>7, <2>8 DEF PendingOwned
<1>4. ASSUME NEW f \in Firers, Send(f) \/ Wake(f) \/ Timeout(f)
      PROVE  PendingOwned'
  <2>1. /\ UNCHANGED <<pending, id>>
        /\ \A g \in Firers : InCall(g)' <=> InCall(g)
    BY <1>4 DEF Send, Wake, Timeout, InCall, TypeOK
  <2>2. ASSUME NEW i \in PendingIds
        PROVE  pending[i].semaphore \in Firers
    BY PendingEntry DEF PendingAction
  <2>3. QED
    BY <2>1, <2>2 DEF PendingOwned, PendingIds
<1>5. ASSUME NEW f \in Firers, Cleanup(f)
      PROVE  PendingOwned'
  <2>1. InCall(f)
    BY <1>5 DEF Cleanup, InCall
  <2>2. id[f] \in PendingIds /\ pending[id[f]].semaphore = f /\ id[f] \in Ids
    BY <2>1 DEF PendingOwned, TypeOK
  <2>3. /\ id' = id
        /\ ~InCall(f)'
        /\ \A g \in Firers : g # f => (InCall(g)' <=> InCall(g))
    BY <1>5 DEF Cleanup, InCall, TypeOK
  <2>4. /\ PendingIds' = PendingIds \ {id[f]}
        /\ \A i \in PendingIds' : pending'[i] = pending[i]
    BY <1>5, <2>2 DEF Cleanup, PendingIds, TypeOK
  <2>5. ASSUME NEW i \in PendingIds'
        PROVE  InCall(pending[i].semaphore)' /\ (id[pending[i].semaphore] = i)'
    <3>1. i \in PendingIds /\ i # id[f] /\ pending'[i] = pending[i]
      BY <2>4
    <3>2. pending[i].semaphore \in Firers
      BY <3>1, PendingEntry DEF PendingAction
    <3>3. pending[i].semaphore # f
      BY <3>1 DEF PendingOwned
    <3>4. QED
      BY <2>3, <3>1, <3>2, <3>3 DEF PendingOwned
  <2>6. ASSUME NEW g \in Firers, InCall(g)'
        PROVE  (id[g] \in PendingIds)' /\ (pending[id[g]].semaphore = g)'
    <3>1. g # f /\ InCall(g)
      BY <2>3, <2>6
    <3>2. id[g] # id[f] /\ id[g] \in PendingIds /\ pending[id[g]].semaphore = g
      BY <2>2, <3>1 DEF PendingOwned
    <3>3. QED
      BY <2>3, <2>4, <3>2
  <2>7. QED
    BY <2>5, <2>6 DEF PendingOwned
<1>6. ASSUME NEW i \in Ids, NEW d \in Answers, HandleHookAction(i, d)
      PROVE  PendingOwned'
  <2>1. i \in PendingIds /\ pending[i] \in PendingAction
    BY <1>6, PendingEntry DEF HandleHookAction
  <2>2. /\ pending'[i] = [pending[i] EXCEPT !.data = d]
        /\ \A j \in Ids : j # i => pending'[j] = pending[j]
    BY <1>6 DEF HandleHookAction, TypeOK
  <2>3. pending'[i] \in PendingAction /\ pending'[i].semaphore = pending[i].semaphore
    BY <2>1, <2>2 DEF PendingAction
  <2>4. pending'[i] # NotPending
    BY <2>3, HookAssumption DEF PendingAction
  <2>5. /\ PendingIds' = PendingIds
        /\ \A j \in PendingIds : pending'[j].semaphore = pending[j].semaphore
    BY <2>1, <2>2, <2>3, <2>4 DEF PendingIds
  <2>6. pc' = pc /\ id' = id
    BY <1>6 DEF HandleHookAction
  <2>7. QED
    BY <2>5, <2>6 DEF PendingOwned, InCall
<1>7. ASSUME NEW a \in ApiThreads, AddHookEnable(a) \/ \E h \in Hooks : AddHookCheck(a, h)
      PROVE  PendingOwned'
  BY <1>7, OwnedFrame DEF AddHookCheck, AddHookEnable, callVars
<1>8. ASSUME NEW h \in Hooks, RemoveHook(h) \/ DisableHook(h)
      PROVE  PendingOwned'
  BY <1>8, OwnedFrame DEF RemoveHook, DisableHook, callVars
<1>9. CASE SocketConnected \/ BeginDisconnect \/ SignalPending \/ EndDisconnect
  BY <1>9, OwnedFrame DEF SocketConnected, BeginDisconnect, SignalPending, EndDisconnect, callVars
<1>10. CASE UNCHANGED vars
  BY <1>10, OwnedFrame DEF vars, callVars
<1>11. QED
  BY <1>1, <1>2, <1>3, <1>4, <1>5, <1>6, <1>7, <1>8, <1>9, <1>10
     DEF Next, FirerStep, Disconnecting

\* Both invariants together are inductive.
LEMMA Inductive == Spec => [](TypeOK /\ PendingOwned)
<1>1. TypeOK /\ PendingOwned /\ [Next]_vars => (TypeOK /\ PendingOwned)'
  BY TypeStep, OwnedStep
<1>2. QED
  BY <1>1, Initially, PTL DEF Spec

(* The variables keep their types in every behaviour.                      *)
THEOREM TypeCorrect == Spec => []TypeOK
BY Inductive, PTL

(* pendingHookActions never refers to the semaphore of a call that has     *)
(* returned, and the cleanup of a call always finds its own entry.         *)
THEOREM PendingOwnedHolds == Spec => []PendingOwned
BY Inductive, PTL

-----------------------------------------------------------------------------
\* Steps that leave the calls and the data of their entries alone are stutters.
LEMMA PromiseStutter ==
  ASSUME UNCHANGED <<pending, id, returned>>,
         \A f \in Firers : InCall(f)' <=> InCall(f)
  PROVE  UNCHANGED Promise!vars
BY DEF Promise!vars, phaseOf, answerOf

LEMMA PromiseStep ==
  TypeOK /\ PendingOwned /\ [Next]_vars => [Promise!Next]_Promise!vars
<1> SUFFICES ASSUME TypeOK, PendingOwned, [Next]_vars
             PROVE  [Promise!Next]_Promise!vars
  OBVIOUS
<1>1. ASSUME NEW f \in Firers, NEW h \in Hooks, FireInactive(f, h)
      PROVE  Promise!Skip(f)
  <2>1. \A g \in Firers : InCall(g)' <=> InCall(g)
    BY <1>1 DEF FireInactive, InCall
  <2>2. UNCHANGED <<phaseOf, answerOf>>
    BY <1>1, <2>1 DEF FireInactive, phaseOf, answerOf
  <2>3. phaseOf[f] = "idle"
    BY <1>1 DEF FireInactive, InCall, phaseOf
  <2>4. QED
    BY <1>1, <2>2, <2>3 DEF FireInactive, Promise!Skip
<1>2. ASSUME NEW f \in Firers, NEW h \in Hooks, FireActive(f, h)
      PROVE  UNCHANGED Promise!vars
  BY <1>2, PromiseStutter DEF FireActive, InCall, TypeOK
<1>3. ASSUME NEW f \in Firers, Register(f)
      PROVE  Promise!Ask(f)
  <2>1. ~InCall(f) /\ InCall(f)'
    BY <1>3 DEF Register, InCall, TypeOK
  <2>2. \A g \in Firers : g # f => (InCall(g)' <=> InCall(g)) /\ id'[g] = id[g]
    BY <1>3 DEF Register, InCall, TypeOK
  <2>3. NewId \in Ids /\ NewId \notin PendingIds
    BY <1>3, NewIdInRange DEF Register, IdFresh, PendingIds, TypeOK
  <2>4. id'[f] = NewId /\ pending'[NewId].data = NoAnswer
    BY <1>3, <2>3 DEF Register, TypeOK
  <2>5. \A g \in Firers : g # f /\ InCall(g) => pending'[id[g]] = pending[id[g]]
    BY <1>3, <2>3 DEF Register, PendingOwned, PendingIds, TypeOK
  <2>6. phaseOf' = [phaseOf EXCEPT ![f] = "open"]
    BY <2>1, <2>2 DEF phaseOf
  <2>7. answerOf' = answerOf
    BY <2>1, <2>2, <2>4, <2>5 DEF answerOf
  <2>8. QED
    BY <1>3, <2>1, <2>6, <2>7 DEF Register, Promise!Ask, phaseOf
<1>4. ASSUME NEW f \in Firers, Send(f) \/ Wake(f) \/ Timeout(f)
      PROVE  UNCHANGED Promise!vars
  <2>1. /\ UNCHANGED <<pending, id, returned>>
        /\ \A g \in Firers : InCall(g)' <=> InCall(g)
    BY <1>4 DEF Send, Wake, Timeout, InCall, TypeOK
  <2>2. QED
    BY <2>1, PromiseStutter
<1>5. ASSUME NEW f \in Firers, Cleanup(f)
      PROVE  Promise!Return(f)
  <2>1. InCall(f) /\ ~InCall(f)'
    BY <1>5 DEF Cleanup, InCall, TypeOK
  <2>2. \A g \in Firers : g # f => (InCall(g)' <=> InCall(g))
    BY <1>5 DEF Cleanup, InCall, TypeOK
  <2>3. \A g \in Firers : g # f /\ InCall(g) => id[g] # id[f] /\ id[g] \in Ids
    BY <2>1 DEF PendingOwned, PendingIds
  <2>4. \A g \in Firers : g # f /\ InCall(g) => pending'[id[g]] = pending[id[g]]
    BY <1>5, <2>3 DEF Cleanup, TypeOK
  <2>5. phaseOf' = [phaseOf EXCEPT ![f] = "idle"]
    BY <2>1, <2>2 DEF phaseOf
  <2>6. answerOf' = [answerOf EXCEPT ![f] = NoAnswer]
    <3>1. id' = id
      BY <1>5 DEF Cleanup
    <3>2. ASSUME NEW g \in Firers
          PROVE  answerOf'[g] = [answerOf EXCEPT ![f] = NoAnswer][g]
      BY <2>1, <2>2, <2>4, <3>1 DEF answerOf
    <3>3. QED
      BY <3>2 DEF answerOf
  <2>7. returned' = [returned EXCEPT ![f] = answerOf[f]]
    BY <1>5, <2>1 DEF Cleanup, answerOf
  <2>8. QED
    BY <2>1, <2>5, <2>6, <2>7 DEF Promise!Return, phaseOf
<1>6. ASSUME NEW i \in Ids, NEW d \in Answers, HandleHookAction(i, d)
      PROVE  Promise!Answer(pending[i].semaphore, d)
  <2> DEFINE f == pending[i].semaphore
  <2>1. i \in PendingIds /\ pending[i] \in PendingAction
    BY <1>6, PendingEntry DEF HandleHookAction
  <2>2. f \in Firers /\ InCall(f) /\ id[f] = i
    BY <2>1 DEF PendingAction, PendingOwned
  <2>3. /\ pending'[i].data = d
        /\ \A j \in Ids : j # i => pending'[j] = pending[j]
    BY <1>6, <2>1 DEF HandleHookAction, TypeOK, PendingAction
  <2>4. pc' = pc /\ id' = id /\ returned' = returned
    BY <1>6 DEF HandleHookAction
  <2>5. \A g \in Firers : g # f /\ InCall(g) => id[g] # i /\ id[g] \in Ids
    BY DEF PendingOwned, PendingIds
  <2>6. phaseOf' = phaseOf
    BY <2>4 DEF phaseOf, InCall
  <2>7. answerOf' = [answerOf EXCEPT ![f] = d]
    <3>1. ASSUME NEW g \in Firers
          PROVE  answerOf'[g] = [answerOf EXCEPT ![f] = d][g]
      BY <2>2, <2>3, <2>4, <2>5 DEF answerOf, InCall
    <3>2. QED
      BY <3>1 DEF answerOf
  <2>8. QED
    BY <2>2, <2>4, <2>6, <2>7 DEF Promise!Answer, phaseOf
<1>7. ASSUME NEW a \in ApiThreads, AddHookEnable(a) \/ \E h \in Hooks : AddHookCheck(a, h)
      PROVE  UNCHANGED Promise!vars
  BY <1>7, PromiseStutter DEF AddHookCheck, AddHookEnable, callVars, InCall
<1>8. ASSUME NEW h \in Hooks, RemoveHook(h) \/ DisableHook(h)
      PROVE  UNCHANGED Promise!vars
  BY <1>8, PromiseStutter DEF RemoveHook, DisableHook, callVars, InCall
<1>9. CASE SocketConnected \/ BeginDisconnect \/ SignalPending \/ EndDisconnect
  <2>1. UNCHANGED <<pending, id, returned, pc>>
    BY <1>9 DEF SocketConnected, BeginDisconnect, SignalPending, EndDisconnect, callVars
  <2>2. QED
    BY <2>1, PromiseStutter DEF InCall
<1>10. CASE UNCHANGED vars
  BY <1>10, PromiseStutter DEF vars, callVars, InCall
<1>11. ASSUME NEW f \in Firers, FirerStep(f)
       PROVE  [Promise!Next]_Promise!vars
  BY <1>3, <1>4, <1>5, <1>11 DEF FirerStep, Promise!Next
<1>12. ASSUME NEW i \in Ids, NEW d \in Answers, HandleHookAction(i, d)
       PROVE  [Promise!Next]_Promise!vars
  <2>1. pending[i].semaphore \in Firers
    BY <1>12, PendingEntry DEF HandleHookAction, PendingAction
  <2>2. QED
    BY <1>6, <1>12, <2>1 DEF Promise!Next
<1>13. QED
  BY <1>1, <1>2, <1>7, <1>8, <1>9, <1>10, <1>11, <1>12
     DEF Next, Disconnecting, Promise!Next

(* fireHook implements the one-shot question of HookPromise: an answer that *)
(* was acknowledged is returned by the call it was meant for, and by no     *)
(* other, whatever the interleaving of calls, answers and disconnects.      *)
THEOREM PromiseKept == Spec => ImplementsPromise
<1>1. Init => Promise!Init
  BY DEF Init, Promise!Init, phaseOf, answerOf, InCall
<1>2. QED
  BY <1>1, PromiseStep, Inductive, PTL DEF Spec, ImplementsPromise, Promise!Spec
=============================================================================
