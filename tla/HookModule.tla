----------------------------- MODULE HookModule ------------------------------
(***************************************************************************)
(* HookApiModule (api/base/HookApiModule.cpp): core threads ask the        *)
(* subscriber of one API session a question and block until it answers,    *)
(* the timeout passes or the session's socket goes away.                   *)
(*                                                                         *)
(* Actors: the core threads inside fireHook (Firers), the server threads   *)
(* that run API requests (ApiThreads: the two halves of handleAddHook;     *)
(* remove, resolve and reject are one step each), and the thread that      *)
(* delivers SocketDisconnected to the session's modules.                   *)
(*                                                                         *)
(* Speaker::fire holds the session's listener lock, so SocketConnected and *)
(* SocketDisconnected never overlap.  The event subscriptions that the     *)
(* base class also resets are not part of this module.                     *)
(***************************************************************************)
EXTENDS Naturals

CONSTANTS Firers, ApiThreads, Hooks, Answers, NoAnswer,
          MaxInt,     \* numeric_limits<int>::max()
          NotPending, \* marks an id that has no entry in pendingHookActions
          NoHook      \* marks an API thread that is not adding a hook

ASSUME HookAssumption == /\ NoAnswer \notin Answers
                         /\ MaxInt \in Nat \ {0}
                         /\ NotPending \notin [semaphore : Firers, data : Answers \cup {NoAnswer}]
                         /\ NoHook \notin Hooks

Ids == 0..MaxInt

VARIABLES active,       \* HookSubscriber::active of every hook
          socket,       \* is SubscribableApiModule::socket set
          pending,      \* pendingHookActions
          counter,      \* pendingHookIdCounter
          pc, id,       \* fireHook: position, the action id
          signaled,     \* fireHook: completionSemaphore on the thread's stack
          returned,     \* fireHook: what the last call returned
          adding,       \* handleAddHook: the hook whose socket check has passed
          dpc,          \* on(SocketDisconnected): position
          toDisable     \* on(SocketDisconnected): hooks the first loop has left

callVars == <<pc, id, signaled, returned>>
discVars == <<dpc, toDisable>>
vars == <<active, socket, pending, counter, callVars, adding, discVars>>

PendingIds == {i \in Ids : pending[i] # NotPending}
InCall(f)  == pc[f] \in {"send", "wait", "cleanup"}

TypeOK ==
  /\ active \in [Hooks -> BOOLEAN]
  /\ socket \in BOOLEAN
  /\ pending \in [Ids -> [semaphore : Firers, data : Answers \cup {NoAnswer}] \cup {NotPending}]
  /\ counter \in Ids
  /\ pc \in [Firers -> {"idle", "register", "send", "wait", "cleanup"}]
  /\ id \in [Firers -> Ids]
  /\ signaled \in [Firers -> BOOLEAN]
  /\ returned \in [Firers -> Answers \cup {NoAnswer}]
  /\ adding \in [ApiThreads -> Hooks \cup {NoHook}]
  /\ dpc \in {"none", "disable", "signal", "drain"}
  /\ toDisable \in SUBSET Hooks

Init ==
  /\ active = [h \in Hooks |-> FALSE]
  /\ socket = FALSE
  /\ pending = [i \in Ids |-> NotPending]
  /\ counter = 1
  /\ pc = [f \in Firers |-> "idle"]
  /\ id = [f \in Firers |-> 0]
  /\ signaled = [f \in Firers |-> FALSE]
  /\ returned = [f \in Firers |-> NoAnswer]
  /\ adding = [a \in ApiThreads |-> NoHook]
  /\ dpc = "none"
  /\ toDisable = {}

-----------------------------------------------------------------------------
(* fireHook, run by a core thread. *)

\* hookActive is read without a lock.
FireInactive(f, h) ==
  /\ pc[f] = "idle" /\ ~active[h]
  /\ returned' = [returned EXCEPT ![f] = NoAnswer]
  /\ UNCHANGED <<active, socket, pending, counter, pc, id, signaled, adding, discVars>>

\* Mutant: does not ask whether the hook is active.
FireUnchecked(f, h) ==
  /\ pc[f] = "idle"
  /\ pc' = [pc EXCEPT ![f] = "register"]
  /\ UNCHANGED <<active, socket, pending, counter, id, signaled, returned, adding, discVars>>

FireActive(f, h) ==
  /\ pc[f] = "idle" /\ active[h]
  /\ pc' = [pc EXCEPT ![f] = "register"]
  /\ UNCHANGED <<active, socket, pending, counter, id, signaled, returned, adding, discVars>>

\* Mutant: the counter is never reset.
NewIdOverflow == counter

\* getActionId: the counter restarts at 0 instead of overflowing.
NewId == IF counter = MaxInt THEN 0 ELSE counter

\* An action ends within its timeout (60 s at most): 2^31 - 1 ids do not run
\* out meanwhile, so the id taken is never one that is still pending.
IdFresh == pending[NewId] = NotPending

Register(f) ==
  /\ pc[f] = "register"
  /\ IdFresh
  /\ id' = [id EXCEPT ![f] = NewId]
  /\ counter' = NewId + 1
  /\ pending' = [pending EXCEPT ![NewId] = [semaphore |-> f, data |-> NoAnswer]]
  /\ signaled' = [signaled EXCEPT ![f] = FALSE]
  /\ pc' = [pc EXCEPT ![f] = "send"]
  /\ UNCHANGED <<active, socket, returned, adding, discVars>>

\* send fails without a socket, or when the event can't be converted to JSON.
Send(f) ==
  /\ pc[f] = "send"
  /\ \E sent \in {FALSE, socket} :
       pc' = [pc EXCEPT ![f] = IF sent THEN "wait" ELSE "cleanup"]
  /\ UNCHANGED <<active, socket, pending, counter, id, signaled, returned, adding, discVars>>

\* completionSemaphore.wait returns because of a signal ...
Wake(f) ==
  /\ pc[f] = "wait" /\ signaled[f]
  /\ signaled' = [signaled EXCEPT ![f] = FALSE]
  /\ pc' = [pc EXCEPT ![f] = "cleanup"]
  /\ UNCHANGED <<active, socket, pending, counter, id, returned, adding, discVars>>

\* Mutant: waits without a timeout.
TimeoutNever(f) ==
  /\ pc[f] = "wait" /\ signaled[f]
  /\ pc' = [pc EXCEPT ![f] = "cleanup"]
  /\ UNCHANGED <<active, socket, pending, counter, id, signaled, returned, adding, discVars>>

\* Mutant: a timeout means no answer, even when one has arrived meanwhile.
TimeoutDiscards(f) ==
  /\ pc[f] = "wait"
  /\ returned' = [returned EXCEPT ![f] = NoAnswer]
  /\ pending' = [pending EXCEPT ![id[f]] = NotPending]
  /\ pc' = [pc EXCEPT ![f] = "idle"]
  /\ UNCHANGED <<active, socket, counter, id, signaled, adding, discVars>>

\* ... or of the timeout; a signal may still arrive before the cleanup.
Timeout(f) ==
  /\ pc[f] = "wait"
  /\ pc' = [pc EXCEPT ![f] = "cleanup"]
  /\ UNCHANGED <<active, socket, pending, counter, id, signaled, returned, adding, discVars>>

\* Mutant: the entry stays behind.
CleanupKeepsEntry(f) ==
  /\ pc[f] = "cleanup"
  /\ returned' = [returned EXCEPT ![f] = pending[id[f]].data]
  /\ pc' = [pc EXCEPT ![f] = "idle"]
  /\ UNCHANGED <<active, socket, pending, counter, id, signaled, adding, discVars>>

Cleanup(f) ==
  /\ pc[f] = "cleanup"
  /\ returned' = [returned EXCEPT ![f] = pending[id[f]].data]
  /\ pending' = [pending EXCEPT ![id[f]] = NotPending]
  /\ pc' = [pc EXCEPT ![f] = "idle"]
  /\ UNCHANGED <<active, socket, counter, id, signaled, adding, discVars>>

-----------------------------------------------------------------------------
(* API requests of the subscriber. *)

\* handleHookAction: resolve or reject.  An id that is not pending gives 404 and a
\* malformed body throws: neither changes anything.
HandleHookAction(i, d) ==
  /\ i \in PendingIds
  /\ pending' = [pending EXCEPT ![i].data = d]
  /\ signaled' = [signaled EXCEPT ![pending[i].semaphore] = TRUE]
  /\ UNCHANGED <<active, socket, counter, pc, id, returned, adding, discVars>>

\* handleAddHook: the socket check ...
AddHookCheck(a, h) ==
  /\ adding[a] = NoHook /\ socket
  /\ adding' = [adding EXCEPT ![a] = h]
  /\ UNCHANGED <<active, socket, pending, counter, callVars, discVars>>

\* ... and HookSubscriber::enable, which fails if the core knows the id already.
AddHookEnable(a) ==
  /\ adding[a] # NoHook
  /\ active' \in {active, [active EXCEPT ![adding[a]] = TRUE]}
  /\ adding' = [adding EXCEPT ![a] = NoHook]
  /\ UNCHANGED <<socket, pending, counter, callVars, discVars>>

RemoveHook(h) ==
  /\ active[h]
  /\ active' = [active EXCEPT ![h] = FALSE]
  /\ UNCHANGED <<socket, pending, counter, callVars, adding, discVars>>

-----------------------------------------------------------------------------
(* The session's socket. *)

SocketConnected ==
  /\ dpc = "none"
  /\ socket' = TRUE
  /\ UNCHANGED <<active, pending, counter, callVars, adding, discVars>>

BeginDisconnect ==
  /\ dpc = "none" /\ socket
  /\ dpc' = "disable"
  /\ toDisable' = Hooks
  /\ UNCHANGED <<active, socket, pending, counter, callVars, adding>>

DisableHook(h) ==
  /\ dpc = "disable" /\ h \in toDisable
  /\ active' = [active EXCEPT ![h] = FALSE]
  /\ toDisable' = toDisable \ {h}
  /\ dpc' = IF toDisable = {h} THEN "signal" ELSE "disable"
  /\ UNCHANGED <<socket, pending, counter, callVars, adding>>

SignalPending ==
  /\ dpc = "signal"
  /\ signaled' = [f \in Firers |->
                    signaled[f] \/ \E i \in PendingIds : pending[i].semaphore = f]
  /\ dpc' = "drain"
  /\ UNCHANGED <<active, socket, pending, counter, pc, id, returned, adding, toDisable>>

\* The polling loop sees no pending action; the base class drops the socket.
EndDisconnect ==
  /\ dpc = "drain" /\ PendingIds = {}
  /\ dpc' = "none"
  /\ socket' = FALSE
  /\ UNCHANGED <<active, pending, counter, callVars, adding, toDisable>>

-----------------------------------------------------------------------------
FirerStep(f) == \/ Register(f) \/ Send(f) \/ Wake(f) \/ Timeout(f) \/ Cleanup(f)

Disconnecting == \/ \E h \in Hooks : DisableHook(h)
                 \/ SignalPending
                 \/ EndDisconnect

Next == \/ \E f \in Firers : \/ \E h \in Hooks : FireInactive(f, h) \/ FireActive(f, h)
                             \/ FirerStep(f)
        \/ \E i \in Ids, d \in Answers : HandleHookAction(i, d)
        \/ \E a \in ApiThreads : (\E h \in Hooks : AddHookCheck(a, h)) \/ AddHookEnable(a)
        \/ \E h \in Hooks : RemoveHook(h)
        \/ SocketConnected
        \/ BeginDisconnect
        \/ Disconnecting

\* A started call runs on (its wait has a timeout) and so does a started
\* disconnect; no client ever has to answer.
Fairness == /\ \A f \in Firers : WF_vars(FirerStep(f))
            /\ WF_vars(Disconnecting)

Spec == Init /\ [][Next]_vars
FairSpec == Spec /\ Fairness

-----------------------------------------------------------------------------
(* The entries of pendingHookActions and the calls inside fireHook match   *)
(* one to one: an entry never refers to the semaphore of a call that has   *)
(* returned (it lives on that thread's stack), and the cleanup always      *)
(* finds the entry of its own call (pendingHookActions.at does not throw). *)
PendingOwned ==
  /\ \A i \in PendingIds : InCall(pending[i].semaphore) /\ id[pending[i].semaphore] = i
  /\ \A f \in Firers : InCall(f) => /\ id[f] \in PendingIds
                                    /\ pending[id[f]].semaphore = f

(* fireHook keeps the promise of HookPromise: whatever the order of         *)
(* answers, timeouts, disconnects and other calls, an answer acknowledged   *)
(* with 204 is the one its own call returns.                                *)
phaseOf  == [f \in Firers |-> IF InCall(f) THEN "open" ELSE "idle"]
answerOf == [f \in Firers |-> IF InCall(f) THEN pending[id[f]].data ELSE NoAnswer]
Promise  == INSTANCE HookPromise WITH phase <- phaseOf, answer <- answerOf

ImplementsPromise == Promise!Spec

(* A core thread is never blocked for good by a subscriber.                *)
CallsReturn == \A f \in Firers : pc[f] # "idle" ~> pc[f] = "idle"

(* The disconnect handler, which blocks the server thread that delivers    *)
(* the event, gets to its end unless a hook is enabled again meanwhile:    *)
(* calls that had passed the activity check before still drain.            *)
DisconnectEnds == dpc = "drain" ~> dpc = "none" \/ \E h \in Hooks : active[h]
=============================================================================
