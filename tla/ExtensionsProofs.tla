-------------------------- MODULE ExtensionsProofs --------------------------
(***************************************************************************)
(* Whatever starts, stops, exits and callbacks overlap, for any number of  *)
(* threads and processes, a running extension is watched.                  *)
(*                                                                         *)
(* The invariant says in addition who is left to watch: a process id that  *)
(* is recorded belongs to a child that was not waited for yet, unless the  *)
(* thread that waited for it has not yet come to forget it.  So a thread   *)
(* whose kill or waitpid fails is never the last one.  The second half     *)
(* shows what agrees between requests as long as nothing has overlapped.   *)
(***************************************************************************)
EXTENDS Extensions, TLAPS

Accounted == pid \in Pids => \/ pid \in alive \cup exited
                            \/ \E a \in Actors : op[a].pc \in {"cancel", "logout"}

IInv == TypeOK /\ Accounted /\ Watched

USE ExtensionsAssumption

LEMMA ActorsAreThere == Main \in Actors /\ Ticker \in Actors
BY DEF Actors

LEMMA InitEstablishes == Init => IInv
<1> SUFFICES ASSUME Init PROVE IInv
  OBVIOUS
<1>1. TypeOK
  BY DEF Init, TypeOK, OpType, Idle
<1> QED
  BY <1>1 DEF Init, IInv, Accounted, Watched

(* A stop sends its thread to the kill or, with nothing to do, back to its *)
(* caller.                                                                 *)
LEMMA StopBegins ==
  ASSUME TypeOK, NEW a \in Actors, NEW then \in {"stop", "remove", "update"}, BeginStop(a, then)
  PROVE  /\ op' \in [Actors -> OpType]
         /\ \A b \in Actors \ {a} : op'[b] = op[b]
         /\ running => op'[a].pc = "kill" /\ timer' = "cancelled"
         /\ ~running => op'[a].pc \in {"idle", "unlist", "again"} /\ timer' = timer
<1>1. CASE running
  BY <1>1 DEF BeginStop, TypeOK, OpType, InStop
<1>2. CASE ~running
  <2>1. PICK pc \in {"idle", "unlist", "again"} : op' = [op EXCEPT ![a] = [Idle EXCEPT !.pc = pc]]
    BY <1>2 DEF BeginStop, Stopped
  <2> QED
    BY <1>2, <2>1 DEF BeginStop, TypeOK, OpType, Idle
<1> QED
  BY <1>1, <1>2

LEMMA StepPreserves == IInv /\ [Next]_vars => IInv'
<1> SUFFICES ASSUME IInv, [Next]_vars PROVE IInv'
  OBVIOUS
<1> USE ActorsAreThere DEF IInv, At, Goto, Finish, Idle, member, children, OpType,
        InStart, InStop, InStopped, Ticking
<1>1. ASSUME NEW a \in Threads, RequestStart(a) PROVE IInv'
  <2>1. TypeOK'
    <3>1. op' \in [Actors -> OpType]
      BY <1>1 DEF TypeOK, RequestStart, BeginStart, Actors, Starting, Removing
    <3> QED
      BY <1>1, <3>1 DEF TypeOK, RequestStart, BeginStart, Actors, Starting, Removing
  <2>2. Accounted'
    BY <1>1 DEF TypeOK, Accounted, RequestStart, BeginStart, Actors
  <2>3. Watched'
    BY <1>1 DEF TypeOK, Accounted, Watched, Watcher, RequestStart, BeginStart, Actors
  <2> QED
    BY <2>1, <2>2, <2>3
<1>2. ASSUME NEW a \in Threads, RequestStop(a) PROVE IInv'
  <2>1. CASE NoTimer
    BY <1>2, <2>1 DEF RequestStop, TypeOK, Accounted, Watched, Watcher
  <2>2. CASE ~NoTimer
    <3>1. a \in Actors /\ At(a, "idle") /\ UNCHANGED <<server, listed, running, session, pid, children, sessions, restarts, left>>
      BY <1>2, <2>2 DEF RequestStop, Actors
    <3>2. PICK then \in {"stop", "remove", "update"} : BeginStop(a, then)
      BY <1>2, <2>2 DEF RequestStop
    <3>3. raced' \in BOOLEAN
      BY <3>2 DEF BeginStop
    <3>4. /\ op' \in [Actors -> OpType]
          /\ \A b \in Actors \ {a} : op'[b] = op[b]
          /\ running => op'[a].pc = "kill" /\ timer' = "cancelled"
          /\ ~running => op'[a].pc \in {"idle", "unlist", "again"} /\ timer' = timer
      BY <3>1, <3>2, StopBegins
    <3> HIDE DEF OpType
    <3> QED
      BY <3>1, <3>3, <3>4 DEF TypeOK, Accounted, Watched, Watcher
  <2> QED
    BY <2>1, <2>2
<1>3. ASSUME NEW a \in Threads, Install(a) PROVE IInv'
  <2>1. TypeOK'
    <3>1. op' \in [Actors -> OpType]
      <4>1. a \in Actors /\ op' = [op EXCEPT ![a] = [Idle EXCEPT !.pc = "session"]]
        BY <1>3 DEF Install, Actors
      <4> QED
        BY <4>1 DEF TypeOK
    <3> QED
      BY <1>3, <3>1 DEF TypeOK, Install
  <2>2. Accounted'
    BY <1>3 DEF TypeOK, Accounted, Install, Actors
  <2>3. Watched'
    BY <1>3 DEF TypeOK, Accounted, Watched, Watcher, Install, Actors
  <2> QED
    BY <2>1, <2>2, <2>3
<1>4. ASSUME NEW a \in Actors, CreateSession(a) PROVE IInv'
  <2>1. TypeOK'
    <3>1. op' \in [Actors -> OpType]
      BY <1>4 DEF TypeOK, CreateSession
    <3> QED
      BY <1>4, <3>1 DEF TypeOK, CreateSession
  <2>2. Accounted'
    BY <1>4 DEF TypeOK, Accounted, CreateSession
  <2>3. Watched'
    BY <1>4 DEF TypeOK, Accounted, Watched, Watcher, CreateSession
  <2> QED
    BY <2>1, <2>2, <2>3
<1>5. ASSUME NEW a \in Actors, Fork(a) PROVE IInv'
  <2>1. TypeOK'
    <3>1. op' \in [Actors -> OpType]
      BY <1>5 DEF TypeOK, Fork
    <3> QED
      BY <1>5, <3>1 DEF TypeOK, Fork
  <2>2. Accounted'
    BY <1>5 DEF TypeOK, Accounted, Fork
  <2>3. Watched'
    BY <1>5 DEF TypeOK, Accounted, Watched, Watcher, Fork, Awaited
  <2> QED
    BY <2>1, <2>2, <2>3
<1>6. ASSUME NEW a \in Actors, Mark(a) PROVE IInv'
  <2>1. TypeOK'
    <3>1. op' \in [Actors -> OpType]
      BY <1>6 DEF TypeOK, Mark
    <3> QED
      BY <1>6, <3>1 DEF TypeOK, Mark
  <2>2. Accounted'
    BY <1>6 DEF TypeOK, Accounted, Mark
  <2>3. Watched'
    BY <1>6 DEF TypeOK, Accounted, Watched, Watcher, Mark
  <2> QED
    BY <2>1, <2>2, <2>3
<1>7. ASSUME NEW a \in Actors, Monitor(a) PROVE IInv'
  <2>1. TypeOK'
    <3>1. op' \in [Actors -> OpType]
      BY <1>7 DEF TypeOK, Monitor
    <3> QED
      BY <1>7, <3>1 DEF TypeOK, Monitor
  <2>2. Accounted'
    BY <1>7 DEF TypeOK, Accounted, Monitor
  <2>3. Watched'
    BY <1>7 DEF TypeOK, Accounted, Watched, Watcher, Monitor
  <2> QED
    BY <2>1, <2>2, <2>3
<1>8. ASSUME NEW a \in Actors, Kill(a) PROVE IInv'
  <2>1. TypeOK'
    <3>1. op' \in [Actors -> OpType]
      BY <1>8 DEF TypeOK, Kill
    <3> QED
      BY <1>8, <3>1 DEF TypeOK, Kill
  <2>2. Accounted'
    BY <1>8 DEF TypeOK, Accounted, Kill
  <2>3. Watched'
    BY <1>8 DEF TypeOK, Accounted, Watched, Watcher, Kill, Awaited
  <2> QED
    BY <2>1, <2>2, <2>3
<1>9. ASSUME NEW a \in Actors, Wait(a) PROVE IInv'
  <2>1. TypeOK'
    <3>1. op' \in [Actors -> OpType]
      BY <1>9 DEF TypeOK, Wait, Reaped, Awaited
    <3> QED
      BY <1>9, <3>1 DEF TypeOK, Wait, Reaped, Awaited
  <2>2. Accounted'
    BY <1>9 DEF TypeOK, Accounted, Wait, Reaped, Awaited
  <2>3. Watched'
    BY <1>9 DEF TypeOK, Accounted, Watched, Watcher, Wait, Reaped, Awaited
  <2> QED
    BY <2>1, <2>2, <2>3
<1>10. ASSUME NEW a \in Actors, Logout(a) PROVE IInv'
  <2>1. TypeOK'
    <3>1. op' \in [Actors -> OpType]
      BY <1>10 DEF TypeOK, Logout
    <3> QED
      BY <1>10, <3>1 DEF TypeOK, Logout
  <2>2. Accounted'
    BY <1>10 DEF TypeOK, Accounted, Logout
  <2>3. Watched'
    BY <1>10 DEF TypeOK, Accounted, Watched, Watcher, Logout
  <2> QED
    BY <2>1, <2>2, <2>3
<1>11. ASSUME NEW a \in Actors, Clear(a) PROVE IInv'
  <2>1. TypeOK'
    <3>1. op' \in [Actors -> OpType]
      BY <1>11 DEF TypeOK, Clear, Stopped
    <3> QED
      BY <1>11, <3>1 DEF TypeOK, Clear, Stopped
  <2>2. Accounted'
    BY <1>11 DEF TypeOK, Accounted, Clear, Stopped
  <2>3. Watched'
    BY <1>11 DEF TypeOK, Accounted, Watched, Watcher, Clear, Stopped
  <2> QED
    BY <2>1, <2>2, <2>3
<1>12. ASSUME NEW a \in Actors, Unlist(a) PROVE IInv'
  <2>1. TypeOK'
    <3>1. op' \in [Actors -> OpType]
      BY <1>12 DEF TypeOK, Unlist
    <3> QED
      BY <1>12, <3>1 DEF TypeOK, Unlist
  <2>2. Accounted'
    BY <1>12 DEF TypeOK, Accounted, Unlist
  <2>3. Watched'
    BY <1>12 DEF TypeOK, Accounted, Watched, Watcher, Unlist
  <2> QED
    BY <2>1, <2>2, <2>3
<1>13. ASSUME NEW a \in Actors, StartAgain(a) PROVE IInv'
  <2>1. TypeOK'
    <3>1. op' \in [Actors -> OpType]
      BY <1>13 DEF TypeOK, StartAgain, BeginStart, Starting, Removing
    <3> QED
      BY <1>13, <3>1 DEF TypeOK, StartAgain, BeginStart, Starting, Removing
  <2>2. Accounted'
    BY <1>13 DEF TypeOK, Accounted, StartAgain, BeginStart
  <2>3. Watched'
    BY <1>13 DEF TypeOK, Accounted, Watched, Watcher, StartAgain, BeginStart
  <2> QED
    BY <2>1, <2>2, <2>3
<1>14. CASE Tick
  <2>1. TypeOK'
    <3>1. op' \in [Actors -> OpType]
      BY <1>14 DEF TypeOK, Tick
    <3> QED
      BY <1>14, <3>1 DEF TypeOK, Tick
  <2>2. Accounted'
    BY <1>14 DEF TypeOK, Accounted, Tick
  <2>3. Watched'
    BY <1>14 DEF TypeOK, Accounted, Watched, Watcher, Tick
  <2> QED
    BY <2>1, <2>2, <2>3
<1>15. CASE Check
  <2>1. TypeOK'
    <3>1. op' \in [Actors -> OpType]
      BY <1>15 DEF TypeOK, Check, Stopping
    <3>2. exited' \in SUBSET Pids /\ raced' \in BOOLEAN
      BY <1>15 DEF TypeOK, Check, Stopping
    <3>3. UNCHANGED <<server, listed, member, alive, signalled, sessions, restarts, left>>
      BY <1>15 DEF Check
    <3> HIDE DEF OpType
    <3> QED
      BY <3>1, <3>2, <3>3 DEF TypeOK
  <2>2. Accounted'
    BY <1>15 DEF TypeOK, Accounted, Check, Awaited
  <2>3. Watched'
    BY <1>15 DEF TypeOK, Accounted, Watched, Watcher, Check, Awaited
  <2> QED
    BY <2>1, <2>2, <2>3
<1>16. CASE Cancel
  <2>1. TypeOK'
    <3>1. op' \in [Actors -> OpType]
      BY <1>16 DEF TypeOK, Cancel
    <3> QED
      BY <1>16, <3>1 DEF TypeOK, Cancel
  <2>2. Accounted'
    BY <1>16 DEF TypeOK, Accounted, Cancel
  <2>3. Watched'
    BY <1>16 DEF TypeOK, Accounted, Watched, Watcher, Cancel
  <2> QED
    BY <2>1, <2>2, <2>3
<1>17. ASSUME NEW a \in Threads, RestartTask(a) PROVE IInv'
  <2>1. TypeOK'
    <3>1. op' \in [Actors -> OpType]
      BY <1>17 DEF TypeOK, RestartTask, BeginStart, Actors, Starting, Removing
    <3> QED
      BY <1>17, <3>1 DEF TypeOK, RestartTask, BeginStart, Actors, Starting, Removing
  <2>2. Accounted'
    BY <1>17 DEF TypeOK, Accounted, RestartTask, BeginStart, Actors
  <2>3. Watched'
    BY <1>17 DEF TypeOK, Accounted, Watched, Watcher, RestartTask, BeginStart, Actors
  <2> QED
    BY <2>1, <2>2, <2>3
<1>18. CASE StartServer
  <2>1. TypeOK'
    <3>1. op' \in [Actors -> OpType]
      BY <1>18 DEF TypeOK, StartServer
    <3> QED
      BY <1>18, <3>1 DEF TypeOK, StartServer
  <2>2. Accounted'
    BY <1>18 DEF TypeOK, Accounted, StartServer
  <2>3. Watched'
    BY <1>18 DEF TypeOK, Accounted, Watched, Watcher, StartServer
  <2> QED
    BY <2>1, <2>2, <2>3
<1>19. CASE StopServer
  <2>1. CASE ~listed \/ NoTimer
    BY <1>19, <2>1 DEF StopServer, TypeOK, Accounted, Watched, Watcher
  <2>2. CASE listed /\ ~NoTimer
    <3>1. At(Main, "idle") /\ server' = "stopping" /\ BeginStop(Main, "stop")
          /\ UNCHANGED <<listed, running, session, pid, children, sessions, restarts, left>>
      BY <1>19, <2>2 DEF StopServer
    <3>2. raced' \in BOOLEAN
      BY <3>1 DEF BeginStop
    <3>3. /\ op' \in [Actors -> OpType]
          /\ \A b \in Actors \ {Main} : op'[b] = op[b]
          /\ running => op'[Main].pc = "kill" /\ timer' = "cancelled"
          /\ ~running => op'[Main].pc \in {"idle", "unlist", "again"} /\ timer' = timer
      BY <3>1, StopBegins
    <3> HIDE DEF OpType
    <3> QED
      BY <3>1, <3>2, <3>3 DEF TypeOK, Accounted, Watched, Watcher
  <2> QED
    BY <2>1, <2>2
<1>20. CASE StopListening
  <2>1. TypeOK'
    <3>1. op' \in [Actors -> OpType]
      BY <1>20 DEF TypeOK, StopListening
    <3> QED
      BY <1>20, <3>1 DEF TypeOK, StopListening
  <2>2. Accounted'
    BY <1>20 DEF TypeOK, Accounted, StopListening
  <2>3. Watched'
    BY <1>20 DEF TypeOK, Accounted, Watched, Watcher, StopListening
  <2> QED
    BY <2>1, <2>2, <2>3
<1>21. CASE StopThreads
  <2>1. TypeOK'
    <3>1. op' \in [Actors -> OpType]
      BY <1>21 DEF TypeOK, StopThreads
    <3> QED
      BY <1>21, <3>1 DEF TypeOK, StopThreads
  <2>2. Accounted'
    BY <1>21 DEF TypeOK, Accounted, StopThreads
  <2>3. Watched'
    BY <1>21 DEF TypeOK, Accounted, Watched, Watcher, StopThreads
  <2> QED
    BY <2>1, <2>2, <2>3
<1>22. CASE JoinThreads
  <2>1. TypeOK'
    <3>1. op' \in [Actors -> OpType]
      BY <1>22 DEF TypeOK, JoinThreads, AllIdle
    <3> QED
      BY <1>22, <3>1 DEF TypeOK, JoinThreads, AllIdle
  <2>2. Accounted'
    BY <1>22 DEF TypeOK, Accounted, JoinThreads, AllIdle
  <2>3. Watched'
    BY <1>22 DEF TypeOK, Accounted, Watched, Watcher, JoinThreads, AllIdle
  <2> QED
    BY <2>1, <2>2, <2>3
<1>23. ASSUME NEW p \in Pids, Exit(p) PROVE IInv'
  <2>1. TypeOK'
    <3>1. op' \in [Actors -> OpType]
      BY <1>23 DEF TypeOK, Exit
    <3> QED
      BY <1>23, <3>1 DEF TypeOK, Exit
  <2>2. Accounted'
    BY <1>23 DEF TypeOK, Accounted, Exit
  <2>3. Watched'
    BY <1>23 DEF TypeOK, Accounted, Watched, Watcher, Exit, Awaited
  <2> QED
    BY <2>1, <2>2, <2>3
<1>24. CASE UNCHANGED vars
  <2>1. TypeOK'
    <3>1. op' \in [Actors -> OpType]
      BY <1>24 DEF TypeOK, vars
    <3> QED
      BY <1>24, <3>1 DEF TypeOK, vars
  <2>2. Accounted'
    BY <1>24 DEF TypeOK, Accounted, vars
  <2>3. Watched'
    BY <1>24 DEF TypeOK, Accounted, Watched, Watcher, vars
  <2> QED
    BY <2>1, <2>2, <2>3
<1>25. ASSUME NEW a \in Actors, Refuse(a) PROVE IInv'
  <2>1. TypeOK'
    <3>1. op' \in [Actors -> OpType]
      BY <1>25 DEF TypeOK, Refuse
    <3> QED
      BY <1>25, <3>1 DEF TypeOK, Refuse
  <2>2. Accounted'
    BY <1>25 DEF TypeOK, Accounted, Refuse
  <2>3. Watched'
    BY <1>25 DEF TypeOK, Accounted, Watched, Watcher, Refuse, Awaited
  <2> QED
    BY <2>1, <2>2, <2>3
<1>26. ASSUME NEW a \in Actors, CallWaitpid(a) PROVE IInv'
  <2>1. TypeOK'
    <3>1. op' \in [Actors -> OpType]
      BY <1>26 DEF TypeOK, CallWaitpid
    <3> QED
      BY <1>26, <3>1 DEF TypeOK, CallWaitpid
  <2>2. Accounted'
    BY <1>26 DEF TypeOK, Accounted, CallWaitpid
  <2>3. Watched'
    BY <1>26 DEF TypeOK, Accounted, Watched, Watcher, CallWaitpid, Awaited
  <2> QED
    BY <2>1, <2>2, <2>3
<1> QED
  BY <1>1, <1>2, <1>3, <1>4, <1>5, <1>6, <1>7, <1>8, <1>9, <1>10, <1>11, <1>12,
     <1>13, <1>14, <1>15, <1>16, <1>17, <1>18, <1>19, <1>20, <1>21, <1>22, <1>23, <1>24, <1>25, <1>26
     DEF Next, Live, Continue

-----------------------------------------------------------------------------
(* The members, the operating system's view and the positions of all       *)
(* actors keep their types in every step.                                  *)
THEOREM TypeCorrect == Spec => []TypeOK
<1>1. IInv => TypeOK
  BY DEF IInv
<1> QED
  BY <1>1, InitEstablishes, StepPreserves, PTL DEF Spec

(* Whatever overlaps, an extension that is marked running is being watched *)
(* (Extension::start, ::stop, ::onFailed).                                 *)
THEOREM WatchedHolds == Spec => []Watched
<1>1. IInv => Watched
  BY DEF IInv
<1> QED
  BY <1>1, InitEstablishes, StepPreserves, PTL DEF Spec

-----------------------------------------------------------------------------
(***************************************************************************)
(* The members of an extension, its session and its process agree between  *)
(* requests.                                                               *)
(*                                                                         *)
(* Until two operations overlap, only one actor works on the extension.    *)
(* The invariant says for each position of that actor what holds there     *)
(* (Stage) and what holds when nobody works (AtRest).  The other conjuncts *)
(* say where no start is under way: while the extension is being removed   *)
(* (Unlisting), while the timer's callback runs (Ticks), and once the      *)
(* server stops, which the main thread does after its own stop of the      *)
(* extension (Closing).                                                    *)
(***************************************************************************)

Working(a) == op[a].pc \in InStart \cup InStop \cup InStopped \cup {"cancel"}
NoChild    == alive \cup exited = {}
Child      == pid \in Pids /\ alive \cup exited = {pid}
InSession  == session \in Sessions \ left /\ sessions = left \cup {session}
Nothing    == NoChild /\ session \in left \cup {None} /\ sessions = left

\* What holds while `a' is at each step of start, stop and onStopped.
Stage(a) ==
  /\ At(a, "session") => ~running /\ timer # "armed" /\ Nothing
  /\ At(a, "fork")    => ~running /\ timer # "armed" /\ NoChild /\ InSession
  /\ At(a, "mark")    => ~running /\ timer # "armed" /\ Child /\ InSession
  /\ At(a, "monitor") => running /\ timer # "armed" /\ Child /\ InSession
  /\ At(a, "kill")    => running /\ timer # "armed" /\ Child /\ InSession
  /\ At(a, "waitpid") => running /\ timer # "armed" /\ Child /\ InSession
  /\ At(a, "wait")    => running /\ timer # "armed" /\ Child /\ InSession /\ op[a].child = pid
  /\ At(a, "cancel")  => a = Ticker /\ IF running THEN NoChild /\ InSession ELSE timer # "armed" /\ Nothing
  /\ At(a, "logout")  => timer # "armed" /\ IF running THEN NoChild /\ InSession
                                            ELSE a = Ticker /\ Nothing
  /\ At(a, "clear")   => timer # "armed" /\ Nothing /\ (running \/ a = Ticker)

\* Nobody else works, nobody works, and who may begin.
Stages     == \A a \in Actors : Stage(a)
OneAtATime == \A a, b \in Actors : Working(a) /\ Working(b) => a = b
AtRest     == (\A a \in Actors : ~Working(a)) =>
                IF running THEN Child /\ InSession /\ timer = "armed"
                           ELSE Nothing /\ timer # "armed"
NoStart    == \A a \in Actors : op[a].pc \notin InStart
Unlisting  == ~listed \/ (\E a \in Actors : At(a, "unlist")) => ~running /\ NoStart
Ticks      == ~At(Ticker, "idle") => NoStart
Closing    == server # "up" => NoStart /\ (running => Working(Main))
Ordered    == Stages /\ OneAtATime /\ AtRest /\ Unlisting /\ Ticks /\ Closing

Calm == ~raced /\ server # "gone" => Ordered
Down == /\ server = "down" => AllIdle /\ ~listed
        /\ server \in {"closing", "joining", "down"} => At(Main, "idle")
        /\ alive \cap exited = {}

OInv == IInv /\ Calm /\ Down

LEMMA OrderStep == TypeOK /\ Calm /\ Down /\ Next /\ TypeOK' => Calm' /\ Down'
<1> SUFFICES ASSUME TypeOK, Calm, Down, Next, TypeOK' PROVE Calm' /\ Down'
  OBVIOUS
<1>0. server # "gone"
  BY DEF Next
<1> USE ActorsAreThere, ExtensionsAssumption DEF At, Goto, Finish, Idle, member, children
<1> USE DEF Ordered, Stages, Stage, OneAtATime, AtRest, Unlisting, NoStart, Ticks, Closing, Working,
       NoChild, Child, InSession, Nothing, InStart, InStop, InStopped
<1>1. ASSUME NEW a \in Threads, RequestStart(a) PROVE Calm' /\ Down'
  <2>1. a \in Actors
    BY <1>1 DEF Actors
  <2>2. Down'
    BY <1>1, <2>1 DEF TypeOK, OpType, Down, RequestStart, BeginStart, Starting, Removing, Serving,
       AllIdle
  <2>3. ASSUME ~raced', server' # "gone" PROVE Ordered'
    <3>1. Ordered /\ ~raced
      BY <1>0, <1>1, <2>3 DEF Calm, RequestStart, BeginStart, Starting, Removing, Serving
    <3>2. Stages'
      BY <1>1, <2>1, <2>3, <3>1 DEF TypeOK, OpType, Down, RequestStart, BeginStart, Starting,
         Removing, Serving
    <3>3. OneAtATime'
      BY <1>1, <2>1, <2>3, <3>1 DEF TypeOK, OpType, Down, RequestStart, BeginStart, Starting,
         Removing, Serving
    <3>4. AtRest'
      BY <1>1, <2>1, <2>3, <3>1 DEF TypeOK, OpType, Down, RequestStart, BeginStart, Starting,
         Removing, Serving
    <3>5. Unlisting'
      BY <1>1, <2>1, <2>3, <3>1 DEF TypeOK, OpType, Down, RequestStart, BeginStart, Starting,
         Removing, Serving
    <3>6. Ticks'
      BY <1>1, <2>1, <2>3, <3>1 DEF TypeOK, OpType, Down, RequestStart, BeginStart, Starting,
         Removing, Serving
    <3>7. Closing'
      BY <1>1, <2>1, <2>3, <3>1 DEF TypeOK, OpType, Down, RequestStart, BeginStart, Starting,
         Removing, Serving
    <3> QED
      BY <3>2, <3>3, <3>4, <3>5, <3>6, <3>7
  <2> QED
    BY <2>2, <2>3 DEF Calm
<1>2. ASSUME NEW a \in Threads, RequestStop(a) PROVE Calm' /\ Down'
  <2>1. a \in Actors
    BY <1>2 DEF Actors
  <2>2. Down'
    BY <1>2, <2>1 DEF TypeOK, OpType, Down, RequestStop, BeginStop, Stopped, NoTimer, Starting,
       Stopping, Serving, AllIdle
  <2>3. Calm'
    BY <1>0, <1>2, <2>1 DEF TypeOK, OpType, Down, Calm, RequestStop, BeginStop, Stopped, NoTimer,
       Starting, Stopping, Serving
  <2> QED
    BY <2>2, <2>3
<1>3. ASSUME NEW a \in Threads, Install(a) PROVE Calm' /\ Down'
  <2>1. a \in Actors
    BY <1>3 DEF Actors
  <2>2. Down'
    BY <1>3, <2>1 DEF TypeOK, OpType, Down, Install, AllIdle
  <2>3. Calm'
    BY <1>0, <1>3, <2>1 DEF TypeOK, OpType, Down, Calm, Install, AllIdle
  <2> QED
    BY <2>2, <2>3
<1>4. ASSUME NEW a \in Actors, CreateSession(a) PROVE Calm' /\ Down'
  <2>2. Down'
    BY <1>4 DEF TypeOK, OpType, Down, CreateSession, AllIdle
  <2>3. Calm'
    BY <1>0, <1>4 DEF TypeOK, OpType, Down, Calm, CreateSession
  <2> QED
    BY <2>2, <2>3
<1>5. ASSUME NEW a \in Actors, Fork(a) PROVE Calm' /\ Down'
  <2>2. Down'
    BY <1>5 DEF TypeOK, OpType, Down, Fork, AllIdle
  <2>1. SUFFICES ASSUME ~raced PROVE Calm'
    BY <1>5, <2>2 DEF Calm, Fork
  <2>3. CASE pid' \in {pid, ForkFailed} /\ Finish(a) /\ left' = left \cup {session} /\ alive' = alive
    BY <1>0, <1>5, <2>1, <2>3 DEF TypeOK, OpType, Down, Calm, Fork
  <2>4. ASSUME NEW p \in Pids, pid' = p, alive' = alive \cup {p}, Goto(a, "mark"), left' = left
        PROVE  Calm'
    BY <1>0, <1>5, <2>1, <2>4 DEF TypeOK, OpType, Down, Calm, Fork
  <2> QED
    BY <1>5, <2>1, <2>3, <2>4 DEF Fork
<1>6. ASSUME NEW a \in Actors, Mark(a) PROVE Calm' /\ Down'
  <2>2. Down'
    BY <1>6 DEF TypeOK, OpType, Down, Mark, AllIdle
  <2>3. Calm'
    BY <1>0, <1>6 DEF TypeOK, OpType, Down, Calm, Mark
  <2> QED
    BY <2>2, <2>3
<1>7. ASSUME NEW a \in Actors, Monitor(a) PROVE Calm' /\ Down'
  <2>2. Down'
    BY <1>7 DEF TypeOK, OpType, Down, Monitor, AllIdle
  <2>3. Calm'
    BY <1>0, <1>7 DEF TypeOK, OpType, Down, Calm, Monitor
  <2> QED
    BY <2>2, <2>3
<1>8. ASSUME NEW a \in Actors, Kill(a) PROVE Calm' /\ Down'
  <2>2. Down'
    BY <1>8 DEF TypeOK, OpType, Down, Kill, AllIdle
  <2>3. Calm'
    BY <1>0, <1>8 DEF TypeOK, OpType, Down, Calm, Kill
  <2> QED
    BY <2>2, <2>3
<1>9. ASSUME NEW a \in Actors, Wait(a) PROVE Calm' /\ Down'
  <2>2. Down'
    BY <1>9 DEF TypeOK, OpType, Down, Wait, Reaped, AllIdle
  <2>3. Calm'
    BY <1>0, <1>9 DEF TypeOK, OpType, Down, Calm, Wait, Reaped, Awaited
  <2> QED
    BY <2>2, <2>3
<1>10. ASSUME NEW a \in Actors, Logout(a) PROVE Calm' /\ Down'
  <2>2. Down'
    BY <1>10 DEF TypeOK, OpType, Down, Logout, AllIdle
  <2>3. Calm'
    BY <1>0, <1>10 DEF TypeOK, OpType, Down, Calm, Logout
  <2> QED
    BY <2>2, <2>3
<1>11. ASSUME NEW a \in Actors, Clear(a) PROVE Calm' /\ Down'
  <2>2. Down'
    BY <1>11 DEF TypeOK, OpType, Down, Clear, Stopped, AllIdle
  <2>3. Calm'
    BY <1>0, <1>11 DEF TypeOK, OpType, Down, Calm, Clear, Stopped
  <2> QED
    BY <2>2, <2>3
<1>12. ASSUME NEW a \in Actors, Unlist(a) PROVE Calm' /\ Down'
  <2>2. Down'
    BY <1>12 DEF TypeOK, OpType, Down, Unlist, AllIdle
  <2>3. Calm'
    BY <1>0, <1>12 DEF TypeOK, OpType, Down, Calm, Unlist
  <2> QED
    BY <2>2, <2>3
<1>13. ASSUME NEW a \in Actors, StartAgain(a) PROVE Calm' /\ Down'
  <2>2. Down'
    BY <1>13 DEF TypeOK, OpType, Down, StartAgain, BeginStart, Starting, Removing, AllIdle
  <2>3. Calm'
    BY <1>0, <1>13 DEF TypeOK, OpType, Down, Calm, StartAgain, BeginStart, Starting, Removing
  <2> QED
    BY <2>2, <2>3
<1>14. CASE Tick
  <2>2. Down'
    BY <1>14 DEF TypeOK, OpType, Down, Tick, Serving, Main, Ticker, AllIdle
  <2>3. Calm'
    BY <1>0, <1>14 DEF TypeOK, OpType, Down, Calm, Tick, Serving, Main, Ticker
  <2> QED
    BY <2>2, <2>3
<1>15. CASE Check
  <2>1. Down'
    BY <1>15 DEF TypeOK, OpType, Down, Check, AllIdle
  <2>2. SUFFICES ASSUME ~raced' PROVE Ordered'
    BY <2>1 DEF Calm
  <2>3. Ordered /\ ~raced
    <3>1. server' = server /\ (raced => raced')
      BY <1>15 DEF Check, TypeOK, Stopping
    <3> QED
      BY <1>0, <2>2, <3>1 DEF Calm
  <2>4. CASE \E p \in exited \cap Awaited(pid) : exited' = exited \ {p} /\ Goto(Ticker, "cancel")
    <3>1. PICK p \in exited \cap Awaited(pid) : exited' = exited \ {p}
      BY <2>4
    <3>2. raced' = (raced \/ Stopping(Ticker)) /\ alive' = alive
      BY <1>15, <2>4 DEF Check, TypeOK, OpType
    <3>3. \A c \in Actors : ~Working(c)
      <4>1. raced' = FALSE /\ At(Ticker, "check")
        BY <1>15, <2>2 DEF Check, TypeOK
      <4> QED
        BY <2>3, <3>2, <4>1 DEF Stopping
    <3>4. running /\ InSession /\ Child /\ p = pid
      BY <2>3, <3>1, <3>3 DEF Awaited
    <3>5. NoChild'
      BY <3>1, <3>2, <3>4 DEF Down
    <3>6. Stages'
      BY <1>15, <2>4, <3>3, <3>4, <3>5 DEF Check, TypeOK, OpType
    <3> QED
      BY <1>15, <2>2, <2>3, <2>4, <3>3, <3>4, <3>5, <3>6 DEF Check, TypeOK, OpType
  <2>5. CASE Awaited(pid) \cap (alive \cup exited) = {} /\ Goto(Ticker, "cancel") /\ UNCHANGED exited
    BY <1>15, <2>2, <2>3, <2>5 DEF TypeOK, OpType, Check, Stopping, Awaited
  <2>6. CASE Finish(Ticker) /\ UNCHANGED exited
    BY <1>15, <2>2, <2>3, <2>6 DEF TypeOK, OpType, Check
  <2> QED
    BY <1>15, <2>4, <2>5, <2>6 DEF Check
<1>16. CASE Cancel
  <2>2. Down'
    BY <1>16 DEF TypeOK, OpType, Down, Cancel, AllIdle
  <2>3. Calm'
    BY <1>0, <1>16 DEF TypeOK, OpType, Down, Calm, Cancel
  <2> QED
    BY <2>2, <2>3
<1>17. ASSUME NEW a \in Threads, RestartTask(a) PROVE Calm' /\ Down'
  <2>1. a \in Actors
    BY <1>17 DEF Actors
  <2>2. Down'
    BY <1>17, <2>1 DEF TypeOK, OpType, Down, RestartTask, BeginStart, Starting, Removing, Serving,
       AllIdle
  <2>3. Calm'
    BY <1>0, <1>17, <2>1 DEF TypeOK, OpType, Down, Calm, RestartTask, BeginStart, Starting,
       Removing, Serving
  <2> QED
    BY <2>2, <2>3
<1>18. CASE StartServer
  <2>1. AllIdle
    BY <1>18 DEF StartServer, Down
  <2>2. Down'
    BY <1>18, <2>1 DEF TypeOK, OpType, Down, StartServer, AllIdle, Main, Ticker
  <2>3. Calm'
    BY <1>0, <1>18, <2>1 DEF TypeOK, OpType, Down, Calm, StartServer, AllIdle, Main, Ticker
  <2> QED
    BY <2>2, <2>3
<1>19. CASE StopServer
  <2>2. Down'
    BY <1>19 DEF TypeOK, OpType, Down, StopServer, BeginStop, Stopped, NoTimer, Starting, Stopping,
       AllIdle
  <2>3. Calm'
    BY <1>0, <1>19 DEF TypeOK, OpType, Down, Calm, StopServer, BeginStop, Stopped, NoTimer,
       Starting, Stopping
  <2> QED
    BY <2>2, <2>3
<1>20. CASE StopListening
  <2>2. Down'
    BY <1>20 DEF TypeOK, OpType, Down, StopListening, AllIdle
  <2>3. Calm'
    BY <1>0, <1>20 DEF TypeOK, OpType, Down, Calm, StopListening
  <2> QED
    BY <2>2, <2>3
<1>21. CASE StopThreads
  <2>2. Down'
    BY <1>21 DEF TypeOK, OpType, Down, StopThreads, AllIdle
  <2>3. Calm'
    BY <1>0, <1>21 DEF TypeOK, OpType, Down, Calm, StopThreads
  <2> QED
    BY <2>2, <2>3
<1>22. CASE JoinThreads
  <2>2. Down'
    BY <1>22 DEF TypeOK, OpType, Down, JoinThreads, AllIdle
  <2>3. Calm'
    BY <1>0, <1>22 DEF TypeOK, OpType, Down, Calm, JoinThreads, AllIdle
  <2> QED
    BY <2>2, <2>3
<1>23. ASSUME NEW p \in Pids, Exit(p) PROVE Calm' /\ Down'
  <2>2. Down'
    BY <1>23 DEF TypeOK, OpType, Down, Exit, AllIdle
  <2>3. Calm'
    BY <1>0, <1>23 DEF TypeOK, OpType, Down, Calm, Exit
  <2> QED
    BY <2>2, <2>3
<1>25. ASSUME NEW a \in Actors, Refuse(a) PROVE Calm' /\ Down'
  <2>2. Down'
    BY <1>25 DEF TypeOK, OpType, Down, Refuse, AllIdle
  <2>3. Calm'
    BY <1>0, <1>25 DEF TypeOK, OpType, Down, Calm, Refuse
  <2> QED
    BY <2>2, <2>3
<1>26. ASSUME NEW a \in Actors, CallWaitpid(a) PROVE Calm' /\ Down'
  <2>2. Down'
    BY <1>26 DEF TypeOK, OpType, Down, CallWaitpid, AllIdle
  <2>3. Calm'
    BY <1>0, <1>26 DEF TypeOK, OpType, Down, Calm, CallWaitpid
  <2> QED
    BY <2>2, <2>3
<1> QED
  BY <1>1, <1>2, <1>3, <1>4, <1>5, <1>6, <1>7, <1>8, <1>9, <1>10, <1>11, <1>12,
     <1>13, <1>14, <1>15, <1>16, <1>17, <1>18, <1>19, <1>20, <1>21, <1>22, <1>23, <1>25, <1>26 DEF Next, Live,
     Continue

LEMMA OrderStutter == Calm /\ Down /\ UNCHANGED vars => Calm' /\ Down'
BY DEF Calm, Down, vars, member, children, Ordered, Stages, Stage, OneAtATime, AtRest, Unlisting,
       NoStart, Ticks, Closing, Working, NoChild, Child, InSession, Nothing, At, AllIdle

LEMMA OrderInit == Init => Calm /\ Down
<1> SUFFICES ASSUME Init PROVE Calm /\ Down
  OBVIOUS
<1>1. \A a \in Actors : op[a].pc = "idle"
  BY DEF Init, Idle
<1> QED
  BY <1>1, ActorsAreThere
     DEF Init, Calm, Down, Ordered, Stages, Stage, OneAtATime, AtRest, Unlisting, NoStart, Ticks,
     Closing,
         Working, NoChild, Nothing, At, AllIdle, InStart, InStop, InStopped

LEMMA OrderAgrees == TypeOK /\ Calm /\ Down => Agrees
BY ExtensionsAssumption
   DEF Agrees, TypeOK, Calm, Ordered, AtRest, AllIdle, At, Working, InStart, InStop, InStopped,
       Child, InSession, Nothing, NoChild

\* Between requests the flag, the process, the session and the timer of an
\* extension agree (Extension::start, stop and onStopped, as long as no two of
\* them have overlapped), for any number of API threads, processes and sessions.
THEOREM AgreesHolds == Spec => []Agrees
<1>1. Init => OInv
  BY InitEstablishes, OrderInit DEF OInv
<1>2. OInv /\ [Next]_vars => OInv'
  <2>1. IInv /\ [Next]_vars => IInv'
    BY StepPreserves
  <2>2. IInv /\ IInv' => TypeOK /\ TypeOK'
    BY DEF IInv
  <2> QED
    BY <2>1, <2>2, OrderStep, OrderStutter DEF OInv
<1>3. OInv => Agrees
  BY OrderAgrees DEF OInv, IInv
<1> QED
  BY <1>1, <1>2, <1>3, PTL DEF Spec
=============================================================================
