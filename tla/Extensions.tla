----------------------------- MODULE Extensions -----------------------------
(***************************************************************************)
(* The life of one managed extension: Extension::start and ::stop, the     *)
(* timer that watches its process, the manager that removes, updates and   *)
(* restarts it, and the start and stop of the web server around it.        *)
(*                                                                         *)
(* `running', `session', `pid' and `timer' are plain members: API threads, *)
(* the timer's callback, the manager's tasks and the thread that stops the *)
(* server read and write them without a lock.  Every step below is one     *)
(* access of theirs or one system call.  What happens to the child process *)
(* is up to the operating system: it may exit by itself at any time.       *)
(***************************************************************************)
EXTENDS Naturals, FiniteSets

CONSTANTS Threads,     \* threads that handle API requests and tasks
          Pids,        \* process ids
          Sessions,    \* session ids
          None,        \* no session
          NoPid,       \* pid 0
          ForkFailed   \* pid -1

Ticker   == "ticker"   \* the callback of the current timer
Main     == "main"     \* the thread that starts and stops the server
Actors   == Threads \cup {Ticker, Main}

ASSUME ExtensionsAssumption == /\ Threads \cap {Ticker, Main} = {}
                               /\ None \notin Sessions
                               /\ NoPid \notin Pids /\ ForkFailed \notin Pids
                               /\ NoPid # ForkFailed

VARIABLES server,    \* what WebServerManager is doing
          listed,    \* the extension is in ExtensionManager::extensions
          running,   \* Extension::running
          session,   \* Extension::session
          pid,       \* Extension::pid
          timer,     \* Extension::timer
          alive,     \* child processes of the application
          exited,    \* children that have exited and were not waited for
          signalled, \* live children that were sent SIGTERM
          sessions,  \* extension sessions WebUserManager knows
          restarts,  \* a restart task is queued
          op,        \* where each actor is
          raced,     \* history: two of the operations below have overlapped
          left       \* history: sessions that failed starts left behind until then

vars == <<server, listed, running, session, pid, timer, alive, exited, signalled, sessions,
          restarts, op, left, raced>>

member   == <<running, session, pid, timer>>
children == <<alive, exited, signalled>>

\* Positions inside start, inside stop, inside onStopped, and the timer's own.
InStart   == {"session", "fork", "mark", "monitor"}
InStop    == {"kill", "waitpid", "wait"}
InStopped == {"logout", "clear"}
Ticking   == {"check", "cancel"}
Idle      == [pc |-> "idle", then |-> "nothing", child |-> NoPid]

OpType == [pc : {"idle", "unlist", "again"} \cup InStart \cup InStop \cup InStopped \cup Ticking,
           then : {"nothing", "stop", "remove", "update"},
           child : Pids \cup {NoPid, ForkFailed}]

TypeOK == /\ server \in {"up", "stopping", "closing", "joining", "down", "gone"}
          /\ listed \in BOOLEAN
          /\ running \in BOOLEAN
          /\ session \in Sessions \cup {None}
          /\ pid \in Pids \cup {NoPid, ForkFailed}
          /\ timer \in {"none", "armed", "cancelled"}
          /\ alive \in SUBSET Pids
          /\ exited \in SUBSET Pids
          /\ signalled \in SUBSET alive
          /\ sessions \in SUBSET Sessions
          /\ restarts \in BOOLEAN
          /\ op \in [Actors -> OpType]
          /\ left \in SUBSET (Sessions \cup {None})
          /\ raced \in BOOLEAN

Init == /\ server = "down"
        /\ listed = FALSE
        /\ running = FALSE
        /\ session = None
        /\ pid = NoPid
        /\ timer = "none"
        /\ alive = {} /\ exited = {} /\ signalled = {}
        /\ sessions = {}
        /\ restarts = FALSE
        /\ op = [a \in Actors |-> Idle]
        /\ left = {}
        /\ raced = FALSE

-----------------------------------------------------------------------------
At(a, pc)      == op[a].pc = pc
Goto(a, pc)    == op' = [op EXCEPT ![a].pc = pc]
Finish(a)      == op' = [op EXCEPT ![a] = Idle]
Serving        == server \in {"up", "stopping", "closing"}
AllIdle        == \A a \in Actors : At(a, "idle")
Removing       == ~listed \/ \E b \in Actors : At(b, "unlist")
Starting(a)    == \E b \in Actors \ {a} : op[b].pc \in InStart
Stopping(a)    == \E b \in Actors \ {a} : op[b].pc \in InStop \cup InStopped \cup {"cancel"}

\* Extension::start does nothing if the server does not listen or the extension
\* is running already.
BeginStart(a) ==
  IF running \/ server \notin {"up", "stopping"}
    THEN Finish(a) /\ UNCHANGED raced
    ELSE /\ op' = [op EXCEPT ![a] = [Idle EXCEPT !.pc = "session"]]
         /\ raced' = (raced \/ Starting(a) \/ Removing \/ server # "up" \/ ~At(Ticker, "idle"))

\* Where the caller of stop goes on.
Stopped(a, then) ==
  op' = [op EXCEPT ![a] = [Idle EXCEPT !.pc = CASE then = "remove" -> "unlist"
                                                [] then = "update" -> "again"
                                                [] OTHER           -> "idle"]]

\* Extension::stop has nothing to do if the extension is not running, and then
\* the caller goes on; otherwise it cancels the timer.
BeginStop(a, then) ==
  /\ IF running THEN /\ timer' = "cancelled"
                     /\ op' = [op EXCEPT ![a] = [pc |-> "kill", then |-> then, child |-> NoPid]]
                ELSE /\ Stopped(a, then)
                     /\ UNCHANGED timer
  /\ raced' = (raced \/ Starting(a) \/ Stopping(a))

\* start sets running before it creates the timer: until then there is none, and
\* stop dereferences a null pointer.
NoTimer == running /\ timer = "none"

\* ExtensionInfo: the start and stop requests; ExtensionManager: removal, and
\* the installation of a new version over an old one, which stops, reloads
\* the package and starts.
RequestStart(a) ==
  /\ At(a, "idle") /\ Serving /\ listed
  /\ BeginStart(a)
  /\ UNCHANGED <<server, listed, member, children, sessions, restarts, left>>

RequestStop(a) ==
  /\ At(a, "idle") /\ Serving /\ listed
  /\ IF NoTimer THEN server' = "gone" /\ UNCHANGED <<op, timer, raced>>
                ELSE /\ \E then \in {"stop", "remove", "update"} : BeginStop(a, then)
                     /\ UNCHANGED server
  /\ UNCHANGED <<listed, running, session, pid, children, sessions, restarts, left>>

\* installLocalExtension starts the new version, whatever happened meanwhile.
StartAgain(a) ==
  /\ At(a, "again")
  /\ BeginStart(a)
  /\ UNCHANGED <<server, listed, member, children, sessions, restarts, left>>

\* removeExtension takes the extension out of the list when it has stopped; the
\* lock is held while the server stops the extensions.
Unlist(a) ==
  /\ At(a, "unlist")
  /\ op[Main].pc \notin InStop \cup InStopped
  /\ listed' = FALSE
  /\ Finish(a)
  /\ UNCHANGED <<server, member, children, sessions, restarts, left, raced>>

\* The package of a new extension is moved into place, loaded as a new Extension
\* and started.  (Bound: when nothing goes on, and not over an old object that
\* still runs.)
Install(a) ==
  /\ At(a, "idle") /\ server = "up" /\ ~listed
  /\ AllIdle /\ ~running
  /\ listed' = TRUE
  /\ op' = [op EXCEPT ![a] = [Idle EXCEPT !.pc = "session"]]
  /\ session' = None /\ pid' = NoPid /\ timer' = "none"
  /\ UNCHANGED <<server, running, children, sessions, restarts, left, raced>>

-----------------------------------------------------------------------------
(* start, after its guard                                                  *)

\* The engine, a directory or the API version is missing: start throws before
\* anything has been done.
Refuse(a) ==
  /\ At(a, "session")
  /\ Finish(a)
  /\ UNCHANGED <<server, listed, member, children, sessions, restarts, left, raced>>

CreateSession(a) ==
  /\ At(a, "session")
  /\ Sessions \ sessions # {}
  /\ LET s == CHOOSE s \in Sessions \ sessions : TRUE
     IN session' = s /\ sessions' = sessions \cup {s}
  /\ Goto(a, "fork")
  /\ UNCHANGED <<server, listed, running, pid, timer, children, restarts, left, raced>>

\* createProcess: a log file cannot be opened, or fork fails; both exceptions
\* leave the session behind.
Fork(a) ==
  /\ At(a, "fork")
  /\ \/ \E p \in Pids \ (alive \cup exited \cup {op[b].child : b \in Actors}) :
          /\ pid' = p /\ alive' = alive \cup {p}
          /\ Goto(a, "mark")
          /\ UNCHANGED left
     \/ /\ pid' \in {pid, ForkFailed}
        /\ Finish(a)
        /\ left' = IF raced THEN left ELSE left \cup {session}
        /\ UNCHANGED alive
  /\ UNCHANGED <<server, listed, running, session, timer, exited, signalled, sessions,
                 restarts, raced>>

Mark(a) ==
  /\ At(a, "mark")
  /\ running' = TRUE
  /\ Goto(a, "monitor")
  /\ UNCHANGED <<server, listed, session, pid, timer, children, sessions, restarts, left,
                 raced>>

\* Mutant: the timer is created but never started.
MonitorNot(a) ==
  /\ At(a, "monitor")
  /\ timer' = "none"
  /\ Finish(a)
  /\ UNCHANGED <<server, listed, running, session, pid, children, sessions, restarts, left,
                 raced>>

\* A new timer replaces the one of an earlier run.
Monitor(a) ==
  /\ At(a, "monitor")
  /\ timer' = "armed"
  /\ Finish(a)
  /\ UNCHANGED <<server, listed, running, session, pid, children, sessions, restarts, left,
                 raced>>

-----------------------------------------------------------------------------
(* stop, after its guard, and onStopped                                    *)

\* The children waitpid looks at: one, or any if pid is 0 or -1.
Awaited(p) == IF p \in Pids THEN {p} ELSE Pids
Reaped(a)  == op' = [op EXCEPT ![a] = [pc |-> "logout", then |-> op[a].then, child |-> NoPid]]

\* Mutant: the result of kill is not looked at.
KillUnchecked(a) ==
  /\ At(a, "kill")
  /\ signalled' = signalled \cup {pid}
  /\ Goto(a, "waitpid")
  /\ UNCHANGED <<server, listed, member, alive, exited, sessions, restarts, left, raced>>

\* terminateProcess, kill(pid, SIGTERM): fails if the child was waited for.
\* Between the resets of onStopped pid is 0 while running is still set, and the
\* signal goes to the application's own process group; after a failed fork it
\* goes to every process.  Nothing is modelled after that.
Kill(a) ==
  /\ At(a, "kill")
  /\ IF pid \in {NoPid, ForkFailed}
       THEN server' = "gone" /\ UNCHANGED <<op, signalled>>
       ELSE /\ UNCHANGED server
            /\ signalled' = signalled \cup ({pid} \cap alive)
            /\ IF pid \in alive \cup exited THEN Goto(a, "waitpid") ELSE Finish(a)
  /\ UNCHANGED <<listed, member, alive, exited, sessions, restarts, left, raced>>

\* waitpid(pid) reads the member again: it may have been reset or be another
\* child's by now.
CallWaitpid(a) ==
  /\ At(a, "waitpid")
  /\ op' = [op EXCEPT ![a] = [pc |-> "wait", then |-> op[a].then, child |-> pid]]
  /\ UNCHANGED <<server, listed, member, children, sessions, restarts, left, raced>>

\* Mutant: a failing waitpid is repeated.
WaitAgain(a) ==
  /\ At(a, "wait")
  /\ \E p \in Awaited(op[a].child) \cap exited : exited' = exited \ {p}
  /\ Reaped(a)
  /\ UNCHANGED <<server, listed, member, alive, signalled, sessions, restarts, left, raced>>

\* It blocks until the child has exited, and fails if somebody else has waited
\* for it; then stop returns false and its caller gives up.
Wait(a) ==
  /\ At(a, "wait")
  /\ \/ /\ \E p \in Awaited(op[a].child) \cap exited : exited' = exited \ {p}
        /\ Reaped(a)
     \/ /\ Awaited(op[a].child) \cap (alive \cup exited) = {}
        /\ Finish(a)
        /\ UNCHANGED exited
  /\ UNCHANGED <<server, listed, member, alive, signalled, sessions, restarts, left, raced>>

\* Mutant: the session is forgotten without a logout.
LogoutNot(a) ==
  /\ At(a, "logout")
  /\ session' = None
  /\ pid' = NoPid
  /\ Goto(a, "clear")
  /\ UNCHANGED <<server, listed, running, timer, children, sessions, restarts, left, raced>>

\* onStopped: logs the session out, forgets it and resets the process id ...
Logout(a) ==
  /\ At(a, "logout")
  /\ sessions' = sessions \ {session} /\ left' = left \ {session}
  /\ session' = None
  /\ pid' = NoPid
  /\ Goto(a, "clear")
  /\ UNCHANGED <<server, listed, running, timer, children, restarts, raced>>

\* ... and the flag.  stop returns to its caller; onFailed reports the exit, and
\* onExtensionFailed queues a restart if the exit code says that the extension
\* has timed out, any other exit is only logged.
Clear(a) ==
  /\ At(a, "clear")
  /\ running' = FALSE
  /\ Stopped(a, op[a].then)
  /\ restarts' \in {restarts, restarts \/ a = Ticker}
  /\ UNCHANGED <<server, listed, session, pid, timer, children, sessions, left, raced>>

-----------------------------------------------------------------------------
(* The timer                                                               *)

\* Mutant: the timer is not scheduled again.
TickOnce ==
  /\ timer = "armed" /\ Serving
  /\ At(Ticker, "idle")
  /\ timer' = "none"
  /\ Goto(Ticker, "check")
  /\ UNCHANGED <<server, listed, running, session, pid, children, sessions, restarts, left,
                 raced>>

\* Timer::tick: a callback that has begun is not stopped by a later cancel.
Tick ==
  /\ timer = "armed" /\ Serving
  /\ At(Ticker, "idle")
  /\ Goto(Ticker, "check")
  /\ UNCHANGED <<server, listed, member, children, sessions, restarts, left, raced>>

\* checkRunningState: waitpid with WNOHANG returns 0 as long as the child runs,
\* the pid of an exited child, or -1 if it was waited for, which counts as an
\* exit.
Check ==
  /\ At(Ticker, "check")
  /\ \/ /\ \E p \in exited \cap Awaited(pid) : exited' = exited \ {p}
        /\ Goto(Ticker, "cancel")
        /\ raced' = (raced \/ Stopping(Ticker))
     \/ /\ Awaited(pid) \cap (alive \cup exited) = {}
        /\ Goto(Ticker, "cancel")
        /\ raced' = (raced \/ Stopping(Ticker))
        /\ UNCHANGED exited
     \/ /\ Awaited(pid) \cap exited = {} /\ Awaited(pid) \cap alive # {}
        /\ Finish(Ticker)
        /\ UNCHANGED <<exited, raced>>
  /\ UNCHANGED <<server, listed, member, alive, signalled, sessions, restarts, left>>

\* onFailed cancels the timer and goes through onStopped.
Cancel ==
  /\ At(Ticker, "cancel")
  /\ timer' = "cancelled"
  /\ Goto(Ticker, "logout")
  /\ UNCHANGED <<server, listed, running, session, pid, children, sessions, restarts, left,
                 raced>>

\* The queued task looks the extension up again and starts it.
RestartTask(a) ==
  /\ restarts /\ Serving
  /\ At(a, "idle")
  /\ restarts' = FALSE
  /\ IF listed THEN BeginStart(a) ELSE UNCHANGED <<op, raced>>
  /\ UNCHANGED <<server, listed, member, children, sessions, left>>

-----------------------------------------------------------------------------
(* The server and the operating system                                     *)

\* WebServerManager::start fires Started: the extensions are loaded and started
\* while requests are being served already.
StartServer ==
  /\ server = "down"
  /\ At(Main, "idle")
  /\ server' = "up"
  /\ listed' = TRUE
  /\ op' = [op EXCEPT ![Main].pc = "session"]
  /\ UNCHANGED <<member, children, sessions, restarts, left, raced>>

\* WebServerManager::stop fires Stopping: the manager stops the extensions.
StopServer ==
  /\ server = "up"
  /\ At(Main, "idle")
  /\ server' = IF listed /\ NoTimer THEN "gone" ELSE "stopping"
  /\ IF listed /\ ~NoTimer THEN BeginStop(Main, "stop") ELSE UNCHANGED <<op, timer, raced>>
  /\ UNCHANGED <<listed, running, session, pid, children, sessions, restarts, left>>

\* Then the endpoints stop listening, and the sockets are disconnected.
StopListening ==
  /\ server = "stopping"
  /\ At(Main, "idle")
  /\ server' = "closing"
  /\ UNCHANGED <<listed, member, children, sessions, restarts, op, left, raced>>

\* The io services are stopped: nothing new begins.
StopThreads ==
  /\ server = "closing"
  /\ server' = "joining"
  /\ UNCHANGED <<listed, member, children, sessions, restarts, op, left, raced>>

\* The threads are joined and Stopped is fired: the manager drops the
\* extensions, WebUserManager the sessions.  A queued task survives.
JoinThreads ==
  /\ server = "joining"
  /\ AllIdle
  /\ server' = "down"
  /\ listed' = FALSE
  /\ running' = FALSE /\ session' = None /\ pid' = NoPid /\ timer' = "none"
  /\ sessions' = {} /\ left' = {}
  /\ UNCHANGED <<children, restarts, op, raced>>

Exit(p) ==
  /\ p \in alive
  /\ alive' = alive \ {p} /\ exited' = exited \cup {p} /\ signalled' = signalled \ {p}
  /\ UNCHANGED <<server, listed, member, sessions, restarts, op, left, raced>>

Continue(a) == \/ Refuse(a) \/ CreateSession(a) \/ Fork(a) \/ Mark(a) \/ Monitor(a)
               \/ Kill(a) \/ CallWaitpid(a) \/ Wait(a) \/ Logout(a) \/ Clear(a)
               \/ Unlist(a) \/ StartAgain(a)

Live == \/ \E a \in Threads : RequestStart(a) \/ RequestStop(a) \/ Install(a) \/ RestartTask(a)
        \/ \E a \in Actors : Continue(a)
        \/ Tick \/ Check \/ Cancel
        \/ StartServer \/ StopServer \/ StopListening \/ StopThreads \/ JoinThreads

Next == server # "gone" /\ (Live \/ \E p \in Pids : Exit(p))

\* Threads carry on with what they have begun, the timer keeps firing, and a
\* child that was sent SIGTERM exits.
Fairness == /\ \A a \in Actors : WF_vars(server # "gone" /\ Continue(a))
            /\ WF_vars(server # "gone" /\ (Tick \/ Check \/ Cancel))
            /\ \A p \in Pids : WF_vars(server # "gone" /\ p \in signalled /\ Exit(p))

Spec == Init /\ [][Next]_vars
FairSpec == Spec /\ Fairness

-----------------------------------------------------------------------------
(* Between requests the members, the session list and the processes agree: *)
(* a running extension has one child, one session and an armed timer; one  *)
(* that is not running has none of them, and neither has a stopped server. *)
(* A start that fails, for want of a log file or of a process, leaves its  *)
(* session and nothing else: no child, no mark, no timer, and the next     *)
(* start and stop are as good as ever.  This holds until two operations    *)
(* overlap: a start with another start, with a stop, a removal or the      *)
(* timer's callback, a stop with another stop or the report of an exit.    *)
Agrees ==
  (~raced /\ AllIdle /\ server \in {"up", "down"}) =>
    IF running
      THEN /\ alive \cup exited = {pid}
           /\ session \in Sessions \ left /\ sessions = left \cup {session}
           /\ timer = "armed"
      ELSE /\ alive \cup exited = {}
           /\ session \in left \cup {None} /\ sessions = left
           /\ timer # "armed"

(* Whatever overlaps, an extension that is marked running is being watched: *)
(* its timer is armed, or a thread is about to arm it or to find that the  *)
(* process is gone.  A stop that fails leaves the extension marked running *)
(* with a cancelled timer; it must be somebody else who clears the mark.   *)
Watcher(a) == \/ op[a].pc \in {"monitor", "cancel", "kill", "logout", "clear"}
              \/ At(a, "waitpid") /\ Awaited(pid) \cap (alive \cup exited) # {}
              \/ At(a, "wait") /\ Awaited(op[a].child) \cap (alive \cup exited) # {}
Watched == running => timer = "armed" \/ \E a \in Actors : Watcher(a)

(* "Stop the extension and wait until it's not running anymore" (Extension *)
(* .h:52): a thread that stops the extension comes back.                   *)
StopEnds ==
  \A a \in Threads \cup {Main} : (op[a].pc \in InStop) ~> (op[a].pc \notin InStop \/ server = "gone")

(* What is left of it whatever overlaps: the thread comes back, and does   *)
(* not wait for a child that another thread has waited for, unless it      *)
(* waits for one that nobody has told to exit, which a start has put in    *)
(* the place of the one that was.                                          *)
Stranded(a) == At(a, "wait") /\ Awaited(op[a].child) \cap (alive \ signalled) # {}
StopReturns ==
  \A a \in Threads \cup {Main} :
    (op[a].pc \in InStop) ~> (op[a].pc \notin InStop \/ Stranded(a) \/ server = "gone")

(* An extension whose process has exited does not stay marked running.     *)
ExitNoticed ==
  (running /\ pid \in exited) ~> (~running \/ pid \notin exited \/ server # "up")
=============================================================================
