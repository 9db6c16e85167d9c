--------------------------- MODULE EntityModules ---------------------------
(***************************************************************************)
(* How one session mirrors entities of the application: search instances   *)
(* (SearchApi), hubs (HubApi), private chats and filelists (PrivateChatApi *)
(* and FilelistApi, which do the same) and share roots (ShareRootApi).     *)
(*                                                                         *)
(* The API module is constructed by the first request that needs it: it    *)
(* copies the entities there are and registers as a listener, in an order  *)
(* that differs between the modules.  Events then add and remove           *)
(* submodules in the thread that fires them or, for hubs, in tasks.  The   *)
(* client subscribes, asks for the list and follows the events.  When the  *)
(* session ends the module is destroyed with everything in it.             *)
(*                                                                         *)
(* The managers that own the entities belong to the application.  They     *)
(* change their list first and fire the event later; a speaker fires one   *)
(* event at a time, in order, and locks its listeners meanwhile.           *)
(***************************************************************************)
EXTENDS Naturals, Sequences, FiniteSets

CONSTANTS Entities,     \* entities the application may ever have
          CIDs, CIDOf,  \* the users whose chats or filelists these are
          TaskThreads,  \* threads that run the server's tasks
          Kinds,        \* the modules explored
          MaxEvents,    \* bound: events that were not fired yet
          None

Api    == "api"    \* the thread that constructs and destroys the module
Host   == "host"   \* the thread that fires an event
Actors == TaskThreads \cup {Api, Host}

ASSUME EntityModulesAssumption == /\ CIDOf \in [Entities -> CIDs]
                                  /\ Kinds \subseteq {"search", "hub", "chat", "roots"}
                                  /\ TaskThreads \cap {Api, Host} = {}
                                  /\ None \notin Entities

VARIABLES kind,        \* which module this is
          session,     \* the session is registered
          api,         \* how far the module is constructed or destroyed
          todo,        \* entities the constructor has copied and not added yet
          listening,   \* the module is a listener of the manager
          modules,     \* entities that have a submodule in the map
          twice,       \* share roots that are in the list a second time
          registered,  \* submodules that listen to their entity
          tasks,       \* hub events queued as tasks
          work,        \* a submodule that has queued a task of its own
          op,          \* where each actor is
          subscribed,  \* how the client follows the entities
          client,      \* what the client believes to exist
          list,        \* the list on its way to the client
          entities,    \* entities of the application
          used,        \* entities there have been
          events,      \* changes whose event was not fired yet
          missed,      \* history: an event was missed, ignored, overtaken or told twice
          overtaken    \* history: removals that were told while the list was on its way

vars == <<kind, session, api, todo, listening, modules, twice, registered, tasks, work, op,
          subscribed, client, list, entities, used, events, missed, overtaken>>

host  == <<entities, used, events>>
built == <<session, api, todo, listening>>
placed == <<modules, twice>>
follower == <<subscribed, client, list, overtaken>>

\* Chats and filelists are found by the user's CID, the others by a token of
\* their own.
Key(e) == IF kind = "chat" THEN CIDOf[e] ELSE e
CopiesFirst == kind \in {"search", "roots"}

Idle  == [pc |-> "idle", e |-> None, kept |-> FALSE]
Event == [ev : {"created", "removed"}, e : Entities]
Pcs   == {"idle", "emplace", "init", "announce", "erase", "retract"}
OpType == [pc : Pcs, e : Entities \cup {None}, kept : BOOLEAN]

TypeOK ==
  /\ kind \in Kinds /\ session \in BOOLEAN
  /\ api \in {"absent", "copy", "adding", "ready", "leaving", "gone", "crashed"}
  /\ todo \subseteq Entities
  /\ listening \in BOOLEAN
  /\ modules \subseteq Entities
  /\ twice \subseteq modules /\ \A e, f \in modules : Key(e) = Key(f) => e = f
  /\ registered \subseteq Entities
  /\ tasks \in Seq(Event)
  /\ work \in Entities \cup {None}
  /\ op \in [Actors -> OpType]
  /\ subscribed \in {"no", "events", "listing", "listed", "view"}
  /\ client \subseteq Entities \cup CIDs /\ list \subseteq Entities \cup CIDs
  /\ overtaken \subseteq Entities \cup CIDs
  /\ entities \subseteq used /\ used \subseteq Entities
  /\ events \in Seq(Event)
  /\ missed \in BOOLEAN

Init ==
  /\ kind \in Kinds
  /\ session = TRUE
  /\ api = "absent" /\ todo = {} /\ listening = FALSE
  /\ modules = {} /\ twice = {} /\ registered = {}
  /\ tasks = <<>> /\ work = None
  /\ op = [a \in Actors |-> Idle]
  /\ subscribed = "no" /\ client = {} /\ list = {} /\ overtaken = {}
  /\ entities = {} /\ used = {}
  /\ events = <<>>
  /\ missed = FALSE

-----------------------------------------------------------------------------
At(a, pc)       == op[a].pc = pc
Goto(a, pc)     == op' = [op EXCEPT ![a].pc = pc]
Finish(a)       == op' = [op EXCEPT ![a] = Idle]
Begin(a, pc, e) == op' = [op EXCEPT ![a] = [pc |-> pc, e |-> e, kept |-> FALSE]]

\* Entities an actor is about to add, and those the constructor has copied.
Adding(a)   == IF op[a].pc \in {"emplace", "init", "announce"} THEN {op[a].e} ELSE {}
Unplaced(a) == IF At(a, "emplace") THEN {op[a].e} ELSE {}
Copied      == todo \cup modules \cup Adding(Api)

(* The application                                                         *)

\* HubApi's constructor holds the lock of ClientManager's list while it adds.
ListLocked == kind = "hub" /\ api = "adding"

\* By a request (a search, a message, a browsed user) or by the application.
HostCreate(e) ==
  /\ e \notin used /\ Len(events) < MaxEvents /\ ~ListLocked
  /\ \A f \in entities : Key(f) # Key(e)
  /\ entities' = entities \cup {e}
  /\ used' = used \cup {e}
  /\ events' = Append(events, [ev |-> "created", e |-> e])
  /\ UNCHANGED <<kind, built, placed, registered, tasks, work, op, follower, missed>>

\* By a request (handleDeleteSubmodule), by expiration or by the user.
HostRemove(e) ==
  /\ e \in entities /\ Len(events) < MaxEvents /\ ~ListLocked
  /\ entities' = entities \ {e}
  /\ events' = Append(events, [ev |-> "removed", e |-> e])
  /\ UNCHANGED <<kind, built, placed, registered, tasks, work, op, follower, used,
                 missed>>

\* The event of a change reaches the module: the handlers of hubs queue a task,
\* the others begin at once.  RootCreated looks the root up again and stores a
\* null pointer if it is gone; RootRemoved returns early if nobody listens.
Handle(ev, e) ==
  CASE kind = "hub" ->
         tasks' = Append(tasks, [ev |-> ev, e |-> e]) /\ UNCHANGED <<op, api, missed>>
    [] kind = "roots" /\ ev = "created" /\ e \notin entities ->
         api' = "crashed" /\ UNCHANGED <<op, tasks, missed>>
    [] kind = "roots" /\ ev = "removed" /\ subscribed = "no" ->
         missed' = TRUE /\ UNCHANGED <<op, tasks, api>>
    [] OTHER ->
         Begin(Host, IF ev = "created" THEN "emplace" ELSE "erase", e) /\ UNCHANGED <<tasks, api, missed>>

\* Before the module listens the event is lost, which matters if the
\* constructor's copy is older than the change.
Fire ==
  /\ events # <<>> /\ At(Host, "idle")
  /\ events' = Tail(events)
  /\ LET ev == Head(events).ev
         e  == Head(events).e
     IN IF listening
          THEN Handle(ev, e)
          ELSE /\ missed' = (missed \/ (api = "adding" /\ (ev = "created") = (e \notin Copied)))
               /\ UNCHANGED <<op, tasks, api>>
  /\ UNCHANGED <<kind, session, todo, listening, placed, registered, work, follower,
                 entities, used>>

-----------------------------------------------------------------------------
(* Construction                                                            *)

\* addListener waits for an event that is being fired.
Listen == At(Host, "idle") /\ listening' = TRUE

Construct ==
  /\ api = "absent" /\ session
  /\ IF CopiesFirst
       THEN /\ api' = "adding"
            /\ IF kind = "roots" THEN modules' = entities /\ UNCHANGED todo
                                 ELSE todo' = entities /\ UNCHANGED modules
            /\ UNCHANGED <<listening, twice>>
       ELSE /\ Listen
            /\ api' = "copy"
            /\ UNCHANGED <<todo, placed>>
  /\ UNCHANGED <<kind, session, registered, tasks, work, op, follower, host, missed>>

Copy ==
  /\ api = "copy"
  /\ todo' = entities
  /\ api' = "adding"
  /\ UNCHANGED <<kind, session, listening, placed, registered, tasks, work, op, follower,
                 host, missed>>

AddNext(e) ==
  /\ api = "adding" /\ At(Api, "idle") /\ e \in todo
  /\ todo' = todo \ {e}
  /\ Begin(Api, "emplace", e)
  /\ UNCHANGED <<kind, session, api, listening, placed, registered, tasks, work, follower,
                 host, missed>>

\* Mutant: the constructor does not register.
ConstructedDeaf ==
  /\ api = "adding" /\ At(Api, "idle") /\ todo = {}
  /\ api' = "ready"
  /\ UNCHANGED <<kind, session, listening, todo, placed, registered, tasks, work, op, follower,
                 host, missed>>

Constructed ==
  /\ api = "adding" /\ At(Api, "idle") /\ todo = {}
  /\ IF CopiesFirst THEN Listen ELSE UNCHANGED listening
  /\ api' = "ready"
  /\ UNCHANGED <<kind, session, todo, placed, registered, tasks, work, op, follower, host,
                 missed>>

-----------------------------------------------------------------------------
(* Submodules: addSubModule and removeSubModule                            *)

\* Mutant: the map keeps both.
EmplaceBoth(a) ==
  /\ At(a, "emplace")
  /\ modules' = modules \cup {op[a].e}
  /\ op' = [op EXCEPT ![a] = [pc |-> IF kind = "roots" THEN "announce" ELSE "init",
                              e |-> op[a].e, kept |-> TRUE]]
  /\ UNCHANGED <<kind, built, twice, registered, tasks, work, follower, host, missed>>

\* map::emplace keeps a module that is there already; the list of share roots
\* takes one again.
Emplace(a) ==
  LET taken == \E f \in modules : Key(f) = Key(op[a].e)
  IN /\ At(a, "emplace")
     /\ modules' = IF taken THEN modules ELSE modules \cup {op[a].e}
     /\ op' = [op EXCEPT ![a] = [pc |-> IF kind = "roots" THEN "announce" ELSE "init",
                                 e |-> op[a].e, kept |-> ~taken]]
     /\ twice' = IF kind = "roots" /\ taken THEN twice \cup {op[a].e} ELSE twice
     /\ missed' = (missed \/ (kind = "roots" /\ taken))
     /\ UNCHANGED <<kind, built, registered, tasks, work, follower, host>>

\* init registers the submodule; one that is not in the map is destroyed when
\* addSubModule returns, which undoes it.
InitModule(a) ==
  /\ At(a, "init")
  /\ registered' = IF op[a].kept THEN registered \cup {op[a].e} ELSE registered
  /\ IF a = Api THEN Finish(a) ELSE Goto(a, "announce")
  /\ UNCHANGED <<kind, built, placed, tasks, work, follower, host, missed>>

\* Mutant: the destructor leaves the submodule registered.
EraseLeaks(a) ==
  /\ At(a, "erase")
  /\ modules' = {f \in modules : Key(f) # Key(op[a].e)}
  /\ missed' = (missed \/ op[a].e \in todo \cup Unplaced(Api))
  /\ Goto(a, "retract")
  /\ UNCHANGED <<kind, built, twice, registered, tasks, work, follower, host>>

\* The submodule is destroyed, unless another actor is initialising it: then it
\* goes when that returns.  An entity the constructor has copied and not added
\* comes back.  The handler of a share root returns if it does not find it.
Erase(a) ==
  LET gone == {f \in modules \ twice : Key(f) = Key(op[a].e)}
      told == IF kind = "roots" /\ op[a].e \notin modules THEN Idle
              ELSE [op[a] EXCEPT !.pc = "retract"]
  IN /\ At(a, "erase")
     /\ modules' = modules \ gone
     /\ twice' = twice \ {op[a].e}
     /\ registered' = registered \ gone
     /\ op' = [b \in Actors |-> IF b = a THEN told ELSE IF At(b, "init") /\ op[b].e \in gone
                                THEN [op[b] EXCEPT !.kept = FALSE] ELSE op[b]]
     /\ missed' = (missed \/ op[a].e \in todo \cup Unplaced(Api))
     /\ UNCHANGED <<kind, built, tasks, work, follower, host>>

Announce(a) ==
  /\ At(a, "announce")
  /\ client' = IF subscribed = "no" THEN client ELSE client \cup {Key(op[a].e)}
  /\ overtaken' = overtaken \ {Key(op[a].e)}
  /\ Finish(a)
  /\ UNCHANGED <<kind, built, placed, registered, tasks, work, subscribed, list, host, missed>>

\* Mutant: the removal is not told.
RetractNot(a) ==
  /\ At(a, "retract")
  /\ Finish(a)
  /\ UNCHANGED <<kind, built, placed, registered, tasks, work, follower, host, missed>>

\* share_root_removed is serialized from a null pointer.
Retract(a) ==
  /\ At(a, "retract")
  /\ IF kind = "roots" /\ subscribed \notin {"no", "view"}
       THEN api' = "crashed" /\ UNCHANGED <<client, overtaken>>
       ELSE /\ client' = IF subscribed = "no" THEN client ELSE client \ {Key(op[a].e)}
            /\ overtaken' = IF Key(op[a].e) \in list THEN overtaken \cup {Key(op[a].e)}
                                                    ELSE overtaken \ {Key(op[a].e)}
            /\ UNCHANGED api
  /\ Finish(a)
  /\ UNCHANGED <<kind, session, todo, listening, placed, registered, tasks, work, subscribed, list,
                 host, missed>>

\* Mutant: the session is not looked up.
TakeAnyway(t) ==
  /\ tasks # <<>> /\ At(t, "idle")
  /\ tasks' = Tail(tasks)
  /\ LET task == Head(tasks)
     IN /\ Begin(t, IF task.ev = "created" THEN "emplace" ELSE "erase", task.e)
        /\ missed' = (missed \/ \E b \in TaskThreads : task.e \in Adding(b))
  /\ UNCHANGED <<kind, built, placed, registered, work, follower, host>>

\* Mutant: the handler of an event that nobody subscribes to returns too early.
TakeSubscribed(t) ==
  /\ tasks # <<>> /\ At(t, "idle")
  /\ tasks' = Tail(tasks)
  /\ LET task == Head(tasks)
     IN IF session /\ subscribed # "no"
          THEN /\ Begin(t, IF task.ev = "created" THEN "emplace" ELSE "erase", task.e)
               /\ missed' = (missed \/ \E b \in TaskThreads : task.e \in Adding(b))
          ELSE UNCHANGED <<op, missed>>
  /\ UNCHANGED <<kind, built, placed, registered, work, follower, host>>

\* A hub task runs if the session is still registered, which it then holds.  It
\* may overtake the task that adds the same hub.
Take(t) ==
  /\ tasks # <<>> /\ At(t, "idle")
  /\ tasks' = Tail(tasks)
  /\ LET task == Head(tasks)
     IN IF session
          THEN /\ Begin(t, IF task.ev = "created" THEN "emplace" ELSE "erase", task.e)
               /\ missed' = (missed \/ \E b \in TaskThreads : task.e \in Adding(b))
          ELSE UNCHANGED <<op, missed>>
  /\ UNCHANGED <<kind, built, placed, registered, work, follower, host>>

\* A submodule queues a task of its own (a filelist's list task, a hub's timer)
\* and the wrapper runs it if a submodule of this id exists.
QueueWork(e) ==
  /\ work = None /\ kind \in {"hub", "chat"} /\ e \in registered
  /\ work' = e
  /\ UNCHANGED <<kind, built, placed, registered, tasks, op, follower, host, missed>>

RunWork ==
  /\ work # None
  /\ work' = None
  /\ UNCHANGED <<kind, built, placed, registered, tasks, op, follower, host, missed>>

-----------------------------------------------------------------------------
(* The client, and the end of the session                                  *)

\* The client subscribes, and is sent the events from now on.
Subscribe ==
  /\ api = "ready" /\ session /\ subscribed = "no"
  /\ subscribed' = "events"
  /\ UNCHANGED <<kind, built, placed, registered, tasks, work, op, client, list, host, missed,
                 overtaken>>

\* It asks for the list: of the submodules, copied under the lock of the map, or
\* of the share manager's roots.
GetList ==
  /\ api = "ready" /\ session /\ subscribed = "events"
  /\ list' = IF kind = "roots" THEN entities ELSE {Key(e) : e \in modules}
  /\ subscribed' = "listing"
  /\ UNCHANGED <<kind, built, placed, registered, tasks, work, op, client, host, missed, overtaken>>

\* The response arrives, after what other threads have sent since the list was
\* copied; the client adds it to what it was told.
Deliver ==
  /\ subscribed = "listing"
  /\ client' = client \cup list /\ list' = {}
  /\ subscribed' = "listed"
  /\ UNCHANGED <<kind, built, placed, registered, tasks, work, op, host, missed, overtaken>>

\* A list view shows the share roots of the module's own list.  It takes events
\* before it copies the list and carries them out after that, so that none is
\* overtaken.
OpenView ==
  /\ kind = "roots" /\ api = "ready" /\ session /\ subscribed = "no"
  /\ subscribed' = "view"
  /\ client' = modules
  /\ UNCHANGED <<kind, built, placed, registered, tasks, work, op, list, host, missed, overtaken>>

\* The socket disconnects, which ends the subscriptions and the view.
Disconnect ==
  /\ subscribed # "no" /\ session
  /\ subscribed' = "no"
  /\ client' = {} /\ list' = {} /\ overtaken' = {}
  /\ UNCHANGED <<kind, built, placed, registered, tasks, work, op, host, missed>>

EndSession ==
  /\ session
  /\ session' = FALSE
  /\ UNCHANGED <<kind, api, todo, listening, placed, registered, tasks, work, op, follower, host,
                 missed>>

\* The last reference goes when no task runs and no request is answered, and
\* removeListener waits for an event that is being fired.
Unlisten ==
  /\ ~session /\ api = "ready" /\ subscribed # "listing"
  /\ \A a \in TaskThreads \cup {Host} : At(a, "idle")
  /\ listening' = FALSE
  /\ api' = "leaving"
  /\ UNCHANGED <<kind, session, todo, placed, registered, tasks, work, op, follower, host,
                 missed>>

\* The submodules are destroyed.  The search instances this session owns are
\* removed from the application too, which nobody here is told of any more.
Destroy ==
  /\ api = "leaving"
  /\ api' = "gone"
  /\ modules' = {} /\ twice' = {} /\ registered' = {} /\ client' = {} /\ overtaken' = {}
  /\ UNCHANGED <<kind, session, todo, listening, tasks, work, op, subscribed, list, host, missed>>

-----------------------------------------------------------------------------
Step(a) == Emplace(a) \/ InitModule(a) \/ Erase(a) \/ Announce(a) \/ Retract(a)

Building == Construct \/ Copy \/ (\E e \in Entities : AddNext(e)) \/ Constructed

Next == /\ api # "crashed"
        /\ \/ \E e \in Entities : HostCreate(e) \/ HostRemove(e) \/ QueueWork(e)
           \/ Fire
           \/ Building
           \/ \E a \in Actors : Step(a)
           \/ \E t \in TaskThreads : Take(t)
           \/ RunWork
           \/ Subscribe \/ GetList \/ Deliver \/ OpenView \/ Disconnect
           \/ EndSession \/ Unlisten \/ Destroy

\* Events are fired, tasks are run, and what has begun goes on.
Fairness == /\ WF_vars(api # "crashed" /\ Fire)
            /\ \A a \in Actors : WF_vars(api # "crashed" /\ Step(a))
            /\ WF_vars(api # "crashed" /\ \E t \in TaskThreads : Take(t))

Spec == Init /\ [][Next]_vars
FairSpec == Spec /\ Fairness

-----------------------------------------------------------------------------
Quiet == events = <<>> /\ tasks = <<>> /\ \A a \in Actors : At(a, "idle")

(* At rest a module has exactly the entities of the application, unless an *)
(* event was missed: a change between the constructor's copy and its       *)
(* registration (SearchApi, ShareRootApi); a removal between the copy and  *)
(* the adding (the chats, filelists and searches); a hub's removal task    *)
(* that overtakes the task that adds it; a share root removed while nobody *)
(* follows, or created between copy and registration and then in the list  *)
(* twice.  These are the only ways.                                        *)
Mirrors == api = "ready" /\ session /\ Quiet /\ ~missed => modules = entities

(* The same, as the client sees it, once it has the list: the list and the *)
(* messages name exactly the entities there are, and those whose removal   *)
(* was told while the list that still had them was on its way: nothing     *)
(* orders the response (HierarchicalApiModule.h:149) and the messages.     *)
ClientKnows ==
  api = "ready" /\ session /\ Quiet /\ ~missed /\ subscribed \in {"listed", "view"} =>
    client = {Key(e) : e \in entities} \cup overtaken

(* Whatever was missed, no destroyed submodule stays registered with its   *)
(* entity, and each one in the map is registered unless it is just being   *)
(* initialised.                                                            *)
RegisteredLive ==
  /\ registered \subseteq modules
  /\ kind # "roots" => \A e \in modules \ registered :
                         \E a \in Actors : At(a, "init") /\ op[a].e = e /\ op[a].kept

(* dcassert in ~ParentApiModule (HierarchicalApiModule.h:74): nobody uses  *)
(* a submodule while the module is destroyed.                              *)
NobodyInside == api = "leaving" => \A a \in Actors : At(a, "idle")

(* An entity that exists gets its submodule, unless an event was missed.   *)
GetsModule ==
  \A e \in Entities :
    (api = "ready" /\ e \in entities)
      ~> (e \in modules \/ e \notin entities \/ missed \/ api # "ready" \/ ~session)

(* Comment in SubApiModule (HierarchicalApiModule.h:234): a task runs only *)
(* as long as its own submodule exists.                                    *)
WorkIsOwn == work # None => \A f \in modules : Key(f) = Key(work) => f = work
=============================================================================
