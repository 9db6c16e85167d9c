------------------------------ MODULE ListView ------------------------------
(***************************************************************************)
(* A list view (api/common/ListViewController.h, api/common/ViewTasks.h)   *)
(* as WebUserApi uses it: the web users that the manager keeps, the tasks  *)
(* that its events queue, the timer that applies them to the view, and the *)
(* list that the client puts together from the messages of the view.       *)
(*                                                                         *)
(* Two threads take part.  One serves API requests, one at a time: those   *)
(* that add, change or remove a user and those of the view itself.  The    *)
(* other one runs the timer of the view (runTasks).  The first one changes *)
(* users at any point of a timer run; whether the view's own requests may  *)
(* arrive in the middle of one as well is the choice of the constant       *)
(* Overlap.                                                                *)
(*                                                                         *)
(* An item is a pointer to a user; a user that is added again is a new     *)
(* item.  All that the view reads of an item is one number, which serves   *)
(* as its sorted property, as what filters match and as the properties     *)
(* that are sent.  A filter is the set of the numbers it matches.          *)
(***************************************************************************)
EXTENDS Integers, FiniteSets, SequencesExt

CONSTANTS Items,        \* pointers, in the order std::map and std::set keep them
          Keys,         \* property values of an item
          Filters,      \* filters that a client sets
          Posts,        \* what a client posts as settings, -1 for a missing field
          Overlap,      \* may requests of the view arrive during a timer run?
          EarlyFilter   \* may a filter be set while the view is inactive?

ASSUME ListViewAssumption ==
  /\ Items \subseteq Nat /\ IsFiniteSet(Items)
  /\ Keys \subseteq Nat /\ Keys # {}
  /\ Filters \subseteq SUBSET Keys
  /\ Posts \subseteq [{"sort", "asc", "start", "max", "paused"} -> Nat \cup {-1}]
  /\ Overlap \in BOOLEAN /\ EarlyFilter \in BOOLEAN

VARIABLES users,     \* items in WebUserManager::users
          seen,      \* items that have existed so far
          key,       \* current property value of each item
          active,    \* ListViewController::active
          running,   \* Timer::running
          tasks,     \* ItemTasks::tasks: what is queued for each item
          resort,    \* ItemTasks::updatedProperties has the sort property
          source,    \* sourceItems
          matching,  \* matchingItems
          viewport,  \* currentViewportItems
          filter,    \* what the dynamic filters match
          values,    \* currentValues.values
          flags,     \* currentValues.changed and itemListChanged
          prev,      \* sort settings in prevValues, and the counts last sent
          req,       \* request thread: its position and what it works on
          run,       \* timer thread: its position and runTasks' locals
          client,    \* what the client shows and the properties it knows
          filtered,  \* history: have the filters changed since the view was reset?
          dropped    \* history: were tasks dropped unhandled since then?

owner == <<users, seen, key>>
history == <<filtered, dropped>>
lists == <<source, matching, viewport>>
vars  == <<owner, active, running, tasks, resort, lists, filter, values, flags,
           prev, req, run, client, history>>

Unknown  == -1
NoFilter == Keys
Settings == {"sort", "asc", "start", "max"}
Unset    == [f \in Settings |-> -1]

TaskRank == [none |-> 0, update |-> 1, add |-> 2, remove |-> 3]
NoTasks  == [i \in Items |-> "none"]
Queued   == {i \in Items : tasks[i] # "none"}

Nothing == [i \in Items |-> Unknown]

IdleReq == [pc |-> "idle", item |-> 0, copy |-> <<>>]
IdleRun == [pc |-> "idle", tasks |-> NoTasks, resort |-> FALSE, values |-> Unset,
            start |-> -1, updated |-> {}, next |-> <<>>, sent |-> FALSE,
            described |-> Nothing]

\* Positions of the request thread in a request that changes the view's lists.
ViewRequest == {"activate", "init", "start", "match", "swap", "clear", "reset"}

OptionalNat == Nat \cup {-1}

Requests ==
  [pc : {"idle", "add", "update", "remove"} \cup ViewRequest,
   item : Nat, copy : Seq(Items)]

Runs ==
  [pc : {"idle", "values", "sort", "tasks", "publish", "send"},
   tasks : [Items -> DOMAIN TaskRank], resort : BOOLEAN,
   values : [Settings -> OptionalNat], start : OptionalNat,
   updated : SUBSET Items, next : Seq(Items), sent : BOOLEAN,
   described : [Items -> Keys \cup {Unknown}]]

TypeOK ==
  /\ users \subseteq seen /\ seen \subseteq Items
  /\ key \in [Items -> Keys]
  /\ active \in BOOLEAN /\ running \in BOOLEAN /\ resort \in BOOLEAN
  /\ tasks \in [Items -> DOMAIN TaskRank]
  /\ source \subseteq Items /\ matching \in Seq(Items) /\ viewport \in Seq(Items)
  /\ filter \subseteq Keys
  /\ values \in [Settings -> OptionalNat]
  /\ flags \in [values : BOOLEAN, list : BOOLEAN]
  /\ prev \in [sort : OptionalNat, asc : OptionalNat,
               matching : OptionalNat, total : OptionalNat]
  /\ req \in Requests
  /\ run \in Runs
  /\ client \in [shown : Seq(Items), start : OptionalNat,
                 known : [Items -> Keys \cup {Unknown}]]
  /\ filtered \in BOOLEAN /\ dropped \in BOOLEAN

Init ==
  /\ users = {} /\ seen = {}
  /\ key = [i \in Items |-> CHOOSE k \in Keys : TRUE]
  /\ active = FALSE /\ running = FALSE
  /\ tasks = NoTasks /\ resort = FALSE
  /\ source = {} /\ matching = <<>> /\ viewport = <<>>
  /\ filter = NoFilter
  /\ values = Unset
  /\ flags = [values |-> TRUE, list |-> FALSE]
  /\ prev = [sort |-> 0, asc |-> 0, matching |-> -1, total |-> -1]
  /\ req = IdleReq
  /\ run = IdleRun
  /\ client = [shown |-> <<>>, start |-> -1, known |-> Nothing]
  /\ filtered = FALSE /\ dropped = FALSE

-----------------------------------------------------------------------------
(* Sorting and filtering *)

\* itemSort: is i before j under the sort settings of the timer run?
Before(i, j) == IF run.values["asc"] = 1 THEN key[i] < key[j] ELSE key[i] > key[j]

Sorted(s) == \A a, b \in DOMAIN s : a < b => ~Before(s[b], s[a])

\* upper_bound: the place behind the items that x is not before.  On a list that
\* a changed property has put out of order the search may end anywhere.
Places(s, x) ==
  IF Sorted(s) THEN {1 + Cardinality({a \in DOMAIN s : ~Before(x, s[a])})}
               ELSE 1..(Len(s) + 1)

\* stable_sort: what it may turn s into.
StableSorts(s) ==
  {t \in [DOMAIN s -> ToSet(s)] :
     \E p \in [DOMAIN s -> DOMAIN s] :
       \A a, b \in DOMAIN s :
         /\ t[a] = s[p[a]]
         /\ a < b => \/ Before(t[a], t[b])
                     \/ ~Before(t[b], t[a]) /\ p[a] < p[b]}

\* The items of S in the order of std::map and std::set.
InOrder(S) == {s \in [1..Cardinality(S) -> S] : \A a, b \in DOMAIN s : a < b => s[a] < s[b]}

Matches(i) == key[i] \in filter
Least(a, b) == IF a < b THEN a ELSE b

-----------------------------------------------------------------------------
(* Users: WebUserManager changes its list and then fires the event that    *)
(* reaches onItemAdded, onItemUpdated or onItemRemoved.                    *)

\* Mutant: the task that was queued first stays.
MergeKeepsFirst(old, new) == IF old = "none" THEN new ELSE old

\* MergeTask::merge: the greater task replaces the smaller one.
Merge(old, new) == IF TaskRank[new] > TaskRank[old] THEN new ELSE old

Fire(task, i) == req' = [IdleReq EXCEPT !.pc = task, !.item = i]

AddUser(i, k) ==
  /\ req.pc = "idle" /\ i \notin seen
  /\ users' = users \cup {i}
  /\ seen' = seen \cup {i}
  /\ key' = [key EXCEPT ![i] = k]
  /\ Fire("add", i)
  /\ UNCHANGED <<active, running, tasks, resort, lists, filter, values, flags,
                 prev, run, client, history>>

UpdateUser(i, k) ==
  /\ req.pc = "idle" /\ i \in users /\ key[i] # k
  /\ key' = [key EXCEPT ![i] = k]
  /\ Fire("update", i)
  /\ UNCHANGED <<users, seen, active, running, tasks, resort, lists, filter,
                 values, flags, prev, run, client, history>>

RemoveUser(i) ==
  /\ req.pc = "idle" /\ i \in users
  /\ users' = users \ {i}
  /\ Fire("remove", i)
  /\ UNCHANGED <<seen, key, active, running, tasks, resort, lists, filter,
                 values, flags, prev, run, client, history>>

\* onItemAdded, onItemUpdated, onItemRemoved: ignored by an inactive view.
QueueTask ==
  /\ req.pc \in {"add", "update", "remove"}
  /\ IF active
     THEN /\ tasks' = [tasks EXCEPT ![req.item] = Merge(@, req.pc)]
          /\ resort' = (resort \/ req.pc = "update")
     ELSE UNCHANGED <<tasks, resort>>
  /\ req' = IdleReq
  /\ UNCHANGED <<owner, active, running, lists, filter, values, flags, prev, run,
                 client, history>>

-----------------------------------------------------------------------------
(* Requests of the view *)

MayRequest == req.pc = "idle" /\ (Overlap \/ run.pc = "idle")

\* handlePostSettings, parseProperties: only the given fields are replaced, and
\* "paused" stops or starts the timer.
PostSettings(post) ==
  /\ MayRequest
  /\ running' = CASE post.paused = 1 -> FALSE
                  [] post.paused = 0 -> TRUE
                  [] OTHER           -> running
  /\ values' = [f \in Settings |-> IF post[f] = -1 THEN values[f] ELSE post[f]]
  /\ flags' = [flags EXCEPT !.values = @ \/ \E f \in Settings : post[f] # -1]
  /\ req' = IF active THEN IdleReq ELSE [IdleReq EXCEPT !.pc = "activate"]
  /\ UNCHANGED <<owner, active, tasks, resort, lists, filter, prev, run,
                 client, history>>

SetActive ==
  /\ req.pc = "activate"
  /\ active' = TRUE
  /\ req' = [req EXCEPT !.pc = "init"]
  /\ UNCHANGED <<owner, running, tasks, resort, lists, filter, values, flags,
                 prev, run, client, history>>

InitItems ==
  /\ req.pc = "init"
  /\ matching' \in InOrder(users)
  /\ source' = source \cup users
  /\ flags' = [flags EXCEPT !.list = TRUE]
  /\ req' = [req EXCEPT !.pc = "start"]
  /\ UNCHANGED <<owner, active, running, tasks, resort, viewport, filter, values,
                 prev, run, client, history>>

StartTimer ==
  /\ req.pc = "start"
  /\ running' = TRUE
  /\ req' = IdleReq
  /\ UNCHANGED <<owner, active, tasks, resort, lists, filter, values, flags, prev,
                 run, client, history>>

\* handlePostFilter, handlePutFilter and handleDeleteFilter (NoFilter) change the
\* filter first and call onFilterUpdated then.
SetFilter(f) ==
  /\ MayRequest /\ (active \/ EarlyFilter)
  /\ f # filter
  /\ filter' = f
  /\ req' = [IdleReq EXCEPT !.pc = "match"]
  /\ filtered' = TRUE
  /\ UNCHANGED <<owner, active, running, tasks, resort, lists, values, flags,
                 prev, run, client, dropped>>

\* onFilterUpdated: copies the matching items under the read lock ...
MatchItems ==
  /\ req.pc = "match"
  /\ \E items \in InOrder({i \in source : Matches(i)}) :
       req' = [req EXCEPT !.pc = "swap", !.copy = items]
  /\ UNCHANGED <<owner, active, running, tasks, resort, lists, filter, values,
                 flags, prev, run, client, history>>

\* Mutant: the timer is not told about the new list.
SwapMatchingSilently ==
  /\ req.pc = "swap"
  /\ matching' = req.copy
  /\ req' = IdleReq
  /\ UNCHANGED <<owner, active, running, tasks, resort, source, viewport, filter,
                 values, flags, prev, run, client, history>>

\* ... and swaps them in under the write lock.
SwapMatching ==
  /\ req.pc = "swap"
  /\ matching' = req.copy
  /\ values' = [values EXCEPT !["start"] = 0]
  /\ flags' = [values |-> TRUE, list |-> TRUE]
  /\ req' = IdleReq
  /\ UNCHANGED <<owner, active, running, tasks, resort, source, viewport, filter,
                 prev, run, client, history>>

\* handleReset or SocketDisconnected call stop().
Stop ==
  /\ MayRequest /\ active
  /\ active' = FALSE
  /\ running' = FALSE
  /\ req' = [IdleReq EXCEPT !.pc = "clear"]
  /\ UNCHANGED <<owner, tasks, resort, lists, filter, values, flags, prev, run,
                 client, history>>

\* Mutant: the viewport survives the reset.
ClearKeepsViewport ==
  /\ req.pc = "clear"
  /\ tasks' = NoTasks /\ resort' = FALSE
  /\ matching' = <<>> /\ source' = {}
  /\ prev' = [prev EXCEPT !.matching = -1, !.total = -1]
  /\ filter' = NoFilter /\ filtered' = FALSE /\ dropped' = FALSE
  /\ req' = [req EXCEPT !.pc = "reset"]
  /\ UNCHANGED <<owner, active, running, viewport, values, flags, run, client>>

Clear ==
  /\ req.pc = "clear"
  /\ tasks' = NoTasks /\ resort' = FALSE
  /\ viewport' = <<>> /\ matching' = <<>> /\ source' = {}
  /\ prev' = [prev EXCEPT !.matching = -1, !.total = -1]
  /\ filter' = NoFilter /\ filtered' = FALSE /\ dropped' = FALSE
  /\ req' = [req EXCEPT !.pc = "reset"]
  /\ UNCHANGED <<owner, active, running, values, flags, run, client>>

\* currentValues.reset() leaves the changed flag alone.  The client forgets what
\* it knew when its request is answered or its socket is gone.
ResetValues ==
  /\ req.pc = "reset"
  /\ values' = Unset
  /\ client' = [shown |-> <<>>, start |-> -1, known |-> Nothing]
  /\ req' = IdleReq
  /\ UNCHANGED <<owner, active, running, tasks, resort, lists, filter, flags, prev,
                 run, history>>

-----------------------------------------------------------------------------
(* The timer: runTasks *)

\* tasks.get, and the question whether there is anything to do.
TakeTasks ==
  /\ run.pc = "idle" /\ running
  /\ Overlap \/ req.pc \notin ViewRequest
  /\ Queued # {} \/ flags.values \/ flags.list
  /\ run' = [IdleRun EXCEPT !.pc = "values", !.tasks = tasks, !.resort = resort]
  /\ tasks' = NoTasks /\ resort' = FALSE
  /\ UNCHANGED <<owner, active, running, lists, filter, values, flags, prev, req,
                 client, history>>

\* Nothing is done for a view without a sort property: the tasks are lost.
ReadValues ==
  /\ run.pc = "values"
  /\ IF values["sort"] < 0
     THEN /\ flags' = [flags EXCEPT !.values = FALSE]
          /\ run' = IdleRun
          /\ dropped' = (dropped \/ run.tasks # NoTasks)
     ELSE /\ flags' = [values |-> FALSE, list |-> FALSE]
          /\ run' = [run EXCEPT !.pc = "sort", !.values = values,
                                !.start = values["start"],
                                !.resort = \/ run.resort \/ flags.list
                                           \/ prev.asc # values["asc"]
                                           \/ prev.sort # values["sort"]]
          /\ UNCHANGED dropped
  /\ UNCHANGED <<owner, active, running, tasks, resort, lists, filter, values,
                 prev, req, client, filtered>>

MaybeSort ==
  /\ run.pc = "sort"
  /\ IF run.resort THEN matching' \in StableSorts(matching) ELSE UNCHANGED matching
  /\ run' = [run EXCEPT !.pc = "tasks"]
  /\ UNCHANGED <<owner, active, running, tasks, resort, source, viewport, filter,
                 values, flags, prev, req, client, history>>

Done(i) == [run EXCEPT !.tasks[i] = "none"]

\* addMatchingItemUnsafe: an item added before the range moves the range.
AddMatching(i, then) ==
  \E place \in Places(matching, i) :
    /\ matching' = InsertAt(matching, place, i)
    /\ run' = [then EXCEPT !.start = IF place - 1 < @ THEN @ + 1 ELSE @]

\* Mutant: the range moves even when the client has posted none.
RemoveMatchingUnset(i, then) ==
  IF i \in ToSet(matching)
  THEN \E place \in DOMAIN matching :
         /\ matching[place] = i
         /\ \A a \in DOMAIN matching : a < place => matching[a] # i
         /\ matching' = RemoveAt(matching, place)
         /\ run' = [then EXCEPT !.start = IF place - 1 > @ THEN @ - 1 ELSE @]
  ELSE UNCHANGED matching /\ run' = then

\* removeMatchingItemUnsafe: the range moves for an item behind it.
RemoveMatching(i, then) ==
  IF i \in ToSet(matching)
  THEN \E place \in DOMAIN matching :
         /\ matching[place] = i
         /\ \A a \in DOMAIN matching : a < place => matching[a] # i
         /\ matching' = RemoveAt(matching, place)
         /\ run' = [then EXCEPT !.start = IF @ > 0 /\ place - 1 > @ THEN @ - 1 ELSE @]
  ELSE UNCHANGED matching /\ run' = then

HandleAdd(i) ==
  /\ run.tasks[i] = "add"
  /\ source' = source \cup {i}
  /\ IF Matches(i)
     THEN AddMatching(i, Done(i))
     ELSE UNCHANGED matching /\ run' = Done(i)

HandleRemove(i) ==
  /\ run.tasks[i] = "remove"
  /\ source' = source \ {i}
  /\ RemoveMatching(i, Done(i))

\* Mutant: handleUpdateItemTask always answers false.
HandleUpdateUnreported(i) ==
  /\ run.tasks[i] = "update"
  /\ UNCHANGED source
  /\ LET inList == i \in ToSet(matching) IN
     CASE inList /\ ~Matches(i) -> RemoveMatching(i, Done(i))
       [] ~inList /\ i \in source /\ Matches(i) -> AddMatching(i, Done(i))
       [] OTHER -> UNCHANGED matching /\ run' = Done(i)

\* handleUpdateItemTask: an item enters or leaves matchingItems by its new value;
\* one that stays is reported as updated, and a late update of a removed item is
\* ignored.
HandleUpdate(i) ==
  /\ run.tasks[i] = "update"
  /\ UNCHANGED source
  /\ LET inList == i \in ToSet(matching) IN
     CASE inList /\ ~Matches(i) -> RemoveMatching(i, Done(i))
       [] inList /\ Matches(i)  -> /\ UNCHANGED matching
                                  /\ run' = [Done(i) EXCEPT !.updated = @ \cup {i}]
       [] ~inList /\ i \in source /\ Matches(i) -> AddMatching(i, Done(i))
       [] OTHER -> UNCHANGED matching /\ run' = Done(i)

\* handleTasks goes through the task map in the order of its keys.
HandleTask(i) ==
  /\ run.pc = "tasks"
  /\ \A j \in Items : j < i => run.tasks[j] = "none"
  /\ HandleAdd(i) \/ HandleRemove(i) \/ HandleUpdate(i)
  /\ UNCHANGED <<owner, active, running, tasks, resort, viewport, filter, values,
                 flags, prev, req, client, history>>

\* updateViewItems: the items of the range, and the properties of those that the
\* viewport did not have or that were updated.
UpdateViewItems ==
  /\ run.pc = "tasks" /\ run.tasks = NoTasks
  /\ LET start == IF run.start >= Cardinality(source) THEN 0 ELSE run.start
         count == Least(Len(matching) - start, run.values["max"])
         next  == SubSeq(matching, start + 1, start + count)
         full  == ToSet(next) \ (ToSet(viewport) \ run.updated)
     IN run' = IF run.start < 0
               THEN [run EXCEPT !.pc = "publish"]
               ELSE IF count < 0
               THEN [run EXCEPT !.pc = "publish", !.start = start]
               ELSE [run EXCEPT !.pc = "publish", !.start = start, !.next = next,
                                !.sent = TRUE,
                                !.described = [i \in Items |-> IF i \in full THEN key[i]
                                                              ELSE Unknown]]
  /\ UNCHANGED <<owner, active, running, tasks, resort, lists, filter, values,
                 flags, prev, req, client, history>>

\* The viewport is replaced under the write lock, unless the view was stopped.
Publish ==
  /\ run.pc = "publish"
  /\ IF active
     THEN /\ viewport' = run.next
          /\ prev' = [prev EXCEPT !.sort = run.values["sort"], !.asc = run.values["asc"]]
          /\ run' = [run EXCEPT !.pc = "send"]
     ELSE UNCHANGED <<viewport, prev>> /\ run' = IdleRun
  /\ UNCHANGED <<owner, active, running, tasks, resort, source, matching, filter,
                 values, flags, req, client, history>>

\* appendItemCounts and sendJson; the client applies the message and forgets the
\* items that it no longer shows.
Send ==
  /\ run.pc = "send"
  /\ prev' = [prev EXCEPT !.matching = Len(matching), !.total = Cardinality(source)]
  /\ LET shown == IF run.sent THEN run.next ELSE client.shown IN
     client' = [shown |-> shown,
                start |-> IF run.start >= 0 THEN run.start ELSE client.start,
                known |-> [i \in Items |->
                             CASE i \notin ToSet(shown)        -> Unknown
                               [] run.described[i] # Unknown  -> run.described[i]
                               [] OTHER                       -> client.known[i]]]
  /\ run' = IdleRun
  /\ UNCHANGED <<owner, active, running, tasks, resort, lists, filter, values,
                 flags, req, history>>

UserRequest == \/ \E i \in Items, k \in Keys : AddUser(i, k) \/ UpdateUser(i, k)
               \/ \E i \in Items : RemoveUser(i)
               \/ QueueTask

ViewRequests == \/ \E post \in Posts : PostSettings(post)
                \/ SetActive \/ InitItems \/ StartTimer
                \/ \E f \in Filters \cup {NoFilter} : SetFilter(f)
                \/ MatchItems \/ SwapMatching
                \/ Stop \/ Clear \/ ResetValues

RunTasks == \/ TakeTasks \/ ReadValues \/ MaybeSort
            \/ \E i \in Items : HandleTask(i)
            \/ UpdateViewItems \/ Publish \/ Send

Next == UserRequest \/ ViewRequests \/ RunTasks

Spec == Init /\ [][Next]_vars

-----------------------------------------------------------------------------
(* Properties *)

\* Nothing is queued, running or announced.
AtRest ==
  /\ active /\ req.pc = "idle" /\ run.pc = "idle"
  /\ Queued = {} /\ ~flags.values /\ ~flags.list
  /\ prev.total # -1

\* Once everything that happened to the users was applied, sourceItems are the
\* users and matchingItems those that the dynamic filters match, each once and
\* in the order of the sort settings. Without a sort property tasks are dropped.
ViewMatchesUsers ==
  AtRest /\ ~dropped =>
    /\ source = users
    /\ Len(matching) = Cardinality(ToSet(matching))
    /\ ToSet(matching) = {i \in users : Matches(i)}
    /\ \A a, b \in DOMAIN matching : a < b =>
         IF values["asc"] = 1 THEN key[matching[a]] =< key[matching[b]]
                              ELSE key[matching[a]] >= key[matching[b]]

\* matchingItems are "all items matching the list of dynamic filters"
\* (ListViewController.h:781) of the view.
MatchingIsFiltered == AtRest => ToSet(matching) = {i \in source : Matches(i)}

\* The client shows the part of the list that its range names and knows how long
\* the list is, unless the range begins behind the end of the list.
ClientShowsRange ==
  AtRest /\ client.start \in 0..Len(matching) =>
    /\ client.shown = SubSeq(matching, client.start + 1,
                             Least(client.start + values["max"], Len(matching)))
    /\ prev.matching = Len(matching) /\ prev.total = Cardinality(source)

\* Every item the client is told to show has been described to it.
ShownAreDescribed == \A i \in ToSet(client.shown) : client.known[i] # Unknown

\* At rest the client's copy of a shown item is the current one, as long as the
\* filters have not changed.
ShownAreFresh ==
  AtRest /\ ~filtered => \A i \in ToSet(client.shown) : client.known[i] = key[i]

\* The dcassert of runTasks (ListViewController.h:518): the viewport that is set
\* is empty or there are items.
ViewportHasItems ==
  [][run.pc = "publish" /\ run'.pc = "send" =>
       (matching # <<>> /\ source # {}) \/ viewport' = <<>>]_vars

=============================================================================
