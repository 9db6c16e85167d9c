--------------------------- MODULE ListViewProofs ---------------------------
(* Theorems about ListView, for any finite set of items and any settings.  *)
(*                                                                         *)
(* Type correctness needs no assumption and what the client is told to     *)
(* show only that requests of the view wait for the timer.  That the view  *)
(* and the client arrive at the users follows from an invariant over all   *)
(* that is under way: ViewInv, further down.                               *)
EXTENDS ListView, FiniteSetTheorems, SequenceTheorems, TLAPS

-----------------------------------------------------------------------------
(* What the operators on lists return *)

\* Inserting at a place of the list keeps a list of items.
LEMMA InsertAtType ==
  ASSUME NEW S, NEW s \in Seq(S), NEW x \in S, NEW place \in 1..(Len(s) + 1)
  PROVE  InsertAt(s, place, x) \in Seq(S)
<1>1. SubSeq(s, 1, place - 1) \in Seq(S) /\ SubSeq(s, place, Len(s)) \in Seq(S)
  <2>1. \A i \in DOMAIN s : s[i] \in S
    OBVIOUS
  <2>2. QED
    BY <2>1, SubSeqProperties
<1>2. QED
  BY <1>1 DEF InsertAt

\* So does removing one of its elements.
LEMMA RemoveAtType ==
  ASSUME NEW S, NEW s \in Seq(S), NEW place \in DOMAIN s
  PROVE  RemoveAt(s, place) \in Seq(S)
<1>1. SubSeq(s, 1, place - 1) \in Seq(S) /\ SubSeq(s, place + 1, Len(s)) \in Seq(S)
  <2>1. \A i \in DOMAIN s : s[i] \in S
    OBVIOUS
  <2>2. QED
    BY <2>1, SubSeqProperties
<1>2. QED
  BY <1>1 DEF RemoveAt

\* upper_bound ends inside the list or right behind it.
LEMMA PlacesInList ==
  ASSUME NEW s \in Seq(Items), NEW x \in Items
  PROVE  Places(s, x) \subseteq 1..(Len(s) + 1)
<1> DEFINE below == {a \in DOMAIN s : ~Before(x, s[a])}
<1>1. IsFiniteSet(DOMAIN s) /\ Cardinality(DOMAIN s) = Len(s)
  <2>1. DOMAIN s = 1..Len(s) /\ Len(s) \in Nat
    OBVIOUS
  <2>2. QED
    BY <2>1, FS_Interval
<1>2. Cardinality(below) \in Nat /\ Cardinality(below) =< Len(s)
  BY <1>1, FS_Subset, FS_CardinalityType
<1>3. Places(s, x) = IF Sorted(s) THEN {1 + Cardinality(below)} ELSE 1..(Len(s) + 1)
  BY DEF Places
<1>4. Len(s) \in Nat
  OBVIOUS
<1> HIDE DEF below
<1>5. QED
  BY <1>2, <1>3, <1>4

\* The items of a set in order are a list of them.
LEMMA InOrderType ==
  ASSUME NEW S \in SUBSET Items, NEW s \in InOrder(S)
  PROVE  s \in Seq(Items)
<1>1. Cardinality(S) \in Nat
  BY FS_Subset, FS_CardinalityType, ListViewAssumption
<1>2. QED
  BY <1>1 DEF InOrder

\* A sorted list has the items of the list it came from.
LEMMA StableSortsType ==
  ASSUME NEW s \in Seq(Items), NEW t \in StableSorts(s)
  PROVE  t \in Seq(Items)
<1>1. t \in [1..Len(s) -> ToSet(s)] /\ Len(s) \in Nat
  BY DEF StableSorts
<1>2. ToSet(s) \subseteq Items
  BY DEF ToSet
<1>3. t \in [1..Len(s) -> Items]
  BY <1>1, <1>2
<1>4. QED
  BY <1>1, <1>3

-----------------------------------------------------------------------------
(* Types *)

LEMMA IdleTypes ==
  /\ IdleReq \in Requests
  /\ IdleRun \in Runs
  /\ Nothing \in [Items -> Keys \cup {Unknown}]
  /\ NoTasks \in [Items -> DOMAIN TaskRank]
  /\ Unset \in [Settings -> OptionalNat]
  /\ DOMAIN TaskRank = {"none", "update", "add", "remove"}
<1>1. DOMAIN TaskRank = {"none", "update", "add", "remove"}
  BY DEF TaskRank
<1>2. QED
  BY <1>1 DEF IdleReq, IdleRun, Nothing, NoTasks, Unset, OptionalNat, Requests, Runs,
     Settings, Unknown

LEMMA InitType == Init => TypeOK
<1>1. (CHOOSE k \in Keys : TRUE) \in Keys
  BY ListViewAssumption
<1>2. <<>> \in Seq(Items)
  OBVIOUS
<1> SUFFICES ASSUME Init PROVE TypeOK
  OBVIOUS
<1>3. key \in [Items -> Keys]
  BY <1>1 DEF Init
<1>4. client \in [shown : Seq(Items), start : OptionalNat,
                 known : [Items -> Keys \cup {Unknown}]]
  BY <1>2, IdleTypes DEF Init, OptionalNat
<1>5. /\ prev \in [sort : OptionalNat, asc : OptionalNat,
                   matching : OptionalNat, total : OptionalNat]
      /\ flags \in [values : BOOLEAN, list : BOOLEAN]
  BY DEF Init, OptionalNat
<1>6. QED
  BY <1>2, <1>3, <1>4, <1>5, IdleTypes DEF Init, TypeOK, NoFilter

\* Requests that change users only touch the owner's list and the task queue.
LEMMA UserRequestType == TypeOK /\ UserRequest => TypeOK'
<1> SUFFICES ASSUME TypeOK, UserRequest PROVE TypeOK'
  OBVIOUS
<1> USE IdleTypes DEF TypeOK, history
<1>1. ASSUME NEW i \in Items, NEW k \in Keys, AddUser(i, k) PROVE TypeOK'
  <2>1. i \in Nat
    BY ListViewAssumption
  <2>2. req' \in Requests
    BY <1>1, <2>1 DEF AddUser, Fire, Requests
  <2>3. QED
    BY <1>1, <2>2 DEF AddUser, lists
<1>2. ASSUME NEW i \in Items, NEW k \in Keys, UpdateUser(i, k) PROVE TypeOK'
  <2>1. i \in Nat
    BY ListViewAssumption
  <2>2. req' \in Requests
    BY <1>2, <2>1 DEF UpdateUser, Fire, Requests
  <2>3. QED
    BY <1>2, <2>2 DEF UpdateUser, lists
<1>3. ASSUME NEW i \in Items, RemoveUser(i) PROVE TypeOK'
  <2>1. i \in Nat
    BY ListViewAssumption
  <2>2. req' \in Requests
    BY <1>3, <2>1 DEF RemoveUser, Fire, Requests
  <2>3. QED
    BY <1>3, <2>2 DEF RemoveUser, lists
<1>4. CASE QueueTask
  <2>1. tasks' \in [Items -> DOMAIN TaskRank]
    BY <1>4 DEF QueueTask, Merge
  <2>2. resort' \in BOOLEAN
    BY <1>4 DEF QueueTask
  <2>3. QED
    BY <1>4, <2>1, <2>2 DEF QueueTask, lists, owner
<1>5. QED
  BY <1>1, <1>2, <1>3, <1>4 DEF UserRequest

\* Requests of the view.
LEMMA ViewRequestsType == TypeOK /\ ViewRequests => TypeOK'
<1> SUFFICES ASSUME TypeOK, ViewRequests PROVE TypeOK'
  OBVIOUS
<1> USE IdleTypes DEF TypeOK, history
<1>1. ASSUME NEW post \in Posts, PostSettings(post) PROVE TypeOK'
  <2>1. \A f \in Settings : post[f] \in OptionalNat
    BY ListViewAssumption DEF Settings, OptionalNat
  <2>2. values' \in [Settings -> OptionalNat]
    BY <1>1, <2>1 DEF PostSettings
  <2>3. running' \in BOOLEAN
    BY <1>1 DEF PostSettings
  <2>4. flags' \in [values : BOOLEAN, list : BOOLEAN]
    BY <1>1 DEF PostSettings
  <2>5. req' \in Requests
    BY <1>1 DEF PostSettings, Requests, ViewRequest
  <2>6. QED
    BY <1>1, <2>2, <2>3, <2>4, <2>5 DEF PostSettings, lists, owner
<1>2. CASE SetActive
  <2>1. req' \in Requests
    BY <1>2 DEF SetActive, Requests, ViewRequest
  <2>2. QED
    BY <1>2, <2>1 DEF SetActive, lists, owner
<1>3. CASE InitItems
  <2>1. users \in SUBSET Items
    OBVIOUS
  <2>2. matching' \in Seq(Items)
    BY <1>3, <2>1, InOrderType DEF InitItems
  <2>3. req' \in Requests /\ flags' \in [values : BOOLEAN, list : BOOLEAN]
    BY <1>3 DEF InitItems, Requests, ViewRequest
  <2>4. QED
    BY <1>3, <2>1, <2>2, <2>3 DEF InitItems, owner
<1>4. CASE StartTimer
  BY <1>4 DEF StartTimer, lists, owner
<1>5. ASSUME NEW f \in Filters \cup {NoFilter}, SetFilter(f) PROVE TypeOK'
  <2>1. f \subseteq Keys
    BY ListViewAssumption DEF NoFilter
  <2>2. req' \in Requests
    BY <1>5 DEF SetFilter, Requests, ViewRequest
  <2>3. QED
    BY <1>5, <2>1, <2>2 DEF SetFilter, lists, owner
<1>6. CASE MatchItems
  <2>1. {i \in source : Matches(i)} \in SUBSET Items
    OBVIOUS
  <2>2. PICK items \in InOrder({i \in source : Matches(i)}) :
          req' = [req EXCEPT !.pc = "swap", !.copy = items]
    BY <1>6 DEF MatchItems
  <2>3. items \in Seq(Items)
    BY <2>1, InOrderType
  <2>4. req' \in Requests
    BY <2>2, <2>3 DEF Requests, ViewRequest
  <2>5. QED
    BY <1>6, <2>4 DEF MatchItems, lists, owner
<1>7. CASE SwapMatching
  <2>1. req.copy \in Seq(Items)
    BY DEF Requests
  <2>2. values' \in [Settings -> OptionalNat]
    BY <1>7 DEF SwapMatching, OptionalNat
  <2>3. QED
    BY <1>7, <2>1, <2>2 DEF SwapMatching, owner
<1>8. CASE Stop
  <2>1. req' \in Requests
    BY <1>8 DEF Stop, Requests, ViewRequest
  <2>2. QED
    BY <1>8, <2>1 DEF Stop, lists, owner
<1>9. CASE Clear
  <2>1. req' \in Requests
    BY <1>9 DEF Clear, Requests, ViewRequest
  <2>2. prev' \in [sort : OptionalNat, asc : OptionalNat,
                   matching : OptionalNat, total : OptionalNat]
    BY <1>9 DEF Clear, OptionalNat
  <2>3. <<>> \in Seq(Items)
    OBVIOUS
  <2>4. QED
    BY <1>9, <2>1, <2>2, <2>3 DEF Clear, owner, NoFilter
<1>10. CASE ResetValues
  <2>1. client' \in [shown : Seq(Items), start : OptionalNat,
                     known : [Items -> Keys \cup {Unknown}]]
    BY <1>10 DEF ResetValues, OptionalNat
  <2>2. QED
    BY <1>10, <2>1 DEF ResetValues, lists, owner
<1>11. QED
  BY <1>1, <1>2, <1>3, <1>4, <1>5, <1>6, <1>7, <1>8, <1>9, <1>10 DEF ViewRequests

\* The timer.
LEMMA AddMatchingType ==
  ASSUME TypeOK, NEW i \in Items, NEW then \in Runs, AddMatching(i, then)
  PROVE  matching' \in Seq(Items) /\ run' \in Runs
<1>1. PICK place \in Places(matching, i) :
        /\ matching' = InsertAt(matching, place, i)
        /\ run' = [then EXCEPT !.start = IF place - 1 < @ THEN @ + 1 ELSE @]
  BY DEF AddMatching
<1>2. matching \in Seq(Items)
  BY DEF TypeOK
<1>3. place \in 1..(Len(matching) + 1)
  BY <1>2, PlacesInList
<1>4. matching' \in Seq(Items)
  BY <1>1, <1>2, <1>3, InsertAtType
<1>5. then.start \in OptionalNat /\ place \in Nat \ {0}
  BY <1>2, <1>3 DEF Runs
<1>6. (IF place - 1 < then.start THEN then.start + 1 ELSE then.start) \in OptionalNat
  BY <1>5 DEF OptionalNat
<1>7. run' \in Runs
  BY <1>1, <1>6 DEF Runs
<1>8. QED
  BY <1>4, <1>7

LEMMA RemoveMatchingType ==
  ASSUME TypeOK, NEW i \in Items, NEW then \in Runs, RemoveMatching(i, then)
  PROVE  matching' \in Seq(Items) /\ run' \in Runs
<1>1. matching \in Seq(Items)
  BY DEF TypeOK
<1>2. CASE i \notin ToSet(matching)
  BY <1>1, <1>2 DEF RemoveMatching
<1>3. CASE i \in ToSet(matching)
  <2>1. PICK place \in DOMAIN matching :
          /\ matching' = RemoveAt(matching, place)
          /\ run' = [then EXCEPT !.start = IF @ > 0 /\ place - 1 > @ THEN @ - 1 ELSE @]
    BY <1>3 DEF RemoveMatching
  <2>2. matching' \in Seq(Items)
    BY <1>1, <2>1, RemoveAtType
  <2>3. then.start \in OptionalNat /\ place \in Nat
    BY <1>1 DEF Runs
  <2>4. (IF then.start > 0 /\ place - 1 > then.start
         THEN then.start - 1 ELSE then.start) \in OptionalNat
    BY <2>3 DEF OptionalNat
  <2>5. run' \in Runs
    BY <2>1, <2>4 DEF Runs
  <2>6. QED
    BY <2>2, <2>5
<1>4. QED
  BY <1>2, <1>3

LEMMA HandleTaskType ==
  ASSUME TypeOK, NEW i \in Items, HandleTask(i)
  PROVE  matching' \in Seq(Items) /\ run' \in Runs /\ source' \subseteq Items
<1>1. matching \in Seq(Items) /\ run \in Runs /\ source \subseteq Items
  BY DEF TypeOK
<1>2. Done(i) \in Runs
  BY <1>1, IdleTypes DEF Done, Runs
<1>3. CASE HandleAdd(i)
  BY <1>1, <1>2, <1>3, AddMatchingType DEF HandleAdd
<1>4. CASE HandleRemove(i)
  BY <1>1, <1>2, <1>4, RemoveMatchingType DEF HandleRemove
<1>5. CASE HandleUpdate(i)
  <2>1. [Done(i) EXCEPT !.updated = @ \cup {i}] \in Runs
    BY <1>2 DEF Runs
  <2>2. QED
    BY <1>1, <1>2, <1>5, <2>1, AddMatchingType, RemoveMatchingType DEF HandleUpdate
<1>6. QED
  BY <1>3, <1>4, <1>5 DEF HandleTask

\* The items of the range are a part of matchingItems.
LEMMA UpdateViewItemsType ==
  ASSUME TypeOK, UpdateViewItems
  PROVE  run' \in Runs
<1> DEFINE start == IF run.start >= Cardinality(source) THEN 0 ELSE run.start
           count == Least(Len(matching) - start, run.values["max"])
           next  == SubSeq(matching, start + 1, start + count)
           full  == ToSet(next) \ (ToSet(viewport) \ run.updated)
           shown == [i \in Items |-> IF i \in full THEN key[i] ELSE Unknown]
<1>1. /\ matching \in Seq(Items) /\ Len(matching) \in Nat /\ run \in Runs
      /\ run.start \in OptionalNat /\ run.values["max"] \in OptionalNat
      /\ key \in [Items -> Keys]
  BY DEF TypeOK, Runs, Settings
<1>2. CASE run.start < 0
  <2>1. run' = [run EXCEPT !.pc = "publish"]
    BY <1>2 DEF UpdateViewItems
  <2>2. QED
    BY <1>1, <2>1 DEF Runs
<1>3. CASE ~(run.start < 0)
  <2>1. start \in Nat /\ count \in Int /\ count =< Len(matching) - start
    BY <1>1, <1>3 DEF OptionalNat, Least
  <2>2. start \in OptionalNat
    BY <2>1 DEF OptionalNat
  <2>3. shown \in [Items -> Keys \cup {Unknown}]
    BY <1>1
  <2> HIDE DEF start, count
  <2>4. CASE count < 0
    <3>1. run' = [run EXCEPT !.pc = "publish", !.start = start]
      BY <1>3, <2>4 DEF UpdateViewItems, start, count
    <3>2. QED
      BY <1>1, <2>2, <3>1 DEF Runs
  <2>5. CASE ~(count < 0)
    <3>1. next \in Seq(Items)
      <4>1. \A a \in (start + 1)..(start + count) : matching[a] \in Items
        BY <1>1, <2>1, <2>5
      <4>2. QED
        BY <1>1, <2>1, <4>1, SubSeqProperties
    <3>2. run' = [run EXCEPT !.pc = "publish", !.start = start, !.next = next,
                             !.sent = TRUE, !.described = shown]
      BY <1>3, <2>5 DEF UpdateViewItems, start, count
    <3> HIDE DEF next, shown
    <3>3. QED
      BY <1>1, <2>2, <2>3, <3>1, <3>2 DEF Runs
  <2>6. QED
    BY <2>4, <2>5
<1>4. QED
  BY <1>2, <1>3

LEMMA RunTasksType == TypeOK /\ RunTasks => TypeOK'
<1> SUFFICES ASSUME TypeOK, RunTasks PROVE TypeOK'
  OBVIOUS
<1> USE IdleTypes DEF TypeOK, history
<1>1. CASE TakeTasks
  <2>1. run' \in Runs
    BY <1>1 DEF TakeTasks, Runs
  <2>2. QED
    BY <1>1, <2>1 DEF TakeTasks, lists, owner
<1>2. CASE ReadValues
  <2> DEFINE sorting == \/ run.resort \/ flags.list
                        \/ prev.asc # values["asc"]
                        \/ prev.sort # values["sort"]
  <2>0. sorting \in BOOLEAN /\ values["start"] \in OptionalNat
    BY DEF Settings
  <2>1. flags' \in [values : BOOLEAN, list : BOOLEAN]
    <3>1. flags' = [flags EXCEPT !.values = FALSE] \/ flags' = [values |-> FALSE, list |-> FALSE]
      BY <1>2, Zenon DEF ReadValues
    <3>2. flags \in [values : BOOLEAN, list : BOOLEAN]
      OBVIOUS
    <3>3. [flags EXCEPT !.values = FALSE] \in [values : BOOLEAN, list : BOOLEAN]
      BY ONLY <3>2
    <3>4. QED
      <4>1. [values |-> FALSE, list |-> FALSE] \in [values : BOOLEAN, list : BOOLEAN]
        OBVIOUS
      <4>2. QED
        BY ONLY <3>1, <3>3, <4>1, Zenon
  <2>2. run' \in Runs
    <3>1. CASE values["sort"] < 0
      BY <1>2, <3>1 DEF ReadValues
    <3>2. CASE ~(values["sort"] < 0)
      <4>1. run' = [run EXCEPT !.pc = "sort", !.values = values,
                               !.start = values["start"], !.resort = sorting]
        BY <1>2, <3>2 DEF ReadValues
      <4> HIDE DEF sorting
      <4>2. run \in Runs /\ values \in [Settings -> OptionalNat]
        OBVIOUS
      <4>3. QED
        BY ONLY <2>0, <4>1, <4>2 DEF Runs
    <3>3. QED
      BY <3>1, <3>2
  <2>3. QED
    BY <1>2, <2>1, <2>2 DEF ReadValues, lists, owner
<1>3. CASE MaybeSort
  <2>1. matching' \in Seq(Items)
    BY <1>3, StableSortsType DEF MaybeSort
  <2>2. run' \in Runs
    BY <1>3 DEF MaybeSort, Runs
  <2>3. QED
    BY <1>3, <2>1, <2>2 DEF MaybeSort, owner
<1>4. ASSUME NEW i \in Items, HandleTask(i) PROVE TypeOK'
  BY <1>4, HandleTaskType DEF HandleTask, owner
<1>5. CASE UpdateViewItems
  <2>1. run' \in Runs
    BY <1>5, UpdateViewItemsType DEF TypeOK
  <2>2. QED
    BY <1>5, <2>1 DEF UpdateViewItems, lists, owner
<1>6. CASE Publish
  <2>1. run.next \in Seq(Items) /\ run.values["sort"] \in OptionalNat
        /\ run.values["asc"] \in OptionalNat
    BY DEF Runs, Settings
  <2>2. run' \in Runs
    <3>1. CASE active
      <4>1. run' = [run EXCEPT !.pc = "send"]
        BY <1>6, <3>1 DEF Publish
      <4>2. QED
        BY <4>1 DEF Runs
    <3>2. CASE ~active
      BY <1>6, <3>2 DEF Publish
    <3>3. QED
      BY <3>1, <3>2
  <2>3. /\ viewport' \in Seq(Items)
        /\ prev' \in [sort : OptionalNat, asc : OptionalNat,
                      matching : OptionalNat, total : OptionalNat]
    BY <1>6, <2>1 DEF Publish
  <2>4. QED
    BY <1>6, <2>2, <2>3 DEF Publish, owner
<1>7. CASE Send
  <2>1. Len(matching) \in OptionalNat /\ Cardinality(source) \in OptionalNat
    <3>1. Len(matching) \in Nat
      OBVIOUS
    <3>2. source \in SUBSET Items
      OBVIOUS
    <3>3. Cardinality(source) \in Nat
      BY <3>2, FS_Subset, FS_CardinalityType, ListViewAssumption
    <3>4. QED
      BY <3>1, <3>3 DEF OptionalNat
  <2>2. prev' \in [sort : OptionalNat, asc : OptionalNat,
                   matching : OptionalNat, total : OptionalNat]
    BY <1>7, <2>1 DEF Send
  <2>3. client' \in [shown : Seq(Items), start : OptionalNat,
                     known : [Items -> Keys \cup {Unknown}]]
    BY <1>7 DEF Send, Runs
  <2>4. QED
    BY <1>7, <2>2, <2>3 DEF Send, lists, owner
<1>8. QED
  BY <1>1, <1>2, <1>3, <1>4, <1>5, <1>6, <1>7 DEF RunTasks

\* The variables of ListView keep their types.
THEOREM TypeCorrect == Spec => []TypeOK
<1>1. TypeOK /\ [Next]_vars => TypeOK'
  <2> SUFFICES ASSUME TypeOK, UNCHANGED vars PROVE TypeOK'
    BY UserRequestType, ViewRequestsType, RunTasksType DEF Next
  <2>1. QED
    BY DEF TypeOK, vars, owner, lists, history
<1>2. QED
  BY InitType, <1>1, PTL DEF Spec

-----------------------------------------------------------------------------
(* What the client is told to show                                         *)
(*                                                                         *)
(* An item that the viewport already has is sent without its properties.   *)
(* That the client has them is a matter of the viewport and of the request *)
(* that resets the view, so the invariant follows the list of a timer run  *)
(* from updateViewItems to the client.                                     *)

Known(s) == \A i \in ToSet(s) : client.known[i] # Unknown

\* Requests of the view and timer runs exclude each other.
Exclusive == req.pc \in ViewRequest => run.pc = "idle"

\* Between clear and the reset of the values the viewport is empty.
ClearedFirst == req.pc = "reset" => viewport = <<>>

\* Outside of the sending of a message the client knows what is in the viewport.
ViewportKnown == run.pc # "send" => Known(viewport)

\* The list of a timer run exists from updateViewItems on and becomes the viewport.
NextIsLocal ==
  /\ ~run.sent => run.next = <<>>
  /\ run.pc \notin {"publish", "send"} => ~run.sent
  /\ run.pc = "send" => viewport = run.next

\* What the message does not describe the client knows already.
NextDescribed ==
  \A i \in ToSet(run.next) : run.described[i] # Unknown \/ client.known[i] # Unknown

DescribedInv ==
  /\ TypeOK /\ ShownAreDescribed
  /\ Exclusive /\ ClearedFirst /\ ViewportKnown /\ NextIsLocal /\ NextDescribed

LEMMA EmptyList == ToSet(<<>>) = {}
  BY DEF ToSet

\* A number that an item has is never the mark of an unknown one.
LEMMA KeysAreKnown == \A k \in Keys : k # Unknown
  BY ListViewAssumption DEF Unknown

LEMMA InitDescribed == Init => DescribedInv
<1>1. IdleReq.pc = "idle" /\ IdleRun.pc = "idle" /\ IdleRun.next = <<>> /\ ~IdleRun.sent
  BY DEF IdleReq, IdleRun
<1> SUFFICES ASSUME Init PROVE DescribedInv
  OBVIOUS
<1>2. /\ req.pc = "idle" /\ run.pc = "idle" /\ run.next = <<>> /\ ~run.sent
      /\ viewport = <<>> /\ client.shown = <<>>
  BY <1>1 DEF Init
<1>3. Exclusive /\ ClearedFirst /\ NextIsLocal
  BY <1>2 DEF Exclusive, ClearedFirst, NextIsLocal, ViewRequest
<1>4. ShownAreDescribed /\ ViewportKnown /\ NextDescribed
  BY <1>2, EmptyList DEF ShownAreDescribed, ViewportKnown, Known, NextDescribed
<1>5. QED
  BY InitType, <1>3, <1>4 DEF DescribedInv

\* A step that leaves the viewport, the timer run and the client alone keeps the
\* invariant if it leaves the requests of the view alone or waits for the timer.
LEMMA RequestDescribed ==
  ASSUME DescribedInv, TypeOK', UNCHANGED <<viewport, run, client>>,
         req'.pc \notin ViewRequest \/ run.pc = "idle",
         req'.pc # "reset"
  PROVE  DescribedInv'
<1> USE DEF DescribedInv
<1>1. Exclusive' /\ ClearedFirst'
  BY DEF Exclusive, ClearedFirst
<1>2. ShownAreDescribed' /\ ViewportKnown' /\ NextIsLocal' /\ NextDescribed'
  BY DEF ShownAreDescribed, ViewportKnown, NextIsLocal, NextDescribed, Known
<1>3. QED
  BY <1>1, <1>2

LEMMA UserRequestDescribed == DescribedInv /\ UserRequest => DescribedInv'
<1> SUFFICES ASSUME DescribedInv, UserRequest PROVE DescribedInv'
  OBVIOUS
<1>1. TypeOK'
  BY UserRequestType DEF DescribedInv
<1>2. UNCHANGED <<viewport, run, client>> /\ req'.pc \in {"idle", "add", "update", "remove"}
  <2>1. \A i, task : [IdleReq EXCEPT !.pc = task, !.item = i].pc = task
    BY DEF IdleReq
  <2>2. ASSUME NEW i \in Items, NEW k \in Keys, AddUser(i, k) \/ UpdateUser(i, k)
        PROVE  UNCHANGED <<viewport, run, client>> /\ req'.pc \in {"add", "update"}
    BY <2>1, <2>2 DEF AddUser, UpdateUser, Fire, lists
  <2>3. ASSUME NEW i \in Items, RemoveUser(i)
        PROVE  UNCHANGED <<viewport, run, client>> /\ req'.pc = "remove"
    BY <2>1, <2>3 DEF RemoveUser, Fire, lists
  <2>4. CASE QueueTask
    BY <2>4 DEF QueueTask, lists, IdleReq
  <2>5. QED
    BY <2>2, <2>3, <2>4 DEF UserRequest
<1>3. req'.pc \notin ViewRequest /\ req'.pc # "reset"
  BY <1>2 DEF ViewRequest
<1>4. QED
  BY <1>1, <1>2, <1>3, RequestDescribed

LEMMA ViewRequestsDescribed ==
  ASSUME ~Overlap, DescribedInv, ViewRequests
  PROVE  DescribedInv'
<1>1. TypeOK' /\ TypeOK
  BY ViewRequestsType DEF DescribedInv
<1>2. run.pc = "idle"
  BY DEF DescribedInv, Exclusive, ViewRequests, PostSettings, SetActive, InitItems,
     StartTimer, SetFilter, MatchItems, SwapMatching, Stop, Clear, ResetValues,
     MayRequest, ViewRequest
<1>3. run.next = <<>> /\ ~run.sent
  BY <1>2 DEF DescribedInv, NextIsLocal
<1>4. CASE Clear
  <2>1. viewport' = <<>> /\ UNCHANGED <<run, client>>
    BY <1>4 DEF Clear
  <2>2. ClearedFirst' /\ ViewportKnown' /\ Exclusive'
    BY <1>2, <2>1, EmptyList DEF ClearedFirst, ViewportKnown, Known, Exclusive
  <2>3. NextIsLocal' /\ NextDescribed' /\ ShownAreDescribed'
    BY <1>2, <1>3, <2>1 DEF DescribedInv, NextIsLocal, NextDescribed, ShownAreDescribed
  <2>4. QED
    BY <1>1, <2>2, <2>3 DEF DescribedInv
<1>5. CASE ResetValues
  <2>1. /\ viewport = <<>> /\ UNCHANGED <<viewport, run>>
        /\ client'.shown = <<>> /\ req'.pc = "idle"
    BY <1>5 DEF ResetValues, DescribedInv, ClearedFirst, lists, IdleReq
  <2>2. Exclusive' /\ ClearedFirst' /\ ViewportKnown'
    BY <2>1, EmptyList DEF Exclusive, ClearedFirst, ViewportKnown, Known, ViewRequest
  <2>3. NextIsLocal' /\ NextDescribed' /\ ShownAreDescribed'
    BY <1>2, <1>3, <2>1, EmptyList DEF NextIsLocal, NextDescribed, ShownAreDescribed
  <2>4. QED
    BY <1>1, <2>2, <2>3 DEF DescribedInv
<1>6. CASE ~Clear /\ ~ResetValues
  <2>1. UNCHANGED <<viewport, run, client>> /\ req'.pc # "reset"
    <3>1. req \in Requests
      BY <1>1 DEF TypeOK
    <3>2. ASSUME NEW post \in Posts, PostSettings(post)
          PROVE  UNCHANGED <<viewport, run, client>> /\ req'.pc # "reset"
      BY <3>2 DEF PostSettings, IdleReq, lists
    <3>3. ASSUME NEW f, SetFilter(f)
          PROVE  UNCHANGED <<viewport, run, client>> /\ req'.pc # "reset"
      BY <3>3 DEF SetFilter, IdleReq, lists
    <3>4. CASE SetActive \/ InitItems \/ StartTimer
      BY <3>1, <3>4 DEF SetActive, InitItems, StartTimer, IdleReq, lists, Requests
    <3>5. CASE MatchItems
      <4>1. PICK items : req' = [req EXCEPT !.pc = "swap", !.copy = items]
        BY <3>5 DEF MatchItems
      <4>2. req'.pc = "swap"
        BY <3>1, <4>1 DEF Requests
      <4>3. QED
        BY <3>5, <4>2 DEF MatchItems, lists
    <3>6. CASE SwapMatching \/ Stop
      BY <3>6 DEF SwapMatching, Stop, IdleReq, lists
    <3>7. QED
      BY <1>6, <3>2, <3>3, <3>4, <3>5, <3>6 DEF ViewRequests
  <2>2. QED
    BY <1>1, <1>2, <2>1, RequestDescribed
<1>7. QED
  BY <1>4, <1>5, <1>6

\* The tasks of a run change neither its list nor its position.
LEMMA HandleTaskKeeps ==
  ASSUME TypeOK, NEW i \in Items, HandleTask(i)
  PROVE  /\ run'.pc = run.pc /\ run'.next = run.next /\ run'.sent = run.sent
         /\ run'.described = run.described
<1> DEFINE Keeps(r) == /\ r.pc = run.pc /\ r.next = run.next /\ r.sent = run.sent
                       /\ r.described = run.described
<1>1. run \in Runs
  BY DEF TypeOK
<1>2. /\ Keeps(Done(i)) /\ Done(i) \in Runs
      /\ Keeps([Done(i) EXCEPT !.updated = @ \cup {i}])
  BY <1>1, IdleTypes DEF Done, Runs
<1>3. ASSUME NEW then \in Runs, Keeps(then), AddMatching(i, then) PROVE Keeps(run')
  BY <1>3 DEF AddMatching, Runs
<1>4. ASSUME NEW then \in Runs, Keeps(then), RemoveMatching(i, then) PROVE Keeps(run')
  BY <1>4 DEF RemoveMatching, Runs
<1> HIDE DEF Keeps
<1>5. Keeps(run')
  BY <1>2, <1>3, <1>4 DEF HandleTask, HandleAdd, HandleRemove, HandleUpdate
<1>6. QED
  BY <1>5 DEF Keeps

LEMMA RunTasksDescribed ==
  ASSUME ~Overlap, DescribedInv, RunTasks
  PROVE  DescribedInv'
<1>1. TypeOK' /\ TypeOK
  BY RunTasksType DEF DescribedInv
<1>2. run \in Runs /\ run.next \in Seq(Items)
  BY <1>1 DEF TypeOK, Runs
<1>3. IdleRun.pc = "idle" /\ IdleRun.next = <<>> /\ ~IdleRun.sent
  BY DEF IdleRun
<1> USE DEF DescribedInv
<1>4. req.pc \notin ViewRequest /\ UNCHANGED req
  BY DEF RunTasks, TakeTasks, ReadValues, MaybeSort, HandleTask, UpdateViewItems,
     Publish, Send, Exclusive
<1>5. Exclusive' /\ ClearedFirst'
  BY <1>4 DEF Exclusive, ClearedFirst, ViewRequest
<1>6. ASSUME UNCHANGED <<viewport, client>>, run.pc # "send", run'.pc # "send",
             run'.next = <<>>, ~run'.sent
      PROVE  DescribedInv'
  <2>1. NextIsLocal' /\ NextDescribed'
    BY <1>6, EmptyList DEF NextIsLocal, NextDescribed
  <2>2. ViewportKnown' /\ ShownAreDescribed'
    BY <1>6 DEF ViewportKnown, Known, ShownAreDescribed
  <2>3. QED
    BY <1>1, <1>5, <2>1, <2>2
<1>7. CASE TakeTasks
  <2>1. UNCHANGED <<viewport, client>> /\ run.pc # "send"
    BY <1>7 DEF TakeTasks, lists
  <2>2. run'.pc = "values" /\ run'.next = <<>> /\ ~run'.sent
    BY <1>7 DEF TakeTasks, IdleRun
  <2>3. QED
    BY <1>6, <2>1, <2>2
<1>8. CASE ReadValues
  <2>1. UNCHANGED <<viewport, client>> /\ run.pc = "values"
    BY <1>8 DEF ReadValues, lists
  <2>2. run'.pc # "send" /\ run'.next = <<>> /\ ~run'.sent
    BY <1>2, <1>3, <1>8, <2>1 DEF ReadValues, NextIsLocal, Runs
  <2>3. QED
    BY <1>6, <2>1, <2>2
<1>9. CASE MaybeSort
  <2>1. UNCHANGED <<viewport, client>> /\ run.pc = "sort"
    BY <1>9 DEF MaybeSort
  <2>2. run'.pc # "send" /\ run'.next = <<>> /\ ~run'.sent
    BY <1>2, <1>9, <2>1 DEF MaybeSort, NextIsLocal, Runs
  <2>3. QED
    BY <1>6, <2>1, <2>2
<1>10. ASSUME NEW i \in Items, HandleTask(i) PROVE DescribedInv'
  <2>1. UNCHANGED <<viewport, client>> /\ run.pc = "tasks"
    BY <1>10 DEF HandleTask
  <2>2. run'.pc # "send" /\ run'.next = <<>> /\ ~run'.sent
    BY <1>1, <1>10, <2>1, HandleTaskKeeps DEF NextIsLocal
  <2>3. QED
    BY <1>6, <2>1, <2>2
<1>11. CASE UpdateViewItems
  <2>1. UNCHANGED <<viewport, client>> /\ run.pc = "tasks"
    BY <1>11 DEF UpdateViewItems, lists
  <2>2. run'.pc = "publish"
    BY <1>2, <1>11 DEF UpdateViewItems, Runs
  <2>3. run.next = <<>> /\ ~run.sent
    BY <2>1 DEF NextIsLocal
  <2>4. \/ run'.next = run.next /\ run'.sent = run.sent
        \/ /\ run'.sent
           /\ \A i \in ToSet(run'.next) \cap Items :
                i \in ToSet(viewport) \/ run'.described[i] = key[i]
    BY <1>2, <1>11 DEF UpdateViewItems, Runs
  <2>5. CASE run'.next = run.next /\ run'.sent = run.sent
    BY <1>6, <2>1, <2>2, <2>3, <2>5
  <2>6. CASE /\ run'.sent
             /\ \A i \in ToSet(run'.next) \cap Items :
                  i \in ToSet(viewport) \/ run'.described[i] = key[i]
    <3>1. NextIsLocal'
      BY <2>2, <2>6 DEF NextIsLocal
    <3>2. ToSet(run'.next) \subseteq Items
      BY <1>1 DEF TypeOK, Runs, ToSet
    <3>3. key \in [Items -> Keys] /\ Known(viewport)
      BY <1>1, <2>1 DEF TypeOK, ViewportKnown
    <3>4. NextDescribed'
      BY <2>1, <2>6, <3>2, <3>3, KeysAreKnown DEF NextDescribed, Known
    <3>5. ViewportKnown' /\ ShownAreDescribed'
      BY <2>1, <2>2, <3>3 DEF ViewportKnown, Known, ShownAreDescribed
    <3>6. QED
      BY <1>1, <1>5, <3>1, <3>4, <3>5
  <2>7. QED
    BY <2>4, <2>5, <2>6
<1>12. CASE Publish
  <2>1. UNCHANGED client /\ run.pc = "publish"
    BY <1>12 DEF Publish
  <2>2. CASE active
    <3>1. /\ viewport' = run.next /\ run'.pc = "send" /\ run'.next = run.next
          /\ run'.sent = run.sent /\ run'.described = run.described
      BY <1>2, <1>12, <2>2 DEF Publish, Runs
    <3>2. NextIsLocal' /\ NextDescribed' /\ ViewportKnown' /\ ShownAreDescribed'
      BY <2>1, <3>1 DEF NextIsLocal, NextDescribed, ViewportKnown, ShownAreDescribed
    <3>3. QED
      BY <1>1, <1>5, <3>2
  <2>3. CASE ~active
    <3>1. UNCHANGED viewport /\ run' = IdleRun
      BY <1>12, <2>3 DEF Publish
    <3>2. QED
      BY <1>3, <1>6, <2>1, <3>1
  <2>4. QED
    BY <2>2, <2>3
<1>13. CASE Send
  <2>1. run.pc = "send" /\ run' = IdleRun /\ UNCHANGED viewport /\ viewport = run.next
    BY <1>13 DEF Send, lists, NextIsLocal
  <2>2. client'.shown = IF run.sent THEN run.next ELSE client.shown
    BY <1>13 DEF Send
  <2>3. ASSUME NEW i \in ToSet(client'.shown)
        PROVE  client'.known[i] # Unknown
    <3>1. client'.shown \in Seq(Items)
      BY <1>1 DEF TypeOK
    <3>2. i \in Items
      BY <3>1 DEF ToSet
    <3>3. run.described[i] # Unknown \/ client.known[i] # Unknown
      BY <2>2 DEF NextDescribed, ShownAreDescribed
    <3>4. client'.known[i] = IF run.described[i] # Unknown THEN run.described[i]
                             ELSE client.known[i]
      BY <1>13, <2>2, <3>2 DEF Send
    <3>5. QED
      BY <3>3, <3>4
  <2>4. ShownAreDescribed'
    BY <2>3 DEF ShownAreDescribed
  <2>5. ViewportKnown'
    <3>1. CASE run.sent
      BY <2>1, <2>2, <2>3, <3>1 DEF ViewportKnown, Known
    <3>2. CASE ~run.sent
      BY <2>1, <3>2, EmptyList DEF NextIsLocal, ViewportKnown, Known
    <3>3. QED
      BY <3>1, <3>2
  <2>6. NextIsLocal' /\ NextDescribed'
    BY <1>3, <2>1, EmptyList DEF NextIsLocal, NextDescribed
  <2>7. QED
    BY <1>1, <1>5, <2>4, <2>5, <2>6
<1>14. QED
  BY <1>7, <1>8, <1>9, <1>10, <1>11, <1>12, <1>13 DEF RunTasks

LEMMA DescribedKept ==
  ASSUME ~Overlap, DescribedInv, [Next]_vars
  PROVE  DescribedInv'
<1>1. CASE UNCHANGED vars
  <2>1. TypeOK'
    BY <1>1 DEF DescribedInv, TypeOK, vars, owner, lists, history
  <2>2. /\ ShownAreDescribed' /\ Exclusive' /\ ClearedFirst'
        /\ ViewportKnown' /\ NextIsLocal' /\ NextDescribed'
    BY <1>1 DEF DescribedInv, ShownAreDescribed, Exclusive, ClearedFirst,
       ViewportKnown, NextIsLocal, NextDescribed, Known, vars, lists
  <2>3. QED
    BY <2>1, <2>2 DEF DescribedInv
<1>2. QED
  BY <1>1, UserRequestDescribed, ViewRequestsDescribed, RunTasksDescribed DEF Next

\* As long as requests of the view wait for its timer, the client is never told to
\* show an item whose properties it was not sent (appendItemPosition,
\* appendItemPartial), however tasks, settings, filters and resets follow each other.
THEOREM Described ==
  ASSUME ~Overlap
  PROVE  Spec => []ShownAreDescribed
<1>1. DescribedInv /\ [Next]_vars => DescribedInv'
  BY DescribedKept
<1>2. DescribedInv => ShownAreDescribed
  BY DEF DescribedInv
<1>3. QED
  BY InitDescribed, <1>1, <1>2, PTL DEF Spec
-----------------------------------------------------------------------------
(* What the operators on lists do to the items and their order             *)

\* An item more, and everything behind its place moves by one.
LEMMA InsertAtItems ==
  ASSUME NEW S, NEW s \in Seq(S), NEW x \in S, NEW place \in 1..(Len(s) + 1)
  PROVE  LET t == InsertAt(s, place, x)
         IN  /\ t \in Seq(S) /\ Len(t) = Len(s) + 1
             /\ \A a \in 1..Len(t) : t[a] = IF a < place THEN s[a]
                                            ELSE IF a = place THEN x ELSE s[a - 1]
             /\ ToSet(t) = ToSet(s) \cup {x}
             /\ IsInjective(s) /\ x \notin ToSet(s) => IsInjective(t)
<1> DEFINE u == SubSeq(s, 1, place - 1)
           v == SubSeq(s, place, Len(s))
           t == InsertAt(s, place, x)
<1>1. Len(s) \in Nat /\ DOMAIN s = 1..Len(s) /\ \A a \in 1..Len(s) : s[a] \in S
  OBVIOUS
<1>2. /\ u \in Seq(S) /\ Len(u) = place - 1 /\ \A a \in 1..(place - 1) : u[a] = s[a]
      /\ v \in Seq(S) /\ Len(v) = Len(s) - place + 1
      /\ \A a \in 1..(Len(s) - place + 1) : v[a] = s[place + a - 1]
  BY <1>1, SubSeqProperties
<1>3. <<x>> \in Seq(S) /\ Len(<<x>>) = 1 /\ <<x>>[1] = x
  OBVIOUS
<1> HIDE DEF u, v
<1>4. /\ u \o <<x>> \in Seq(S) /\ Len(u \o <<x>>) = place
      /\ \A a \in 1..place : (u \o <<x>>)[a] = IF a < place THEN s[a] ELSE x
  BY <1>2, <1>3, ConcatProperties
<1>5. t = (u \o <<x>>) \o v
  BY DEF InsertAt, u, v
<1> HIDE DEF t
<1>6. /\ t \in Seq(S) /\ Len(t) = Len(s) + 1 /\ DOMAIN t = 1..(Len(s) + 1)
      /\ \A a \in 1..(Len(s) + 1) : t[a] = IF a < place THEN s[a]
                                           ELSE IF a = place THEN x ELSE s[a - 1]
  <2>1. /\ t \in Seq(S) /\ Len(t) = place + (Len(s) - place + 1)
        /\ \A a \in 1..(place + (Len(s) - place + 1)) :
             t[a] = IF a =< place THEN (u \o <<x>>)[a] ELSE v[a - place]
    BY <1>2, <1>4, <1>5, ConcatProperties
  <2>2. Len(t) = Len(s) + 1
    BY <1>1, <2>1
  <2>3. ASSUME NEW a \in 1..(Len(s) + 1)
        PROVE  t[a] = IF a < place THEN s[a] ELSE IF a = place THEN x ELSE s[a - 1]
    <3>1. CASE a =< place
      BY <1>1, <1>4, <2>1, <3>1, SMTT(30)
    <3>2. CASE ~(a =< place)
      <4>1. t[a] = v[a - place] /\ a - place \in 1..(Len(s) - place + 1)
        BY <1>1, <2>1, <3>2
      <4>2. v[a - place] = s[place + (a - place) - 1] /\ place + (a - place) - 1 = a - 1
        BY <1>2, <4>1
      <4> QED
        BY <3>2, <4>1, <4>2
    <3> QED
      BY <3>1, <3>2
  <2> QED
    BY <2>1, <2>2, <2>3
<1>7. ToSet(t) = ToSet(s) \cup {x}
  <2>1. \A y \in ToSet(t) : y \in ToSet(s) \cup {x}
    BY <1>1, <1>6 DEF ToSet
  <2>2. x \in ToSet(t)
    BY <1>1, <1>6 DEF ToSet
  <2>3. ASSUME NEW a \in DOMAIN s PROVE s[a] \in ToSet(t)
    <3>1. CASE a < place
      BY <1>1, <1>6, <3>1 DEF ToSet
    <3>2. CASE ~(a < place)
      <4>1. a + 1 \in 1..(Len(s) + 1) /\ t[a + 1] = s[(a + 1) - 1] /\ (a + 1) - 1 = a
        BY <1>1, <1>6, <3>2
      <4> QED
        BY <1>6, <4>1 DEF ToSet
    <3> QED
      BY <3>1, <3>2
  <2> QED
    BY <2>1, <2>2, <2>3 DEF ToSet
<1>8. ASSUME IsInjective(s), x \notin ToSet(s) PROVE IsInjective(t)
  <2>1. \A a \in 1..Len(s) : s[a] # x
    BY <1>1, <1>8 DEF ToSet
  <2>2. ASSUME NEW a \in 1..(Len(s) + 1), NEW b \in 1..(Len(s) + 1), a < b PROVE t[a] # t[b]
    <3>1. CASE b < place
      BY <1>1, <1>6, <1>8, <2>2, <3>1 DEF IsInjective
    <3>2. CASE b = place
      BY <1>1, <1>6, <2>1, <2>2, <3>2
    <3>3. CASE b > place
      <4>1. t[b] = s[b - 1] /\ b - 1 \in 1..Len(s)
        BY <1>1, <1>6, <3>3
      <4>2. CASE a = place
        BY <1>6, <2>1, <4>1, <4>2
      <4>3. CASE a < place
        <5>1. t[a] = s[a] /\ a \in 1..Len(s) /\ a # b - 1
          BY <1>1, <1>6, <3>3, <4>3
        <5> QED
          BY <1>1, <1>8, <4>1, <5>1 DEF IsInjective
      <4>4. CASE a > place
        <5>1. t[a] = s[a - 1] /\ a - 1 \in 1..Len(s) /\ a - 1 # b - 1
          BY <1>1, <1>6, <2>2, <4>4
        <5> QED
          BY <1>1, <1>8, <4>1, <5>1 DEF IsInjective
      <4> QED
        BY <4>2, <4>3, <4>4
    <3> QED
      BY <3>1, <3>2, <3>3
  <2> QED
    BY <1>6, <2>2 DEF IsInjective
<1> QED
  BY <1>6, <1>7, <1>8 DEF t

\* An item less, and everything behind its place moves by one.
LEMMA RemoveAtItems ==
  ASSUME NEW S, NEW s \in Seq(S), NEW place \in DOMAIN s, IsInjective(s)
  PROVE  LET t == RemoveAt(s, place)
         IN  /\ t \in Seq(S) /\ Len(t) = Len(s) - 1
             /\ \A a \in 1..Len(t) : t[a] = IF a < place THEN s[a] ELSE s[a + 1]
             /\ ToSet(t) = ToSet(s) \ {s[place]}
             /\ IsInjective(t)
<1> DEFINE u == SubSeq(s, 1, place - 1)
           v == SubSeq(s, place + 1, Len(s))
           t == RemoveAt(s, place)
<1>1. /\ Len(s) \in Nat /\ DOMAIN s = 1..Len(s) /\ \A a \in 1..Len(s) : s[a] \in S
      /\ place \in 1..Len(s)
  OBVIOUS
<1>2. /\ u \in Seq(S) /\ Len(u) = place - 1 /\ \A a \in 1..(place - 1) : u[a] = s[a]
      /\ v \in Seq(S) /\ Len(v) = Len(s) - place
      /\ \A a \in 1..(Len(s) - place) : v[a] = s[place + a]
  <2>1. /\ u \in Seq(S) /\ Len(u) = place - 1 /\ \A a \in 1..(place - 1) : u[a] = s[a]
    BY <1>1, SubSeqProperties
  <2>2. /\ v \in Seq(S)
        /\ Len(v) = IF place + 1 =< Len(s) THEN Len(s) - (place + 1) + 1 ELSE 0
        /\ \A a \in 1..(Len(s) - (place + 1) + 1) : v[a] = s[(place + 1) + a - 1]
    <3>1. \A a \in (place + 1)..Len(s) : s[a] \in S
      BY <1>1
    <3>2. place + 1 \in Int /\ Len(s) \in Int
      BY <1>1
    <3> QED
      BY <3>1, <3>2, SubSeqProperties
  <2> HIDE DEF u, v
  <2>3. Len(v) = Len(s) - place
    BY <1>1, <2>2
  <2>4. ASSUME NEW a \in 1..(Len(s) - place) PROVE v[a] = s[place + a]
    <3>1. a \in 1..(Len(s) - (place + 1) + 1) /\ (place + 1) + a - 1 = place + a
      BY <1>1
    <3>2. v[a] = s[(place + 1) + a - 1]
      BY <2>2, <3>1
    <3> QED
      BY <3>1, <3>2
  <2> QED
    BY <2>1, <2>2, <2>3, <2>4
<1>3. t = u \o v
  BY DEF RemoveAt, u, v
<1> HIDE DEF u, v, t
<1>4. /\ t \in Seq(S) /\ Len(t) = Len(s) - 1 /\ DOMAIN t = 1..(Len(s) - 1)
      /\ \A a \in 1..(Len(s) - 1) : t[a] = IF a < place THEN s[a] ELSE s[a + 1]
  <2>1. /\ t \in Seq(S) /\ Len(t) = (place - 1) + (Len(s) - place)
        /\ \A a \in 1..((place - 1) + (Len(s) - place)) :
             t[a] = IF a =< place - 1 THEN u[a] ELSE v[a - (place - 1)]
    BY <1>2, <1>3, ConcatProperties
  <2>2. Len(t) = Len(s) - 1
    BY <1>1, <2>1
  <2>3. ASSUME NEW a \in 1..(Len(s) - 1)
        PROVE  t[a] = IF a < place THEN s[a] ELSE s[a + 1]
    <3>1. CASE a < place
      BY <1>1, <1>2, <2>1, <3>1
    <3>2. CASE ~(a < place)
      <4>1. t[a] = v[a - (place - 1)] /\ a - (place - 1) \in 1..(Len(s) - place)
        BY <1>1, <2>1, <3>2
      <4>2. v[a - (place - 1)] = s[place + (a - (place - 1))] /\ place + (a - (place - 1)) = a + 1
        BY <1>1, <1>2, <4>1
      <4> QED
        BY <3>2, <4>1, <4>2
    <3> QED
      BY <3>1, <3>2
  <2>4. DOMAIN t = 1..(Len(s) - 1)
    BY <2>1, <2>2, LenProperties
  <2> QED
    BY <2>1, <2>2, <2>3, <2>4
<1>5. IsInjective(t)
  BY <1>1, <1>4, SMTT(30) DEF IsInjective
<1>6. ToSet(t) = ToSet(s) \ {s[place]}
  <2>1. \A y \in ToSet(t) : y \in ToSet(s) \ {s[place]}
    BY <1>1, <1>4 DEF ToSet, IsInjective
  <2>2. ASSUME NEW a \in DOMAIN s, s[a] # s[place] PROVE s[a] \in ToSet(t)
    <3>1. CASE a < place
      BY <1>1, <1>4, <3>1 DEF ToSet
    <3>2. CASE ~(a < place)
      <4>1. a - 1 \in 1..(Len(s) - 1) /\ t[a - 1] = s[(a - 1) + 1] /\ (a - 1) + 1 = a
        BY <1>1, <1>4, <2>2, <3>2
      <4> QED
        BY <1>4, <4>1 DEF ToSet
    <3> QED
      BY <3>1, <3>2
  <2> QED
    BY <2>1, <2>2 DEF ToSet
<1> QED
  BY <1>4, <1>5, <1>6 DEF t

\* A list without duplicates is as long as it has items.
LEMMA DistinctLength ==
  ASSUME NEW S, NEW s \in Seq(S), IsInjective(s)
  PROVE  IsFiniteSet(ToSet(s)) /\ Len(s) = Cardinality(ToSet(s))
<1>1. Len(s) \in Nat /\ DOMAIN s = 1..Len(s)
  OBVIOUS
<1>2. s \in [1..Len(s) -> ToSet(s)] /\ \A x \in ToSet(s) : \E a \in 1..Len(s) : s[a] = x
  BY <1>1 DEF ToSet
<1>3. s \in Bijection(1..Len(s), ToSet(s))
  BY <1>1, <1>2 DEF Bijection, Injection, Surjection
<1>4. IsFiniteSet(1..Len(s)) /\ Cardinality(1..Len(s)) = Len(s)
  BY <1>1, FS_Interval
<1> QED
  BY <1>3, <1>4, FS_Bijection DEF ExistsBijection

\* The items of a set in order are these, each once.
LEMMA InOrderItems ==
  ASSUME NEW S \in SUBSET Items, NEW s \in InOrder(S)
  PROVE  s \in Seq(Items) /\ ToSet(s) = S /\ IsInjective(s)
<1>1. IsFiniteSet(S) /\ Cardinality(S) \in Nat /\ S \subseteq Nat
  BY FS_Subset, FS_CardinalityType, ListViewAssumption
<1>2. /\ s \in [1..Cardinality(S) -> S]
      /\ \A a, b \in 1..Cardinality(S) : a < b => s[a] < s[b]
  BY DEF InOrder
<1>3. IsInjective(s)
  <2>1. ASSUME NEW a \in 1..Cardinality(S), NEW b \in 1..Cardinality(S), s[a] = s[b]
        PROVE  a = b
    <3>1. s[a] \in Nat /\ s[b] \in Nat
      BY <1>1, <1>2
    <3> QED
      BY <1>1, <1>2, <2>1, <3>1
  <2> QED
    BY <1>2, <2>1 DEF IsInjective
<1>4. s \in Injection(1..Cardinality(S), S)
  BY <1>2, <1>3 DEF Injection
<1>5. Cardinality(1..Cardinality(S)) = Cardinality(S)
  BY <1>1, FS_Interval
<1>6. s \in Surjection(1..Cardinality(S), S)
  BY <1>1, <1>4, <1>5, FS_Injection
<1> QED
  BY <1>2, <1>3, <1>6, InOrderType DEF Surjection, ToSet

\* Sorting puts the items in order and keeps every one of them.
LEMMA StableSortsItems ==
  ASSUME NEW s \in Seq(Items), NEW t \in StableSorts(s), key \in [Items -> Keys]
  PROVE  /\ t \in Seq(Items) /\ ToSet(t) = ToSet(s)
         /\ IsInjective(s) => IsInjective(t)
         /\ Sorted(t)
<1>1. Len(s) \in Nat /\ DOMAIN s = 1..Len(s) /\ t \in [1..Len(s) -> ToSet(s)]
  BY DEF StableSorts
<1>2. PICK p \in [1..Len(s) -> 1..Len(s)] :
        \A a, b \in 1..Len(s) :
          /\ t[a] = s[p[a]]
          /\ a < b => \/ Before(t[a], t[b])
                      \/ ~Before(t[b], t[a]) /\ p[a] < p[b]
  BY <1>1 DEF StableSorts
<1>3. t \in Seq(Items) /\ DOMAIN t = 1..Len(s)
  BY <1>1, StableSortsType
<1>4. \A a \in 1..Len(s) : t[a] \in Items /\ key[t[a]] \in Nat
  <2>1. \A a \in 1..Len(s) : t[a] \in Items
    BY <1>3
  <2> QED
    BY <2>1, ListViewAssumption
<1>5. \A a, b \in 1..Len(s) : Before(t[a], t[b]) => ~Before(t[b], t[a])
  BY <1>4 DEF Before
<1>6. IsInjective(p)
  <2>1. ASSUME NEW a \in 1..Len(s), NEW b \in 1..Len(s), a < b, p[a] = p[b] PROVE FALSE
    <3>1. t[a] = t[b] /\ ~(p[a] < p[b]) /\ p[a] \in Nat
      BY <1>2, <2>1
    <3> QED
      BY <1>2, <1>5, <2>1, <3>1
  <2> QED
    BY <1>1, <1>2, <2>1 DEF IsInjective
<1>7. p \in Surjection(1..Len(s), 1..Len(s))
  <2>1. p \in Injection(1..Len(s), 1..Len(s))
    BY <1>2, <1>6 DEF Injection
  <2> QED
    BY <1>1, <2>1, FS_Interval, FS_Injection
<1>8. ToSet(t) = ToSet(s)
  <2>1. \A a \in 1..Len(s) : \E b \in 1..Len(s) : p[b] = a
    BY <1>7 DEF Surjection
  <2>2. \A a \in 1..Len(s) : s[a] \in ToSet(t)
    BY <1>2, <1>3, <2>1 DEF ToSet
  <2>3. \A a \in 1..Len(s) : t[a] \in ToSet(s)
    BY <1>1
  <2> QED
    BY <1>1, <1>3, <2>2, <2>3 DEF ToSet
<1>9. IsInjective(s) => IsInjective(t)
  BY <1>1, <1>2, <1>3, <1>6, SMTT(30) DEF IsInjective
<1>10. Sorted(t)
  BY <1>2, <1>3, <1>5 DEF Sorted
<1> QED
  BY <1>3, <1>8, <1>9, <1>10

\* upper_bound finds the place that keeps an ordered list in order.
LEMMA InsertKeepsSorted ==
  ASSUME NEW s \in Seq(Items), NEW x \in Items, NEW place \in Places(s, x),
         key \in [Items -> Keys], Sorted(s)
  PROVE  Sorted(InsertAt(s, place, x))
<1> DEFINE below == {a \in DOMAIN s : ~Before(x, s[a])}
           t     == InsertAt(s, place, x)
<1>1. /\ Len(s) \in Nat /\ DOMAIN s = 1..Len(s)
      /\ \A a \in 1..Len(s) : s[a] \in Items /\ key[s[a]] \in Nat
      /\ key[x] \in Nat
  <2>1. Len(s) \in Nat /\ DOMAIN s = 1..Len(s) /\ \A a \in 1..Len(s) : s[a] \in Items
    OBVIOUS
  <2>2. \A i \in Items : key[i] \in Nat
    BY ListViewAssumption
  <2> QED
    BY <2>1, <2>2
<1>2. place = 1 + Cardinality(below) /\ place \in 1..(Len(s) + 1)
  BY PlacesInList DEF Places
<1>3. IsFiniteSet(below) /\ Cardinality(below) \in Nat
  <2>1. below \in SUBSET (1..Len(s)) /\ IsFiniteSet(1..Len(s))
    BY <1>1, FS_Interval
  <2> HIDE DEF below
  <2> QED
    BY <2>1, FS_Subset, FS_CardinalityType
<1>4. \A a, b \in 1..Len(s) : a < b /\ b \in below => a \in below
  <2>1. ASSUME NEW a \in 1..Len(s), NEW b \in 1..Len(s), a < b, ~Before(x, s[b])
        PROVE  ~Before(x, s[a])
    <3>1. ~Before(s[b], s[a])
      BY <1>1, <2>1 DEF Sorted
    <3> QED
      BY <1>1, <2>1, <3>1 DEF Before
  <2> QED
    BY <1>1, <2>1
<1>5. below = 1..Cardinality(below)
  <2>1. ASSUME NEW b \in below PROVE b \in 1..Cardinality(below)
    <3>1. b \in 1..Len(s)
      BY <1>1
    <3>2. 1..b \in SUBSET below
      <4>1. ASSUME NEW a \in 1..b PROVE a \in below
        <5>1. a \in 1..Len(s) /\ (a < b \/ a = b)
          BY <1>1, <3>1
        <5> HIDE DEF below
        <5> QED
          BY <1>4, <3>1, <5>1
      <4> QED
        BY <4>1
    <3> HIDE DEF below
    <3>3. Cardinality(1..b) =< Cardinality(below) /\ Cardinality(1..b) = b
      BY <1>3, <3>1, <3>2, FS_Subset, FS_Interval
    <3> QED
      BY <1>3, <3>1, <3>3
  <2> HIDE DEF below
  <2>2. below \in SUBSET (1..Cardinality(below))
    BY <2>1
  <2>3. /\ IsFiniteSet(1..Cardinality(below))
        /\ Cardinality(1..Cardinality(below)) = Cardinality(below)
    BY <1>3, FS_Interval
  <2> QED
    BY <2>2, <2>3, FS_Subset
<1>6. /\ \A a \in 1..Len(s) : a < place => ~Before(x, s[a])
      /\ \A a \in 1..Len(s) : ~(a < place) => Before(x, s[a])
  <2>1. \A a \in 1..Len(s) : a \in below <=> a < place
    <3> HIDE DEF below
    <3> QED
      BY <1>1, <1>2, <1>3, <1>5
  <2> QED
    BY <1>1, <2>1
<1> HIDE DEF below
<1>7. /\ Len(t) = Len(s) + 1 /\ DOMAIN t = 1..(Len(s) + 1)
      /\ \A a \in 1..(Len(s) + 1) : t[a] = IF a < place THEN s[a]
                                           ELSE IF a = place THEN x ELSE s[a - 1]
  BY <1>2, InsertAtItems
<1> HIDE DEF t
<1>8. \A a, b \in 1..Len(s) : a < b => ~Before(s[b], s[a])
  BY <1>1 DEF Sorted
<1>9. \A a \in 1..Len(s) : Before(x, s[a]) => ~Before(s[a], x)
  BY <1>1 DEF Before
<1>10. ASSUME NEW a \in 1..(Len(s) + 1), NEW b \in 1..(Len(s) + 1), a < b
       PROVE  ~Before(t[b], t[a])
  <2>1. CASE b < place
    BY <1>1, <1>2, <1>7, <1>8, <1>10, <2>1
  <2>2. CASE b = place
    BY <1>1, <1>2, <1>6, <1>7, <1>10, <2>2
  <2>3. CASE b > place /\ a = place
    <3>1. t[b] = s[b - 1] /\ t[a] = x /\ b - 1 \in 1..Len(s) /\ ~(b - 1 < place)
      BY <1>1, <1>2, <1>7, <2>3
    <3> QED
      BY <1>6, <1>9, <3>1
  <2>4. CASE b > place /\ a < place
    <3>1. t[b] = s[b - 1] /\ t[a] = s[a] /\ b - 1 \in 1..Len(s) /\ a \in 1..Len(s) /\ a < b - 1
      BY <1>1, <1>2, <1>7, <2>4
    <3> QED
      BY <1>8, <3>1
  <2>5. CASE b > place /\ a > place
    <3>1. /\ t[b] = s[b - 1] /\ t[a] = s[a - 1]
          /\ b - 1 \in 1..Len(s) /\ a - 1 \in 1..Len(s) /\ a - 1 < b - 1
      BY <1>1, <1>2, <1>7, <1>10, <2>5
    <3> QED
      BY <1>8, <3>1
  <2> QED
    BY <1>2, <2>1, <2>2, <2>3, <2>4, <2>5
<1> QED
  BY <1>7, <1>10 DEF Sorted, t

\* Removing keeps the order.
LEMMA RemoveKeepsSorted ==
  ASSUME NEW s \in Seq(Items), NEW place \in DOMAIN s, IsInjective(s), Sorted(s)
  PROVE  Sorted(RemoveAt(s, place))
<1> DEFINE t == RemoveAt(s, place)
<1>1. Len(s) \in Nat /\ DOMAIN s = 1..Len(s) /\ place \in 1..Len(s)
  OBVIOUS
<1>2. /\ DOMAIN t = 1..(Len(s) - 1)
      /\ \A a \in 1..(Len(s) - 1) : t[a] = IF a < place THEN s[a] ELSE s[a + 1]
  BY RemoveAtItems
<1> HIDE DEF t
<1>3. ASSUME NEW a \in 1..(Len(s) - 1), NEW b \in 1..(Len(s) - 1), a < b
      PROVE  \E c, d \in 1..Len(s) : c < d /\ t[a] = s[c] /\ t[b] = s[d]
  <2> DEFINE c == IF a < place THEN a ELSE a + 1
             d == IF b < place THEN b ELSE b + 1
  <2>1. c \in 1..Len(s) /\ d \in 1..Len(s) /\ c < d /\ t[a] = s[c] /\ t[b] = s[d]
    BY <1>1, <1>2, <1>3
  <2> QED
    BY <2>1
<1>4. \A c, d \in 1..Len(s) : c < d => ~Before(s[d], s[c])
  BY <1>1 DEF Sorted
<1>5. \A a, b \in 1..(Len(s) - 1) : a < b => ~Before(t[b], t[a])
  BY <1>3, <1>4
<1> QED
  BY <1>2, <1>5 DEF Sorted, t
-----------------------------------------------------------------------------
(* The view and the users                                                  *)
(*                                                                         *)
(* As long as requests of the view wait for its timer, and filters for the *)
(* active view, each difference between the users, the lists of the view   *)
(* and the client's copy has a task, a flag or a run that removes it.      *)

\* Where the threads can be, and what both leave behind.
Positions ==
  /\ req.pc \in {"activate", "clear", "reset"} => ~active
  /\ req.pc \in {"init", "start", "match", "swap"} => active
  /\ ~active => run.pc = "idle" /\ (running => req.pc = "activate")
  /\ run.pc = "idle" => run = IdleRun
  /\ run.pc \in {"publish", "send"} => run.tasks = NoTasks
  /\ req.pc \in {"match", "swap"} => filtered
  /\ ~filtered => filter = NoFilter
  /\ req.pc \in {"add", "update", "remove"} => req.item \in Items
  /\ resort => Queued # {}

\* A view that is not active yet, or not any more, is empty.
Blank ==
  (~active /\ req.pc # "clear") \/ req.pc = "init" =>
    /\ tasks = NoTasks /\ filter = NoFilter /\ ~filtered /\ ~dropped
    /\ source = {} /\ matching = <<>> /\ prev.total = -1
    /\ req.pc # "reset" => client.shown = <<>> /\ client.start = -1

\* The task is being queued, it waits in the queue, or in the run.
Asked(task, i) == req.pc = task /\ req.item = i
Touched(i)     == \E task \in {"add", "update", "remove"} : Asked(task, i)
Waits(task, i) == Asked(task, i) \/ tasks[i] = task \/ run.tasks[i] = task

\* The tasks of an item come in the order of its life.
InTurn ==
  /\ source \cup ToSet(client.shown) \subseteq seen
  /\ \A i \in Items :
       /\ tasks[i] # "none" \/ run.tasks[i] # "none" \/ Touched(i) => i \in seen
       /\ Asked("add", i) => tasks[i] = "none" /\ run.tasks[i] = "none"
       /\ tasks[i] = "add" => run.tasks[i] = "none"
       /\ tasks[i] = "remove" => ~Touched(i)
       /\ run.tasks[i] = "remove" => tasks[i] = "none" /\ ~Touched(i)
       /\ Waits("remove", i) => i \notin users
       /\ Waits("add", i) => i \notin source \cup ToSet(client.shown)

\* The source items are the users, up to the tasks that wait.
Listed ==
  active /\ req.pc # "init" /\ ~dropped =>
    \A i \in Items :
      /\ i \in users => i \in source \/ Waits("add", i)
      /\ i \in source \/ Waits("add", i) => i \in users \/ Waits("remove", i)

\* The matching items are source items, each once, and those that match up to
\* the tasks that wait.
Filtered ==
  /\ IsInjective(matching) /\ ToSet(matching) \subseteq source
  /\ ~filtered => ToSet(matching) = source
  /\ req.pc = "swap" => /\ IsInjective(req.copy)
                        /\ ToSet(req.copy) = {i \in source : Matches(i)}
  /\ active /\ req.pc \notin {"init", "match", "swap"} /\ ~dropped =>
       \A i \in source : \/ i \in ToSet(matching) <=> Matches(i)
                         \/ Waits("update", i) \/ Waits("remove", i)

\* The list is in order, or the next run sorts it.
Order(asc) ==
  \A a, b \in DOMAIN matching : a < b =>
    IF asc = 1 THEN key[matching[a]] =< key[matching[b]]
               ELSE key[matching[a]] >= key[matching[b]]

Ordered ==
  resort \/ flags.list \/ req.pc = "update" \/
    /\ run.pc \in {"idle", "send"}     => Order(prev.asc)
    /\ run.pc = "values"               => run.resort \/ Order(prev.asc)
    /\ run.pc = "sort"                 => run.resort \/ Order(run.values["asc"])
    /\ run.pc \in {"tasks", "publish"} => Order(run.values["asc"])

\* What the timer knows of the settings and has done about them.
Settled ==
  /\ run.pc \in {"sort", "tasks", "publish", "send"} =>
       /\ run.values = values /\ values["sort"] >= 0 /\ ~flags.values /\ ~flags.list
       /\ run.start >= 0 <=> values["start"] >= 0
  /\ values["sort"] < 0 => /\ prev.total = -1 /\ client.shown = <<>>
                           /\ flags.list \/ matching = <<>>
  /\ values["start"] < 0 => client.start < 0 /\ client.shown = <<>>
  /\ values["max"] < 0 => client.shown = <<>>
  /\ run.pc \in {"idle", "values"} /\ prev.total # -1 /\ ~flags.values => prev.asc = values["asc"]
  /\ run.pc = "send" => prev.asc = values["asc"]

RangeOf(start) == SubSeq(matching, start + 1, Least(start + values["max"], Len(matching)))

\* The range of the run becomes what the client shows.
Ranged ==
  /\ run.pc \in {"publish", "send"} =>
       IF run.sent THEN /\ run.start \in 0..Len(matching) /\ values["max"] >= 0
                        /\ run.next = RangeOf(run.start)
                   ELSE run.start < 0 \/ run.start > Len(matching) \/ values["max"] < 0
  /\ run.pc \in {"idle", "values"} /\ prev.total # -1 /\ ~flags.values /\ ~flags.list
        /\ client.start \in 0..Len(matching) =>
       /\ client.shown = RangeOf(client.start)
       /\ prev.matching = Len(matching) /\ prev.total = Cardinality(source)

\* A change of an item that the next run will report.
Late(i) == \E task \in {"update", "remove"} : tasks[i] = task \/ Asked(task, i)

\* What the client has of an item is current or is going to be sent.
Fresh ==
  /\ run.pc # "send" => ToSet(viewport) \subseteq ToSet(client.shown)
  /\ ~filtered /\ req.pc # "reset" =>
       /\ run.pc \notin {"publish", "send"} =>
            \A i \in ToSet(client.shown) :
              \/ client.known[i] = key[i] \/ Late(i) \/ run.tasks[i] \in {"update", "remove"}
              \/ run.pc = "tasks" /\ (i \in run.updated \/ i \notin ToSet(matching))
       /\ run.pc \in {"publish", "send"} =>
            /\ \A i \in ToSet(run.next) :
                 \/ run.described[i] = key[i] \/ Late(i)
                 \/ run.described[i] = Unknown /\ client.known[i] = key[i]
            /\ ~run.sent => client.shown = <<>>

\* Which of two tasks of an item stays.
LEMMA MergeTasks ==
  ASSUME NEW old \in DOMAIN TaskRank
  PROVE  /\ Merge(old, "remove") = "remove"
         /\ Merge(old, "add") = IF old = "remove" THEN "remove" ELSE "add"
         /\ Merge(old, "update") = IF old \in {"add", "remove"} THEN old ELSE "update"
<1>1. /\ TaskRank["none"] = 0 /\ TaskRank["update"] = 1 /\ TaskRank["add"] = 2 /\ TaskRank["remove"] = 3
      /\ old \in {"none", "update", "add", "remove"}
  BY DEF TaskRank
<1> QED
  BY <1>1 DEF Merge

\* Every step of a view whose requests wait for the timer keeps each part of the
\* invariant; the lemmas named ...Kept show it for one part each.
LEMMA PositionsKept ==
  ASSUME ~Overlap, ~EarlyFilter, DescribedInv, Positions, [Next]_vars
  PROVE  Positions'
<1>1. /\ req \in Requests /\ run \in Runs /\ filtered \in BOOLEAN /\ resort \in BOOLEAN
      /\ tasks \in [Items -> DOMAIN TaskRank]
      /\ Exclusive /\ active \in BOOLEAN
  BY DEF DescribedInv, TypeOK
<1>2. IdleReq.pc = "idle" /\ IdleRun.pc = "idle"
  BY DEF IdleReq, IdleRun
<1>3. \A i \in Items : NoTasks[i] = "none"
  BY DEF NoTasks
<1> USE DEF lists, history, owner
<1>4. ASSUME NEW i \in Items, NEW k \in Keys, AddUser(i, k) \/ UpdateUser(i, k) PROVE Positions'
  <2>1. req'.pc \in {"add", "update"} /\ req'.item = i
    BY <1>4 DEF AddUser, UpdateUser, Fire, IdleReq
  <2>2. req.pc = "idle" /\ UNCHANGED <<active, running, run, filter, filtered, resort, tasks>>
    BY <1>4 DEF AddUser, UpdateUser
  <2> QED
    BY <2>1, <2>2 DEF Positions, Queued
<1>5. ASSUME NEW i \in Items, RemoveUser(i) PROVE Positions'
  <2>1. req'.pc = "remove" /\ req'.item = i
    BY <1>5 DEF RemoveUser, Fire, IdleReq
  <2>2. req.pc = "idle" /\ UNCHANGED <<active, running, run, filter, filtered, resort, tasks>>
    BY <1>5 DEF RemoveUser
  <2> QED
    BY <2>1, <2>2 DEF Positions, Queued
<1>6. CASE QueueTask
  <2>1. /\ req'.pc = "idle" /\ req.pc \in {"add", "update", "remove"}
        /\ UNCHANGED <<active, running, run, filter, filtered>>
    BY <1>2, <1>6 DEF QueueTask
  <2>2. resort' => Queued' # {}
    <3>1. CASE active
      <4>1. /\ req.item \in Items
            /\ tasks' = [tasks EXCEPT ![req.item] = Merge(@, req.pc)]
        BY <1>6, <2>1, <3>1 DEF QueueTask, Positions
      <4>2. tasks'[req.item] = Merge(tasks[req.item], req.pc) /\ tasks[req.item] \in DOMAIN TaskRank
        BY <1>1, <4>1
      <4>3. tasks'[req.item] # "none"
        BY <2>1, <4>2, MergeTasks
      <4> QED
        BY <4>1, <4>3 DEF Queued
    <3>2. CASE ~active
      BY <1>6, <3>2 DEF QueueTask, Queued, Positions
    <3> QED
      BY <3>1, <3>2
  <2> QED
    BY <2>1, <2>2 DEF Positions
<1>7. ASSUME NEW post \in Posts, PostSettings(post) PROVE Positions'
  <2>1. /\ req.pc = "idle" /\ run.pc = "idle" /\ UNCHANGED <<active, run, filter, filtered, resort, tasks>>
        /\ req'.pc = IF active THEN "idle" ELSE "activate"
    BY <1>7 DEF PostSettings, MayRequest, IdleReq
  <2> QED
    BY <2>1 DEF Positions, Queued
<1>8. CASE SetActive \/ InitItems \/ StartTimer \/ MatchItems \/ SwapMatching
  <2>1. /\ UNCHANGED <<run, filter, filtered, resort, tasks>> /\ active'
        /\ req'.pc \in {"init", "start", "swap", "idle"} /\ (req'.pc = "swap" => filtered)
    BY <1>1, <1>2, <1>8 DEF SetActive, InitItems, StartTimer, MatchItems, SwapMatching, Positions, Requests
  <2> QED
    BY <2>1 DEF Positions, Queued
<1>9. ASSUME NEW f, SetFilter(f) PROVE Positions'
  <2>1. /\ active /\ filtered' /\ req'.pc = "match"
        /\ UNCHANGED <<active, run, running, resort, tasks>>
    BY <1>9 DEF SetFilter, IdleReq
  <2> QED
    BY <2>1 DEF Positions, Queued
<1>10. CASE Stop \/ Clear \/ ResetValues
  <2>1. /\ ~active' /\ run.pc = "idle" /\ UNCHANGED run /\ ~running'
        /\ req'.pc \in {"clear", "reset", "idle"}
        /\ UNCHANGED <<filter, filtered>> \/ (filter' = NoFilter /\ ~filtered')
        /\ UNCHANGED <<resort, tasks>> \/ ~resort'
    BY <1>1, <1>10 DEF Stop, Clear, ResetValues, MayRequest, IdleReq, Positions, Requests
  <2> QED
    BY <2>1 DEF Positions, Queued
<1>11. CASE TakeTasks
  <2>1. /\ UNCHANGED <<req, active, running, filter, filtered>> /\ ~resort' /\ running
        /\ run'.pc = "values" /\ req.pc \notin ViewRequest
    BY <1>11 DEF TakeTasks, IdleRun
  <2> QED
    BY <2>1 DEF Positions, ViewRequest
<1>12. CASE ReadValues \/ MaybeSort \/ UpdateViewItems \/ Publish \/ Send
  <2>1. /\ UNCHANGED <<req, active, running, filter, filtered, resort, tasks>> /\ run.pc # "idle"
    BY <1>1, <1>12 DEF ReadValues, MaybeSort, UpdateViewItems, Publish, Send, Runs
  <2>2. run' = IdleRun \/ run'.pc \in {"sort", "tasks", "publish", "send"}
    <3>1. CASE ReadValues
      BY <1>1, <3>1 DEF ReadValues, Runs
    <3>2. CASE MaybeSort \/ Publish \/ Send
      BY <1>1, <3>2 DEF MaybeSort, Publish, Send, Runs
    <3>3. CASE UpdateViewItems
      BY <1>1, <3>3 DEF UpdateViewItems, Runs
    <3> QED
      BY <1>12, <3>1, <3>2, <3>3
  <2>3. run'.pc \in {"publish", "send"} => run'.tasks = NoTasks
    <3>1. CASE ReadValues \/ MaybeSort
      BY <1>1, <1>2, <3>1 DEF ReadValues, MaybeSort, Runs
    <3>2. CASE UpdateViewItems
      BY <1>1, <3>2 DEF UpdateViewItems, Runs
    <3>3. CASE Publish \/ Send
      BY <1>1, <1>2, <3>3 DEF Publish, Send, Runs, Positions
    <3> QED
      BY <1>12, <3>1, <3>2, <3>3
  <2> QED
    BY <1>2, <2>1, <2>2, <2>3 DEF Positions, Queued
<1>13. ASSUME NEW i \in Items, HandleTask(i) PROVE Positions'
  <2>1. /\ UNCHANGED <<req, active, running, filter, filtered, resort, tasks>>
        /\ run.pc = "tasks" /\ run'.pc = "tasks"
    BY <1>13, HandleTaskKeeps DEF HandleTask, DescribedInv
  <2> QED
    BY <2>1 DEF Positions, Queued
<1>14. CASE UNCHANGED vars
  BY <1>14 DEF Positions, Queued, vars
<1> QED
  BY <1>4, <1>5, <1>6, <1>7, <1>8, <1>9, <1>10, <1>11, <1>12, <1>13, <1>14
     DEF Next, UserRequest, ViewRequests, RunTasks

LEMMA BlankKept ==
  ASSUME ~Overlap, ~EarlyFilter, DescribedInv, Positions, Blank, [Next]_vars
  PROVE  Blank'
<1>1. /\ req \in Requests /\ run \in Runs /\ Exclusive /\ active \in BOOLEAN
      /\ filtered \in BOOLEAN /\ dropped \in BOOLEAN
      /\ values \in [Settings -> OptionalNat]
  BY DEF DescribedInv, TypeOK
<1>2. IdleReq.pc = "idle" /\ IdleRun.pc = "idle"
  BY DEF IdleReq, IdleRun
<1> USE DEF lists, history, owner
<1>3. ASSUME UNCHANGED <<tasks, filter, filtered, dropped, source, matching, prev, client, active>>,
             req'.pc \notin {"clear", "init"} \/ (active /\ req'.pc # "init"), req.pc \notin {"clear", "reset"}
      PROVE  Blank'
  BY <1>3 DEF Blank
<1>4. ASSUME NEW i \in Items, NEW k, AddUser(i, k) \/ UpdateUser(i, k) \/ RemoveUser(i) PROVE Blank'
  <2>1. req'.pc \in {"add", "update", "remove"} /\ req.pc = "idle"
    BY <1>4 DEF AddUser, UpdateUser, RemoveUser, Fire, IdleReq
  <2> QED
    BY <1>3, <1>4, <2>1 DEF AddUser, UpdateUser, RemoveUser
<1>5. CASE QueueTask
  <2>1. req'.pc = "idle" /\ req.pc \in {"add", "update", "remove"}
    BY <1>2, <1>5 DEF QueueTask
  <2> QED
    BY <1>5, <2>1 DEF QueueTask, Blank
<1>6. ASSUME NEW post \in Posts, PostSettings(post) PROVE Blank'
  <2>1. req.pc = "idle" /\ req'.pc = IF active THEN "idle" ELSE "activate"
    BY <1>6 DEF PostSettings, MayRequest, IdleReq
  <2> QED
    BY <1>3, <1>6, <2>1 DEF PostSettings
<1>7. CASE SetActive
  <2>1. req.pc = "activate" /\ ~active
    BY <1>7 DEF SetActive, Positions
  <2> QED
    BY <1>7, <2>1 DEF SetActive, Blank
<1>8. CASE InitItems \/ StartTimer \/ MatchItems \/ SwapMatching
  <2>1. active' /\ req'.pc \in {"start", "swap", "idle"}
    BY <1>1, <1>2, <1>8 DEF InitItems, StartTimer, MatchItems, SwapMatching, Positions, Requests
  <2> QED
    BY <2>1 DEF Blank
<1>9. ASSUME NEW f, SetFilter(f) PROVE Blank'
  <2>1. active' /\ req'.pc = "match"
    BY <1>9 DEF SetFilter, IdleReq
  <2> QED
    BY <2>1 DEF Blank
<1>10. CASE Stop
  BY <1>10 DEF Stop, IdleReq, Blank
<1>11. CASE Clear
  BY <1>1, <1>11 DEF Clear, TypeOK, Blank, Requests, DescribedInv
<1>12. CASE ResetValues
  BY <1>2, <1>12 DEF ResetValues, Blank, Positions
<1>13. CASE RunTasks
  <2>1. active
    BY <1>13 DEF Positions, RunTasks, TakeTasks, ReadValues, MaybeSort, HandleTask, UpdateViewItems,
       Publish, Send, ViewRequest
  <2>2. UNCHANGED <<active, req>> /\ req.pc \notin ViewRequest
    BY <1>1, <1>13 DEF Exclusive, RunTasks, TakeTasks, ReadValues, MaybeSort, HandleTask, UpdateViewItems,
       Publish, Send
  <2> QED
    BY <2>1, <2>2 DEF Blank, ViewRequest
<1>14. CASE UNCHANGED vars
  BY <1>14 DEF Blank, vars
<1> QED
  BY <1>4, <1>5, <1>6, <1>7, <1>8, <1>9, <1>10, <1>11, <1>12, <1>13, <1>14
     DEF Next, UserRequest, ViewRequests

\* An item enters the list.
LEMMA AddMatchingEffect ==
  ASSUME TypeOK, IsInjective(matching), NEW i \in Items, i \notin ToSet(matching),
         NEW then \in Runs, AddMatching(i, then)
  PROVE  /\ IsInjective(matching') /\ ToSet(matching') = ToSet(matching) \cup {i}
         /\ Sorted(matching) => Sorted(matching')
         /\ run'.tasks = then.tasks /\ run'.values = then.values /\ run'.updated = then.updated
         /\ run'.start >= 0 <=> then.start >= 0
<1>1. PICK place \in Places(matching, i) :
        /\ matching' = InsertAt(matching, place, i)
        /\ run' = [then EXCEPT !.start = IF place - 1 < @ THEN @ + 1 ELSE @]
  BY DEF AddMatching
<1>2. matching \in Seq(Items) /\ key \in [Items -> Keys]
  BY DEF TypeOK
<1>3. place \in 1..(Len(matching) + 1) /\ Len(matching) \in Nat
  BY <1>2, PlacesInList
<1>4. IsInjective(matching') /\ ToSet(matching') = ToSet(matching) \cup {i}
  BY <1>1, <1>2, <1>3, InsertAtItems
<1>5. Sorted(matching) => Sorted(matching')
  BY <1>1, <1>2, InsertKeepsSorted
<1>6. then.start \in OptionalNat /\ place \in Nat \ {0}
  BY <1>3 DEF Runs
<1>7. /\ run'.tasks = then.tasks /\ run'.values = then.values /\ run'.updated = then.updated
      /\ run'.start = IF place - 1 < then.start THEN then.start + 1 ELSE then.start
  BY <1>1 DEF Runs
<1>8. run'.start >= 0 <=> then.start >= 0
  BY <1>6, <1>7 DEF OptionalNat
<1> QED
  BY <1>4, <1>5, <1>7, <1>8

\* An item leaves the list, if it is in there.
LEMMA RemoveMatchingEffect ==
  ASSUME TypeOK, IsInjective(matching), NEW i \in Items, NEW then \in Runs, RemoveMatching(i, then)
  PROVE  /\ IsInjective(matching') /\ ToSet(matching') = ToSet(matching) \ {i}
         /\ Sorted(matching) => Sorted(matching')
         /\ run'.tasks = then.tasks /\ run'.values = then.values /\ run'.updated = then.updated
         /\ run'.start >= 0 <=> then.start >= 0
<1>1. matching \in Seq(Items)
  BY DEF TypeOK
<1>2. CASE i \notin ToSet(matching)
  <2>1. matching' = matching /\ run' = then
    BY <1>2 DEF RemoveMatching
  <2> QED
    BY <1>2, <2>1
<1>3. CASE i \in ToSet(matching)
  <2>1. PICK place \in DOMAIN matching :
          /\ matching[place] = i
          /\ matching' = RemoveAt(matching, place)
          /\ run' = [then EXCEPT !.start = IF @ > 0 /\ place - 1 > @ THEN @ - 1 ELSE @]
    BY <1>3 DEF RemoveMatching
  <2>2. IsInjective(matching') /\ ToSet(matching') = ToSet(matching) \ {i}
    BY <1>1, <2>1, RemoveAtItems
  <2>3. Sorted(matching) => Sorted(matching')
    BY <1>1, <2>1, RemoveKeepsSorted
  <2>4. then.start \in OptionalNat /\ place \in Nat
    BY <1>1 DEF Runs
  <2>5. /\ run'.tasks = then.tasks /\ run'.values = then.values /\ run'.updated = then.updated
        /\ run'.start = IF then.start > 0 /\ place - 1 > then.start THEN then.start - 1 ELSE then.start
    BY <2>1 DEF Runs
  <2>6. run'.start >= 0 <=> then.start >= 0
    BY <2>4, <2>5 DEF OptionalNat
  <2> QED
    BY <2>2, <2>3, <2>5, <2>6
<1> QED
  BY <1>2, <1>3

\* One task of a run brings its item to where it belongs and nothing else.
LEMMA HandleTaskEffect ==
  ASSUME DescribedInv, InTurn, IsInjective(matching), ToSet(matching) \subseteq source,
         NEW i \in Items, HandleTask(i)
  PROVE  /\ UNCHANGED <<users, seen, key, active, running, tasks, resort, viewport, filter, values,
                        flags, prev, req, client, filtered, dropped>>
         /\ run.pc = "tasks" /\ run'.pc = "tasks" /\ run.tasks[i] \in {"add", "update", "remove"}
         /\ run'.tasks = [run.tasks EXCEPT ![i] = "none"] /\ run'.values = run.values
         /\ run'.start >= 0 <=> run.start >= 0
         /\ source' = CASE run.tasks[i] = "add"    -> source \cup {i}
                        [] run.tasks[i] = "remove" -> source \ {i}
                        [] OTHER                   -> source
         /\ IsInjective(matching')
         /\ ToSet(matching') = IF i \in source' /\ Matches(i) THEN ToSet(matching) \cup {i}
                                                             ELSE ToSet(matching) \ {i}
         /\ Sorted(matching) => Sorted(matching')
         /\ run.updated \subseteq run'.updated
         /\ run.tasks[i] = "update" /\ i \in ToSet(matching) /\ Matches(i) => i \in run'.updated
<1>1. TypeOK /\ run \in Runs /\ source \subseteq Items
  BY DEF DescribedInv, TypeOK
<1>2. /\ UNCHANGED <<users, seen, key, active, running, tasks, resort, viewport, filter, values,
                     flags, prev, req, client, filtered, dropped>>
      /\ run.pc = "tasks" /\ run'.pc = "tasks"
  BY <1>1, HandleTaskKeeps DEF HandleTask, owner, history
<1>3. /\ Done(i) \in Runs /\ Done(i).tasks = [run.tasks EXCEPT ![i] = "none"]
      /\ Done(i).values = run.values /\ Done(i).start = run.start /\ Done(i).updated = run.updated
  BY <1>1, IdleTypes DEF Done, Runs
<1> HIDE DEF Done
<1>4. CASE HandleAdd(i)
  <2>1. run.tasks[i] = "add" /\ source' = source \cup {i} /\ i \notin ToSet(matching)
    BY <1>4 DEF HandleAdd, InTurn, Waits
  <2>2. CASE Matches(i)
    <3>1. AddMatching(i, Done(i))
      BY <1>4, <2>2 DEF HandleAdd
    <3> QED
      BY <1>1, <1>2, <1>3, <2>1, <2>2, <3>1, AddMatchingEffect
  <2>3. CASE ~Matches(i)
    <3>1. matching' = matching /\ run' = Done(i)
      BY <1>4, <2>3 DEF HandleAdd
    <3>2. ToSet(matching') = ToSet(matching) \ {i}
      BY <2>1, <3>1
    <3> QED
      BY <1>2, <1>3, <2>1, <2>3, <3>1, <3>2
  <2> QED
    BY <2>2, <2>3
<1>5. CASE HandleRemove(i)
  <2>1. run.tasks[i] = "remove" /\ source' = source \ {i} /\ RemoveMatching(i, Done(i))
    BY <1>5 DEF HandleRemove
  <2> QED
    BY <1>1, <1>2, <1>3, <2>1, RemoveMatchingEffect
<1>6. CASE HandleUpdate(i)
  <2>1. run.tasks[i] = "update" /\ source' = source
    BY <1>6 DEF HandleUpdate
  <2>2. CASE i \in ToSet(matching) /\ ~Matches(i)
    <3>1. RemoveMatching(i, Done(i))
      BY <1>6, <2>2 DEF HandleUpdate
    <3> QED
      BY <1>1, <1>2, <1>3, <2>1, <2>2, <3>1, RemoveMatchingEffect
  <2>3. CASE i \in ToSet(matching) /\ Matches(i)
    <3>1. matching' = matching /\ run' = [Done(i) EXCEPT !.updated = @ \cup {i}]
      BY <1>6, <2>3 DEF HandleUpdate
    <3>2. /\ run'.tasks = Done(i).tasks /\ run'.values = run.values /\ run'.start = run.start
          /\ run'.updated = run.updated \cup {i}
      BY <1>3, <3>1 DEF Runs
    <3>3. ToSet(matching') = ToSet(matching) \cup {i}
      BY <2>3, <3>1
    <3> QED
      BY <1>2, <1>3, <2>1, <2>3, <3>1, <3>2, <3>3
  <2>4. CASE i \notin ToSet(matching) /\ i \in source /\ Matches(i)
    <3>1. AddMatching(i, Done(i))
      BY <1>6, <2>4 DEF HandleUpdate
    <3> QED
      BY <1>1, <1>2, <1>3, <2>1, <2>4, <3>1, AddMatchingEffect
  <2>5. CASE i \notin ToSet(matching) /\ ~(i \in source /\ Matches(i))
    <3>1. matching' = matching /\ run' = Done(i)
      BY <1>6, <2>5 DEF HandleUpdate
    <3>2. ToSet(matching') = ToSet(matching) \ {i}
      BY <2>5, <3>1
    <3> QED
      BY <1>2, <1>3, <2>1, <2>5, <3>1, <3>2
  <2> QED
    BY <2>2, <2>3, <2>4, <2>5
<1> QED
  BY <1>4, <1>5, <1>6 DEF HandleTask

\* Queuing an event makes it a task of an active view, unless it has a greater one.
LEMMA QueueTaskEffect ==
  ASSUME DescribedInv, Positions, Blank, QueueTask
  PROVE  /\ req.pc \in {"add", "update", "remove"} /\ req'.pc = "idle"
         /\ UNCHANGED <<users, seen, key, active, running, source, matching, viewport, filter, values,
                        flags, prev, run, client, filtered, dropped>>
         /\ ~active => UNCHANGED <<tasks, resort>> /\ source = {} /\ matching = <<>> /\ client.shown = <<>>
         /\ active => \A i \in Items :
              tasks'[i] = CASE ~Touched(i)                                      -> tasks[i]
                            [] Asked("remove", i)                               -> "remove"
                            [] Asked("add", i)                                  ->
                                 IF tasks[i] = "remove" THEN "remove" ELSE "add"
                            [] OTHER                                            ->
                                 IF tasks[i] \in {"add", "remove"} THEN tasks[i] ELSE "update"
         /\ active => (resort' <=> resort \/ req.pc = "update")
<1>1. /\ req.pc \in {"add", "update", "remove"} /\ req'.pc = "idle" /\ req.item \in Items
      /\ UNCHANGED <<users, seen, key, active, running, source, matching, viewport, filter, values,
                     flags, prev, run, client, filtered, dropped>>
      /\ tasks \in [Items -> DOMAIN TaskRank]
  BY DEF QueueTask, IdleReq, Positions, lists, owner, history, DescribedInv, TypeOK
<1>2. CASE ~active
  BY <1>1, <1>2 DEF QueueTask, Blank
<1>3. CASE active
  <2>1. tasks' = [tasks EXCEPT ![req.item] = Merge(@, req.pc)] /\ resort' = (resort \/ req.pc = "update")
    BY <1>3 DEF QueueTask
  <2>2. \A i \in Items : i # req.item => tasks'[i] = tasks[i] /\ ~Touched(i)
    BY <1>1, <2>1 DEF Touched, Asked
  <2>3. tasks'[req.item] = Merge(tasks[req.item], req.pc) /\ tasks[req.item] \in DOMAIN TaskRank
    BY <1>1, <2>1
  <2>4. /\ req.pc = "remove" => tasks'[req.item] = "remove"
        /\ req.pc = "add" => tasks'[req.item] = IF tasks[req.item] = "remove" THEN "remove" ELSE "add"
        /\ req.pc = "update" => tasks'[req.item] = IF tasks[req.item] \in {"add", "remove"}
                                                   THEN tasks[req.item] ELSE "update"
    BY <2>3, MergeTasks
  <2>5. /\ Touched(req.item)
        /\ \A task : Asked(task, req.item) <=> req.pc = task
    BY <1>1 DEF Touched, Asked
  <2>6. ASSUME NEW i \in Items
        PROVE  tasks'[i] = CASE ~Touched(i)           -> tasks[i]
                             [] Asked("remove", i)    -> "remove"
                             [] Asked("add", i)       ->
                                  IF tasks[i] = "remove" THEN "remove" ELSE "add"
                             [] OTHER                 ->
                                  IF tasks[i] \in {"add", "remove"} THEN tasks[i] ELSE "update"
    <3>1. CASE i # req.item
      BY <2>2, <3>1 DEF Touched
    <3>2. CASE i = req.item
      BY <1>1, <2>4, <2>5, <3>2
    <3> QED
      BY <3>1, <3>2
  <2> QED
    BY <1>1, <1>3, <2>1, <2>6
<1> QED
  BY <1>2, <1>3

\* What idle threads hold.
LEMMA NothingIsIdle ==
  /\ IdleReq.pc = "idle" /\ IdleRun.pc = "idle" /\ IdleRun.tasks = NoTasks /\ IdleRun.next = <<>>
  /\ ~IdleRun.sent /\ IdleRun.updated = {} /\ IdleRun.values = Unset
  /\ \A i \in Items : NoTasks[i] = "none"
  BY DEF IdleReq, IdleRun, NoTasks

\* What a step has to leave alone to keep the order of the tasks.
LEMMA InTurnFrame ==
  ASSUME InTurn, UNCHANGED <<users, seen, source, tasks, client>>, run'.tasks = run.tasks,
         UNCHANGED req \/ (req.pc \notin {"add", "update", "remove"}
                           /\ req'.pc \notin {"add", "update", "remove"})
  PROVE  InTurn'
<1>1. \A task \in {"add", "update", "remove"} : \A i : Asked(task, i)' <=> Asked(task, i)
  BY DEF Asked
<1>2. /\ \A i : Touched(i)' <=> Touched(i)
      /\ \A task \in {"add", "update", "remove"} : \A i : Waits(task, i)' <=> Waits(task, i)
  BY <1>1 DEF Touched, Waits
<1> QED
  BY <1>1, <1>2 DEF InTurn

\* A step of the timer that works on no item.
LEMMA TimerFrame ==
  ASSUME TypeOK, ReadValues \/ MaybeSort \/ UpdateViewItems \/ Publish \/ Send
  PROVE  /\ UNCHANGED <<users, seen, key, active, running, tasks, resort, source, filter, values,
                        req, filtered>>
         /\ ReadValues \/ UNCHANGED <<flags, dropped>>
         /\ MaybeSort \/ UNCHANGED matching
         /\ Publish \/ UNCHANGED viewport
         /\ Publish \/ Send \/ UNCHANGED prev
         /\ Send \/ UNCHANGED client
         /\ run'.tasks = run.tasks \/ run' = IdleRun
         /\ run' = IdleRun => \/ Send
                              \/ ReadValues /\ values["sort"] < 0
                              \/ Publish /\ ~active
<1> USE DEF lists, owner, history
<1>1. run \in Runs /\ IdleRun.pc = "idle"
  BY NothingIsIdle DEF TypeOK
<1>2. CASE ReadValues
  <2>1. CASE values["sort"] < 0
    BY <1>2, <2>1 DEF ReadValues
  <2>2. CASE ~(values["sort"] < 0)
    <3>1. run'.tasks = run.tasks /\ run'.pc = "sort"
      BY <1>1, <1>2, <2>2 DEF ReadValues, Runs
    <3> QED
      BY <1>1, <1>2, <2>2, <3>1 DEF ReadValues
  <2> QED
    BY <2>1, <2>2
<1>3. CASE MaybeSort
  <2>1. run'.tasks = run.tasks /\ run'.pc = "tasks"
    BY <1>1, <1>3 DEF MaybeSort, Runs
  <2> QED
    BY <1>1, <1>3, <2>1 DEF MaybeSort
<1>4. CASE UpdateViewItems
  <2>1. run'.tasks = run.tasks /\ run'.pc = "publish"
    BY <1>1, <1>4 DEF UpdateViewItems, Runs
  <2> QED
    BY <1>1, <1>4, <2>1 DEF UpdateViewItems
<1>5. CASE Publish
  <2>1. CASE active
    <3>1. run'.tasks = run.tasks /\ run'.pc = "send"
      BY <1>1, <1>5, <2>1 DEF Publish, Runs
    <3> QED
      BY <1>1, <1>5, <2>1, <3>1 DEF Publish
  <2>2. CASE ~active
    BY <1>5, <2>2 DEF Publish
  <2> QED
    BY <2>1, <2>2
<1>6. CASE Send
  BY <1>6 DEF Send
<1> QED
  BY <1>2, <1>3, <1>4, <1>5, <1>6

\* The range holds items of the list.
LEMMA RangeOfItems ==
  ASSUME matching \in Seq(Items), values["max"] \in Int, NEW start \in Nat
  PROVE  /\ RangeOf(start) \in Seq(Items)
         /\ ToSet(RangeOf(start)) \subseteq ToSet(matching)
<1> DEFINE end == Least(start + values["max"], Len(matching))
           s   == SubSeq(matching, start + 1, end)
<1>1. Len(matching) \in Nat /\ DOMAIN matching = 1..Len(matching)
  OBVIOUS
<1>2. end \in Int /\ end =< Len(matching) /\ start + 1 \in Int
  BY <1>1 DEF Least
<1> HIDE DEF end
<1>3. \A a \in (start + 1)..end : a \in 1..Len(matching) /\ matching[a] \in ToSet(matching)
  BY <1>1, <1>2 DEF ToSet
<1>4. s \in Seq(ToSet(matching))
  BY <1>2, <1>3, SubSeqProperties
<1>5. ToSet(s) \subseteq ToSet(matching) /\ ToSet(matching) \subseteq Items
  <2>1. \A a \in DOMAIN s : s[a] \in ToSet(matching)
    BY <1>4
  <2>2. \A a \in DOMAIN matching : matching[a] \in Items
    OBVIOUS
  <2> HIDE DEF s
  <2> QED
    BY <2>1, <2>2 DEF ToSet
<1>6. s \in Seq(Items)
  BY <1>4, <1>5, SeqMonotonic
<1> QED
  BY <1>5, <1>6 DEF RangeOf, end

\* What a run sends are items of the list.
LEMMA NextIsListed ==
  ASSUME DescribedInv, Settled, Ranged, run.pc \in {"publish", "send"}
  PROVE  ToSet(run.next) \subseteq ToSet(matching)
<1>1. matching \in Seq(Items) /\ values["max"] \in Int
  BY DEF DescribedInv, TypeOK, Settings, OptionalNat
<1>2. CASE run.sent
  BY <1>1, <1>2, RangeOfItems DEF Ranged
<1>3. CASE ~run.sent
  BY <1>3, EmptyList DEF DescribedInv, NextIsLocal
<1> QED
  BY <1>2, <1>3

LEMMA InTurnKept ==
  ASSUME ~Overlap, ~EarlyFilter, DescribedInv, Positions, Blank, InTurn, Filtered, Settled, Ranged,
         [Next]_vars
  PROVE  InTurn'
<1>1. /\ TypeOK /\ req \in Requests /\ run \in Runs /\ Exclusive
      /\ tasks \in [Items -> DOMAIN TaskRank]
  BY DEF DescribedInv, TypeOK
<1> USE DEF lists, history, owner
<1>2. ASSUME NEW i \in Items, NEW k \in Keys, AddUser(i, k) PROVE InTurn'
  <2>1. req.pc = "idle" /\ req'.pc = "add" /\ req'.item = i
    BY <1>2 DEF AddUser, Fire, IdleReq
  <2>2. /\ i \notin seen /\ seen' = seen \cup {i} /\ users' = users \cup {i}
        /\ UNCHANGED <<source, tasks, run, client>>
    BY <1>2 DEF AddUser
  <2>3. /\ \A j : Touched(j)' <=> j = i
        /\ \A task, j : Asked(task, j)' <=> task = "add" /\ j = i
    BY <2>1 DEF Touched, Asked
  <2>4. tasks[i] = "none" /\ run.tasks[i] = "none"
    BY <2>2 DEF InTurn
  <2>5. \A j : Waits("remove", j)' => Waits("remove", j) /\ j # i
    BY <2>2, <2>3, <2>4 DEF Waits
  <2>6. \A j : Waits("add", j)' => Waits("add", j) \/ j = i
    BY <2>2, <2>3 DEF Waits
  <2> QED
    BY <2>2, <2>3, <2>4, <2>5, <2>6 DEF InTurn
<1>3. ASSUME NEW i \in Items, NEW k \in Keys, UpdateUser(i, k) PROVE InTurn'
  <2>1. req.pc = "idle" /\ req'.pc = "update" /\ req'.item = i
    BY <1>3 DEF UpdateUser, Fire, IdleReq
  <2>2. i \in users /\ i \in seen /\ UNCHANGED <<users, seen, source, tasks, run, client>>
    BY <1>1, <1>3 DEF UpdateUser, TypeOK
  <2>3. /\ \A j : Touched(j)' <=> j = i
        /\ \A task, j : Asked(task, j)' <=> task = "update" /\ j = i
    BY <2>1 DEF Touched, Asked
  <2>4. tasks[i] # "remove" /\ run.tasks[i] # "remove"
    BY <2>2 DEF InTurn, Waits
  <2>5. \A j : (Waits("remove", j)' => Waits("remove", j)) /\ (Waits("add", j)' => Waits("add", j))
    BY <2>2, <2>3 DEF Waits
  <2> QED
    BY <2>2, <2>3, <2>4, <2>5 DEF InTurn
<1>4. ASSUME NEW i \in Items, RemoveUser(i) PROVE InTurn'
  <2>1. req.pc = "idle" /\ req'.pc = "remove" /\ req'.item = i
    BY <1>4 DEF RemoveUser, Fire, IdleReq
  <2>2. /\ i \in users /\ i \in seen /\ users' = users \ {i}
        /\ UNCHANGED <<seen, source, tasks, run, client>>
    BY <1>1, <1>4 DEF RemoveUser, TypeOK
  <2>3. /\ \A j : Touched(j)' <=> j = i
        /\ \A task, j : Asked(task, j)' <=> task = "remove" /\ j = i
    BY <2>1 DEF Touched, Asked
  <2>4. tasks[i] # "remove" /\ run.tasks[i] # "remove"
    BY <2>2 DEF InTurn, Waits
  <2>5. \A j : (Waits("remove", j)' => Waits("remove", j) \/ j = i) /\ (Waits("add", j)' => Waits("add", j))
    BY <2>2, <2>3 DEF Waits
  <2> QED
    BY <2>2, <2>3, <2>4, <2>5 DEF InTurn
<1>5. CASE QueueTask
  <2>1. \A i : ~Touched(i)' /\ \A task \in {"add", "update", "remove"} : ~Asked(task, i)'
    BY <1>5, QueueTaskEffect DEF Touched, Asked
  <2>2. UNCHANGED <<users, seen, source, run, client>>
    BY <1>5, QueueTaskEffect
  <2>3. ASSUME NEW i \in Items
        PROVE  /\ tasks'[i] # "none" => tasks[i] # "none" \/ Touched(i)
               /\ tasks'[i] = "add" => tasks[i] = "add" \/ Asked("add", i)
               /\ tasks'[i] = "remove" => tasks[i] = "remove" \/ Asked("remove", i)
               /\ tasks'[i] # tasks[i] => Touched(i)
    BY <1>5, QueueTaskEffect DEF Touched
  <2>4. \A i \in Items : /\ Waits("remove", i)' => Waits("remove", i)
                         /\ Waits("add", i)' => Waits("add", i)
    BY <2>1, <2>2, <2>3 DEF Waits
  <2> QED
    BY <2>1, <2>2, <2>3, <2>4 DEF InTurn
<1>6. CASE InitItems
  <2>1. /\ tasks = NoTasks /\ source = {} /\ client.shown = <<>> /\ run = IdleRun /\ users \subseteq seen
        /\ source' = users /\ UNCHANGED <<users, seen, tasks, run, client>>
        /\ req.pc = "init" /\ req'.pc = "start"
    BY <1>1, <1>6 DEF InitItems, Blank, Positions, Exclusive, ViewRequest, TypeOK, Requests
  <2>2. \A i : ~Touched(i)' /\ \A task \in {"add", "update", "remove"} : ~Asked(task, i)'
    BY <2>1 DEF Touched, Asked
  <2>3. \A i \in Items : tasks'[i] = "none" /\ run'.tasks[i] = "none" /\ ~Waits("remove", i)' /\ ~Waits("add", i)'
    BY <2>1, <2>2, NothingIsIdle DEF Waits
  <2> QED
    BY <2>1, <2>2, <2>3, EmptyList DEF InTurn
<1>7. CASE Clear
  <2>1. /\ tasks' = NoTasks /\ source' = {} /\ run = IdleRun
        /\ UNCHANGED <<users, seen, run, client>>
        /\ req.pc = "clear" /\ req'.pc = "reset"
    BY <1>1, <1>7 DEF Clear, Positions, Exclusive, ViewRequest, Requests
  <2>2. \A i : ~Touched(i)' /\ \A task \in {"add", "update", "remove"} : ~Asked(task, i)'
    BY <2>1 DEF Touched, Asked
  <2>3. \A i \in Items : tasks'[i] = "none" /\ run'.tasks[i] = "none" /\ ~Waits("remove", i)' /\ ~Waits("add", i)'
    BY <2>1, <2>2, NothingIsIdle DEF Waits
  <2> QED
    BY <2>1, <2>2, <2>3 DEF InTurn
<1>8. CASE ResetValues
  <2>1. /\ UNCHANGED <<users, seen, source, tasks, run>> /\ client'.shown = <<>>
        /\ req.pc = "reset" /\ req'.pc = "idle"
    BY <1>8, NothingIsIdle DEF ResetValues
  <2>2. \A task \in {"add", "update", "remove"} : \A i : Asked(task, i)' <=> Asked(task, i)
    BY <2>1 DEF Asked
  <2>3. /\ \A i : Touched(i)' <=> Touched(i)
        /\ \A task \in {"add", "update", "remove"} : \A i : Waits(task, i)' <=> Waits(task, i)
    BY <2>1, <2>2 DEF Touched, Waits
  <2> QED
    BY <2>1, <2>2, <2>3, EmptyList DEF InTurn
<1>9. ASSUME ViewRequests, ~InitItems, ~Clear, ~ResetValues PROVE InTurn'
  <2>1. /\ UNCHANGED <<users, seen, source, tasks, client, run>>
        /\ req.pc \notin {"add", "update", "remove"} /\ req'.pc \notin {"add", "update", "remove"}
    <3>1. ASSUME NEW post, PostSettings(post)
          PROVE  /\ UNCHANGED <<users, seen, source, tasks, client, run>>
                 /\ req.pc \notin {"add", "update", "remove"} /\ req'.pc \notin {"add", "update", "remove"}
      BY <3>1 DEF PostSettings, MayRequest, IdleReq
    <3>2. ASSUME NEW f, SetFilter(f)
          PROVE  /\ UNCHANGED <<users, seen, source, tasks, client, run>>
                 /\ req.pc \notin {"add", "update", "remove"} /\ req'.pc \notin {"add", "update", "remove"}
      BY <3>2 DEF SetFilter, MayRequest, IdleReq
    <3>3. CASE SetActive \/ StartTimer \/ MatchItems \/ SwapMatching \/ Stop
      <4>1. /\ UNCHANGED <<users, seen, source, tasks, client, run>>
            /\ req.pc \notin {"add", "update", "remove"}
        BY <3>3 DEF SetActive, StartTimer, MatchItems, SwapMatching, Stop, MayRequest
      <4>2. req'.pc \in {"init", "idle", "clear"} \/ MatchItems
        BY <1>1, <3>3 DEF SetActive, StartTimer, SwapMatching, Stop, IdleReq, Requests
      <4>3. MatchItems => req'.pc = "swap"
        BY <1>1 DEF MatchItems, Requests
      <4> QED
        BY <4>1, <4>2, <4>3
    <3> QED
      BY <1>9, <3>1, <3>2, <3>3 DEF ViewRequests
  <2> QED
    BY <2>1, InTurnFrame
<1>10. CASE TakeTasks
  <2>1. /\ run = IdleRun /\ run'.tasks = tasks /\ tasks' = NoTasks
        /\ UNCHANGED <<users, seen, source, client, req>>
    BY <1>1, <1>10 DEF TakeTasks, Positions, IdleRun
  <2>2. \A i : /\ Touched(i)' <=> Touched(i)
               /\ \A task \in {"add", "update", "remove"} : Asked(task, i)' <=> Asked(task, i)
    BY <2>1 DEF Touched, Asked
  <2>3. \A i \in Items : tasks'[i] = "none" /\ run.tasks[i] = "none" /\ run'.tasks[i] = tasks[i]
    BY <2>1, NothingIsIdle
  <2>4. \A i \in Items : /\ Waits("remove", i)' <=> Waits("remove", i)
                         /\ Waits("add", i)' <=> Waits("add", i)
    BY <2>2, <2>3 DEF Waits
  <2> QED
    BY <2>1, <2>2, <2>3, <2>4 DEF InTurn
<1>11. CASE ReadValues \/ MaybeSort \/ UpdateViewItems \/ Publish \/ Send
  <2>1. UNCHANGED <<users, seen, source, tasks, req>>
    BY <1>1, <1>11, TimerFrame
  <2>2. \A i \in Items : run'.tasks[i] \in {"none", run.tasks[i]}
    <3>1. run'.tasks = run.tasks \/ run'.tasks = NoTasks
      BY <1>1, <1>11, TimerFrame, NothingIsIdle
    <3> QED
      BY <3>1, NothingIsIdle
  <2>3. ToSet(client'.shown) \subseteq ToSet(client.shown) \/ ToSet(client'.shown) \subseteq source
    <3>1. CASE Send
      <4>1. client'.shown = (IF run.sent THEN run.next ELSE client.shown) /\ run.pc = "send"
        BY <3>1 DEF Send
      <4> QED
        BY <4>1, NextIsListed DEF Filtered
    <3>2. CASE ~Send
      BY <1>1, <1>11, <3>2, TimerFrame
    <3> QED
      BY <3>1, <3>2
  <2>4. \A i : /\ Touched(i)' <=> Touched(i)
               /\ \A task \in {"add", "update", "remove"} : Asked(task, i)' <=> Asked(task, i)
    BY <2>1 DEF Touched, Asked
  <2>5. \A i \in Items : /\ Waits("remove", i)' => Waits("remove", i)
                         /\ Waits("add", i)' => Waits("add", i)
    BY <2>1, <2>2, <2>4 DEF Waits
  <2> QED
    BY <2>1, <2>2, <2>3, <2>4, <2>5 DEF InTurn
<1>12. ASSUME NEW i \in Items, HandleTask(i) PROVE InTurn'
  <2>1. /\ UNCHANGED <<users, seen, tasks, req, client>>
        /\ run'.tasks = [run.tasks EXCEPT ![i] = "none"] /\ run.tasks \in [Items -> DOMAIN TaskRank]
        /\ source' \subseteq source \cup {i} /\ (i \in source' => i \in source \/ run.tasks[i] = "add")
        /\ run.tasks[i] # "none"
    BY <1>1, <1>12, HandleTaskEffect DEF Filtered, Runs
  <2>2. \A j : /\ Touched(j)' <=> Touched(j)
               /\ \A task \in {"add", "update", "remove"} : Asked(task, j)' <=> Asked(task, j)
    BY <2>1 DEF Touched, Asked
  <2>3. \A j \in Items : run'.tasks[j] = IF j = i THEN "none" ELSE run.tasks[j]
    BY <2>1
  <2>4. \A j \in Items : /\ Waits("remove", j)' => Waits("remove", j)
                         /\ Waits("add", j)' => Waits("add", j)
    BY <2>1, <2>2, <2>3 DEF Waits
  <2>5. ~Waits("add", i)'
    <3>1. tasks[i] # "add" /\ ~Asked("add", i)
      BY <2>1 DEF InTurn
    <3> QED
      BY <2>1, <2>2, <2>3, <3>1 DEF Waits
  <2>6. i \in seen
    BY <2>1 DEF InTurn
  <2> QED
    BY <2>1, <2>2, <2>3, <2>4, <2>5, <2>6 DEF InTurn
<1>13. CASE UNCHANGED vars
  BY <1>13, InTurnFrame DEF vars
<1> QED
  BY <1>2, <1>3, <1>4, <1>5, <1>6, <1>7, <1>8, <1>9, <1>10, <1>11, <1>12, <1>13
     DEF Next, UserRequest, RunTasks

\* What a request of the view leaves alone.
LEMMA ViewRequestEffect ==
  ASSUME ~Overlap, ~EarlyFilter, DescribedInv, Positions, Blank, ViewRequests
  PROVE  /\ UNCHANGED <<users, seen, key, run>> /\ run = IdleRun
         /\ req.pc \notin {"add", "update", "remove"} /\ req'.pc \notin {"add", "update", "remove"}
         /\ Clear \/ UNCHANGED <<tasks, resort, prev, viewport, dropped>>
         /\ InitItems \/ Clear \/ UNCHANGED source
         /\ InitItems \/ Clear \/ SwapMatching \/ UNCHANGED matching
         /\ ResetValues \/ UNCHANGED client
         /\ Clear \/ (UNCHANGED <<filter, filtered>>) \/ (req'.pc = "match" /\ filtered')
         /\ InitItems \/ SwapMatching \/ flags'.list = flags.list
         /\ flags.values => flags'.values
         /\ ResetValues \/ flags'.values \/ UNCHANGED values
         /\ ResetValues \/ \A f \in Settings : values[f] >= 0 => values'[f] >= 0
         /\ active' /\ req'.pc \notin {"init", "match", "swap"} =>
              \/ InitItems \/ SwapMatching
              \/ active /\ req.pc \notin {"init", "match", "swap"}
         /\ active' /\ req'.pc # "init" => InitItems \/ (active /\ req.pc # "init")
         /\ req'.pc = "swap" => MatchItems
         /\ ResetValues \/ req.pc # "reset"
<1>1. /\ req \in Requests /\ Exclusive /\ active \in BOOLEAN
      /\ flags \in [values : BOOLEAN, list : BOOLEAN] /\ values \in [Settings -> OptionalNat]
  BY DEF DescribedInv, TypeOK
<1> USE DEF lists, owner, history
<1>2. ASSUME NEW post \in Posts, PostSettings(post)
      PROVE  /\ UNCHANGED <<users, seen, key, run>> /\ run = IdleRun
             /\ UNCHANGED <<tasks, resort, prev, viewport, dropped, source, matching, client, filter, filtered>>
             /\ flags'.list = flags.list /\ (flags.values => flags'.values)
             /\ flags'.values \/ UNCHANGED values
             /\ \A f \in Settings : values[f] >= 0 => values'[f] >= 0
             /\ req.pc = "idle" /\ (req'.pc = IF active THEN "idle" ELSE "activate") /\ UNCHANGED active
  <2>1. /\ UNCHANGED <<users, seen, key, run>> /\ run = IdleRun
        /\ UNCHANGED <<tasks, resort, prev, viewport, dropped, source, matching, client, filter, filtered>>
        /\ req.pc = "idle" /\ (req'.pc = IF active THEN "idle" ELSE "activate") /\ UNCHANGED active
    BY <1>2 DEF PostSettings, MayRequest, IdleReq, Positions
  <2>2. /\ values' = [f \in Settings |-> IF post[f] = -1 THEN values[f] ELSE post[f]]
        /\ flags' = [flags EXCEPT !.values = @ \/ \E f \in Settings : post[f] # -1]
    BY <1>2 DEF PostSettings
  <2>3. \A f \in Settings : post[f] \in Nat \cup {-1}
    BY ListViewAssumption DEF Settings
  <2>4. flags'.list = flags.list /\ (flags.values => flags'.values)
    BY <1>1, <2>2
  <2>5. flags'.values \/ UNCHANGED values
    <3>1. CASE \E f \in Settings : post[f] # -1
      BY <1>1, <2>2, <3>1
    <3>2. CASE \A f \in Settings : post[f] = -1
      BY <1>1, <2>2, <3>2
    <3> QED
      BY <3>1, <3>2
  <2>6. \A f \in Settings : values[f] >= 0 => values'[f] >= 0
    BY <1>1, <2>2, <2>3
  <2> QED
    BY <2>1, <2>4, <2>5, <2>6
<1>3. ASSUME NEW f, SetFilter(f)
      PROVE  /\ UNCHANGED <<users, seen, key, run>> /\ run = IdleRun
             /\ UNCHANGED <<tasks, resort, prev, viewport, dropped, source, matching, client, flags, values>>
             /\ req.pc = "idle" /\ req'.pc = "match" /\ active /\ filtered'
  BY <1>3 DEF SetFilter, MayRequest, IdleReq, Positions
<1>4. ASSUME SetActive \/ StartTimer \/ MatchItems \/ Stop
      PROVE  /\ UNCHANGED <<users, seen, key, run>> /\ run = IdleRun
             /\ UNCHANGED <<tasks, resort, prev, viewport, dropped, source, matching, client, flags, values,
                            filter, filtered>>
             /\ req.pc \notin {"add", "update", "remove", "reset"}
             /\ \/ SetActive /\ req'.pc = "init"
                \/ StartTimer /\ req'.pc = "idle" /\ active /\ req.pc = "start"
                \/ MatchItems /\ req'.pc = "swap" /\ active /\ req.pc = "match"
                \/ Stop /\ req'.pc = "clear" /\ ~active'
  <2>1. req.pc \in ViewRequest \/ run.pc = "idle"
    BY <1>4 DEF SetActive, StartTimer, MatchItems, Stop, MayRequest, ViewRequest
  <2>2. run = IdleRun
    BY <1>1, <2>1 DEF Exclusive, Positions
  <2>3. SetActive => req'.pc = "init"
    BY <1>1 DEF SetActive, Requests
  <2>4. MatchItems => req'.pc = "swap" /\ active /\ req.pc = "match"
    BY <1>1 DEF MatchItems, Requests, Positions
  <2>5. (StartTimer => req'.pc = "idle" /\ active /\ req.pc = "start") /\ (Stop => req'.pc = "clear" /\ ~active')
    BY DEF StartTimer, Stop, IdleReq, Positions
  <2>6. /\ UNCHANGED <<users, seen, key, run>>
        /\ UNCHANGED <<tasks, resort, prev, viewport, dropped, source, matching, client, flags, values,
                       filter, filtered>>
        /\ req.pc \notin {"add", "update", "remove", "reset"}
    BY <1>4 DEF SetActive, StartTimer, MatchItems, Stop, MayRequest
  <2> QED
    BY <1>4, <2>2, <2>3, <2>4, <2>5, <2>6
<1>5. ASSUME InitItems \/ SwapMatching
      PROVE  /\ UNCHANGED <<users, seen, key, run>> /\ run = IdleRun
             /\ UNCHANGED <<tasks, resort, prev, viewport, dropped, client, filter, filtered, active>>
             /\ InitItems \/ (UNCHANGED source /\ req.pc = "swap")
             /\ req.pc \in {"init", "swap"} /\ active /\ req'.pc \in {"start", "idle"}
             /\ flags.values => flags'.values
             /\ flags'.values \/ UNCHANGED values
             /\ \A f \in Settings : values[f] >= 0 => values'[f] >= 0
  <2>1. run = IdleRun
    BY <1>1, <1>5 DEF InitItems, SwapMatching, Exclusive, ViewRequest, Positions
  <2>2. CASE InitItems
    BY <1>1, <2>1, <2>2 DEF InitItems, Requests, Positions
  <2>3. CASE SwapMatching
    <3>1. values' = [values EXCEPT !["start"] = 0] /\ flags'.values
      BY <2>3 DEF SwapMatching
    <3>2. \A f \in Settings : values[f] >= 0 => values'[f] >= 0
      BY <1>1, <3>1
    <3> QED
      BY <2>1, <2>3, <3>1, <3>2 DEF SwapMatching, IdleReq, Positions
  <2> QED
    BY <1>5, <2>2, <2>3
<1>6. ASSUME Clear \/ ResetValues
      PROVE  /\ UNCHANGED <<users, seen, key, run>> /\ run = IdleRun
             /\ Clear \/ UNCHANGED <<tasks, resort, prev, viewport, dropped, source, matching, filter, filtered>>
             /\ ResetValues \/ (UNCHANGED <<client, values>> /\ req.pc = "clear")
             /\ UNCHANGED <<active, flags>> /\ ~active
             /\ req.pc \in {"clear", "reset"} /\ req'.pc \in {"reset", "idle"}
  <2>1. run = IdleRun
    BY <1>1, <1>6 DEF Clear, ResetValues, Exclusive, ViewRequest, Positions
  <2>2. CASE Clear
    BY <1>1, <2>1, <2>2 DEF Clear, Requests, Positions
  <2>3. CASE ResetValues
    BY <2>1, <2>3 DEF ResetValues, IdleReq, Positions
  <2> QED
    BY <1>6, <2>2, <2>3
<1>7. CASE \E post \in Posts : PostSettings(post)
  BY <1>2, <1>7
<1>8. CASE \E f : SetFilter(f)
  BY <1>3, <1>8
<1>9. CASE SetActive \/ StartTimer \/ MatchItems \/ Stop
  BY <1>4, <1>9
<1>10. CASE InitItems \/ SwapMatching
  <2> DEFINE I == InitItems
             S == SwapMatching
  <2>1. I \/ S
    BY <1>10
  <2> HIDE DEF I, S
  <2> QED
    BY <1>5, <2>1 DEF I, S
<1>11. CASE Clear \/ ResetValues
  BY <1>6, <1>11
<1> QED
  BY <1>7, <1>8, <1>9, <1>10, <1>11 DEF ViewRequests

\* What waits for an item is a matter of the requests for users and of the tasks.
LEMMA WaitsFrame ==
  ASSUME UNCHANGED tasks, run'.tasks = run.tasks,
         UNCHANGED req \/ (req.pc \notin {"add", "update", "remove"}
                           /\ req'.pc \notin {"add", "update", "remove"})
  PROVE  \A task \in {"add", "update", "remove"} : \A i : Waits(task, i)' <=> Waits(task, i)
<1>1. \A task \in {"add", "update", "remove"} : \A i : Asked(task, i)' <=> Asked(task, i)
  BY DEF Asked
<1> QED
  BY <1>1 DEF Waits

\* The step that starts the request of a user lets one task more wait.
LEMMA FireEffect ==
  ASSUME req.pc = "idle", NEW task \in {"add", "update", "remove"}, NEW i \in Items, Fire(task, i),
         UNCHANGED <<tasks, run>>
  PROVE  /\ req'.pc = task
         /\ \A t \in {"add", "update", "remove"} : \A j :
              Waits(t, j)' <=> Waits(t, j) \/ (t = task /\ j = i)
<1>1. /\ req'.pc = task /\ req'.item = i
  BY DEF Fire, IdleReq
<1>2. \A t \in {"add", "update", "remove"} : \A j : ~Asked(t, j) /\ (Asked(t, j)' <=> t = task /\ j = i)
  BY <1>1 DEF Asked
<1> QED
  BY <1>1, <1>2 DEF Waits

\* Queuing loses nothing that waits, except for what a later task replaces.
LEMMA QueueTaskWaits ==
  ASSUME DescribedInv, Positions, Blank, InTurn, QueueTask, active, NEW i \in Items
  PROVE  /\ Waits("remove", i)' <=> Waits("remove", i)
         /\ Waits("add", i)' => Waits("add", i)
         /\ Waits("add", i) => Waits("add", i)' \/ Waits("remove", i)'
         /\ Waits("update", i) => \E task \in {"add", "update", "remove"} : Waits(task, i)'
<1>1. \A task \in {"add", "update", "remove"} : ~Asked(task, i)'
  BY QueueTaskEffect DEF Asked
<1>2. tasks'[i] = CASE ~Touched(i)           -> tasks[i]
                    [] Asked("remove", i)    -> "remove"
                    [] Asked("add", i)       -> IF tasks[i] = "remove" THEN "remove" ELSE "add"
                    [] OTHER                 ->
                         IF tasks[i] \in {"add", "remove"} THEN tasks[i] ELSE "update"
  BY QueueTaskEffect
<1>3. UNCHANGED run
  BY QueueTaskEffect
<1>4. \A t, u : Asked(t, i) /\ Asked(u, i) => t = u
  BY DEF Asked
<1>5. /\ tasks[i] = "remove" => ~Touched(i)
      /\ Asked("add", i) => tasks[i] = "none"
  BY DEF InTurn
<1> QED
  BY <1>1, <1>2, <1>3, <1>4, <1>5 DEF Waits, Touched

\* A run that ends has no tasks left, unless it drops them.
LEMMA TimerWaits ==
  ASSUME DescribedInv, Positions, ReadValues \/ MaybeSort \/ UpdateViewItems \/ Publish \/ Send, ~dropped'
  PROVE  /\ ~dropped
         /\ \A task \in {"add", "update", "remove"}, i \in Items : Waits(task, i)' <=> Waits(task, i)
<1>1. UNCHANGED <<tasks, req>> /\ dropped \in BOOLEAN
  BY TimerFrame DEF DescribedInv, TypeOK
<1>2. ~dropped /\ run'.tasks = run.tasks
  <2>1. CASE ReadValues /\ values["sort"] < 0
    BY <1>1, <2>1, NothingIsIdle DEF ReadValues
  <2>2. CASE ReadValues /\ ~(values["sort"] < 0)
    <3>1. run' # IdleRun
      BY <2>2, TimerFrame DEF DescribedInv, ReadValues, Send, Publish
    <3> QED
      BY <2>2, <3>1, TimerFrame DEF DescribedInv, ReadValues
  <2>3. CASE Send
    BY <2>3, NothingIsIdle, TimerFrame DEF Send, Positions, DescribedInv, history
  <2>4. CASE Publish
    <3>1. active
      BY <2>4 DEF Positions, Publish
    <3> QED
      BY <2>4, <3>1, TimerFrame DEF Publish, DescribedInv, ReadValues, Send
  <2>5. CASE MaybeSort \/ UpdateViewItems
    BY <2>5, TimerFrame DEF MaybeSort, UpdateViewItems, DescribedInv, ReadValues, Send, Publish
  <2> QED
    BY <2>1, <2>2, <2>3, <2>4, <2>5
<1> QED
  BY <1>1, <1>2, WaitsFrame

\* A run takes over what waits in the queue.
LEMMA TakeTasksWaits ==
  ASSUME Positions, TakeTasks
  PROVE  \A task \in {"add", "update", "remove"}, i \in Items : Waits(task, i)' <=> Waits(task, i)
<1>1. /\ run = IdleRun /\ run'.tasks = tasks /\ tasks' = NoTasks /\ UNCHANGED req
  BY DEF TakeTasks, Positions, IdleRun
<1>2. \A task, i : Asked(task, i)' <=> Asked(task, i)
  BY <1>1 DEF Asked
<1>3. \A i \in Items : tasks'[i] = "none" /\ run.tasks[i] = "none" /\ run'.tasks[i] = tasks[i]
  BY <1>1, NothingIsIdle
<1> QED
  BY <1>2, <1>3 DEF Waits

\* Handling a task of an item ends its waiting and no other's.
LEMMA HandleTaskWaits ==
  ASSUME DescribedInv, InTurn, Filtered, NEW i \in Items, HandleTask(i)
  PROVE  \A task \in {"add", "update", "remove"}, j \in Items :
           /\ Waits(task, j)' => Waits(task, j)
           /\ j # i \/ task # run.tasks[i] => (Waits(task, j)' <=> Waits(task, j))
           /\ j = i /\ task = run.tasks[i] /\ task # "update" => ~Waits(task, j)'
<1>1. /\ UNCHANGED <<tasks, req>> /\ run.tasks \in [Items -> DOMAIN TaskRank]
      /\ run'.tasks = [run.tasks EXCEPT ![i] = "none"]
  BY HandleTaskEffect DEF Filtered, DescribedInv, TypeOK, Runs
<1>2. \A task, j : Asked(task, j)' <=> Asked(task, j)
  BY <1>1 DEF Asked
<1>3. \A j \in Items : run'.tasks[j] = IF j = i THEN "none" ELSE run.tasks[j]
  BY <1>1
<1>4. /\ run.tasks[i] = "add" => tasks[i] # "add" /\ ~Asked("add", i)
      /\ run.tasks[i] = "remove" => tasks[i] = "none" /\ ~Touched(i)
  BY DEF InTurn
<1> QED
  BY <1>1, <1>2, <1>3, <1>4 DEF Waits, Touched

LEMMA ListedKept ==
  ASSUME ~Overlap, ~EarlyFilter, DescribedInv, Positions, Blank, InTurn, Filtered, Listed, [Next]_vars
  PROVE  Listed'
<1> USE DEF lists, history, owner
<1>1. ASSUME UNCHANGED <<users, source>>,
             \A task \in {"add", "remove"}, i \in Items : Waits(task, i)' <=> Waits(task, i),
             active' /\ req'.pc # "init" /\ ~dropped' => active /\ req.pc # "init" /\ ~dropped
      PROVE  Listed'
  BY <1>1 DEF Listed
<1>2. ASSUME NEW i \in Items, NEW k \in Keys, AddUser(i, k) PROVE Listed'
  <2>1. /\ \A t \in {"add", "update", "remove"} : \A j : Waits(t, j)' <=> Waits(t, j) \/ (t = "add" /\ j = i)
        /\ users' = users \cup {i} /\ UNCHANGED <<source, active, dropped>> /\ req.pc = "idle"
    BY <1>2, FireEffect DEF AddUser
  <2> QED
    BY <2>1 DEF Listed
<1>3. ASSUME NEW i \in Items, NEW k \in Keys, UpdateUser(i, k) PROVE Listed'
  <2>1. /\ \A t \in {"add", "update", "remove"} : \A j : Waits(t, j)' <=> Waits(t, j) \/ (t = "update" /\ j = i)
        /\ UNCHANGED <<users, source, active, dropped>> /\ req.pc = "idle"
    BY <1>3, FireEffect DEF UpdateUser
  <2> QED
    BY <2>1, <1>1
<1>4. ASSUME NEW i \in Items, RemoveUser(i) PROVE Listed'
  <2>1. /\ \A t \in {"add", "update", "remove"} : \A j : Waits(t, j)' <=> Waits(t, j) \/ (t = "remove" /\ j = i)
        /\ users' = users \ {i} /\ UNCHANGED <<source, active, dropped>> /\ req.pc = "idle"
    BY <1>4, FireEffect DEF RemoveUser
  <2> QED
    BY <2>1 DEF Listed
<1>5. CASE QueueTask
  <2>1. UNCHANGED <<users, source, active, dropped>> /\ req.pc # "init"
    BY <1>5, QueueTaskEffect
  <2>2. CASE active
    BY <1>5, <2>1, <2>2, QueueTaskWaits DEF Listed, InTurn
  <2> QED
    BY <2>1, <2>2 DEF Listed
<1>6. CASE InitItems
  <2>1. /\ source = {} /\ source' = users /\ UNCHANGED users
        /\ tasks' = NoTasks /\ run' = IdleRun /\ req'.pc \notin {"add", "update", "remove"}
    BY <1>6, ViewRequestEffect DEF ViewRequests, InitItems, Blank
  <2>2. \A i \in Items : ~Waits("add", i)'
    BY <2>1, NothingIsIdle DEF Waits, Asked
  <2> QED
    BY <2>1, <2>2 DEF Listed
<1>7. CASE Clear
  BY <1>7 DEF Clear, Positions, Listed
<1>8. ASSUME ViewRequests, ~InitItems, ~Clear PROVE Listed'
  <2>1. /\ UNCHANGED <<users, source, tasks, run, dropped>>
        /\ req.pc \notin {"add", "update", "remove"} /\ req'.pc \notin {"add", "update", "remove"}
        /\ active' /\ req'.pc # "init" => active /\ req.pc # "init"
    BY <1>8, ViewRequestEffect
  <2> QED
    BY <1>1, <2>1, WaitsFrame
<1>9. CASE TakeTasks
  BY <1>1, <1>9, TakeTasksWaits DEF TakeTasks
<1>10. CASE ReadValues \/ MaybeSort \/ UpdateViewItems \/ Publish \/ Send
  <2>1. UNCHANGED <<users, source, active, req>> /\ dropped' \in BOOLEAN
    BY <1>10, TimerFrame DEF DescribedInv, TypeOK, ReadValues
  <2>2. CASE ~dropped'
    BY <1>1, <1>10, <2>1, <2>2, TimerWaits
  <2> QED
    BY <2>1, <2>2 DEF Listed
<1>11. ASSUME NEW i \in Items, HandleTask(i) PROVE Listed'
  <2>1. /\ UNCHANGED <<users, active, req, dropped>> /\ run.tasks[i] \in {"add", "update", "remove"}
        /\ source' = CASE run.tasks[i] = "add"    -> source \cup {i}
                       [] run.tasks[i] = "remove" -> source \ {i}
                       [] OTHER                   -> source
    BY <1>11, HandleTaskEffect DEF Filtered
  <2>2. \A task \in {"add", "update", "remove"}, j \in Items :
           /\ Waits(task, j)' => Waits(task, j)
           /\ j # i \/ task # run.tasks[i] => (Waits(task, j)' <=> Waits(task, j))
    BY <1>11, HandleTaskWaits
  <2>3. run.tasks[i] = "add" => Waits("add", i)
    BY DEF Waits
  <2>4. run.tasks[i] = "remove" => i \notin users /\ ~Waits("add", i)
    <3>1. run.tasks[i] = "remove" => i \notin users /\ tasks[i] = "none" /\ ~Touched(i)
      BY DEF InTurn, Waits
    <3> QED
      BY <3>1 DEF Waits, Touched
  <2> QED
    BY <2>1, <2>2, <2>3, <2>4 DEF Listed
<1>12. CASE UNCHANGED vars
  BY <1>1, <1>12, WaitsFrame DEF vars
<1> QED
  BY <1>2, <1>3, <1>4, <1>5, <1>6, <1>7, <1>8, <1>9, <1>10, <1>11, <1>12
     DEF Next, UserRequest, RunTasks
LEMMA FilteredKept ==
  ASSUME ~Overlap, ~EarlyFilter, DescribedInv, Positions, Blank, InTurn, Filtered, [Next]_vars
  PROVE  Filtered'
<1> USE DEF lists, history, owner
<1>1. /\ TypeOK /\ req \in Requests /\ Exclusive /\ matching \in Seq(Items)
      /\ source \subseteq Items /\ users \subseteq Items
      /\ key \in [Items -> Keys] /\ filtered \in BOOLEAN /\ dropped \in BOOLEAN
  BY DEF DescribedInv, TypeOK
<1>2. ASSUME UNCHANGED <<source, matching, key>>, req'.pc # "swap" \/ UNCHANGED <<req, filter>>,
             UNCHANGED <<filter, filtered>> \/ (req'.pc = "match" /\ filtered'),
             active' /\ req'.pc \notin {"init", "match", "swap"} /\ ~dropped' =>
               /\ active /\ req.pc \notin {"init", "match", "swap"} /\ ~dropped
               /\ \A task \in {"update", "remove"}, i \in source : Waits(task, i) => Waits(task, i)'
      PROVE  Filtered'
  BY <1>2 DEF Filtered, Matches
<1>3. ASSUME NEW i \in Items, NEW k \in Keys, AddUser(i, k) PROVE Filtered'
  <2>1. /\ \A t \in {"add", "update", "remove"} : \A j : Waits(t, j)' <=> Waits(t, j) \/ (t = "add" /\ j = i)
        /\ key' = [key EXCEPT ![i] = k] /\ req'.pc = "add"
        /\ UNCHANGED <<source, matching, filter, filtered, active, dropped>> /\ req.pc = "idle"
    BY <1>3, FireEffect DEF AddUser
  <2>2. i \notin source
    BY <1>3 DEF AddUser, InTurn
  <2>3. \A j \in source : key'[j] = key[j]
    BY <1>1, <2>1, <2>2
  <2> QED
    BY <2>1, <2>3 DEF Filtered, Matches
<1>4. ASSUME NEW i \in Items, NEW k \in Keys, UpdateUser(i, k) PROVE Filtered'
  <2>1. /\ \A t \in {"add", "update", "remove"} : \A j : Waits(t, j)' <=> Waits(t, j) \/ (t = "update" /\ j = i)
        /\ key' = [key EXCEPT ![i] = k] /\ req'.pc = "update"
        /\ UNCHANGED <<source, matching, filter, filtered, active, dropped>> /\ req.pc = "idle"
    BY <1>4, FireEffect DEF UpdateUser
  <2>2. \A j \in source : key'[j] = key[j] \/ Waits("update", j)'
    BY <1>1, <2>1
  <2> QED
    BY <2>1, <2>2 DEF Filtered, Matches
<1>5. ASSUME NEW i \in Items, RemoveUser(i) PROVE Filtered'
  <2>1. /\ \A t \in {"add", "update", "remove"} : \A j : Waits(t, j)' <=> Waits(t, j) \/ (t = "remove" /\ j = i)
        /\ UNCHANGED <<source, matching, key, filter, filtered, active, dropped>> /\ req.pc = "idle"
        /\ req'.pc = "remove"
    BY <1>5, FireEffect DEF RemoveUser
  <2> QED
    BY <2>1, <1>2
<1>6. CASE QueueTask
  <2>1. /\ UNCHANGED <<source, matching, key, filter, filtered, active, dropped>>
        /\ req.pc \in {"add", "update", "remove"} /\ req'.pc = "idle"
    BY <1>6, QueueTaskEffect
  <2>2. CASE active
    <3>1. ASSUME NEW i \in source, Waits("update", i) \/ Waits("remove", i)
          PROVE  Waits("update", i)' \/ Waits("remove", i)'
      <4>1. i \in Items /\ ~Waits("add", i)
        BY <1>1 DEF InTurn
      <4> QED
        BY <1>6, <2>2, <3>1, <4>1, QueueTaskWaits
    <3> QED
      BY <2>1, <3>1 DEF Filtered, Matches
  <2>3. CASE ~active
    BY <2>1, <2>3, <1>2
  <2> QED
    BY <2>2, <2>3
<1>7. CASE InitItems
  <2>1. /\ source' = users /\ matching' \in InOrder(users) /\ UNCHANGED <<key, filter, filtered>>
        /\ filter = NoFilter /\ req'.pc = "start"
    BY <1>1, <1>7 DEF InitItems, Blank, Requests
  <2>2. IsInjective(matching') /\ ToSet(matching') = source'
    BY <1>1, <2>1, InOrderItems
  <2>3. \A i \in Items : Matches(i)'
    BY <1>1, <2>1 DEF Matches, NoFilter
  <2> QED
    BY <1>1, <2>1, <2>2, <2>3 DEF Filtered
<1>8. CASE MatchItems
  <2>1. PICK items \in InOrder({i \in source : Matches(i)}) :
          req' = [req EXCEPT !.pc = "swap", !.copy = items]
    BY <1>8 DEF MatchItems
  <2>2. /\ UNCHANGED <<source, matching, key, filter, filtered>>
        /\ req'.pc = "swap" /\ req'.copy = items
    BY <1>1, <1>8, <2>1 DEF MatchItems, Requests
  <2>3. IsInjective(items) /\ ToSet(items) = {i \in source : Matches(i)}
    BY <1>1, <2>1, InOrderItems
  <2> QED
    BY <2>2, <2>3 DEF Filtered, Matches
<1>9. CASE SwapMatching
  <2>1. /\ matching' = req.copy /\ UNCHANGED <<source, key, filter, filtered>> /\ req'.pc = "idle"
        /\ req.pc = "swap" /\ filtered
    BY <1>9 DEF SwapMatching, IdleReq, Positions
  <2> QED
    BY <2>1 DEF Filtered, Matches
<1>10. CASE Clear
  <2>1. source' = {} /\ matching' = <<>> /\ req'.pc = "reset"
    BY <1>1, <1>10 DEF Clear, Requests
  <2>2. IsInjective(matching')
    BY <2>1 DEF IsInjective
  <2> QED
    BY <2>1, <2>2, EmptyList DEF Filtered
<1>11. ASSUME ViewRequests, ~InitItems, ~MatchItems, ~SwapMatching, ~Clear PROVE Filtered'
  <2>1. /\ UNCHANGED <<source, matching, key, tasks, run, dropped>> /\ req'.pc # "swap"
        /\ UNCHANGED <<filter, filtered>> \/ (req'.pc = "match" /\ filtered')
        /\ req.pc \notin {"add", "update", "remove"} /\ req'.pc \notin {"add", "update", "remove"}
        /\ active' /\ req'.pc \notin {"init", "match", "swap"} =>
             active /\ req.pc \notin {"init", "match", "swap"}
    BY <1>11, ViewRequestEffect
  <2>2. \A task \in {"add", "update", "remove"} : \A i : Waits(task, i)' <=> Waits(task, i)
    BY <2>1, WaitsFrame
  <2> QED
    BY <2>1, <2>2, <1>2
<1>12. CASE TakeTasks
  <2>1. UNCHANGED <<source, matching, key, filter, filtered, req, active, dropped>>
    BY <1>12 DEF TakeTasks
  <2> QED
    BY <1>1, <1>12, <2>1, <1>2, TakeTasksWaits
<1>13. CASE ReadValues \/ MaybeSort \/ UpdateViewItems \/ Publish \/ Send
  <2>1. /\ UNCHANGED <<source, key, filter, filtered, req, active>>
        /\ MaybeSort \/ UNCHANGED matching
        /\ dropped' \in BOOLEAN
    BY <1>1, <1>13, TimerFrame DEF ReadValues
  <2>2. IsInjective(matching') /\ ToSet(matching') = ToSet(matching)
    <3>1. CASE UNCHANGED matching
      BY <3>1 DEF Filtered
    <3>2. CASE MaybeSort /\ matching' \in StableSorts(matching)
      BY <1>1, <3>2, StableSortsItems DEF Filtered
    <3> QED
      BY <2>1, <3>1, <3>2 DEF MaybeSort
  <2>3. ~dropped' => /\ ~dropped
                     /\ \A task \in {"update", "remove"}, i \in source : Waits(task, i) => Waits(task, i)'
    BY <1>1, <1>13, TimerWaits
  <2>4. req'.pc # "swap"
    BY <1>1, <1>13, <2>1 DEF Exclusive, ViewRequest, ReadValues, MaybeSort, UpdateViewItems, Publish, Send
  <2>5. IsInjective(matching') /\ ToSet(matching') \subseteq source' /\ (~filtered' => ToSet(matching') = source')
    BY <2>1, <2>2 DEF Filtered
  <2>6. \A i \in source : Matches(i)' <=> Matches(i)
    BY <2>1 DEF Matches
  <2>7. ASSUME active', req'.pc \notin {"init", "match", "swap"}, ~dropped', NEW i \in source'
        PROVE  \/ i \in ToSet(matching') <=> Matches(i)'
               \/ Waits("update", i)' \/ Waits("remove", i)'
    BY <2>1, <2>2, <2>3, <2>6, <2>7 DEF Filtered
  <2> QED
    BY <2>4, <2>5, <2>7 DEF Filtered
<1>14. ASSUME NEW i \in Items, HandleTask(i) PROVE Filtered'
  <2>1. /\ UNCHANGED <<key, filter, filtered, req, active, dropped>> /\ run.pc = "tasks"
        /\ run.tasks[i] \in {"add", "update", "remove"}
        /\ source' = CASE run.tasks[i] = "add"    -> source \cup {i}
                       [] run.tasks[i] = "remove" -> source \ {i}
                       [] OTHER                   -> source
        /\ IsInjective(matching')
        /\ ToSet(matching') = IF i \in source' /\ Matches(i) THEN ToSet(matching) \cup {i}
                                                            ELSE ToSet(matching) \ {i}
    BY <1>14, HandleTaskEffect DEF Filtered
  <2>2. req.pc # "swap"
    BY <2>1 DEF DescribedInv, Exclusive, ViewRequest
  <2>3. ToSet(matching') \subseteq source' /\ (~filtered => ToSet(matching') = source')
    <3>1. ~filtered => Matches(i)
      BY <1>1 DEF Positions, Matches, NoFilter
    <3> QED
      BY <2>1, <3>1 DEF Filtered
  <2>4. \A j \in source, task \in {"update", "remove"} : j # i => (Waits(task, j)' <=> Waits(task, j))
    BY <1>1, <1>14, HandleTaskWaits
  <2>5. ASSUME active, req.pc \notin {"init", "match", "swap"}, ~dropped, NEW j \in source'
        PROVE  \/ j \in ToSet(matching') <=> Matches(j)
               \/ Waits("update", j)' \/ Waits("remove", j)'
    <3>1. CASE j = i
      BY <2>1, <2>5, <3>1
    <3>2. CASE j # i
      BY <2>1, <2>4, <2>5, <3>2 DEF Filtered
    <3> QED
      BY <3>1, <3>2
  <2> QED
    BY <2>1, <2>2, <2>3, <2>5 DEF Filtered, Matches
<1>15. CASE UNCHANGED vars
  BY <1>2, <1>15, WaitsFrame DEF vars
<1> QED
  BY <1>3, <1>4, <1>5, <1>6, <1>7, <1>8, <1>9, <1>10, <1>11, <1>12, <1>13, <1>14, <1>15
     DEF Next, UserRequest, RunTasks
\* The order of the list is the one that the timer's comparison establishes.
LEMMA OrderIsSorted ==
  ASSUME key \in [Items -> Keys], NEW s \in Seq(Items), NEW asc, run.values["asc"] = asc
  PROVE  Sorted(s) <=> \A a, b \in DOMAIN s : a < b =>
                         IF asc = 1 THEN key[s[a]] =< key[s[b]] ELSE key[s[a]] >= key[s[b]]
<1>1. \A a \in DOMAIN s : s[a] \in Items
  OBVIOUS
<1>2. \A a \in DOMAIN s : key[s[a]] \in Nat
  BY <1>1, ListViewAssumption
<1> QED
  BY <1>2 DEF Sorted, Before

LEMMA OrderedKept ==
  ASSUME ~Overlap, ~EarlyFilter, DescribedInv, Positions, Blank, InTurn, Filtered, Settled, Ordered,
         [Next]_vars
  PROVE  Ordered'
<1> USE DEF lists, history, owner
<1>1. /\ TypeOK /\ req \in Requests /\ run \in Runs /\ matching \in Seq(Items)
      /\ source \subseteq Items /\ key \in [Items -> Keys]
      /\ prev \in [sort : OptionalNat, asc : OptionalNat, matching : OptionalNat, total : OptionalNat]
      /\ flags \in [values : BOOLEAN, list : BOOLEAN] /\ resort \in BOOLEAN
  BY DEF DescribedInv, TypeOK
<1>2. ASSUME matching' = <<>> PROVE \A asc : Order(asc)'
  BY <1>2 DEF Order
<1>3. ASSUME UNCHANGED <<key, matching, prev, run>>, resort => resort', flags.list => flags'.list,
             req.pc # "update" \/ req'.pc = "update"
      PROVE  Ordered'
  BY <1>3 DEF Ordered, Order
<1>4. ASSUME NEW i \in Items, NEW k \in Keys, AddUser(i, k) PROVE Ordered'
  <2>1. /\ key' = [key EXCEPT ![i] = k] /\ i \notin seen /\ req.pc = "idle"
        /\ UNCHANGED <<matching, prev, run, resort, flags>>
    BY <1>4 DEF AddUser
  <2>2. \A a \in DOMAIN matching : matching[a] \in Items /\ matching[a] # i
    BY <1>1, <2>1 DEF Filtered, InTurn, ToSet
  <2>3. \A a \in DOMAIN matching : key'[matching[a]] = key[matching[a]]
    BY <1>1, <2>1, <2>2
  <2>4. \A asc : Order(asc)' <=> Order(asc)
    BY <2>1, <2>3 DEF Order
  <2> QED
    BY <2>1, <2>4 DEF Ordered
<1>5. ASSUME NEW i \in Items, NEW k \in Keys, UpdateUser(i, k) PROVE Ordered'
  BY <1>5, FireEffect DEF UpdateUser, Ordered
<1>6. ASSUME NEW i \in Items, RemoveUser(i) PROVE Ordered'
  BY <1>6, <1>3 DEF RemoveUser
<1>7. CASE QueueTask
  <2>1. CASE active
    <3>1. /\ UNCHANGED <<key, matching, prev, run, flags>> /\ req'.pc = "idle"
          /\ resort' <=> resort \/ req.pc = "update"
      BY <1>7, <2>1, QueueTaskEffect
    <3> QED
      BY <3>1 DEF Ordered, Order
  <2>2. CASE ~active
    <3>1. matching' = <<>> /\ UNCHANGED run /\ run.pc = "idle"
      BY <1>7, <2>2, QueueTaskEffect DEF Positions
    <3> QED
      BY <1>2, <3>1 DEF Ordered
  <2> QED
    BY <2>1, <2>2
<1>8. CASE InitItems \/ SwapMatching
  <2>1. flags'.list
    BY <1>1, <1>8 DEF InitItems, SwapMatching
  <2> QED
    BY <2>1 DEF Ordered
<1>9. CASE Clear
  <2>1. matching' = <<>> /\ UNCHANGED run /\ run.pc = "idle"
    BY <1>9 DEF Clear, Positions
  <2> QED
    BY <1>2, <2>1 DEF Ordered
<1>10. ASSUME ViewRequests, ~InitItems, ~SwapMatching, ~Clear PROVE Ordered'
  <2>1. UNCHANGED <<key, matching, prev, run, resort>> /\ flags'.list = flags.list /\ req.pc # "update"
    BY <1>10, ViewRequestEffect
  <2> QED
    BY <1>3, <2>1
<1>11. CASE TakeTasks
  <2>1. /\ run.pc = "idle" /\ run'.pc = "values" /\ run'.resort = resort
        /\ UNCHANGED <<key, matching, prev, flags, req>>
    BY <1>11 DEF TakeTasks, IdleRun
  <2> QED
    BY <2>1 DEF Ordered, Order
<1>12. CASE ReadValues
  <2>1. UNCHANGED <<key, matching, prev, req, resort>> /\ run.pc = "values"
    BY <1>12 DEF ReadValues
  <2>2. CASE values["sort"] < 0
    <3>1. flags'.list = flags.list /\ run'.pc = "idle"
      BY <1>1, <1>12, <2>2, NothingIsIdle DEF ReadValues
    <3>2. CASE flags.list
      BY <3>1, <3>2 DEF Ordered
    <3>3. CASE ~flags.list
      <4>1. matching' = <<>>
        BY <2>1, <2>2, <3>3 DEF Settled
      <4> QED
        BY <1>2, <3>1, <4>1 DEF Ordered
    <3> QED
      BY <3>2, <3>3
  <2>3. CASE ~(values["sort"] < 0)
    <3>1. /\ run'.pc = "sort" /\ run'.values = values
          /\ run'.resort <=> \/ run.resort \/ flags.list \/ prev.asc # values["asc"] \/ prev.sort # values["sort"]
      BY <1>1, <1>12, <2>3 DEF ReadValues, Runs
    <3> QED
      BY <2>1, <3>1 DEF Ordered, Order
  <2> QED
    BY <2>2, <2>3
<1>13. CASE MaybeSort
  <2>1. /\ UNCHANGED <<key, prev, req, resort, flags>> /\ run.pc = "sort" /\ run'.pc = "tasks"
        /\ run'.values = run.values
        /\ IF run.resort THEN matching' \in StableSorts(matching) ELSE UNCHANGED matching
    BY <1>1, <1>13 DEF MaybeSort, Runs
  <2>2. CASE run.resort
    <3>1. matching' \in Seq(Items) /\ Sorted(matching')
      BY <1>1, <2>1, <2>2, StableSortsItems
    <3>2. Order(run.values["asc"])'
      BY <1>1, <2>1, <3>1, OrderIsSorted DEF Order
    <3> QED
      BY <2>1, <3>2 DEF Ordered
  <2>3. CASE ~run.resort
    BY <2>1, <2>3 DEF Ordered, Order
  <2> QED
    BY <2>2, <2>3
<1>14. ASSUME NEW i \in Items, HandleTask(i) PROVE Ordered'
  <2>1. /\ UNCHANGED <<key, prev, req, resort, flags>> /\ run.pc = "tasks" /\ run'.pc = "tasks"
        /\ run'.values = run.values
        /\ Sorted(matching) => Sorted(matching')
    BY <1>14, HandleTaskEffect DEF Filtered
  <2>2. matching' \in Seq(Items)
    BY <1>1, <1>14, RunTasksType DEF RunTasks, TypeOK
  <2>3. Order(run.values["asc"]) => Sorted(matching)
    BY <1>1, OrderIsSorted DEF Order
  <2>4. Sorted(matching') => Order(run.values["asc"])'
    BY <1>1, <2>1, <2>2, OrderIsSorted DEF Order
  <2> QED
    BY <2>1, <2>3, <2>4 DEF Ordered
<1>15. CASE UpdateViewItems
  <2>1. /\ UNCHANGED <<key, matching, prev, req, resort, flags>> /\ run.pc = "tasks" /\ run'.pc = "publish"
        /\ run'.values = run.values
    BY <1>1, <1>15 DEF UpdateViewItems, Runs
  <2> QED
    BY <2>1 DEF Ordered, Order
<1>16. CASE Publish
  <2>1. active
    BY <1>16 DEF Publish, Positions
  <2>2. /\ UNCHANGED <<key, matching, req, resort, flags>> /\ run.pc = "publish" /\ run'.pc = "send"
        /\ prev'.asc = run.values["asc"]
    BY <1>1, <1>16, <2>1 DEF Publish, Runs
  <2> QED
    BY <2>2 DEF Ordered, Order
<1>17. CASE Send
  <2>1. /\ UNCHANGED <<key, matching, req, resort, flags>> /\ run.pc = "send" /\ run'.pc = "idle"
        /\ prev'.asc = prev.asc
    BY <1>1, <1>17, NothingIsIdle DEF Send
  <2> QED
    BY <2>1 DEF Ordered, Order
<1>18. CASE UNCHANGED vars
  BY <1>3, <1>18 DEF vars
<1> QED
  BY <1>4, <1>5, <1>6, <1>7, <1>8, <1>9, <1>10, <1>11, <1>12, <1>13, <1>14, <1>15, <1>16, <1>17, <1>18
     DEF Next, UserRequest, RunTasks
\* Beyond its end a list has no items.
LEMMA EmptyRange ==
  ASSUME NEW S, NEW s \in Seq(S), NEW m \in Int, NEW n \in Int, m > n
  PROVE  SubSeq(s, m, n) = <<>>
  BY SubSeqProperties

\* What updateViewItems makes of the range.
LEMMA UpdateViewItemsEffect ==
  ASSUME DescribedInv, Settled, UpdateViewItems
  PROVE  /\ run.pc = "tasks" /\ run'.pc = "publish" /\ run.tasks = NoTasks
         /\ run'.values = run.values /\ run'.tasks = run.tasks
         /\ run'.start >= 0 <=> run.start >= 0
         /\ run'.sent => /\ run'.start \in 0..Len(matching) /\ values["max"] >= 0
                         /\ run'.next = RangeOf(run'.start)
                         /\ run'.described = [i \in Items |->
                              IF i \in ToSet(run'.next) \ (ToSet(viewport) \ run.updated)
                              THEN key[i] ELSE Unknown]
         /\ ~run'.sent => \/ run'.start < 0
                          \/ values["max"] < 0
                          \/ run'.start > Len(matching) /\ run'.start < Cardinality(source)
<1>1. /\ TypeOK /\ run \in Runs /\ matching \in Seq(Items) /\ source \subseteq Items
      /\ values \in [Settings -> OptionalNat] /\ ~run.sent /\ run.pc = "tasks" /\ run.tasks = NoTasks
      /\ run.values = values
  BY DEF UpdateViewItems, DescribedInv, TypeOK, NextIsLocal, Settled
<1>2. /\ Cardinality(source) \in Nat /\ Len(matching) \in Nat
      /\ values["max"] \in Int /\ run.start \in Int
  <2>1. IsFiniteSet(source)
    BY <1>1, FS_Subset, ListViewAssumption
  <2>2. Cardinality(source) \in Nat
    BY <2>1, FS_CardinalityType
  <2>3. values["max"] \in OptionalNat /\ run.start \in OptionalNat
    BY <1>1 DEF Settings, Runs
  <2> QED
    BY <1>1, <2>2, <2>3 DEF OptionalNat
<1> DEFINE start == IF run.start >= Cardinality(source) THEN 0 ELSE run.start
           count == Least(Len(matching) - start, values["max"])
           next  == SubSeq(matching, start + 1, start + count)
           full  == ToSet(next) \ (ToSet(viewport) \ run.updated)
<1>3. run' = IF run.start < 0
             THEN [run EXCEPT !.pc = "publish"]
             ELSE IF count < 0
             THEN [run EXCEPT !.pc = "publish", !.start = start]
             ELSE [run EXCEPT !.pc = "publish", !.start = start, !.next = next,
                              !.sent = TRUE,
                              !.described = [i \in Items |-> IF i \in full THEN key[i] ELSE Unknown]]
  BY <1>1 DEF UpdateViewItems
<1>4. CASE run.start < 0
  <2>1. run' = [run EXCEPT !.pc = "publish"]
    BY <1>3, <1>4
  <2>2. /\ run'.pc = "publish" /\ run'.values = run.values /\ run'.tasks = run.tasks /\ ~run'.sent
        /\ run'.start = run.start
    BY <1>1, <2>1 DEF Runs
  <2> QED
    BY <1>1, <1>4, <2>2
<1>5. ASSUME ~(run.start < 0)
      PROVE  /\ start \in Nat /\ (count < 0 => start > Len(matching) \/ values["max"] < 0)
             /\ count >= 0 => /\ start \in 0..Len(matching) /\ values["max"] >= 0
                              /\ start + count = Least(start + values["max"], Len(matching))
             /\ start = 0 \/ start < Cardinality(source)
  BY <1>2, <1>5 DEF Least
<1> HIDE DEF count
<1>6. CASE ~(run.start < 0) /\ count < 0
  <2>1. run' = [run EXCEPT !.pc = "publish", !.start = start]
    BY <1>3, <1>6
  <2> HIDE DEF start
  <2>2. /\ run'.pc = "publish" /\ run'.values = run.values /\ run'.tasks = run.tasks /\ ~run'.sent
        /\ run'.start = start
    BY <1>1, <2>1 DEF Runs
  <2> QED
    BY <1>1, <1>2, <1>5, <1>6, <2>2
<1>7. CASE ~(run.start < 0) /\ ~(count < 0)
  <2>1. run' = [run EXCEPT !.pc = "publish", !.start = start, !.next = next, !.sent = TRUE,
                           !.described = [i \in Items |-> IF i \in full THEN key[i] ELSE Unknown]]
    BY <1>3, <1>7
  <2>2. count \in Int
    BY <1>2, <1>5, <1>7 DEF count, Least
  <2>3. next = RangeOf(start)
    BY <1>5, <1>7, <2>2 DEF RangeOf
  <2> DEFINE d == [i \in Items |-> IF i \in full THEN key[i] ELSE Unknown]
  <2>4. d = [i \in Items |-> IF i \in ToSet(next) \ (ToSet(viewport) \ run.updated) THEN key[i] ELSE Unknown]
    OBVIOUS
  <2>5. run' = [run EXCEPT !.pc = "publish", !.start = start, !.next = next, !.sent = TRUE, !.described = d]
    BY <2>1
  <2> HIDE DEF start, next, d
  <2>6. /\ run'.pc = "publish" /\ run'.values = run.values /\ run'.tasks = run.tasks /\ run'.sent
        /\ run'.start = start /\ run'.next = next /\ run'.described = d
    BY <1>1, <2>5 DEF Runs
  <2> QED
    BY <1>1, <1>2, <1>5, <1>7, <2>2, <2>3, <2>4, <2>6
<1> QED
  BY <1>4, <1>6, <1>7

LEMMA SettledKept ==
  ASSUME ~Overlap, ~EarlyFilter, DescribedInv, Positions, Blank, InTurn, Filtered, Settled, Ranged,
         [Next]_vars
  PROVE  Settled'
<1> USE DEF lists, history, owner
<1>1. /\ TypeOK /\ run \in Runs /\ values \in [Settings -> OptionalNat]
      /\ prev \in [sort : OptionalNat, asc : OptionalNat, matching : OptionalNat, total : OptionalNat]
      /\ flags \in [values : BOOLEAN, list : BOOLEAN]
      /\ client \in [shown : Seq(Items), start : OptionalNat, known : [Items -> Keys \cup {Unknown}]]
  BY DEF DescribedInv, TypeOK
<1>2. ASSUME UNCHANGED <<values, flags, prev, client, matching, run>>
      PROVE  Settled'
  BY <1>2 DEF Settled
<1>3. CASE UserRequest
  BY <1>2, <1>3 DEF UserRequest, AddUser, UpdateUser, RemoveUser, QueueTask
<1>4. ASSUME ViewRequests, ~Clear, ~ResetValues PROVE Settled'
  <2>1. /\ run' = IdleRun /\ run = IdleRun /\ UNCHANGED <<prev, client>>
        /\ flags'.list \/ UNCHANGED matching
        /\ flags.list => flags'.list
        /\ flags.values => flags'.values
        /\ flags'.values \/ UNCHANGED values
        /\ \A f \in Settings : values[f] >= 0 => values'[f] >= 0
    <3>1. InitItems \/ SwapMatching => flags'.list
      BY <1>1 DEF InitItems, SwapMatching
    <3> QED
      BY <1>1, <1>4, <3>1, ViewRequestEffect
  <2>2. \A f \in {"sort", "start", "max"} : values'[f] < 0 => values[f] < 0
    <3>1. values' \in [Settings -> OptionalNat]
      BY <1>1, <1>4, ViewRequestsType DEF TypeOK
    <3> QED
      BY <1>1, <2>1, <3>1 DEF Settings, OptionalNat
  <2> QED
    BY <2>1, <2>2, NothingIsIdle DEF Settled
<1>5. CASE Clear
  <2>1. /\ run' = IdleRun /\ UNCHANGED <<values, flags, client>> /\ matching' = <<>> /\ prev'.total = -1
    BY <1>1, <1>5, ViewRequestEffect DEF ViewRequests, Clear, Positions
  <2> QED
    BY <2>1, NothingIsIdle DEF Settled
<1>6. CASE ResetValues
  <2>1. /\ run' = IdleRun /\ matching' = <<>> /\ prev'.total = -1
        /\ client'.shown = <<>> /\ client'.start = -1
    BY <1>6, ViewRequestEffect DEF ViewRequests, ResetValues, Blank, Positions, Clear
  <2> QED
    BY <2>1, NothingIsIdle DEF Settled
<1>7. CASE TakeTasks
  <2>1. /\ run.pc = "idle" /\ run'.pc = "values" /\ UNCHANGED <<values, flags, prev, client, matching>>
    BY <1>7 DEF TakeTasks, IdleRun
  <2> QED
    BY <2>1 DEF Settled
<1>8. CASE ReadValues
  <2>1. UNCHANGED <<values, prev, client, matching>>
    BY <1>8 DEF ReadValues
  <2>2. CASE values["sort"] < 0
    <3>1. flags'.list = flags.list /\ run' = IdleRun
      BY <1>1, <1>8, <2>2 DEF ReadValues
    <3> QED
      BY <2>1, <2>2, <3>1, NothingIsIdle DEF Settled
  <2>3. CASE ~(values["sort"] < 0)
    <3>1. /\ run'.pc = "sort" /\ run'.values = values /\ run'.start = values["start"]
          /\ flags' = [values |-> FALSE, list |-> FALSE]
      BY <1>1, <1>8, <2>3 DEF ReadValues, Runs
    <3>2. values["sort"] >= 0
      BY <1>1, <2>3 DEF Settings, OptionalNat
    <3> QED
      BY <2>1, <2>3, <3>1, <3>2 DEF Settled
  <2> QED
    BY <2>2, <2>3
<1>9. ASSUME run.pc \in {"sort", "tasks"}, run'.pc \in {"tasks", "publish"},
             UNCHANGED <<values, flags, prev, client>>, run'.values = run.values,
             run'.start >= 0 <=> run.start >= 0
      PROVE  Settled'
  <2>1. ~(values["sort"] < 0)
    BY <1>1, <1>9 DEF Settled, Settings, OptionalNat
  <2> QED
    BY <1>9, <2>1 DEF Settled
<1>10. CASE MaybeSort
  <2>1. /\ run.pc = "sort" /\ run'.pc = "tasks" /\ run'.values = run.values /\ run'.start = run.start
        /\ UNCHANGED <<values, flags, prev, client>>
    BY <1>1, <1>10 DEF MaybeSort, Runs
  <2> QED
    BY <2>1, <1>9
<1>11. ASSUME NEW i \in Items, HandleTask(i) PROVE Settled'
  BY <1>9, <1>11, HandleTaskEffect DEF Filtered
<1>12. CASE UpdateViewItems
  BY <1>9, <1>12, UpdateViewItemsEffect DEF UpdateViewItems
<1>13. CASE Publish
  <2>1. active
    BY <1>13 DEF Publish, Positions
  <2>2. /\ run.pc = "publish" /\ run'.pc = "send" /\ run'.values = run.values /\ run'.start = run.start
        /\ UNCHANGED <<values, flags, client, matching>>
        /\ prev'.asc = run.values["asc"]
    BY <1>1, <1>13, <2>1 DEF Publish, Runs
  <2>3. ~(values["sort"] < 0)
    BY <1>1, <2>2 DEF Settled, Settings, OptionalNat
  <2> QED
    BY <2>2, <2>3 DEF Settled
<1>14. CASE Send
  <2>1. /\ run.pc = "send" /\ run' = IdleRun /\ UNCHANGED <<values, flags, matching>>
        /\ prev'.asc = prev.asc
        /\ client'.shown = IF run.sent THEN run.next ELSE client.shown
        /\ client'.start = IF run.start >= 0 THEN run.start ELSE client.start
    BY <1>1, <1>14 DEF Send
  <2>2. ~(values["sort"] < 0)
    BY <1>1, <2>1 DEF Settled, Settings, OptionalNat
  <2>3. values["start"] < 0 => ~(run.start >= 0) /\ ~run.sent
    BY <1>1, <2>1 DEF Settled, Ranged, Settings, OptionalNat
  <2>4. values["max"] < 0 => ~run.sent
    BY <1>1, <2>1 DEF Ranged, Settings, OptionalNat
  <2> QED
    BY <2>1, <2>2, <2>3, <2>4, NothingIsIdle DEF Settled
<1>15. CASE UNCHANGED vars
  BY <1>2, <1>15 DEF vars
<1> QED
  BY <1>3, <1>4, <1>5, <1>6, <1>7, <1>8, <1>10, <1>11, <1>12, <1>13, <1>14, <1>15 DEF Next, RunTasks
LEMMA RangedKept ==
  ASSUME ~Overlap, ~EarlyFilter, DescribedInv, Positions, Blank, InTurn, Filtered, Settled, Ranged,
         [Next]_vars
  PROVE  Ranged'
<1> USE DEF lists, history, owner
<1>1. /\ TypeOK /\ run \in Runs /\ values \in [Settings -> OptionalNat] /\ matching \in Seq(Items)
      /\ prev \in [sort : OptionalNat, asc : OptionalNat, matching : OptionalNat, total : OptionalNat]
      /\ flags \in [values : BOOLEAN, list : BOOLEAN]
      /\ client \in [shown : Seq(Items), start : OptionalNat, known : [Items -> Keys \cup {Unknown}]]
  BY DEF DescribedInv, TypeOK
<1>2. ASSUME UNCHANGED <<values, flags, prev, client, matching, source, run>> PROVE Ranged'
  BY <1>2 DEF Ranged, RangeOf
<1>3. CASE UserRequest
  BY <1>2, <1>3 DEF UserRequest, AddUser, UpdateUser, RemoveUser, QueueTask
<1>4. ASSUME ViewRequests, ~InitItems, ~SwapMatching, ~Clear, ~ResetValues PROVE Ranged'
  <2>1. /\ run' = IdleRun /\ run = IdleRun /\ UNCHANGED <<prev, client, matching, source>>
        /\ flags'.list = flags.list
        /\ flags.values => flags'.values
        /\ flags'.values \/ UNCHANGED values
    BY <1>4, ViewRequestEffect
  <2> QED
    BY <2>1, NothingIsIdle DEF Ranged, RangeOf
<1>5. CASE InitItems \/ SwapMatching
  <2>1. run' = IdleRun /\ flags'.list
    BY <1>1, <1>5, ViewRequestEffect DEF ViewRequests, InitItems, SwapMatching
  <2> QED
    BY <2>1, NothingIsIdle DEF Ranged
<1>6. CASE Clear \/ ResetValues
  <2>1. run' = IdleRun
    BY <1>6, ViewRequestEffect DEF ViewRequests
  <2>2. prev'.total = -1
    BY <1>1, <1>6 DEF Clear, ResetValues, Blank, Positions
  <2> QED
    BY <2>1, <2>2, NothingIsIdle DEF Ranged
<1>7. CASE TakeTasks
  <2>1. /\ run.pc = "idle" /\ run'.pc = "values"
        /\ UNCHANGED <<values, flags, prev, client, matching, source>>
    BY <1>7 DEF TakeTasks, IdleRun
  <2> QED
    BY <2>1 DEF Ranged, RangeOf
<1>8. CASE ReadValues
  <2>1. CASE values["sort"] < 0
    <3>1. run' = IdleRun /\ prev'.total = -1
      BY <1>8, <2>1 DEF ReadValues, Settled
    <3> QED
      BY <3>1, NothingIsIdle DEF Ranged
  <2>2. CASE ~(values["sort"] < 0)
    <3>1. run'.pc = "sort"
      BY <1>1, <1>8, <2>2 DEF ReadValues, Runs
    <3> QED
      BY <3>1 DEF Ranged
  <2> QED
    BY <2>1, <2>2
<1>9. CASE MaybeSort
  <2>1. run'.pc = "tasks"
    BY <1>1, <1>9 DEF MaybeSort, Runs
  <2> QED
    BY <2>1 DEF Ranged
<1>10. ASSUME NEW i \in Items, HandleTask(i) PROVE Ranged'
  <2>1. run'.pc = "tasks"
    BY <1>10, HandleTaskEffect DEF Filtered
  <2> QED
    BY <2>1 DEF Ranged
<1>11. CASE UpdateViewItems
  <2>1. UNCHANGED <<matching, values>>
    BY <1>11 DEF UpdateViewItems
  <2> QED
    BY <1>11, <2>1, UpdateViewItemsEffect DEF Ranged, RangeOf
<1>12. CASE Publish
  <2>1. active
    BY <1>12 DEF Publish, Positions
  <2>2. /\ run.pc = "publish" /\ run'.pc = "send" /\ run'.sent = run.sent /\ run'.start = run.start
        /\ run'.next = run.next /\ UNCHANGED <<values, matching>>
    BY <1>1, <1>12, <2>1 DEF Publish, Runs
  <2> QED
    BY <2>2 DEF Ranged, RangeOf
<1>13. CASE Send
  <2>1. /\ run.pc = "send" /\ run' = IdleRun /\ UNCHANGED <<values, matching, source>>
        /\ prev'.matching = Len(matching) /\ prev'.total = Cardinality(source)
        /\ client'.shown = IF run.sent THEN run.next ELSE client.shown
        /\ client'.start = IF run.start >= 0 THEN run.start ELSE client.start
    BY <1>1, <1>13 DEF Send
  <2>2. /\ values["max"] \in Int /\ run.start \in OptionalNat /\ client.start \in OptionalNat
        /\ values["start"] \in OptionalNat /\ Len(matching) \in Nat
    BY <1>1 DEF Settings, OptionalNat, Runs
  <2>3. client'.start \in 0..Len(matching) => client'.shown = RangeOf(client'.start)
    <3>1. CASE run.sent
      BY <2>1, <2>2, <3>1 DEF Ranged
    <3>2. CASE ~run.sent
      <4> SUFFICES ASSUME client'.start \in 0..Len(matching) PROVE client'.shown = RangeOf(client'.start)
        OBVIOUS
      <4>1. run.start >= 0
        <5>1. ~(run.start >= 0) => client.start < 0 /\ client'.start = client.start
          BY <2>1, <2>2 DEF Settled, OptionalNat
        <5> QED
          BY <2>2, <5>1 DEF OptionalNat
      <4>2. values["max"] < 0 /\ client'.start = run.start
        BY <2>1, <2>2, <3>2, <4>1 DEF Ranged
      <4>3. client'.shown = <<>>
        BY <2>1, <3>2, <4>2 DEF Settled
      <4>4. run.start + 1 > Least(run.start + values["max"], Len(matching))
        BY <2>2, <4>1, <4>2 DEF Least, OptionalNat
      <4>5. RangeOf(run.start) = <<>>
        <5>1. Least(run.start + values["max"], Len(matching)) \in Int /\ run.start + 1 \in Int
          BY <2>2 DEF Least, OptionalNat
        <5> QED
          BY <1>1, <4>4, <5>1, EmptyRange DEF RangeOf
      <4> QED
        BY <4>2, <4>3, <4>5
    <3> QED
      BY <3>1, <3>2
  <2> DEFINE start == client'.start
  <2>4. \A s : RangeOf(s)' = RangeOf(s)
    BY <2>1 DEF RangeOf
  <2> QED
    BY <2>1, <2>3, <2>4, NothingIsIdle DEF Ranged
<1>14. CASE UNCHANGED vars
  BY <1>2, <1>14 DEF vars
<1> QED
  BY <1>3, <1>4, <1>5, <1>6, <1>7, <1>8, <1>9, <1>10, <1>11, <1>12, <1>13, <1>14 DEF Next, RunTasks

LEMMA FreshKept ==
  ASSUME ~Overlap, ~EarlyFilter, DescribedInv, Positions, Blank, InTurn, Filtered, Settled, Ranged, Fresh,
         [Next]_vars
  PROVE  Fresh'
<1> USE DEF lists, history, owner
<1>1. /\ TypeOK /\ req \in Requests /\ run \in Runs /\ Exclusive /\ active \in BOOLEAN
      /\ matching \in Seq(Items) /\ source \subseteq Items /\ key \in [Items -> Keys]
      /\ ToSet(client.shown) \subseteq Items /\ filtered \in BOOLEAN
      /\ client \in [shown : Seq(Items), start : OptionalNat, known : [Items -> Keys \cup {Unknown}]]
  <2>1. TypeOK /\ Exclusive
    BY DEF DescribedInv
  <2>2. client.shown \in Seq(Items)
    BY <2>1 DEF TypeOK
  <2>3. ToSet(client.shown) \subseteq Items
    BY <2>2 DEF ToSet
  <2> QED
    BY <2>1, <2>3 DEF TypeOK
<1>2. run.pc \in {"publish", "send"} => ToSet(run.next) \subseteq source
  BY NextIsListed DEF Filtered
\* Only what is late matters to requests for users.
<1>3. ASSUME UNCHANGED <<viewport, client, run, matching, filtered>>, req'.pc # "reset", req.pc # "reset",
             \A i \in ToSet(client.shown) \cup source : Late(i) => Late(i)',
             \A i \in ToSet(client.shown) \cup source : key'[i] = key[i] \/ Late(i)'
      PROVE  Fresh'
  BY <1>2, <1>3 DEF Fresh
<1>4. ASSUME NEW task \in {"add", "update", "remove"}, NEW i \in Items, req.pc = "idle", Fire(task, i),
             UNCHANGED tasks
      PROVE  /\ req'.pc = task /\ \A j : Late(j) => Late(j)'
             /\ task \in {"update", "remove"} => Late(i)'
  BY <1>4 DEF Fire, IdleReq, Late, Asked
<1>5. ASSUME NEW i \in Items, NEW k \in Keys, AddUser(i, k) PROVE Fresh'
  <2>1. /\ key' = [key EXCEPT ![i] = k] /\ i \notin ToSet(client.shown) \cup source /\ req.pc = "idle"
        /\ UNCHANGED <<viewport, client, run, matching, filtered>>
        /\ req'.pc = "add" /\ \A j : Late(j) => Late(j)'
    BY <1>4, <1>5 DEF AddUser, InTurn
  <2>2. \A j \in ToSet(client.shown) \cup source : key'[j] = key[j]
    BY <1>1, <2>1
  <2> QED
    BY <1>3, <2>1, <2>2
<1>6. ASSUME NEW i \in Items, NEW k \in Keys, UpdateUser(i, k) PROVE Fresh'
  <2>1. /\ key' = [key EXCEPT ![i] = k] /\ req.pc = "idle"
        /\ UNCHANGED <<viewport, client, run, matching, filtered>>
        /\ req'.pc = "update" /\ Late(i)' /\ \A j : Late(j) => Late(j)'
    BY <1>4, <1>6 DEF UpdateUser
  <2>2. \A j \in ToSet(client.shown) \cup source : key'[j] = key[j] \/ Late(j)'
    BY <1>1, <2>1
  <2> QED
    BY <1>3, <2>1, <2>2
<1>7. ASSUME NEW i \in Items, RemoveUser(i) PROVE Fresh'
  <2>1. /\ UNCHANGED <<key, viewport, client, run, matching, filtered>> /\ req.pc = "idle"
        /\ req'.pc = "remove" /\ \A j : Late(j) => Late(j)'
    BY <1>4, <1>7 DEF RemoveUser
  <2> QED
    BY <1>3, <2>1
<1>8. CASE QueueTask
  <2>1. /\ UNCHANGED <<key, viewport, client, run, matching, filtered>>
        /\ req.pc # "reset" /\ req'.pc = "idle"
    BY <1>8, QueueTaskEffect
  <2>2. CASE active
    <3>1. ASSUME NEW i \in ToSet(client.shown) \cup source, Late(i) PROVE Late(i)'
      <4>1. i \in Items /\ ~Waits("add", i)
        BY <1>1 DEF InTurn
      <4>2. tasks'[i] = CASE ~Touched(i)           -> tasks[i]
                          [] Asked("remove", i)    -> "remove"
                          [] Asked("add", i)       -> IF tasks[i] = "remove" THEN "remove" ELSE "add"
                          [] OTHER                 ->
                               IF tasks[i] \in {"add", "remove"} THEN tasks[i] ELSE "update"
        BY <1>8, <2>2, <4>1, QueueTaskEffect
      <4>3. tasks'[i] \in {"update", "remove"}
        BY <3>1, <4>1, <4>2 DEF Waits, Late, Touched
      <4> QED
        BY <4>3 DEF Late
    <3> QED
      BY <1>3, <2>1, <3>1
  <2>3. CASE ~active
    <3>1. client.shown = <<>> /\ run.pc = "idle"
      BY <1>8, <2>3, QueueTaskEffect DEF Positions
    <3> QED
      BY <2>1, <3>1, EmptyList DEF Fresh
  <2> QED
    BY <2>2, <2>3
<1>9. CASE Clear
  <2>1. /\ viewport' = <<>> /\ req'.pc = "reset"
    BY <1>1, <1>9 DEF Clear, Requests
  <2> QED
    BY <2>1, EmptyList DEF Fresh
<1>10. CASE ResetValues
  <2>1. /\ viewport' = <<>> /\ client'.shown = <<>> /\ run' = IdleRun
    BY <1>10, ViewRequestEffect DEF ResetValues, DescribedInv, ClearedFirst, ViewRequests
  <2> QED
    BY <2>1, EmptyList, NothingIsIdle DEF Fresh
<1>11. ASSUME ViewRequests, ~Clear, ~ResetValues PROVE Fresh'
  <2>1. /\ UNCHANGED <<key, viewport, client, run, tasks>> /\ run = IdleRun
        /\ req.pc \notin {"add", "update", "remove"} /\ req.pc # "reset"
        /\ UNCHANGED filtered \/ filtered'
    BY <1>11, ViewRequestEffect
  <2>2. \A i : Late(i) => Late(i)'
    BY <2>1 DEF Late, Asked
  <2> QED
    BY <2>1, <2>2, NothingIsIdle DEF Fresh
<1>12. CASE TakeTasks
  <2>1. /\ run = IdleRun /\ run'.pc = "values" /\ run'.tasks = tasks
        /\ UNCHANGED <<key, viewport, client, req, filtered>>
    BY <1>12 DEF TakeTasks, Positions, IdleRun
  <2>2. \A i \in Items : run.tasks[i] = "none"
    BY <2>1, NothingIsIdle
  <2>3. \A i \in Items : Late(i) => Late(i)' \/ run'.tasks[i] \in {"update", "remove"}
    BY <2>1 DEF Late, Asked
  <2> QED
    BY <1>1, <2>1, <2>2, <2>3, NothingIsIdle DEF Fresh
<1>13. CASE ReadValues \/ MaybeSort
  <2>1. /\ UNCHANGED <<key, viewport, client, req, tasks, filtered>> /\ run.pc \in {"values", "sort"}
    BY <1>13 DEF ReadValues, MaybeSort
  <2>2. \A i : Late(i)' <=> Late(i)
    BY <2>1 DEF Late, Asked
  <2>3. CASE client.shown = <<>> /\ run' = IdleRun
    BY <2>1, <2>3, EmptyList, NothingIsIdle DEF Fresh
  <2>4. CASE run'.pc \in {"sort", "tasks"} /\ run'.tasks = run.tasks
    BY <2>1, <2>2, <2>4 DEF Fresh
  <2>5. (client.shown = <<>> /\ run' = IdleRun) \/ (run'.pc \in {"sort", "tasks"} /\ run'.tasks = run.tasks)
    <3>1. CASE ReadValues /\ values["sort"] < 0
      BY <3>1 DEF ReadValues, Settled
    <3>2. CASE ReadValues /\ ~(values["sort"] < 0)
      BY <1>1, <3>2 DEF ReadValues, Runs
    <3>3. CASE MaybeSort
      BY <1>1, <3>3 DEF MaybeSort, Runs
    <3> QED
      BY <1>13, <3>1, <3>2, <3>3
  <2> QED
    BY <2>3, <2>4, <2>5
<1>14. ASSUME NEW i \in Items, HandleTask(i) PROVE Fresh'
  <2>1. /\ UNCHANGED <<key, viewport, client, req, tasks, filtered>> /\ run.pc = "tasks" /\ run'.pc = "tasks"
        /\ run.tasks[i] \in {"add", "update", "remove"}
        /\ run'.tasks = [run.tasks EXCEPT ![i] = "none"]
        /\ source' = CASE run.tasks[i] = "add"    -> source \cup {i}
                       [] run.tasks[i] = "remove" -> source \ {i}
                       [] OTHER                   -> source
        /\ ToSet(matching') = IF i \in source' /\ Matches(i) THEN ToSet(matching) \cup {i}
                                                            ELSE ToSet(matching) \ {i}
        /\ run.updated \subseteq run'.updated
        /\ run.tasks[i] = "update" /\ i \in ToSet(matching) /\ Matches(i) => i \in run'.updated
    BY <1>14, HandleTaskEffect DEF Filtered
  <2>2. \A j : Late(j)' <=> Late(j)
    BY <2>1 DEF Late, Asked
  <2>3. ASSUME NEW j \in ToSet(client.shown), ~filtered, req.pc # "reset"
        PROVE  \/ client.known[j] = key[j] \/ Late(j) \/ run'.tasks[j] \in {"update", "remove"}
               \/ j \in run'.updated \/ j \notin ToSet(matching')
    <3>1. ToSet(matching) = source /\ j \in Items
      BY <1>1, <2>3 DEF Filtered
    <3>2. \/ client.known[j] = key[j] \/ Late(j) \/ run.tasks[j] \in {"update", "remove"}
          \/ j \in run.updated \/ j \notin ToSet(matching)
      BY <2>1, <2>3 DEF Fresh
    <3>3. CASE j = i
      <4>1. run.tasks[i] # "add"
        BY <2>3, <3>3 DEF InTurn, Waits
      <4> QED
        BY <2>1, <3>1, <3>2, <3>3, <4>1
    <3>4. CASE j # i
      <4>1. run'.tasks[j] = run.tasks[j]
        BY <1>1, <2>1, <3>1, <3>4 DEF Runs
      <4> QED
        BY <2>1, <3>2, <3>4, <4>1
    <3> QED
      BY <3>3, <3>4
  <2> QED
    BY <2>1, <2>2, <2>3 DEF Fresh
<1>15. CASE UpdateViewItems
  <2>1. /\ UNCHANGED <<key, viewport, client, req, tasks, filtered>>
        /\ run.pc = "tasks" /\ run'.pc = "publish" /\ run.tasks = NoTasks
    BY <1>15, UpdateViewItemsEffect DEF UpdateViewItems
  <2>2. \A i : Late(i)' <=> Late(i)
    BY <2>1 DEF Late, Asked
  <2>3. CASE run'.sent
    <3>1. /\ ToSet(run'.next) \subseteq ToSet(matching)
          /\ run'.described = [i \in Items |-> IF i \in ToSet(run'.next) \ (ToSet(viewport) \ run.updated)
                                               THEN key[i] ELSE Unknown]
      <4>1. run'.start \in Nat /\ run'.next = RangeOf(run'.start)
        BY <1>15, <2>3, UpdateViewItemsEffect
      <4>2. values["max"] \in Int
        BY <1>1 DEF TypeOK, Settings, OptionalNat
      <4> QED
        BY <1>1, <1>15, <2>3, <4>1, <4>2, UpdateViewItemsEffect, RangeOfItems
    <3>2. ASSUME NEW i \in ToSet(run'.next), ~filtered, req.pc # "reset"
          PROVE  \/ run'.described[i] = key[i] \/ Late(i)
                 \/ run'.described[i] = Unknown /\ client.known[i] = key[i]
      <4>1. i \in ToSet(matching) /\ i \in Items /\ run.tasks[i] = "none"
        BY <1>1, <2>1, <3>1, NothingIsIdle DEF Filtered
      <4>2. CASE i \in ToSet(viewport) \ run.updated
        <5>1. i \in ToSet(client.shown) /\ run'.described[i] = Unknown
          BY <2>1, <3>1, <4>1, <4>2 DEF Fresh
        <5> QED
          BY <2>1, <3>2, <4>1, <4>2, <5>1 DEF Fresh
      <4>3. CASE i \notin ToSet(viewport) \ run.updated
        BY <3>1, <4>1, <4>3
      <4> QED
        BY <4>2, <4>3
    <3> QED
      BY <2>1, <2>2, <2>3, <3>2 DEF Fresh
  <2>4. CASE ~run'.sent
    <3>1. run'.next = <<>>
      BY <1>15, <2>1, <2>4, RunTasksDescribed DEF RunTasks, DescribedInv, NextIsLocal
    <3>2. ~filtered => client.shown = <<>>
      <4>1. ~filtered => Len(matching) = Cardinality(source)
        BY <1>1, DistinctLength DEF Filtered
      <4>2. Len(matching) \in Nat /\ run'.start \in Int /\ values["start"] \in Int
        <5>1. run' \in Runs
          BY <1>1, <1>15, RunTasksType DEF RunTasks, TypeOK
        <5> QED
          BY <1>1, <5>1 DEF TypeOK, Runs, OptionalNat, Settings
      <4>3. ~filtered => run'.start < 0 \/ values["max"] < 0
        BY <1>15, <2>4, <4>1, <4>2, UpdateViewItemsEffect
      <4>4. run'.start < 0 => values["start"] < 0
        <5>1. run.start \in Int /\ (run'.start >= 0 <=> run.start >= 0)
          BY <1>1, <1>15, UpdateViewItemsEffect DEF Runs, OptionalNat
        <5> QED
          BY <2>1, <4>2, <5>1 DEF Settled
      <4> QED
        BY <4>3, <4>4 DEF Settled
    <3> QED
      BY <2>1, <2>4, <3>1, <3>2, EmptyList DEF Fresh
  <2> QED
    BY <2>3, <2>4
<1>16. CASE Publish
  <2>1. active
    BY <1>16 DEF Publish, Positions
  <2>2. /\ run.pc = "publish" /\ run'.pc = "send" /\ run'.sent = run.sent
        /\ run'.next = run.next /\ run'.described = run.described
        /\ UNCHANGED <<key, client, req, tasks, filtered>>
    BY <1>1, <1>16, <2>1 DEF Publish, Runs
  <2>3. \A i : Late(i)' <=> Late(i)
    BY <2>2 DEF Late, Asked
  <2> QED
    BY <2>2, <2>3 DEF Fresh
<1>17. CASE Send
  <2> DEFINE shown == IF run.sent THEN run.next ELSE client.shown
  <2>1. /\ run.pc = "send" /\ run' = IdleRun /\ UNCHANGED <<key, viewport, req, tasks, filtered>>
        /\ client'.shown = shown
        /\ client'.known = [i \in Items |-> CASE i \notin ToSet(shown)        -> Unknown
                                              [] run.described[i] # Unknown  -> run.described[i]
                                              [] OTHER                       -> client.known[i]]
    BY <1>1, <1>17 DEF Send
  <2>2. viewport = run.next /\ (~run.sent => run.next = <<>>)
    BY <2>1 DEF DescribedInv, NextIsLocal
  <2>3. \A i : Late(i)' <=> Late(i)
    BY <2>1 DEF Late, Asked
  <2>4. ToSet(viewport') \subseteq ToSet(client'.shown)
    BY <2>1, <2>2, EmptyList
  <2>5. ASSUME ~filtered, req.pc # "reset", NEW i \in ToSet(client'.shown)
        PROVE  client'.known[i] = key[i] \/ Late(i)
    <3>1. run.sent /\ i \in ToSet(run.next) /\ i \in Items /\ shown = run.next
      BY <1>1, <1>2, <2>1, <2>5, EmptyList DEF Fresh
    <3>2. \/ run.described[i] = key[i] \/ Late(i)
          \/ run.described[i] = Unknown /\ client.known[i] = key[i]
      BY <2>1, <2>5, <3>1 DEF Fresh
    <3>3. key[i] # Unknown
      BY <1>1, <3>1, KeysAreKnown
    <3>4. client'.known[i] = IF run.described[i] # Unknown THEN run.described[i] ELSE client.known[i]
      BY <2>1, <3>1
    <3> QED
      BY <3>2, <3>3, <3>4
  <2> QED
    BY <2>1, <2>3, <2>4, <2>5, NothingIsIdle DEF Fresh
<1>18. CASE UNCHANGED vars
  <2>1. \A i : Late(i)' <=> Late(i)
    BY <1>18 DEF Late, Asked, vars
  <2> QED
    BY <1>18, <2>1 DEF Fresh, vars
<1> QED
  BY <1>5, <1>6, <1>7, <1>8, <1>9, <1>10, <1>11, <1>12, <1>13, <1>14, <1>15, <1>16, <1>17, <1>18
     DEF Next, UserRequest, RunTasks
\* All that relates the users, the view and the client at any time.
ViewInv ==
  /\ DescribedInv /\ Positions /\ Blank
  /\ InTurn /\ Listed /\ Filtered /\ Ordered
  /\ Settled /\ Ranged /\ Fresh

LEMMA InitView == Init => ViewInv
<1> SUFFICES ASSUME Init PROVE ViewInv
  OBVIOUS
<1> USE DEF Init
<1>1. /\ req.pc = "idle" /\ run.pc = "idle" /\ run = IdleRun /\ tasks = NoTasks /\ run.tasks = NoTasks
      /\ \A i \in Items : tasks[i] = "none" /\ run.tasks[i] = "none"
      /\ ToSet(client.shown) = {} /\ ToSet(matching) = {} /\ ToSet(viewport) = {}
  BY NothingIsIdle, EmptyList
<1>2. \A i : ~Touched(i) /\ \A task \in {"add", "update", "remove"} : ~Asked(task, i)
  BY <1>1 DEF Touched, Asked
<1>3. DescribedInv
  BY InitDescribed
<1>4. Positions /\ Blank
  BY <1>1 DEF Positions, Blank
<1>5. InTurn /\ Listed
  BY <1>1, <1>2 DEF InTurn, Listed, Waits
<1>6. Filtered
  BY <1>1 DEF Filtered, IsInjective
<1>7. Ordered
  BY <1>1 DEF Ordered, Order
<1>8. Settled /\ Ranged
  BY <1>1 DEF Settled, Ranged
<1>9. Fresh
  BY <1>1 DEF Fresh
<1> QED
  BY <1>3, <1>4, <1>5, <1>6, <1>7, <1>8, <1>9 DEF ViewInv

LEMMA ViewKept ==
  ASSUME ~Overlap, ~EarlyFilter, ViewInv, [Next]_vars
  PROVE  ViewInv'
<1> USE DEF ViewInv
<1>1. DescribedInv' /\ Positions' /\ Blank'
  BY DescribedKept, PositionsKept, BlankKept
<1>2. InTurn' /\ Listed' /\ Filtered' /\ Ordered'
  BY InTurnKept, ListedKept, FilteredKept, OrderedKept
<1>3. Settled' /\ Ranged' /\ Fresh'
  BY SettledKept, RangedKept, FreshKept
<1> QED
  BY <1>1, <1>2, <1>3

LEMMA ViewIsMaintained ==
  ASSUME ~Overlap, ~EarlyFilter
  PROVE  Spec => []ViewInv
<1>1. ViewInv /\ [Next]_vars => ViewInv'
  BY ViewKept
<1> QED
  BY InitView, <1>1, PTL DEF Spec

\* At rest nothing waits.
LEMMA NothingWaits ==
  ASSUME AtRest, Positions
  PROVE  /\ ~resort /\ run = IdleRun
         /\ \A task \in {"add", "update", "remove"}, i \in Items :
              ~Asked(task, i) /\ tasks[i] # task /\ run.tasks[i] # task
<1>1. ~resort /\ run = IdleRun /\ req.pc = "idle" /\ \A i \in Items : tasks[i] = "none"
  BY DEF AtRest, Positions, Queued
<1> QED
  BY <1>1, NothingIsIdle DEF Asked

\* Once the events of the users are handled, the view has exactly the users
\* that the filters match, once each and in the order of the sort settings
\* (handleTasks, onFilterUpdated, maybeSort), whatever happened in between.
THEOREM ViewMatchesUsersHolds ==
  ASSUME ~Overlap, ~EarlyFilter
  PROVE  Spec => []ViewMatchesUsers
<1>1. ViewInv => ViewMatchesUsers
  <2> SUFFICES ASSUME ViewInv, AtRest, ~dropped
               PROVE  /\ source = users
                      /\ Len(matching) = Cardinality(ToSet(matching))
                      /\ ToSet(matching) = {i \in users : Matches(i)}
                      /\ Order(values["asc"])
    BY DEF ViewMatchesUsers, Order
  <2>1. /\ source \subseteq Items /\ users \subseteq Items /\ matching \in Seq(Items)
        /\ active /\ req.pc = "idle" /\ run.pc = "idle" /\ ~flags.values /\ ~flags.list /\ prev.total # -1
    BY DEF ViewInv, DescribedInv, TypeOK, AtRest
  <2>2. /\ ~resort
        /\ \A task \in {"add", "update", "remove"}, i \in Items : ~Waits(task, i)
    BY NothingWaits DEF ViewInv, Waits
  <2>3. source = users
    BY <2>1, <2>2 DEF ViewInv, Listed
  <2>4. ToSet(matching) = {i \in users : Matches(i)}
    BY <2>1, <2>2, <2>3 DEF ViewInv, Filtered
  <2>5. Len(matching) = Cardinality(ToSet(matching))
    BY <2>1, DistinctLength DEF ViewInv, Filtered
  <2>6. Order(values["asc"])
    BY <2>1, <2>2 DEF ViewInv, Ordered, Settled
  <2> QED
    BY <2>3, <2>4, <2>5, <2>6
<1> QED
  BY ViewIsMaintained, <1>1, PTL

\* At rest the client has been sent the part of the list that its range names
\* and both counts, unless the range begins behind the end of the list
\* (updateViewItems, appendItemCounts).
THEOREM ClientShowsRangeHolds ==
  ASSUME ~Overlap, ~EarlyFilter
  PROVE  Spec => []ClientShowsRange
<1>1. ViewInv => ClientShowsRange
  BY DEF ViewInv, Ranged, ClientShowsRange, RangeOf, AtRest
<1> QED
  BY ViewIsMaintained, <1>1, PTL

\* While no filter is set, what the client has of an item that it shows is the
\* current property at rest: no update is lost on its way through the queue, the
\* run and the viewport (handleUpdateItemTask, updateViewItems).
THEOREM ShownAreFreshHolds ==
  ASSUME ~Overlap, ~EarlyFilter
  PROVE  Spec => []ShownAreFresh
<1>1. ViewInv => ShownAreFresh
  <2> SUFFICES ASSUME ViewInv, AtRest, ~filtered, NEW i \in ToSet(client.shown)
               PROVE  client.known[i] = key[i]
    BY DEF ShownAreFresh
  <2>1. req.pc = "idle" /\ run.pc = "idle"
    BY DEF AtRest
  <2>2. i \in Items
    <3>1. client.shown \in Seq(Items)
      BY DEF ViewInv, DescribedInv, TypeOK
    <3> QED
      BY <3>1 DEF ToSet
  <2>3. ~Late(i) /\ run.tasks[i] \notin {"update", "remove"}
    BY <2>2, NothingWaits DEF ViewInv, Late
  <2> QED
    BY <2>1, <2>3 DEF ViewInv, Fresh
<1> QED
  BY ViewIsMaintained, <1>1, PTL
=============================================================================
