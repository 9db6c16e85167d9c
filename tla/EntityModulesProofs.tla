------------------------- MODULE EntityModulesProofs ------------------------
(***************************************************************************)
(* No submodule stays registered after its destruction and nobody is       *)
(* inside one while the module is destroyed, for any numbers of entities   *)
(* and task threads and whatever events and tasks overlap. And what the    *)
(* module and its client have at rest is what the application has.         *)
(*                                                                         *)
(* The first invariant adds who can be inside: the constructor only while  *)
(* the module is built, the others only between registration and the end   *)
(* of the session; and who initialises a submodule that is in the map.     *)
(* The second one says where each change of an entity is until everybody   *)
(* knows of it.                                                            *)
(***************************************************************************)
EXTENDS EntityModules, TLAPS

Busy ==
  /\ \A a \in Actors : At(a, "idle") \/ op[a].e \in Entities
  /\ \A a \in Actors : At(a, "init") /\ op[a].kept => op[a].e \in modules
  /\ At(Api, "idle") \/ api \in {"adding", "crashed"}
  /\ api \in {"leaving", "gone"} => /\ ~listening /\ ~session
                                  /\ \A a \in Actors : At(a, "idle")
  /\ api = "absent" => /\ modules = {} /\ twice = {} /\ registered = {} /\ tasks = <<>>
                       /\ ~listening /\ \A a \in Actors : At(a, "idle")

IInv == TypeOK /\ RegisteredLive /\ NobodyInside /\ Busy

USE EntityModulesAssumption

LEMMA InitEstablishes == Init => IInv
<1> SUFFICES ASSUME Init PROVE IInv
  OBVIOUS
<1>1. TypeOK
  <2>1. op \in [Actors -> OpType]
    BY DEF Init, Idle, OpType, Pcs
  <2>2. tasks \in Seq(Event) /\ events \in Seq(Event)
    BY DEF Init
  <2> QED
    BY <2>1, <2>2 DEF Init, TypeOK
<1>2. RegisteredLive /\ NobodyInside
  BY DEF Init, RegisteredLive, NobodyInside
<1>3. Busy
  BY DEF Init, Busy, Idle, At, Actors, Api, Host
<1> QED
  BY <1>1, <1>2, <1>3 DEF IInv

LEMMA StepPreserves == IInv /\ [Next]_vars => IInv'
<1> SUFFICES ASSUME IInv, [Next]_vars PROVE IInv'
  OBVIOUS
<1> USE DEF IInv, At, Actors, Api, Host, Key, host, built, placed, follower, OpType, Pcs
<1>1. ASSUME NEW e \in Entities, HostCreate(e) PROVE IInv'
  <2>1. TypeOK'
    <3>1. events' \in Seq(Event)
      BY <1>1 DEF TypeOK, HostCreate, Event
    <3> QED
      BY <1>1, <3>1 DEF TypeOK, HostCreate
  <2>2. RegisteredLive'
    BY <1>1 DEF TypeOK, RegisteredLive, Busy, HostCreate
  <2>3. NobodyInside'
    BY <1>1 DEF TypeOK, NobodyInside, Busy, HostCreate
  <2>4. Busy'
    BY <1>1 DEF TypeOK, Busy, RegisteredLive, HostCreate
  <2> QED
    BY <2>1, <2>2, <2>3, <2>4
<1>2. ASSUME NEW e \in Entities, HostRemove(e) PROVE IInv'
  <2>1. TypeOK'
    <3>1. events' \in Seq(Event)
      BY <1>2 DEF TypeOK, HostRemove, Event
    <3> QED
      BY <1>2, <3>1 DEF TypeOK, HostRemove
  <2>2. RegisteredLive'
    BY <1>2 DEF TypeOK, RegisteredLive, Busy, HostRemove
  <2>3. NobodyInside'
    BY <1>2 DEF TypeOK, NobodyInside, Busy, HostRemove
  <2>4. Busy'
    BY <1>2 DEF TypeOK, Busy, RegisteredLive, HostRemove
  <2> QED
    BY <2>1, <2>2, <2>3, <2>4
<1>3. ASSUME NEW e \in Entities, QueueWork(e) PROVE IInv'
  <2>1. TypeOK'
    BY <1>3 DEF TypeOK, Busy, QueueWork
  <2>2. RegisteredLive'
    BY <1>3 DEF TypeOK, RegisteredLive, Busy, QueueWork
  <2>3. NobodyInside'
    BY <1>3 DEF TypeOK, NobodyInside, Busy, QueueWork
  <2>4. Busy'
    BY <1>3 DEF TypeOK, Busy, RegisteredLive, QueueWork
  <2> QED
    BY <2>1, <2>2, <2>3, <2>4
<1>4. ASSUME Fire PROVE IInv'
  <2>e. Head(events) \in Event /\ events' \in Seq(Event)
    BY <1>4 DEF TypeOK, Fire
  <2>h. Head(events).e \in Entities
    BY <2>e DEF Event
  <2>0. \/ op' = op
        \/ listening /\ At(Host, "idle") /\ \E pc \in {"emplace", "erase"}, e \in Entities :
             op' = [op EXCEPT ![Host] = [pc |-> pc, e |-> e, kept |-> FALSE]]
    BY <1>4, <2>h DEF Fire, Handle, Begin
  <2>o. op' \in [Actors -> OpType]
    <3>1. \A pc \in {"emplace", "erase"}, e \in Entities : [pc |-> pc, e |-> e, kept |-> FALSE] \in OpType
      OBVIOUS
    <3> HIDE DEF OpType
    <3> QED
      BY <2>0, <3>1 DEF TypeOK
  <2>p. \A b \in Actors : /\ op'[b].pc = "idle" \/ op'[b].e \in Entities
                          /\ op'[b].pc = "init" => op'[b] = op[b]
    BY <2>0 DEF TypeOK, Busy
  <2>1. TypeOK'
    <3>2. tasks' \in Seq(Event)
      <4>1. [ev |-> Head(events).ev, e |-> Head(events).e] \in Event
        BY <2>e DEF Event
      <4>2. \/ tasks' = tasks
            \/ tasks' = Append(tasks, [ev |-> Head(events).ev, e |-> Head(events).e])
        BY <1>4 DEF Fire, Handle
      <4> QED
        BY <4>1, <4>2 DEF TypeOK
    <3>4. api' \in {api, "crashed"} /\ missed' \in BOOLEAN
      BY <1>4 DEF TypeOK, Fire, Handle
    <3> QED
      BY <1>4, <2>e, <2>o, <3>2, <3>4 DEF TypeOK, Fire
  <2>2. RegisteredLive'
    <3>1. UNCHANGED <<kind, modules, registered>>
      BY <1>4 DEF Fire
    <3>2. \A b \in Actors : op[b].pc = "init" => op'[b] = op[b]
      BY <2>0 DEF TypeOK
    <3> QED
      BY <3>1, <3>2 DEF RegisteredLive
  <2>3. NobodyInside'
    BY <1>4 DEF TypeOK, NobodyInside, Busy, Fire, Handle, Event, Begin, Idle, Copied, Adding
  <2>4. Busy'
    <3>2. api' \in {api, "crashed"} /\ (listening \/ tasks' = tasks)
      BY <1>4 DEF Fire, Handle
    <3> QED
      <4>1. (api = "absent" \/ api \in {"leaving", "gone"}) => op' = op /\ api' = api /\ tasks' = tasks
        BY <1>4, <2>0 DEF Busy, Fire, Handle
      <4>2. api' \in {api, "crashed"} /\ UNCHANGED <<modules, twice, registered, listening, session>>
        BY <1>4, <3>2 DEF Fire
      <4>3. op'[Api] = op[Api]
        BY <2>0 DEF TypeOK
        <4>4. ASSUME NEW b \in Actors, op'[b].pc = "init", op'[b].kept PROVE op'[b].e \in modules'
          <5>1. op'[b] = op[b]
            BY <2>p, <4>4
          <5> QED
            BY <5>1, <4>4, <4>2 DEF Busy
        <4>5. op'[Api].pc = "idle" \/ api' \in {"adding", "crashed"}
          BY <4>1, <4>2, <4>3 DEF Busy
        <4>6. api' \in {"leaving", "gone"} => /\ ~listening' /\ ~session'
                                             /\ \A b \in Actors : op'[b].pc = "idle"
          BY <4>1, <4>2 DEF Busy
        <4>7. api' = "absent" => /\ modules' = {} /\ twice' = {} /\ registered' = {} /\ tasks' = <<>>
                              /\ ~listening' /\ \A b \in Actors : op'[b].pc = "idle"
          BY <4>1, <4>2, <4>3 DEF Busy
        <4>8. \A b \in Actors : op'[b].pc = "idle" \/ op'[b].e \in Entities
          BY <2>p
        <4> QED
          BY <4>4, <4>5, <4>6, <4>7, <4>8 DEF Busy
  <2> QED
    BY <2>1, <2>2, <2>3, <2>4
<1>5. ASSUME Construct PROVE IInv'
  <2>1. TypeOK'
    BY <1>5 DEF TypeOK, Busy, Construct, Listen, CopiesFirst
  <2>2. RegisteredLive'
    BY <1>5 DEF TypeOK, RegisteredLive, Busy, Construct, Listen, CopiesFirst
  <2>3. NobodyInside'
    BY <1>5 DEF TypeOK, NobodyInside, Busy, Construct, Listen, CopiesFirst
  <2>4. Busy'
    BY <1>5 DEF TypeOK, Busy, RegisteredLive, Construct, Listen, CopiesFirst
  <2> QED
    BY <2>1, <2>2, <2>3, <2>4
<1>6. ASSUME Copy PROVE IInv'
  <2>1. TypeOK'
    BY <1>6 DEF TypeOK, Busy, Copy
  <2>2. RegisteredLive'
    BY <1>6 DEF TypeOK, RegisteredLive, Busy, Copy
  <2>3. NobodyInside'
    BY <1>6 DEF TypeOK, NobodyInside, Busy, Copy
  <2>4. Busy'
    BY <1>6 DEF TypeOK, Busy, RegisteredLive, Copy
  <2> QED
    BY <2>1, <2>2, <2>3, <2>4
<1>7. ASSUME NEW e \in Entities, AddNext(e) PROVE IInv'
  <2>1. TypeOK'
    BY <1>7 DEF TypeOK, Busy, AddNext, Begin, Idle
  <2>2. RegisteredLive'
    BY <1>7 DEF TypeOK, RegisteredLive, Busy, AddNext, Begin, Idle
  <2>3. NobodyInside'
    BY <1>7 DEF TypeOK, NobodyInside, Busy, AddNext, Begin, Idle
  <2>4. Busy'
    BY <1>7 DEF TypeOK, Busy, RegisteredLive, AddNext, Begin, Idle
  <2> QED
    BY <2>1, <2>2, <2>3, <2>4
<1>8. ASSUME Constructed PROVE IInv'
  <2>1. TypeOK'
    BY <1>8 DEF TypeOK, Busy, Constructed, Listen, CopiesFirst
  <2>2. RegisteredLive'
    BY <1>8 DEF TypeOK, RegisteredLive, Busy, Constructed, Listen, CopiesFirst
  <2>3. NobodyInside'
    BY <1>8 DEF TypeOK, NobodyInside, Busy, Constructed, Listen, CopiesFirst
  <2>4. Busy'
    BY <1>8 DEF TypeOK, Busy, RegisteredLive, Constructed, Listen, CopiesFirst
  <2> QED
    BY <2>1, <2>2, <2>3, <2>4
<1>9. ASSUME NEW a \in Actors, Emplace(a) PROVE IInv'
  <2>1. TypeOK'
    <3>1. op' \in [Actors -> OpType]
      BY <1>9 DEF TypeOK, Emplace, OpType, Pcs
    <3>2. op[a].e \in Entities
      BY <1>9, <3>1 DEF Busy, Emplace
    <3>3. modules' \subseteq Entities /\ twice' \subseteq modules' /\ \A e, f \in modules' : Key(e) = Key(f) => e = f
      BY <1>9, <3>1, <3>2 DEF TypeOK, Emplace
    <3> QED
      BY <1>9, <3>1, <3>2, <3>3 DEF TypeOK, Emplace
  <2>2. RegisteredLive'
    <3>1. registered' \subseteq modules'
      BY <1>9 DEF RegisteredLive, Emplace
    <3>2. ASSUME kind # "roots", NEW e \in modules' \ registered'
          PROVE  \E b \in Actors : op'[b].pc = "init" /\ op'[b].e = e /\ op'[b].kept
      <4>1. CASE e \in modules
        <5>1. PICK b \in Actors : op[b].pc = "init" /\ op[b].e = e /\ op[b].kept
          BY <1>9, <3>2, <4>1 DEF RegisteredLive, Emplace
        <5>2. b # a /\ op'[b] = op[b]
          BY <1>9, <5>1 DEF TypeOK, Emplace
        <5> QED
          BY <5>1, <5>2
      <4>2. CASE e \notin modules
        <5>1. op'[a].pc = "init" /\ op'[a].e = e /\ op'[a].kept
          BY <1>9, <3>2, <4>2 DEF TypeOK, Emplace
        <5> QED
          BY <5>1
      <4> QED
        BY <4>1, <4>2
    <3>3. kind' = kind
      BY <1>9 DEF Emplace
    <3> QED
      BY <3>1, <3>2, <3>3 DEF RegisteredLive
  <2>3. NobodyInside'
    BY <1>9 DEF TypeOK, NobodyInside, Busy, Emplace
  <2>4. Busy'
    BY <1>9 DEF TypeOK, Busy, RegisteredLive, Emplace
  <2> QED
    BY <2>1, <2>2, <2>3, <2>4
<1>10. ASSUME NEW a \in Actors, InitModule(a) PROVE IInv'
  <2>1. TypeOK'
    <3>1. op' \in [Actors -> OpType]
      <4>1. CASE op' = [op EXCEPT ![a] = Idle]
        BY <4>1 DEF TypeOK, Idle
      <4>2. CASE op' = [op EXCEPT ![a].pc = "announce"]
        BY <4>2 DEF TypeOK
      <4> QED
        BY <1>10, <4>1, <4>2 DEF InitModule, Finish, Goto
    <3>2. op[a].e \in Entities
      BY <1>10, <3>1 DEF Busy, InitModule
    <3> QED
      BY <1>10, <3>1, <3>2 DEF TypeOK, InitModule, Finish, Goto, Idle
  <2>2. RegisteredLive'
    BY <1>10 DEF TypeOK, RegisteredLive, Busy, InitModule, Finish, Goto, Idle
  <2>3. NobodyInside'
    BY <1>10 DEF TypeOK, NobodyInside, Busy, InitModule, Finish, Goto, Idle
  <2>4. Busy'
    BY <1>10 DEF TypeOK, Busy, RegisteredLive, InitModule, Finish, Goto, Idle
  <2> QED
    BY <2>1, <2>2, <2>3, <2>4
<1>11. ASSUME NEW a \in Actors, Erase(a) PROVE IInv'
  <2> DEFINE gone == {f \in modules \ twice : Key(f) = Key(op[a].e)}
  <2>0. /\ op' = [b \in Actors |-> op'[b]]
        /\ op'[a] \in {Idle, [op[a] EXCEPT !.pc = "retract"]}
        /\ \A b \in Actors \ {a} : \/ op'[b] = op[b] /\ ~(At(b, "init") /\ op[b].e \in gone)
                                  \/ op'[b] = [op[b] EXCEPT !.kept = FALSE]
    BY <1>11 DEF TypeOK, Erase
  <2>1. TypeOK'
    <3>1. op' \in [Actors -> OpType]
      <4>1. Idle \in OpType /\ [op[a] EXCEPT !.pc = "retract"] \in OpType
        <5>1. op[a] \in OpType
          BY DEF TypeOK
        <5>2. Idle \in OpType
          BY DEF Idle
        <5> QED
          BY <5>1, <5>2
      <4>2. ASSUME NEW b \in Actors PROVE op[b] \in OpType /\ [op[b] EXCEPT !.kept = FALSE] \in OpType
        <5>1. op[b] \in OpType
          BY DEF TypeOK
        <5> QED
          BY <5>1
      <4> HIDE DEF OpType
      <4>3. ASSUME NEW b \in Actors PROVE op'[b] \in OpType
        BY <2>0, <4>1, <4>2
      <4> QED
        BY <2>0, <4>3
    <3>2. modules' \subseteq Entities /\ twice' \subseteq modules' /\ \A e, f \in modules' : Key(e) = Key(f) => e = f
      BY <1>11, <3>1 DEF TypeOK, Erase
    <3> QED
      BY <1>11, <3>1, <3>2 DEF TypeOK, Erase, Idle, Unplaced
  <2>2. RegisteredLive'
    BY <1>11 DEF TypeOK, RegisteredLive, Busy, Erase, Idle, Unplaced
  <2>3. NobodyInside'
    BY <1>11 DEF TypeOK, NobodyInside, Busy, Erase, Idle, Unplaced
  <2>4. Busy'
    <3>1. \A b \in Actors : op'[b].pc = "idle" \/ op'[b].e \in Entities
      BY <1>11, <2>0 DEF TypeOK, Busy, Idle, Erase
    <3>2. ASSUME NEW b \in Actors, op'[b].pc = "init", op'[b].kept PROVE op'[b].e \in modules'
      <4>1. b # a /\ op'[b] = op[b] /\ op[b].e \notin gone
        <5>1. op'[a].pc \in {"idle", "retract"}
          BY <2>0 DEF TypeOK, Idle
        <5>2. \A c \in Actors : ~[op[c] EXCEPT !.kept = FALSE].kept
                              /\ [op[c] EXCEPT !.kept = FALSE].pc = op[c].pc
          BY DEF TypeOK
        <5> QED
          BY <2>0, <3>2, <5>1, <5>2
      <4> QED
        BY <1>11, <3>2, <4>1 DEF Busy, Erase
    <3>3. op'[Api].pc = "idle" \/ api' \in {"adding", "crashed"}
      BY <1>11, <2>0 DEF TypeOK, Busy, Idle, Erase
    <3>4. ~(api \in {"absent", "leaving", "gone"})
      BY <1>11 DEF Busy, Erase
    <3> QED
      BY <1>11, <3>1, <3>2, <3>3, <3>4 DEF Busy, Erase
  <2> QED
    BY <2>1, <2>2, <2>3, <2>4
<1>12. ASSUME NEW a \in Actors, Announce(a) PROVE IInv'
  <2>1. TypeOK'
    BY <1>12 DEF TypeOK, Busy, Announce, Finish, Idle
  <2>2. RegisteredLive'
    BY <1>12 DEF TypeOK, RegisteredLive, Busy, Announce, Finish, Idle
  <2>3. NobodyInside'
    BY <1>12 DEF TypeOK, NobodyInside, Busy, Announce, Finish, Idle
  <2>4. Busy'
    BY <1>12 DEF TypeOK, Busy, RegisteredLive, Announce, Finish, Idle
  <2> QED
    BY <2>1, <2>2, <2>3, <2>4
<1>13. ASSUME NEW a \in Actors, Retract(a) PROVE IInv'
  <2>1. TypeOK'
    BY <1>13 DEF TypeOK, Busy, Retract, Finish, Idle
  <2>2. RegisteredLive'
    BY <1>13 DEF TypeOK, RegisteredLive, Busy, Retract, Finish, Idle
  <2>3. NobodyInside'
    BY <1>13 DEF TypeOK, NobodyInside, Busy, Retract, Finish, Idle
  <2>4. Busy'
    BY <1>13 DEF TypeOK, Busy, RegisteredLive, Retract, Finish, Idle
  <2> QED
    BY <2>1, <2>2, <2>3, <2>4
<1>14. ASSUME NEW t \in TaskThreads, Take(t) PROVE IInv'
  <2>e. Head(tasks) \in Event /\ tasks' \in Seq(Event)
    BY <1>14 DEF TypeOK, Take
  <2>h. Head(tasks).e \in Entities
    BY <2>e DEF Event
  <2>0. \/ op' = op
        \/ session /\ At(t, "idle") /\ \E pc \in {"emplace", "erase"}, e \in Entities :
             op' = [op EXCEPT ![t] = [pc |-> pc, e |-> e, kept |-> FALSE]]
    BY <1>14, <2>h DEF Take, Begin
  <2>o. op' \in [Actors -> OpType]
    <3>1. \A pc \in {"emplace", "erase"}, e \in Entities : [pc |-> pc, e |-> e, kept |-> FALSE] \in OpType
      OBVIOUS
    <3> HIDE DEF OpType
    <3> QED
      BY <2>0, <3>1 DEF TypeOK
  <2>p. \A b \in Actors : /\ op'[b].pc = "idle" \/ op'[b].e \in Entities
                          /\ op'[b].pc = "init" => op'[b] = op[b]
    BY <2>0 DEF TypeOK, Busy
  <2>1. TypeOK'
    BY <1>14, <2>e, <2>o DEF TypeOK, Take, Adding
  <2>2. RegisteredLive'
    <3>1. \A b \in Actors : op[b].pc = "init" => op'[b] = op[b]
      BY <2>0 DEF TypeOK
    <3> QED
      BY <1>14, <3>1 DEF RegisteredLive, Take
  <2>3. NobodyInside'
    BY <1>14 DEF TypeOK, NobodyInside, Busy, Take, Begin, Idle, Event, Adding
  <2>4. Busy'
    <3>1. api \notin {"absent", "leaving", "gone"} \/ op' = op
      BY <1>14, <2>0 DEF Busy, Take
    <3>2. op'[Api] = op[Api] /\ UNCHANGED <<modules, twice, registered, listening, session, api>>
      BY <1>14, <2>0 DEF TypeOK, Take
    <3>3. api # "absent"
      BY <1>14 DEF Busy, Take
      <3>4. ASSUME NEW b \in Actors, op'[b].pc = "init", op'[b].kept PROVE op'[b].e \in modules'
        <4>1. op'[b] = op[b]
          BY <2>p, <3>4
        <4> QED
          BY <4>1, <3>4, <3>2 DEF Busy
      <3>5. op'[Api].pc = "idle" \/ api' \in {"adding", "crashed"}
        BY <3>1, <3>2, <3>3 DEF Busy
      <3>6. api' \in {"leaving", "gone"} => /\ ~listening' /\ ~session'
                                           /\ \A b \in Actors : op'[b].pc = "idle"
        BY <3>1, <3>2 DEF Busy
      <3>7. api' = "absent" => /\ modules' = {} /\ twice' = {} /\ registered' = {} /\ tasks' = <<>>
                            /\ ~listening' /\ \A b \in Actors : op'[b].pc = "idle"
        BY <3>1, <3>2, <3>3 DEF Busy
      <3>8. \A b \in Actors : op'[b].pc = "idle" \/ op'[b].e \in Entities
        BY <2>p
      <3> QED
        BY <3>4, <3>5, <3>6, <3>7, <3>8 DEF Busy
  <2> QED
    BY <2>1, <2>2, <2>3, <2>4
<1>15. ASSUME RunWork PROVE IInv'
  <2>1. TypeOK'
    BY <1>15 DEF TypeOK, Busy, RunWork
  <2>2. RegisteredLive'
    BY <1>15 DEF TypeOK, RegisteredLive, Busy, RunWork
  <2>3. NobodyInside'
    BY <1>15 DEF TypeOK, NobodyInside, Busy, RunWork
  <2>4. Busy'
    BY <1>15 DEF TypeOK, Busy, RegisteredLive, RunWork
  <2> QED
    BY <2>1, <2>2, <2>3, <2>4
<1>16. ASSUME Subscribe PROVE IInv'
  <2>1. TypeOK'
    BY <1>16 DEF TypeOK, Busy, Subscribe
  <2>2. RegisteredLive'
    BY <1>16 DEF TypeOK, RegisteredLive, Busy, Subscribe
  <2>3. NobodyInside'
    BY <1>16 DEF TypeOK, NobodyInside, Busy, Subscribe
  <2>4. Busy'
    BY <1>16 DEF TypeOK, Busy, RegisteredLive, Subscribe
  <2> QED
    BY <2>1, <2>2, <2>3, <2>4
<1>22. ASSUME GetList PROVE IInv'
  <2>1. TypeOK'
    BY <1>22 DEF TypeOK, Busy, GetList
  <2>2. RegisteredLive'
    BY <1>22 DEF TypeOK, RegisteredLive, Busy, GetList
  <2>3. NobodyInside'
    BY <1>22 DEF TypeOK, NobodyInside, Busy, GetList
  <2>4. Busy'
    BY <1>22 DEF TypeOK, Busy, RegisteredLive, GetList
  <2> QED
    BY <2>1, <2>2, <2>3, <2>4
<1>23. ASSUME Deliver PROVE IInv'
  <2>1. TypeOK'
    BY <1>23 DEF TypeOK, Busy, Deliver
  <2>2. RegisteredLive'
    BY <1>23 DEF TypeOK, RegisteredLive, Busy, Deliver
  <2>3. NobodyInside'
    BY <1>23 DEF TypeOK, NobodyInside, Busy, Deliver
  <2>4. Busy'
    BY <1>23 DEF TypeOK, Busy, RegisteredLive, Deliver
  <2> QED
    BY <2>1, <2>2, <2>3, <2>4
<1>24. ASSUME OpenView PROVE IInv'
  <2>1. TypeOK'
    BY <1>24 DEF TypeOK, Busy, OpenView
  <2>2. RegisteredLive'
    BY <1>24 DEF TypeOK, RegisteredLive, Busy, OpenView
  <2>3. NobodyInside'
    BY <1>24 DEF TypeOK, NobodyInside, Busy, OpenView
  <2>4. Busy'
    BY <1>24 DEF TypeOK, Busy, RegisteredLive, OpenView
  <2> QED
    BY <2>1, <2>2, <2>3, <2>4
<1>17. ASSUME EndSession PROVE IInv'
  <2>1. TypeOK'
    BY <1>17 DEF TypeOK, Busy, EndSession
  <2>2. RegisteredLive'
    BY <1>17 DEF TypeOK, RegisteredLive, Busy, EndSession
  <2>3. NobodyInside'
    BY <1>17 DEF TypeOK, NobodyInside, Busy, EndSession
  <2>4. Busy'
    BY <1>17 DEF TypeOK, Busy, RegisteredLive, EndSession
  <2> QED
    BY <2>1, <2>2, <2>3, <2>4
<1>18. ASSUME Unlisten PROVE IInv'
  <2>1. TypeOK'
    BY <1>18 DEF TypeOK, Busy, Unlisten
  <2>2. RegisteredLive'
    BY <1>18 DEF TypeOK, RegisteredLive, Busy, Unlisten
  <2>3. NobodyInside'
    BY <1>18 DEF TypeOK, NobodyInside, Busy, Unlisten
  <2>4. Busy'
    BY <1>18 DEF TypeOK, Busy, RegisteredLive, Unlisten
  <2> QED
    BY <2>1, <2>2, <2>3, <2>4
<1>19. ASSUME Destroy PROVE IInv'
  <2>1. TypeOK'
    BY <1>19 DEF TypeOK, Busy, Destroy
  <2>2. RegisteredLive'
    BY <1>19 DEF TypeOK, RegisteredLive, Busy, Destroy
  <2>3. NobodyInside'
    BY <1>19 DEF TypeOK, NobodyInside, Busy, Destroy
  <2>4. Busy'
    BY <1>19 DEF TypeOK, Busy, RegisteredLive, Destroy
  <2> QED
    BY <2>1, <2>2, <2>3, <2>4
<1>20. ASSUME Disconnect PROVE IInv'
  <2>1. TypeOK'
    BY <1>20 DEF TypeOK, Busy, Disconnect
  <2>2. RegisteredLive'
    BY <1>20 DEF TypeOK, RegisteredLive, Disconnect
  <2>3. NobodyInside'
    BY <1>20 DEF TypeOK, NobodyInside, Disconnect
  <2>4. Busy'
    BY <1>20 DEF TypeOK, Busy, Disconnect
  <2> QED
    BY <2>1, <2>2, <2>3, <2>4
<1>21. CASE UNCHANGED vars
  BY <1>21 DEF vars, TypeOK, RegisteredLive, NobodyInside, Busy
<1> QED
  BY <1>1, <1>2, <1>3, <1>4, <1>5, <1>6, <1>7, <1>8, <1>9, <1>10, <1>11, <1>12, <1>13, <1>14,
     <1>15, <1>16, <1>17, <1>18, <1>19, <1>20, <1>21, <1>22, <1>23, <1>24 DEF Next, Building, Step

LEMMA InvariantHolds == Spec => []IInv
BY InitEstablishes, StepPreserves, PTL DEF Spec

(* Every variable keeps its type, and the map has one submodule per key.   *)
THEOREM TypeCorrect == Spec => []TypeOK
<1>1. IInv => TypeOK
  BY DEF IInv
<1> QED
  BY <1>1, InvariantHolds, PTL

(* A submodule that is registered with its entity is in the map, and one   *)
(* that is not registered yet is being initialised.                        *)
THEOREM RegisteredLiveHolds == Spec => []RegisteredLive
<1>1. IInv => RegisteredLive
  BY DEF IInv
<1> QED
  BY <1>1, InvariantHolds, PTL

(* The assertion of ~ParentApiModule: nobody is inside a submodule when    *)
(* the module is destroyed.                                                *)
THEOREM NobodyInsideHolds == Spec => []NobodyInside
<1>1. IInv => NobodyInside
  BY DEF IInv
<1> QED
  BY <1>1, InvariantHolds, PTL

-----------------------------------------------------------------------------
(* At rest the module and the client have what the application has         *)
(*                                                                         *)
(* As long as nothing was missed, every change of an entity is on its way  *)
(* exactly once, in order: as an event, as a task, or in the hands of the  *)
(* thread that carries it out.                                             *)

Handlers == TaskThreads \cup {Host}
AddPcs   == {"emplace", "init", "announce"}
RemPcs   == {"erase", "retract"}

\* A change of e is waiting, and somebody is at one of the positions with e.
Pending(s, ev, e) == \E i \in DOMAIN s : s[i].ev = ev /\ s[i].e = e
Told(ev, e)       == Pending(events, ev, e) \/ Pending(tasks, ev, e)
Doing(pcs, e)     == \E a \in Handlers : op[a].pc \in pcs /\ op[a].e = e
Placing(e)        == Doing({"emplace"}, e) \/ Unplaced(Api) = {e}

Live == session /\ ~missed /\ api \in {"absent", "copy", "adding", "ready"}

\* Who can be busy with what, at each stage of each kind of module.
Stages ==
  /\ kind = "hub" => At(Host, "idle")
  /\ kind # "hub" => tasks = <<>> /\ \A t \in TaskThreads : At(t, "idle")
  /\ api # "adding" => todo = {}
  /\ kind = "roots" => todo = {} /\ At(Api, "idle") /\ ~At(Host, "init")
  /\ op[Api].pc \in {"idle", "emplace", "init"}
  /\ api = "copy" => ~CopiesFirst
  /\ listening <=> api = "ready" \/ (api \in {"copy", "adding"} /\ ~CopiesFirst)
  /\ ~listening => /\ tasks = <<>> /\ \A a \in Handlers : At(a, "idle")
                   /\ At(Api, "init") => op[Api].e \in modules
  /\ twice = {}
  /\ subscribed # "no" => api = "ready"

\* Nothing is told twice, and a creation before the removal.
Once(s) ==
  \A i, j \in DOMAIN s : i < j /\ s[i].e = s[j].e => s[i].ev = "created" /\ s[j].ev = "removed"

InTurn ==
  /\ Once(events) /\ Once(tasks)
  /\ \A e \in Entities :
       /\ Told("created", e) \/ Told("removed", e) \/ Doing(AddPcs \cup RemPcs, e) => e \in used
       /\ Pending(tasks, "created", e) => ~Pending(events, "created", e)
       /\ Pending(tasks, "removed", e) => ~Pending(events, "created", e) /\ ~Pending(events, "removed", e)
       /\ Doing(AddPcs \cup RemPcs, e) => ~Told("created", e)
       /\ Doing(RemPcs, e) => ~Told("removed", e)
       /\ Told("removed", e) \/ Doing(RemPcs, e) => e \notin entities
       /\ Told("created", e) \/ Doing(AddPcs, e) => e \in entities \/ Told("removed", e)

\* An entity that took the key of another one is created after that one is gone.
Behind(s, f, e) ==
  \A i \in DOMAIN s : s[i].ev = "removed" /\ s[i].e = f =>
    \E j \in DOMAIN s : i < j /\ s[j].ev = "created" /\ s[j].e = e

Replaced ==
  \A e, f \in Entities : e # f /\ Key(e) = Key(f) /\ e \in entities =>
    /\ f \notin entities
    /\ Doing(RemPcs, f) => Pending(events, "created", e)
    /\ Behind(events, f, e)

\* What exists is in the map or on its way to it.
NoneLost ==
  api \in {"adding", "ready"} =>
    \A e \in entities : e \in modules \cup todo \/ Placing(e) \/ Told("created", e)

\* What is in the map, or will be, exists or is about to be erased.
NoneLeft ==
  \A e \in modules \cup todo \cup Unplaced(Api) :
    e \in entities \/ Told("removed", e) \/ Doing({"erase"}, e)

\* What the client believes, or will when the list arrives, without what it was
\* told meanwhile; and whether it has asked for the list yet.
Believed == (client \cup list) \ overtaken
Follows  == subscribed \in {"listing", "listed", "view"}

\* The same for what the client believes.
ClientAdds ==
  Follows =>
    \A e \in entities : Key(e) \in Believed \/ Told("created", e) \/ Doing(AddPcs, e)

ClientDrops ==
  subscribed # "no" =>
    \A k \in Believed : \E e \in Entities :
      Key(e) = k /\ (e \in entities \/ Told("removed", e) \/ Doing(RemPcs, e))

\* A removal of a share root that the module does not find is not told.
ClientRoots ==
  kind = "roots" =>
    /\ At(Host, "announce") => op[Host].e \in modules
    /\ subscribed # "no" =>
         \A e \in Believed : e \in modules \/ Told("created", e) \/ Doing({"emplace", "retract"}, e)

Conveyed == /\ Stages /\ InTurn /\ Replaced /\ NoneLost /\ NoneLeft
            /\ ClientAdds /\ ClientDrops /\ ClientRoots

\* Where the list is, and what can be overtaken.
Heard == /\ subscribed = "no" => client = {}
         /\ subscribed # "listing" => list = {}
         /\ subscribed \notin {"listing", "listed"} => overtaken = {}
         /\ overtaken \subseteq client \cup list

CInv == IInv /\ Heard /\ (Live => Conveyed)

-----------------------------------------------------------------------------
(* What waits in a queue that grows or is served                           *)

\* What waits in a queue after something was appended.
LEMMA PendingAppend ==
  ASSUME NEW s \in Seq(Event), NEW x \in Event
  PROVE  \A ev, e : Pending(Append(s, x), ev, e) <=> Pending(s, ev, e) \/ (x.ev = ev /\ x.e = e)
<1> DEFINE t == Append(s, x)
<1>1. /\ Len(s) \in Nat /\ DOMAIN s = 1..Len(s) /\ DOMAIN t = 1..(Len(s) + 1)
      /\ t[Len(s) + 1] = x /\ \A i \in DOMAIN s : t[i] = s[i]
  OBVIOUS
<1> HIDE DEF t
<1>2. \A i \in DOMAIN t : i \in DOMAIN s \/ i = Len(s) + 1
  BY <1>1
<1>3. Len(s) + 1 \in DOMAIN t /\ \A i \in DOMAIN s : i \in DOMAIN t
  BY <1>1
<1>4. \A ev, e : Pending(t, ev, e) <=> Pending(s, ev, e) \/ (x.ev = ev /\ x.e = e)
  BY <1>1, <1>2, <1>3 DEF Pending
<1> QED
  BY <1>4 DEF t

\* What waits in a queue after its head was served.
LEMMA PendingTail ==
  ASSUME NEW s \in Seq(Event), s # <<>>, Once(s)
  PROVE  /\ Head(s) \in Event
         /\ \A ev, e : Pending(Tail(s), ev, e) <=>
              Pending(s, ev, e) /\ ~(Head(s).ev = ev /\ Head(s).e = e)
         /\ Pending(s, Head(s).ev, Head(s).e)
         /\ Head(s).ev = "removed" => ~Pending(s, "created", Head(s).e)
         /\ Once(Tail(s))
<1> DEFINE t == Tail(s)
<1>1. /\ Len(s) \in Nat \ {0} /\ DOMAIN s = 1..Len(s)
      /\ DOMAIN t = 1..(Len(s) - 1) /\ \A i \in DOMAIN t : t[i] = s[i + 1]
      /\ Head(s) = s[1] /\ 1 \in DOMAIN s
  OBVIOUS
<1>2. Head(s) \in Event /\ Pending(s, Head(s).ev, Head(s).e)
  BY <1>1 DEF Pending
<1>3. ASSUME NEW ev, NEW e
      PROVE  Pending(t, ev, e) <=> Pending(s, ev, e) /\ ~(Head(s).ev = ev /\ Head(s).e = e)
  <2>1. ASSUME Pending(t, ev, e)
        PROVE  Pending(s, ev, e) /\ ~(Head(s).ev = ev /\ Head(s).e = e)
    <3>1. PICK i \in DOMAIN t : s[i + 1].ev = ev /\ s[i + 1].e = e
      BY <1>1, <2>1 DEF Pending
    <3>2. i + 1 \in DOMAIN s /\ 1 < i + 1
      BY <1>1, <3>1
    <3> QED
      BY <1>1, <3>1, <3>2 DEF Pending, Once
  <2>2. ASSUME Pending(s, ev, e), ~(Head(s).ev = ev /\ Head(s).e = e)
        PROVE  Pending(t, ev, e)
    <3>1. PICK i \in DOMAIN s : s[i].ev = ev /\ s[i].e = e
      BY <2>2 DEF Pending
    <3>2. i - 1 \in DOMAIN t /\ t[i - 1] = s[i]
      BY <1>1, <2>2, <3>1
    <3> QED
      BY <3>1, <3>2 DEF Pending
  <2> QED
    BY <2>1, <2>2
<1>4. Head(s).ev = "removed" => ~Pending(s, "created", Head(s).e)
  BY <1>1 DEF Pending, Once
<1>5. Once(t)
  <2> SUFFICES ASSUME NEW i \in DOMAIN t, NEW j \in DOMAIN t, i < j, t[i].e = t[j].e
               PROVE  t[i].ev = "created" /\ t[j].ev = "removed"
    BY DEF Once
  <2>1. i + 1 \in DOMAIN s /\ j + 1 \in DOMAIN s /\ i + 1 < j + 1
    BY <1>1
  <2> QED
    BY <1>1, <2>1 DEF Once
<1> QED
  BY <1>2, <1>3, <1>4, <1>5

\* A change is appended once: nothing of the entity waits, or its creation.
LEMMA OnceAppend ==
  ASSUME NEW s \in Seq(Event), NEW x \in Event, Once(s),
         ~Pending(s, "removed", x.e),
         x.ev = "created" => ~Pending(s, "created", x.e)
  PROVE  Once(Append(s, x))
<1>1. \A i \in DOMAIN s : s[i].ev \in {"created", "removed"}
  <2>1. \A i \in DOMAIN s : s[i] \in Event
    OBVIOUS
  <2> QED
    BY <2>1 DEF Event
<1>2. x.ev \in {"created", "removed"}
  BY DEF Event
<1> QED
  BY <1>1, <1>2 DEF Once, Pending

\* What is appended goes behind everything that waits.
LEMMA BehindAppend ==
  ASSUME NEW s \in Seq(Event), NEW x \in Event, NEW f, NEW e,
         \/ x.ev = "created" /\ x.e = e
         \/ Behind(s, f, e) /\ ~(x.ev = "removed" /\ x.e = f)
  PROVE  Behind(Append(s, x), f, e)
<1> DEFINE t == Append(s, x)
<1>1. /\ Len(s) \in Nat /\ DOMAIN s = 1..Len(s) /\ DOMAIN t = 1..(Len(s) + 1)
      /\ t[Len(s) + 1] = x /\ \A i \in DOMAIN s : t[i] = s[i] /\ i \in DOMAIN t
  OBVIOUS
<1> HIDE DEF t
<1> SUFFICES ASSUME NEW i \in DOMAIN t, t[i].ev = "removed", t[i].e = f
             PROVE  \E j \in DOMAIN t : i < j /\ t[j].ev = "created" /\ t[j].e = e
  BY DEF Behind, t
<1>2. CASE i = Len(s) + 1
  BY <1>1, <1>2
<1>3. CASE i # Len(s) + 1
  <2>1. i \in DOMAIN s
    BY <1>1, <1>3
  <2>2. CASE x.ev = "created" /\ x.e = e
    BY <1>1, <2>1, <2>2
  <2>3. CASE Behind(s, f, e)
    BY <1>1, <2>1, <2>3 DEF Behind
  <2> QED
    BY <2>2, <2>3
<1> QED
  BY <1>2, <1>3

\* Serving the head keeps the order of the others.
LEMMA BehindTail ==
  ASSUME NEW s \in Seq(Event), s # <<>>, NEW f, NEW e, Behind(s, f, e)
  PROVE  /\ Behind(Tail(s), f, e)
         /\ Head(s).ev = "removed" /\ Head(s).e = f => Pending(Tail(s), "created", e)
<1> DEFINE t == Tail(s)
<1>1. /\ Len(s) \in Nat \ {0} /\ DOMAIN s = 1..Len(s)
      /\ DOMAIN t = 1..(Len(s) - 1) /\ \A i \in DOMAIN t : t[i] = s[i + 1]
      /\ Head(s) = s[1] /\ 1 \in DOMAIN s
  OBVIOUS
<1>2. \A j \in DOMAIN s : 1 < j => j - 1 \in DOMAIN t /\ t[j - 1] = s[j]
  BY <1>1
<1>3. \A i \in DOMAIN t : i + 1 \in DOMAIN s
  BY <1>1
<1> HIDE DEF t
<1>4. Behind(t, f, e)
  <2> SUFFICES ASSUME NEW i \in DOMAIN t, t[i].ev = "removed", t[i].e = f
               PROVE  \E j \in DOMAIN t : i < j /\ t[j].ev = "created" /\ t[j].e = e
    BY DEF Behind
  <2>1. PICK j \in DOMAIN s : i + 1 < j /\ s[j].ev = "created" /\ s[j].e = e
    BY <1>1, <1>3 DEF Behind
  <2>2. j - 1 \in DOMAIN t /\ i < j - 1 /\ t[j - 1] = s[j]
    BY <1>1, <1>2, <2>1
  <2> QED
    BY <2>1, <2>2
<1>5. ASSUME Head(s).ev = "removed", Head(s).e = f PROVE Pending(t, "created", e)
  <2>1. PICK j \in DOMAIN s : 1 < j /\ s[j].ev = "created" /\ s[j].e = e
    BY <1>1, <1>5 DEF Behind
  <2> QED
    BY <1>2, <2>1 DEF Pending
<1> QED
  BY <1>4, <1>5 DEF t
-----------------------------------------------------------------------------
(* Each step keeps what is on its way in order                             *)

\* Positions are read where they are needed; elsewhere these facts suffice.
LEMMA Unmoved ==
  ASSUME UNCHANGED op
  PROVE  /\ \A pcs, e : Doing(pcs, e)' <=> Doing(pcs, e)
         /\ \A e : Placing(e)' <=> Placing(e)
         /\ Unplaced(Api)' = Unplaced(Api)
BY DEF Doing, Placing, Unplaced, At

\* Where the queues are as they were, so is what waits in them.
LEMMA NoNews ==
  ASSUME UNCHANGED <<events, tasks>>
  PROVE  \A ev, e : /\ Pending(events, ev, e)' <=> Pending(events, ev, e)
                    /\ Pending(tasks, ev, e)' <=> Pending(tasks, ev, e)
                    /\ Told(ev, e)' <=> Told(ev, e)
BY DEF Told, Pending

\* An entity is created: its event waits.
LEMMA HostCreateConveys ==
  ASSUME CInv, Live', NEW e0 \in Entities, HostCreate(e0)
  PROVE  Conveyed'
<1> DEFINE x == [ev |-> "created", e |-> e0]
<1>1. /\ TypeOK /\ Live /\ Conveyed
      /\ UNCHANGED <<kind, session, api, todo, listening, modules, twice, tasks, op, subscribed, client, list, overtaken>>
      /\ entities' = entities \cup {e0} /\ used' = used \cup {e0} /\ e0 \notin used
      /\ \A f \in entities : Key(f) # Key(e0)
      /\ events' = Append(events, x)
  BY DEF CInv, IInv, Live, HostCreate, built, placed, follower
<1>2. events \in Seq(Event) /\ x \in Event /\ x.ev = "created" /\ x.e = e0
  BY <1>1 DEF TypeOK, Event
<1> HIDE DEF x
<1>3. \A ev, e : /\ Pending(events, ev, e)' <=> Pending(events, ev, e) \/ (ev = "created" /\ e = e0)
                 /\ Pending(tasks, ev, e)' <=> Pending(tasks, ev, e)
                 /\ Told(ev, e)' <=> Told(ev, e) \/ (ev = "created" /\ e = e0)
  <2>1. \A ev, e : Pending(events', ev, e) <=> Pending(events, ev, e) \/ (ev = "created" /\ e = e0)
    BY <1>1, <1>2, PendingAppend
  <2>2. \A ev, e : Pending(events, ev, e)' <=> Pending(events', ev, e)
    BY DEF Pending
  <2>3. \A ev, e : Pending(tasks, ev, e)' <=> Pending(tasks, ev, e)
    BY <1>1 DEF Pending
  <2> QED
    BY <2>1, <2>2, <2>3 DEF Told
<1>4. /\ ~Told("created", e0) /\ ~Told("removed", e0) /\ ~Doing(AddPcs \cup RemPcs, e0)
      /\ ~Doing(RemPcs, e0) /\ ~Doing(AddPcs, e0)
      /\ ~Pending(events, "created", e0) /\ ~Pending(events, "removed", e0)
      /\ ~Pending(tasks, "created", e0) /\ ~Pending(tasks, "removed", e0)
      /\ e0 \notin entities
  BY <1>1 DEF Conveyed, InTurn, Told, Doing, TypeOK
<1>5. Stages'
  BY <1>1 DEF Conveyed, Stages, CopiesFirst, At
<1>6. InTurn'
  <2>1. Once(events') /\ Once(tasks')
    BY <1>1, <1>2, <1>4, OnceAppend DEF Conveyed, InTurn
  <2> QED
    BY <1>1, <1>3, <1>4, <2>1, Unmoved DEF Conveyed, InTurn
<1>7. Replaced'
  <2>1. Key(e0)' = Key(e0) /\ \A e : Key(e)' = Key(e)
    BY <1>1 DEF Key
  <2>2. ASSUME NEW e \in Entities, NEW f \in Entities, e # f, Key(e) = Key(f), e \in entities'
        PROVE  /\ f \notin entities'
               /\ Doing(RemPcs, f)' => Pending(events, "created", e)'
               /\ Behind(events', f, e)
    <3>1. e # e0 => e \in entities
      BY <1>1, <2>2
    <3>2. e = e0 \/ Behind(events, f, e)
      BY <1>1, <3>1, <2>2 DEF Replaced, Conveyed
    <3>3. Behind(events', f, e)
      BY <1>1, <1>2, <3>2, BehindAppend
    <3> QED
      BY <1>1, <1>3, <2>2, <3>1, <3>3, Unmoved DEF Replaced, Conveyed
  <2> QED
    BY <2>1, <2>2 DEF Replaced
<1>8. NoneLost' /\ NoneLeft'
  BY <1>1, <1>3, Unmoved DEF Conveyed, NoneLost, NoneLeft
<1>9. ClientAdds' /\ ClientDrops' /\ ClientRoots'
  <2>1. \A e : Key(e)' = Key(e)
    BY <1>1 DEF Key
  <2> QED
    BY <1>1, <1>3, <2>1, Unmoved DEF Conveyed, ClientAdds, ClientDrops, ClientRoots, Believed, Follows, At
<1> QED
  BY <1>5, <1>6, <1>7, <1>8, <1>9 DEF Conveyed

\* An entity is removed: its event waits.
LEMMA HostRemoveConveys ==
  ASSUME CInv, Live', NEW e0 \in Entities, HostRemove(e0)
  PROVE  Conveyed'
<1> DEFINE x == [ev |-> "removed", e |-> e0]
<1>1. /\ TypeOK /\ Live /\ Conveyed
      /\ UNCHANGED <<kind, session, api, todo, listening, modules, twice, tasks, op, subscribed, client, list, overtaken, used>>
      /\ entities' = entities \ {e0} /\ e0 \in entities
      /\ events' = Append(events, x)
  BY DEF CInv, IInv, Live, HostRemove, built, placed, follower
<1>2. events \in Seq(Event) /\ x \in Event /\ x.ev = "removed" /\ x.e = e0
  BY <1>1 DEF TypeOK, Event
<1> HIDE DEF x
<1>3. \A ev, e : /\ Pending(events, ev, e)' <=> Pending(events, ev, e) \/ (ev = "removed" /\ e = e0)
                 /\ Pending(tasks, ev, e)' <=> Pending(tasks, ev, e)
                 /\ Told(ev, e)' <=> Told(ev, e) \/ (ev = "removed" /\ e = e0)
  <2>1. \A ev, e : Pending(events', ev, e) <=> Pending(events, ev, e) \/ (ev = "removed" /\ e = e0)
    BY <1>1, <1>2, PendingAppend
  <2>2. \A ev, e : Pending(events, ev, e)' <=> Pending(events', ev, e)
    BY DEF Pending
  <2>3. \A ev, e : Pending(tasks, ev, e)' <=> Pending(tasks, ev, e)
    BY <1>1 DEF Pending
  <2> QED
    BY <2>1, <2>2, <2>3 DEF Told
<1>4. /\ ~Told("removed", e0) /\ ~Doing(RemPcs, e0) /\ e0 \in used
      /\ ~Pending(events, "removed", e0) /\ ~Pending(tasks, "removed", e0)
  BY <1>1 DEF Conveyed, InTurn, Told, TypeOK
<1>5. Stages'
  BY <1>1 DEF Conveyed, Stages, CopiesFirst, At
<1>6. InTurn'
  <2>1. Once(events') /\ Once(tasks')
    BY <1>1, <1>2, <1>4, OnceAppend DEF Conveyed, InTurn
  <2>2. ASSUME NEW e \in Entities
        PROVE  /\ Told("created", e)' \/ Told("removed", e)' \/ Doing(AddPcs \cup RemPcs, e)' => e \in used'
               /\ Pending(tasks, "created", e)' => ~Pending(events, "created", e)'
               /\ Pending(tasks, "removed", e)' => ~Pending(events, "created", e)' /\ ~Pending(events, "removed", e)'
               /\ Doing(AddPcs \cup RemPcs, e)' => ~Told("created", e)'
               /\ Doing(RemPcs, e)' => ~Told("removed", e)'
               /\ Told("removed", e)' \/ Doing(RemPcs, e)' => e \notin entities'
               /\ Told("created", e)' \/ Doing(AddPcs, e)' => e \in entities' \/ Told("removed", e)'
    <3>1. InTurn
      BY <1>1 DEF Conveyed
    <3>2. CASE e = e0
      <4>1. /\ e0 \in used' /\ e0 \notin entities' /\ Told("removed", e0)'
            /\ ~Pending(tasks, "removed", e0)' /\ ~Doing(RemPcs, e0)'
        BY <1>1, <1>3, <1>4, Unmoved
      <4>2. /\ Pending(tasks, "created", e0)' => ~Pending(events, "created", e0)'
            /\ Doing(AddPcs \cup RemPcs, e0)' => ~Told("created", e0)'
        <5>1. "created" # "removed"
          OBVIOUS
        <5>2. /\ Pending(tasks, "created", e0) => ~Pending(events, "created", e0)
              /\ Doing(AddPcs \cup RemPcs, e0) => ~Told("created", e0)
          BY <3>1 DEF InTurn
        <5>3. /\ Pending(tasks, "created", e0)' <=> Pending(tasks, "created", e0)
              /\ Pending(events, "created", e0)' <=> Pending(events, "created", e0)
              /\ Told("created", e0)' <=> Told("created", e0)
          BY <1>3, <5>1
        <5>4. Doing(AddPcs \cup RemPcs, e0)' <=> Doing(AddPcs \cup RemPcs, e0)
          BY <1>1, Unmoved
        <5> QED
          BY <5>2, <5>3, <5>4
      <4> QED
        BY <3>2, <4>1, <4>2
    <3>3. CASE e # e0
      BY <1>1, <1>3, <3>1, <3>3, Unmoved DEF InTurn
    <3> QED
      BY <3>2, <3>3
  <2> QED
    BY <2>1, <2>2 DEF InTurn
<1>7. Replaced'
  <2>1. \A e : Key(e)' = Key(e)
    BY <1>1 DEF Key
  <2>2. ASSUME NEW e \in Entities, NEW f \in Entities, e # f, Key(e) = Key(f), e \in entities'
        PROVE  /\ f \notin entities'
               /\ Doing(RemPcs, f)' => Pending(events, "created", e)'
               /\ Behind(events', f, e)
    <3>1. e \in entities /\ f # e0 /\ Behind(events, f, e)
      BY <1>1, <2>2 DEF Replaced, Conveyed
    <3>2. Behind(events', f, e)
      BY <1>1, <1>2, <3>1, BehindAppend
    <3> QED
      BY <1>1, <1>3, <2>2, <3>1, <3>2, Unmoved DEF Replaced, Conveyed
  <2> QED
    BY <2>1, <2>2 DEF Replaced
<1>8. NoneLost' /\ NoneLeft'
  BY <1>1, <1>3, Unmoved DEF Conveyed, NoneLost, NoneLeft
<1>9. ClientAdds' /\ ClientDrops' /\ ClientRoots'
  <2>1. \A e : Key(e)' = Key(e)
    BY <1>1 DEF Key
  <2> QED
    BY <1>1, <1>3, <2>1, Unmoved DEF Conveyed, ClientAdds, ClientDrops, ClientRoots, Believed, Follows, At
<1> QED
  BY <1>5, <1>6, <1>7, <1>8, <1>9 DEF Conveyed

\* Only the client's own steps and the messages to it touch what it has heard.
LEMMA HeardInit == Init => Heard
BY DEF Init, Heard

LEMMA HeardPreserved == Heard /\ [Next]_vars => Heard'
<1> SUFFICES ASSUME Heard, [Next]_vars PROVE Heard'
  OBVIOUS
<1>1. CASE UNCHANGED follower
  BY <1>1 DEF Heard, follower
<1>2. ASSUME NEW a \in Actors, Announce(a) PROVE Heard'
  BY <1>2 DEF Heard, Announce
<1>3. ASSUME NEW a \in Actors, Retract(a) PROVE Heard'
  BY <1>3 DEF Heard, Retract
<1>4. CASE Subscribe \/ GetList \/ Deliver \/ OpenView \/ Disconnect \/ Destroy
  BY <1>4 DEF Heard, Subscribe, GetList, Deliver, OpenView, Disconnect, Destroy
<1>5. ASSUME NEW a \in Actors, Step(a) PROVE Heard'
  BY <1>1, <1>2, <1>3, <1>5 DEF Step, Emplace, InitModule, Erase
<1>6. CASE UNCHANGED vars
  BY <1>1, <1>6 DEF vars, follower
<1>7. CASE Fire \/ Building \/ RunWork \/ EndSession \/ Unlisten
  BY <1>1, <1>7 DEF Fire, Building, Construct, Copy, AddNext, Constructed, RunWork, EndSession,
     Unlisten
<1>8. ASSUME NEW e \in Entities, HostCreate(e) \/ HostRemove(e) \/ QueueWork(e) PROVE Heard'
  BY <1>1, <1>8 DEF HostCreate, HostRemove, QueueWork
<1>9. ASSUME NEW t \in TaskThreads, Take(t) PROVE Heard'
  BY <1>1, <1>9 DEF Take
<1> QED
  BY <1>4, <1>5, <1>6, <1>7, <1>8, <1>9 DEF Next

\* The client subscribes or goes, and work of the application comes and runs.
LEMMA ClientConveys ==
  ASSUME CInv, Live', \/ RunWork \/ Subscribe \/ GetList \/ Deliver \/ OpenView \/ Disconnect
                      \/ \E e \in Entities : QueueWork(e)
  PROVE  Conveyed'
<1>1. /\ IInv /\ Live /\ Conveyed /\ Heard
      /\ UNCHANGED <<kind, session, api, todo, listening, modules, twice, tasks, op, entities, used, events>>
  <2>1. CASE RunWork
    BY <2>1 DEF CInv, Live, RunWork, built, placed, follower, host
  <2>2. CASE Subscribe
    BY <2>2 DEF CInv, Live, Subscribe, built, placed, host
  <2>5. CASE GetList
    BY <2>5 DEF CInv, Live, GetList, built, placed, host
  <2>6. CASE Deliver
    BY <2>6 DEF CInv, Live, Deliver, built, placed, host
  <2>7. CASE OpenView
    BY <2>7 DEF CInv, Live, OpenView, built, placed, host
  <2>3. CASE Disconnect
    BY <2>3 DEF CInv, Live, Disconnect, built, placed, follower, host
  <2>4. ASSUME NEW e \in Entities, QueueWork(e)
        PROVE  /\ IInv /\ Live /\ Conveyed /\ Heard
               /\ UNCHANGED <<kind, session, api, todo, listening, modules, twice, tasks, op, entities, used, events>>
    BY <2>4 DEF CInv, Live, QueueWork, built, placed, follower, host
  <2> QED
    BY <2>1, <2>2, <2>3, <2>4, <2>5, <2>6, <2>7
<1>2. \A e : Key(e)' = Key(e)
  BY <1>1 DEF Key
<1>3. Stages' /\ InTurn' /\ Replaced' /\ NoneLost' /\ NoneLeft'
  <2>1. Stages'
    <3>1. subscribed' # "no" => subscribed # "no" \/ api = "ready"
      BY DEF Subscribe, GetList, Deliver, OpenView, Disconnect, RunWork, QueueWork, follower
    <3> QED
      BY <1>1, <3>1 DEF Conveyed, Stages, CopiesFirst, At
  <2>2. InTurn'
    <3>1. Once(events') /\ Once(tasks')
      BY <1>1 DEF Conveyed, InTurn
    <3> QED
      BY <1>1, <3>1, Unmoved, NoNews DEF Conveyed, InTurn
  <2>3. Replaced'
    <3>1. \A e, f : Behind(events', f, e) <=> Behind(events, f, e)
      BY <1>1
    <3> QED
      BY <1>1, <1>2, <3>1, Unmoved, NoNews DEF Conveyed, Replaced
  <2>4. NoneLost' /\ NoneLeft'
    BY <1>1, Unmoved, NoNews DEF Conveyed, NoneLost, NoneLeft
  <2> QED
    BY <2>1, <2>2, <2>3, <2>4
<1>4. CASE RunWork \/ \E e \in Entities : QueueWork(e)
  <2>1. UNCHANGED <<subscribed, client, list, overtaken>>
    BY <1>4 DEF RunWork, QueueWork, follower
  <2>2. ClientAdds' /\ ClientDrops' /\ ClientRoots'
    BY <1>1, <1>2, <2>1, Unmoved, NoNews DEF Conveyed, ClientAdds, ClientDrops, ClientRoots, Believed, Follows, At
  <2> QED
    BY <1>3, <2>2 DEF Conveyed
<1>5. CASE Disconnect
  <2>1. subscribed' = "no"
    BY <1>5 DEF Disconnect
  <2>2. ClientAdds' /\ ClientDrops' /\ ClientRoots'
    BY <1>1, <2>1 DEF Conveyed, ClientAdds, ClientDrops, ClientRoots, Believed, Follows, At
  <2> QED
    BY <1>3, <2>2 DEF Conveyed
<1>6. CASE Subscribe
  <2>1. Believed' = {} /\ ~Follows'
    BY <1>1, <1>6 DEF Subscribe, Heard, Believed, Follows
  <2>2. ClientAdds' /\ ClientDrops'
    BY <2>1 DEF ClientAdds, ClientDrops
  <2>3. ClientRoots'
    BY <1>1, <2>1 DEF Conveyed, ClientRoots, At
  <2> QED
    BY <1>3, <2>2, <2>3 DEF Conveyed
<1>7. CASE Deliver
  <2>1. Believed' = Believed /\ Follows /\ Follows' /\ subscribed # "no" /\ subscribed' # "no"
    BY <1>7 DEF Deliver, Believed, Follows
  <2>2. ClientAdds' /\ ClientDrops' /\ ClientRoots'
    BY <1>1, <1>2, <2>1, Unmoved, NoNews DEF Conveyed, ClientAdds, ClientDrops, ClientRoots, At
  <2> QED
    BY <1>3, <2>2 DEF Conveyed
<1>8. CASE GetList \/ OpenView
  <2> DEFINE named == IF OpenView THEN modules
                      ELSE IF kind = "roots" THEN entities ELSE {Key(e) : e \in modules}
  <2>1. /\ api = "ready" /\ todo = {} /\ At(Api, "idle") /\ Unplaced(Api) = {}
        /\ \A e : Placing(e) <=> Doing({"emplace"}, e)
    BY <1>1, <1>8 DEF GetList, OpenView, IInv, Busy, Conveyed, Stages, Unplaced, At, Placing
  <2>2. \A e : Doing({"emplace"}, e) => Doing(AddPcs, e)
    BY DEF Doing, AddPcs
  <2>3. \A e : Doing({"erase"}, e) => Doing(RemPcs, e)
    BY DEF Doing, RemPcs
  <2>4. /\ \A e \in entities : e \in modules \/ Doing({"emplace"}, e) \/ Told("created", e)
        /\ \A e \in modules : e \in entities \/ Told("removed", e) \/ Doing(RemPcs, e)
        /\ entities \subseteq Entities /\ modules \subseteq Entities
    BY <1>1, <2>1, <2>3 DEF Conveyed, NoneLost, NoneLeft, IInv, TypeOK
  <2>5. kind = "roots" => \A e : Key(e) = e
    BY DEF Key
  <2>6. OpenView => kind = "roots"
    BY DEF OpenView
  <2>7. /\ \A e \in entities : Key(e) \in named \/ Told("created", e) \/ Doing(AddPcs, e)
        /\ \A k \in named : \E e \in Entities :
             Key(e) = k /\ (e \in entities \/ Told("removed", e) \/ Doing(RemPcs, e))
        /\ kind = "roots" => \A e \in named : \/ e \in modules \/ Told("created", e)
                                               \/ Doing({"emplace"}, e)
    BY <2>2, <2>4, <2>5, <2>6
  <2>8. Believed' = Believed \cup named /\ (GetList => subscribed # "no")
    <3>1. CASE GetList
      <4>1. subscribed = "events" /\ ~OpenView
        BY <3>1 DEF GetList, OpenView
      <4>2. list = {} /\ overtaken = {} /\ list' = named /\ UNCHANGED <<client, overtaken>>
        BY <1>1, <3>1, <4>1 DEF GetList, Heard
      <4> QED
        BY <4>1, <4>2 DEF Believed
    <3>2. CASE OpenView
      <4>1. subscribed = "no" /\ ~GetList
        BY <3>2 DEF GetList, OpenView
      <4>2. client = {} /\ list = {} /\ overtaken = {} /\ client' = named /\ UNCHANGED <<list, overtaken>>
        BY <1>1, <3>2, <4>1 DEF OpenView, Heard
      <4> QED
        BY <4>1, <4>2 DEF Believed
    <3> QED
      BY <1>8, <3>1, <3>2
  <2>9. OpenView => Believed = {}
    BY <1>1 DEF OpenView, Heard, Believed
  <2> HIDE DEF named
  <2>10. ClientAdds'
    <3>1. \A e \in entities : Key(e) \in Believed' \/ Told("created", e) \/ Doing(AddPcs, e)
      BY <2>7, <2>8
    <3> QED
      BY <1>1, <1>2, <3>1, Unmoved, NoNews DEF ClientAdds
  <2>11. ClientDrops'
    <3>1. \A k \in Believed' : \E e \in Entities :
            Key(e) = k /\ (e \in entities \/ Told("removed", e) \/ Doing(RemPcs, e))
      BY <1>1, <1>8, <2>7, <2>8, <2>9 DEF Conveyed, ClientDrops
    <3> QED
      BY <1>1, <1>2, <3>1, Unmoved, NoNews DEF ClientDrops
  <2>12. ClientRoots'
    <3>1. \A e : Doing({"emplace"}, e) => Doing({"emplace", "retract"}, e)
      BY DEF Doing
    <3>2. kind = "roots" => /\ At(Host, "announce") => op[Host].e \in modules
                            /\ \A e \in Believed' : \/ e \in modules \/ Told("created", e)
                                                    \/ Doing({"emplace", "retract"}, e)
      BY <1>1, <1>8, <2>7, <2>8, <2>9, <3>1 DEF Conveyed, ClientRoots
    <3> QED
      BY <1>1, <3>2, Unmoved, NoNews DEF ClientRoots, At
  <2> QED
    BY <1>3, <2>10, <2>11, <2>12 DEF Conveyed
<1> QED
  BY <1>4, <1>5, <1>6, <1>7, <1>8
\* An event that is fired is the first one, and the others stay in order.
LEMMA FireTakes ==
  ASSUME CInv, Live', Fire
  PROVE  /\ IInv /\ Live /\ Conveyed
         /\ UNCHANGED <<kind, session, todo, listening, modules, twice, subscribed, client, list, overtaken, entities, used>>
         /\ Once(events') /\ Head(events) \in Event
         /\ \A ev, e : Pending(events, ev, e)' <=>
              Pending(events, ev, e) /\ ~(Head(events).ev = ev /\ Head(events).e = e)
         /\ Pending(events, Head(events).ev, Head(events).e)
         /\ Head(events).ev = "removed" => ~Pending(events, "created", Head(events).e)
         /\ \A f, e : Behind(events, f, e) =>
              /\ Behind(events', f, e)
              /\ Head(events).ev = "removed" /\ Head(events).e = f => Pending(events, "created", e)'
<1>1. ~missed' /\ missed \in BOOLEAN /\ IInv /\ TypeOK
  BY DEF CInv, IInv, Live, TypeOK
<1>2. /\ UNCHANGED <<kind, session, todo, listening, modules, twice, subscribed, client, list, overtaken, entities, used>>
      /\ events # <<>> /\ events' = Tail(events)
  BY DEF Fire, placed, follower
<1>3. Live
  BY <1>1, <1>2 DEF Live, Fire, Handle
<1>4. Conveyed /\ events \in Seq(Event) /\ Once(events)
  BY <1>1, <1>3 DEF CInv, Conveyed, InTurn, TypeOK
<1>5. \A ev, e : Pending(events, ev, e)' <=> Pending(events', ev, e)
  BY DEF Pending
<1>6. \A ev, e : Pending(events', ev, e) <=>
        Pending(events, ev, e) /\ ~(Head(events).ev = ev /\ Head(events).e = e)
  BY <1>2, <1>4, PendingTail
<1>7. /\ Once(events') /\ Head(events) \in Event
      /\ Pending(events, Head(events).ev, Head(events).e)
      /\ Head(events).ev = "removed" => ~Pending(events, "created", Head(events).e)
  BY <1>2, <1>4, PendingTail
<1>8. ASSUME NEW f, NEW e, Behind(events, f, e)
      PROVE  /\ Behind(events', f, e)
             /\ Head(events).ev = "removed" /\ Head(events).e = f => Pending(events', "created", e)
  BY <1>2, <1>4, <1>8, BehindTail
<1> QED
  BY <1>1, <1>2, <1>3, <1>4, <1>5, <1>6, <1>7, <1>8

\* Nobody listens: the constructor has copied what was created, and has not
\* copied what was removed.

\* An event is fired before anybody listens.
LEMMA FireUnheardConveys ==
  ASSUME CInv, Live', Fire, ~listening
  PROVE  Conveyed'
<1> DEFINE h == Head(events)
<1>1. /\ IInv /\ Live /\ Conveyed /\ h.ev \in {"created", "removed"} /\ h.e \in Entities
      /\ UNCHANGED <<kind, session, api, todo, listening, modules, twice, tasks, op,
                     subscribed, client, list, overtaken, entities, used>>
      /\ api = "adding" => (h.ev = "created") # (h.e \notin Copied)
  BY FireTakes DEF Fire, Live, Event
<1>2. /\ tasks = <<>> /\ subscribed = "no" /\ api \in {"absent", "adding"}
      /\ \A a \in Handlers : At(a, "idle")
      /\ At(Api, "init") => op[Api].e \in modules
      /\ op[Api].pc \in {"idle", "emplace", "init"}
  BY <1>1 DEF Conveyed, Stages, Live
<1>3. \A ev, e : /\ ~Pending(tasks, ev, e) /\ ~Pending(tasks, ev, e)'
                 /\ Told(ev, e) <=> Pending(events, ev, e)
                 /\ Told(ev, e)' <=> Pending(events, ev, e)'
  <2>1. \A ev, e : ~Pending(tasks, ev, e) /\ ~Pending(tasks, ev, e)'
    BY <1>1, <1>2 DEF Pending
  <2> QED
    BY <2>1 DEF Told
<1>4. \A e : ~Doing(AddPcs, e) /\ ~Doing(RemPcs, e) /\ ~Doing(AddPcs \cup RemPcs, e)
  BY <1>2 DEF Doing, AddPcs, RemPcs, At
<1>5. \A ev, e : Pending(events, ev, e)' <=> Pending(events, ev, e) /\ ~(h.ev = ev /\ h.e = e)
  BY FireTakes
<1>6. Once(events') /\ (h.ev = "removed" => ~Pending(events, "created", h.e))
      /\ \A f, e : Behind(events, f, e) => Behind(events', f, e)
  BY FireTakes
<1>7. Adding(Api) = Unplaced(Api) \/ Adding(Api) \subseteq modules
  BY <1>2 DEF Adding, Unplaced, At
<1> HIDE DEF h
<1>8. Stages'
  BY <1>1 DEF Conveyed, Stages, CopiesFirst, At
<1>9. InTurn'
  <2>1. Once(tasks')
    BY <1>1 DEF Conveyed, InTurn
  <2>2. ASSUME NEW e \in Entities
        PROVE  /\ Told("created", e)' \/ Told("removed", e)' \/ Doing(AddPcs \cup RemPcs, e)' => e \in used'
               /\ Told("removed", e)' \/ Doing(RemPcs, e)' => e \notin entities'
               /\ Told("created", e)' \/ Doing(AddPcs, e)' => e \in entities' \/ Told("removed", e)'
    <3>1. "created" # "removed" /\ InTurn
      BY <1>1 DEF Conveyed
    <3> QED
      BY <1>1, <1>3, <1>4, <1>5, <1>6, <3>1, Unmoved DEF InTurn
  <2> QED
    BY <1>1, <1>3, <1>4, <1>6, <2>1, <2>2, Unmoved DEF InTurn
<1>10. Replaced'
  <2>1. \A e : Key(e)' = Key(e)
    BY <1>1 DEF Key
  <2> QED
    BY <1>1, <1>4, <1>6, <2>1, Unmoved DEF Conveyed, Replaced
<1>11. NoneLost'
  <2>1. ASSUME api = "adding", NEW e \in entities
        PROVE  e \in modules \cup todo \/ Placing(e) \/ Told("created", e)'
    <3>1. e \in modules \cup todo \/ Placing(e) \/ Told("created", e)
      BY <1>1, <2>1 DEF Conveyed, NoneLost
    <3>2. CASE h.ev = "created" /\ h.e = e
      <4>1. e \in todo \cup modules \cup Adding(Api)
        BY <1>1, <2>1, <3>2 DEF Copied
      <4> QED
        BY <1>7, <4>1 DEF Placing, Unplaced
    <3>3. CASE ~(h.ev = "created" /\ h.e = e)
      BY <1>3, <1>5, <3>1, <3>3
    <3> QED
      BY <3>2, <3>3
  <2> QED
    BY <1>1, <1>2, <2>1, Unmoved DEF NoneLost
<1>12. NoneLeft'
  <2>1. ASSUME NEW e \in modules \cup todo \cup Unplaced(Api)
        PROVE  e \in entities \/ Told("removed", e)'
    <3>1. e \in entities \/ Told("removed", e)
      <4>1. Doing({"erase"}, e) => Doing(RemPcs, e)
        BY DEF Doing, RemPcs
      <4> QED
        BY <1>1, <1>4, <4>1, <2>1 DEF Conveyed, NoneLeft
    <3>2. api = "adding"
      <4>1. api = "absent" => modules = {} /\ todo = {} /\ Unplaced(Api) = {}
        BY <1>1 DEF IInv, Busy, Conveyed, Stages, Unplaced, Actors, At
      <4> QED
        BY <1>2, <2>1, <4>1
    <3>3. e \in Copied
      BY <2>1 DEF Copied, Adding, Unplaced, At
    <3> QED
      BY <1>1, <1>3, <1>5, <3>1, <3>2, <3>3
  <2> QED
    BY <1>1, <2>1, Unmoved DEF NoneLeft
<1>13. ClientAdds' /\ ClientDrops' /\ ClientRoots'
  BY <1>1, <1>2 DEF Conveyed, ClientAdds, ClientDrops, ClientRoots, Believed, Follows, At
<1> QED
  BY <1>8, <1>9, <1>10, <1>11, <1>12, <1>13 DEF Conveyed
\* One thread moves.
LEMMA Moved ==
  ASSUME NEW a \in Handlers,
         \A b \in Actors \ {a} : op'[b].pc = op[b].pc /\ op'[b].e = op[b].e
  PROVE  /\ \A pcs, e : /\ Doing(pcs, e)' => Doing(pcs, e) \/ (op'[a].pc \in pcs /\ op'[a].e = e)
                        /\ Doing(pcs, e) => Doing(pcs, e)' \/ (op[a].pc \in pcs /\ op[a].e = e)
         /\ \A pcs, e : op'[a].pc \in pcs /\ op'[a].e = e => Doing(pcs, e)'
         /\ \A pcs : op[a].pc \in pcs => Doing(pcs, op[a].e)
         /\ Unplaced(Api)' = Unplaced(Api)
<1>1. \A b \in Handlers : b \in Actors
  BY DEF Handlers, Actors
<1>2. Api \in Actors \ {a}
  BY DEF Handlers, Actors, Api, Host
<1>3. Unplaced(Api)' = Unplaced(Api)
  BY <1>2 DEF Unplaced, At
<1>4. \A pcs, e : /\ Doing(pcs, e)' => Doing(pcs, e) \/ (op'[a].pc \in pcs /\ op'[a].e = e)
                  /\ Doing(pcs, e) => Doing(pcs, e)' \/ (op[a].pc \in pcs /\ op[a].e = e)
  <2>1. ASSUME NEW pcs, NEW e, Doing(pcs, e)'
        PROVE  Doing(pcs, e) \/ (op'[a].pc \in pcs /\ op'[a].e = e)
    BY <1>1, <2>1 DEF Doing
  <2>2. ASSUME NEW pcs, NEW e, Doing(pcs, e)
        PROVE  Doing(pcs, e)' \/ (op[a].pc \in pcs /\ op[a].e = e)
    BY <1>1, <2>2 DEF Doing
  <2> QED
    BY <2>1, <2>2
<1>5. /\ \A pcs, e : op'[a].pc \in pcs /\ op'[a].e = e => Doing(pcs, e)'
      /\ \A pcs : op[a].pc \in pcs => Doing(pcs, op[a].e)
  BY DEF Doing
<1> QED
  BY <1>3, <1>4, <1>5

\* An event of a hub becomes a task.

\* An event becomes a task of the hub module.
LEMMA FireQueuedConveys ==
  ASSUME CInv, Live', Fire, listening, kind = "hub"
  PROVE  Conveyed'
<1> DEFINE h == Head(events)
<1>1. /\ IInv /\ Live /\ Conveyed /\ h.ev \in {"created", "removed"} /\ h.e \in Entities /\ h \in Event
      /\ UNCHANGED <<kind, session, todo, listening, modules, twice, subscribed, client, list, overtaken, entities, used>>
  BY FireTakes DEF Event
<1>2. UNCHANGED <<op, api>> /\ tasks' = Append(tasks, h)
  <2>1. h = [ev |-> h.ev, e |-> h.e]
    BY <1>1 DEF Event
  <2> QED
    BY <2>1 DEF Fire, Handle
<1>3. /\ \A e, f : Key(e) = e /\ Key(e)' = e
      /\ tasks \in Seq(Event) /\ Once(tasks) /\ InTurn
  BY <1>1 DEF Key, IInv, TypeOK, Conveyed, InTurn
<1>4. \A ev, e : Pending(events, ev, e)' <=> Pending(events, ev, e) /\ ~(h.ev = ev /\ h.e = e)
  BY FireTakes
<1>5. /\ Once(events') /\ Pending(events, h.ev, h.e)
      /\ h.ev = "removed" => ~Pending(events, "created", h.e)
  BY FireTakes
<1> HIDE DEF h
<1>6. \A ev, e : Pending(tasks, ev, e)' <=> Pending(tasks, ev, e) \/ (h.ev = ev /\ h.e = e)
  <2>1. \A ev, e : Pending(tasks, ev, e)' <=> Pending(tasks', ev, e)
    BY DEF Pending
  <2> QED
    BY <1>1, <1>2, <1>3, <2>1, PendingAppend
<1>7. \A ev, e : Told(ev, e)' <=> Told(ev, e)
  <2>1. ASSUME NEW ev, NEW e
        PROVE  Told(ev, e)' <=> Pending(events, ev, e)' \/ Pending(tasks, ev, e)'
    BY DEF Told
  <2>2. ASSUME NEW ev, NEW e PROVE Told(ev, e)' <=> Told(ev, e)
    <3>1. h.ev = ev /\ h.e = e => Pending(events, ev, e)
      BY <1>5
    <3> QED
      BY <1>4, <1>6, <2>1, <3>1 DEF Told
  <2> QED
    BY <2>2
<1>8. /\ ~Pending(tasks, "removed", h.e)
      /\ h.ev = "created" => ~Pending(tasks, "created", h.e)
  BY <1>1, <1>3, <1>5 DEF InTurn
<1>9. Stages'
  BY <1>1, <1>2 DEF Conveyed, Stages, CopiesFirst, At, IInv, Live
<1>10. InTurn'
  <2>1. Once(tasks')
    BY <1>1, <1>2, <1>3, <1>8, OnceAppend
  <2>2. ASSUME NEW e \in Entities
        PROVE  /\ Pending(tasks, "created", e)' => ~Pending(events, "created", e)'
               /\ Pending(tasks, "removed", e)' => ~Pending(events, "created", e)' /\ ~Pending(events, "removed", e)'
    <3>1. /\ Pending(tasks, "created", e) => ~Pending(events, "created", e)
          /\ Pending(tasks, "removed", e) => ~Pending(events, "created", e) /\ ~Pending(events, "removed", e)
      BY <1>3 DEF InTurn
    <3>2. CASE h.e = e
      BY <1>1, <1>4, <1>5, <1>6, <3>1, <3>2
    <3>3. CASE h.e # e
      BY <1>4, <1>6, <3>1, <3>3
    <3> QED
      BY <3>2, <3>3
  <2> QED
    BY <1>1, <1>2, <1>3, <1>5, <1>7, <2>1, <2>2, Unmoved DEF InTurn
<1>11. Replaced'
  BY <1>3 DEF Replaced
<1>12. NoneLost' /\ NoneLeft'
  BY <1>1, <1>2, <1>7, Unmoved DEF Conveyed, NoneLost, NoneLeft
<1>13. ClientAdds' /\ ClientDrops' /\ ClientRoots'
  BY <1>1, <1>2, <1>3, <1>7, Unmoved DEF Conveyed, ClientAdds, ClientDrops, ClientRoots, Believed, Follows
<1> QED
  BY <1>9, <1>10, <1>11, <1>12, <1>13 DEF Conveyed

\* The other modules handle an event at once.

\* An event is handled on the thread that fires it.
LEMMA FireHandledConveys ==
  ASSUME CInv, Live', Fire, listening, kind # "hub"
  PROVE  Conveyed'
<1> DEFINE h  == Head(events)
           pc == IF h.ev = "created" THEN "emplace" ELSE "erase"
<1>1. /\ IInv /\ Live /\ Conveyed /\ h.ev \in {"created", "removed"} /\ h.e \in Entities
      /\ UNCHANGED <<kind, session, todo, listening, modules, twice, subscribed, client, list, overtaken, entities, used>>
  BY FireTakes DEF Event
<1>2. /\ UNCHANGED <<api, tasks>> /\ tasks = <<>> /\ \A a \in Handlers : At(a, "idle")
      /\ op' = [op EXCEPT ![Host] = [pc |-> pc, e |-> h.e, kept |-> FALSE]]
  <2>1. /\ kind \in {"search", "chat", "roots"}
        /\ kind = "roots" /\ h.ev = "created" => api' = "crashed" \/ h.e \in entities
        /\ kind = "roots" /\ h.ev = "removed" => missed' = TRUE \/ subscribed # "no"
    BY <1>1 DEF Fire, Handle, IInv, TypeOK
  <2>2. Begin(Host, pc, h.e) /\ UNCHANGED <<tasks, api>> /\ At(Host, "idle")
    BY <1>1, <2>1 DEF Fire, Handle, Live
  <2> QED
    BY <1>1, <2>2 DEF Begin, Conveyed, Stages, Handlers
<1>3. \A e : Key(e)' = Key(e)
  BY <1>1 DEF Key
<1>4. \A ev, e : Pending(events, ev, e)' <=> Pending(events, ev, e) /\ ~(h.ev = ev /\ h.e = e)
  BY FireTakes
<1>5. /\ Once(events') /\ Pending(events, h.ev, h.e)
      /\ h.ev = "removed" => ~Pending(events, "created", h.e)
      /\ \A f, e : Behind(events, f, e) =>
           /\ Behind(events', f, e)
           /\ h.ev = "removed" /\ h.e = f => Pending(events, "created", e)'
  BY FireTakes
<1>6. \A ev, e : /\ ~Pending(tasks, ev, e) /\ ~Pending(tasks, ev, e)'
                 /\ Told(ev, e) <=> Pending(events, ev, e)
                 /\ Told(ev, e)' <=> Pending(events, ev, e)'
  <2>1. \A ev, e : ~Pending(tasks, ev, e) /\ ~Pending(tasks, ev, e)'
    BY <1>2 DEF Pending
  <2> QED
    BY <2>1 DEF Told
<1> HIDE DEF h
<1>7. /\ op'[Host].pc = pc /\ op'[Host].e = h.e
      /\ \A b \in Actors \ {Host} : op'[b] = op[b]
      /\ Host \in Handlers
  BY <1>1, <1>2 DEF IInv, TypeOK, Actors, Handlers
<1>8. /\ \A pcs, e : "idle" \notin pcs => /\ ~Doing(pcs, e)
                                          /\ Doing(pcs, e)' <=> pc \in pcs /\ e = h.e
      /\ Unplaced(Api)' = Unplaced(Api)
  <2>1. \A pcs, e : "idle" \notin pcs => ~Doing(pcs, e)
    BY <1>2 DEF Doing, At
  <2> QED
    BY <1>7, <2>1, Moved
<1>9. /\ "idle" \notin AddPcs /\ "idle" \notin RemPcs /\ "idle" \notin AddPcs \cup RemPcs
      /\ \A e : /\ Doing(AddPcs, e)' <=> h.ev = "created" /\ e = h.e
                /\ Doing({"emplace"}, e)' <=> h.ev = "created" /\ e = h.e
                /\ Doing({"emplace", "retract"}, e)' <=> h.ev = "created" /\ e = h.e
                /\ Doing(RemPcs, e)' <=> h.ev = "removed" /\ e = h.e
                /\ Doing({"erase"}, e)' <=> h.ev = "removed" /\ e = h.e
                /\ Doing(AddPcs \cup RemPcs, e)' <=> e = h.e
      /\ \A e : /\ ~Doing(AddPcs, e) /\ ~Doing({"emplace"}, e) /\ ~Doing({"emplace", "retract"}, e)
                /\ ~Doing(RemPcs, e) /\ ~Doing({"erase"}, e) /\ ~Doing(AddPcs \cup RemPcs, e)
  BY <1>1, <1>8 DEF AddPcs, RemPcs
<1>10. Stages'
  <2>1. op'[Api] = op[Api] /\ \A t \in TaskThreads : op'[t] = op[t]
    BY <1>7 DEF Actors, Api, Host
  <2> QED
    BY <1>1, <1>2, <2>1 DEF Conveyed, Stages, CopiesFirst, At
<1>11. InTurn'
  <2>1. Once(tasks') /\ InTurn
    BY <1>1, <1>2 DEF Conveyed, InTurn
  <2>2. ASSUME NEW e \in Entities
        PROVE  /\ Told("created", e)' \/ Told("removed", e)' \/ Doing(AddPcs \cup RemPcs, e)' => e \in used'
               /\ Doing(AddPcs \cup RemPcs, e)' => ~Told("created", e)'
               /\ Doing(RemPcs, e)' => ~Told("removed", e)'
               /\ Told("removed", e)' \/ Doing(RemPcs, e)' => e \notin entities'
               /\ Told("created", e)' \/ Doing(AddPcs, e)' => e \in entities' \/ Told("removed", e)'
    <3>1. /\ Told("created", e) \/ Told("removed", e) => e \in used
          /\ Told("removed", e) => e \notin entities
          /\ Told("created", e) => e \in entities \/ Told("removed", e)
      BY <2>1 DEF InTurn
    <3>2. CASE e = h.e
      <4>1. CASE h.ev = "created"
        BY <1>1, <1>4, <1>5, <1>6, <1>9, <3>1, <3>2, <4>1
      <4>2. CASE h.ev = "removed"
        BY <1>1, <1>4, <1>5, <1>6, <1>9, <3>1, <3>2, <4>2
      <4> QED
        BY <1>1, <4>1, <4>2
    <3>3. CASE e # h.e
      BY <1>1, <1>4, <1>6, <1>9, <3>1, <3>3
    <3> QED
      BY <3>2, <3>3
  <2> QED
    BY <1>5, <1>6, <2>1, <2>2 DEF InTurn
<1>12. Replaced'
  BY <1>1, <1>3, <1>5, <1>9 DEF Conveyed, Replaced
<1>13. NoneLost'
  BY <1>1, <1>2, <1>4, <1>6, <1>8, <1>9 DEF Conveyed, NoneLost, Placing
<1>14. NoneLeft'
  BY <1>1, <1>4, <1>6, <1>8, <1>9 DEF Conveyed, NoneLeft
<1>15. ClientAdds' /\ ClientDrops'
  BY <1>1, <1>3, <1>4, <1>6, <1>9 DEF Conveyed, ClientAdds, ClientDrops, Believed, Follows
<1>16. ClientRoots'
  <2>1. op'[Host].pc # "announce"
    BY <1>1, <1>7
  <2> QED
    BY <1>1, <1>4, <1>6, <1>9, <2>1 DEF Conveyed, ClientRoots, Believed, Follows, At
<1> QED
  BY <1>10, <1>11, <1>12, <1>13, <1>14, <1>15, <1>16 DEF Conveyed
\* The constructor's thread moves.
LEMMA ApiMoved ==
  ASSUME \A b \in Handlers : op'[b].pc = op[b].pc /\ op'[b].e = op[b].e
  PROVE  \A pcs, e : Doing(pcs, e)' <=> Doing(pcs, e)
<1>1. \A pcs, e : (\E a \in Handlers : op'[a].pc \in pcs /\ op'[a].e = e)
                    <=> (\E a \in Handlers : op[a].pc \in pcs /\ op[a].e = e)
  OBVIOUS
<1>2. \A pcs, e : Doing(pcs, e)' <=> \E a \in Handlers : op'[a].pc \in pcs /\ op'[a].e = e
  BY DEF Doing
<1>3. \A pcs, e : Doing(pcs, e) <=> \E a \in Handlers : op[a].pc \in pcs /\ op[a].e = e
  BY DEF Doing
<1> QED
  BY <1>1, <1>2, <1>3

\* What neither tells nor handles a change keeps the order of the changes.
LEMMA OrderFrame ==
  ASSUME InTurn, Replaced, UNCHANGED <<kind, entities, used, events, tasks>>,
         \A b \in Handlers : op'[b].pc = op[b].pc /\ op'[b].e = op[b].e
  PROVE  /\ InTurn' /\ Replaced'
         /\ \A pcs, e : Doing(pcs, e)' <=> Doing(pcs, e)
         /\ \A ev, e : Told(ev, e)' <=> Told(ev, e)
         /\ \A e : Key(e)' = Key(e)
<1>1. \A pcs, e : Doing(pcs, e)' <=> Doing(pcs, e)
  BY ApiMoved
<1>2. \A e : Key(e)' = Key(e)
  BY DEF Key
<1>3. InTurn'
  <2>1. Once(events') /\ Once(tasks')
    BY DEF InTurn
  <2> QED
    BY <1>1, <2>1, NoNews DEF InTurn
<1>4. Replaced'
  <2>1. \A e, f : Behind(events', f, e) <=> Behind(events, f, e)
    OBVIOUS
  <2> QED
    BY <1>1, <1>2, <2>1, NoNews DEF Replaced
<1> QED
  BY <1>1, <1>2, <1>3, <1>4, NoNews

\* The module is constructed.
LEMMA ConstructConveys ==
  ASSUME CInv, Live', Construct
  PROVE  Conveyed'
<1>1. /\ IInv /\ Live /\ Conveyed /\ api = "absent" /\ kind \in {"search", "hub", "chat", "roots"}
      /\ UNCHANGED <<kind, session, twice, tasks, op, subscribed, client, list, overtaken, entities, used, events>>
  BY DEF CInv, IInv, TypeOK, Live, Construct, host, placed, follower
<1>2. /\ modules = {} /\ todo = {} /\ tasks = <<>> /\ subscribed = "no"
      /\ \A a \in Actors : At(a, "idle")
  BY <1>1 DEF IInv, Busy, Conveyed, Stages
<1>3. \/ CopiesFirst /\ kind = "roots" /\ api' = "adding" /\ modules' = entities /\ todo' = {} /\ ~listening'
      \/ CopiesFirst /\ kind # "roots" /\ api' = "adding" /\ modules' = {} /\ todo' = entities /\ ~listening'
      \/ ~CopiesFirst /\ kind # "roots" /\ api' = "copy" /\ modules' = {} /\ todo' = {} /\ listening'
  BY <1>1, <1>2 DEF Construct, Listen, CopiesFirst, placed, Conveyed, Stages
<1>4. /\ InTurn' /\ Replaced'
      /\ \A pcs, e : Doing(pcs, e)' <=> Doing(pcs, e)
      /\ \A ev, e : Told(ev, e)' <=> Told(ev, e)
  BY <1>1, OrderFrame DEF Conveyed
<1>5. Stages'
  <2>1. CopiesFirst' <=> CopiesFirst
    BY <1>1 DEF CopiesFirst
  <2>2. \A a \in Handlers : At(a, "idle")'
    BY <1>1, <1>2 DEF At, Handlers, Actors
  <2>3. At(Api, "idle")' /\ At(Host, "idle")'
    BY <1>1, <1>2 DEF At, Actors
  <2> QED
    BY <1>1, <1>2, <1>3, <2>1, <2>2, <2>3 DEF Conveyed, Stages, At
<1>6. NoneLost' /\ NoneLeft'
  <2>1. Unplaced(Api) = {} /\ Unplaced(Api)' = {}
    BY <1>1, <1>2 DEF Unplaced, At, Actors
  <2> QED
    BY <1>1, <1>3, <1>4, <2>1 DEF NoneLost, NoneLeft
<1>7. ClientAdds' /\ ClientDrops' /\ ClientRoots'
  <2>1. ~At(Host, "announce")'
    BY <1>1, <1>2 DEF At, Actors
  <2> QED
    BY <1>1, <1>2, <2>1 DEF ClientAdds, ClientDrops, ClientRoots, Believed, Follows
<1> QED
  BY <1>4, <1>5, <1>6, <1>7 DEF Conveyed

\* The constructor copies the list of the entities.
LEMMA CopyConveys ==
  ASSUME CInv, Live', Copy
  PROVE  Conveyed'
<1>1. /\ IInv /\ Live /\ Conveyed /\ api = "copy" /\ api' = "adding" /\ todo' = entities
      /\ UNCHANGED <<kind, session, listening, modules, twice, tasks, op, subscribed, client, list, overtaken,
                     entities, used, events>>
  BY DEF CInv, IInv, Live, Copy, host, placed, follower
<1>2. todo = {} /\ subscribed = "no" /\ At(Api, "idle") /\ ~CopiesFirst /\ kind # "roots"
  BY <1>1 DEF IInv, Busy, Conveyed, Stages, CopiesFirst
<1>3. /\ InTurn' /\ Replaced'
      /\ \A pcs, e : Doing(pcs, e)' <=> Doing(pcs, e)
      /\ \A ev, e : Told(ev, e)' <=> Told(ev, e)
  BY <1>1, OrderFrame DEF Conveyed
<1>4. Stages'
  BY <1>1, <1>2 DEF Conveyed, Stages, CopiesFirst, At
<1>5. NoneLost' /\ NoneLeft'
  BY <1>1, <1>2, <1>3, Unmoved DEF Conveyed, NoneLost, NoneLeft
<1>6. ClientAdds' /\ ClientDrops' /\ ClientRoots'
  BY <1>1, <1>2 DEF ClientAdds, ClientDrops, ClientRoots, Believed, Follows
<1> QED
  BY <1>3, <1>4, <1>5, <1>6 DEF Conveyed

\* The constructor takes the next entity of its copy.
LEMMA AddNextConveys ==
  ASSUME CInv, Live', NEW e0 \in Entities, AddNext(e0)
  PROVE  Conveyed'
<1>1. /\ IInv /\ Live /\ Conveyed /\ api = "adding" /\ e0 \in todo /\ todo' = todo \ {e0}
      /\ At(Api, "idle") /\ op' = [op EXCEPT ![Api] = [pc |-> "emplace", e |-> e0, kept |-> FALSE]]
      /\ UNCHANGED <<kind, session, api, listening, modules, twice, tasks, subscribed, client, list, overtaken,
                     entities, used, events>>
  BY DEF CInv, IInv, Live, AddNext, Begin, host, placed, follower
<1>2. /\ \A b \in Handlers : op'[b] = op[b]
      /\ op'[Api].pc = "emplace" /\ op'[Api].e = e0
      /\ kind # "roots" /\ subscribed = "no"
  BY <1>1 DEF IInv, TypeOK, Handlers, Actors, Api, Host, Conveyed, Stages
<1>3. /\ InTurn' /\ Replaced'
      /\ \A pcs, e : Doing(pcs, e)' <=> Doing(pcs, e)
      /\ \A ev, e : Told(ev, e)' <=> Told(ev, e)
  BY <1>1, <1>2, OrderFrame DEF Conveyed
<1>4. Unplaced(Api) = {} /\ Unplaced(Api)' = {e0}
  BY <1>1, <1>2 DEF Unplaced, At
<1>5. Stages'
  BY <1>1, <1>2 DEF Conveyed, Stages, CopiesFirst, At, Handlers
<1>6. NoneLost' /\ NoneLeft'
  BY <1>1, <1>3, <1>4 DEF Conveyed, NoneLost, NoneLeft, Placing
<1>7. ClientAdds' /\ ClientDrops' /\ ClientRoots'
  BY <1>1, <1>2 DEF ClientAdds, ClientDrops, ClientRoots, Believed, Follows
<1> QED
  BY <1>3, <1>5, <1>6, <1>7 DEF Conveyed

\* The constructor is through.
LEMMA ConstructedConveys ==
  ASSUME CInv, Live', Constructed
  PROVE  Conveyed'
<1>1. /\ IInv /\ Live /\ Conveyed /\ api = "adding" /\ api' = "ready" /\ At(Api, "idle") /\ todo = {}
      /\ UNCHANGED <<kind, session, todo, modules, twice, tasks, op, subscribed, client, list, overtaken,
                     entities, used, events>>
  BY DEF CInv, IInv, Live, Constructed, host, placed, follower
<1>2. listening' /\ subscribed = "no"
  BY <1>1 DEF Constructed, Listen, Conveyed, Stages
<1>3. /\ InTurn' /\ Replaced'
      /\ \A pcs, e : Doing(pcs, e)' <=> Doing(pcs, e)
      /\ \A ev, e : Told(ev, e)' <=> Told(ev, e)
  BY <1>1, OrderFrame DEF Conveyed
<1>4. Stages'
  BY <1>1, <1>2 DEF Conveyed, Stages, CopiesFirst, At
<1>5. NoneLost' /\ NoneLeft'
  BY <1>1, <1>3, Unmoved DEF Conveyed, NoneLost, NoneLeft
<1>6. ClientAdds' /\ ClientDrops' /\ ClientRoots'
  BY <1>1, <1>2 DEF Conveyed, ClientAdds, ClientDrops, ClientRoots, Believed, Follows, At
<1> QED
  BY <1>3, <1>4, <1>5, <1>6 DEF Conveyed
\* A key that another entity still has is told again.
LEMMA TakenAgain ==
  ASSUME TypeOK, InTurn, Replaced, Stages, NoneLeft,
         NEW e \in entities, NEW f \in modules, e # f, Key(e) = Key(f)
  PROVE  Told("created", e)
<1>1. e \in Entities /\ f \in Entities /\ f \notin entities /\ kind # "hub"
  BY DEF TypeOK, Replaced, Key
<1>2. Told("removed", f) \/ Doing({"erase"}, f)
  BY <1>1 DEF NoneLeft
<1>3. CASE Doing({"erase"}, f)
  <2>1. Doing(RemPcs, f)
    BY <1>3 DEF Doing, RemPcs
  <2> QED
    BY <1>1, <2>1 DEF Replaced, Told
<1>4. CASE Told("removed", f)
  <2>1. Pending(events, "removed", f)
    BY <1>1, <1>4 DEF Stages, Told, Pending
  <2>2. Behind(events, f, e)
    BY <1>1 DEF Replaced
  <2>3. Pending(events, "created", e)
    BY <2>1, <2>2 DEF Pending, Behind
  <2> QED
    BY <2>3 DEF Told
<1> QED
  BY <1>2, <1>3, <1>4

\* The constructor places a submodule.
LEMMA EmplaceApiConveys ==
  ASSUME CInv, Live', Emplace(Api)
  PROVE  Conveyed'
<1> DEFINE x == op[Api].e
           taken == \E f \in modules : Key(f) = Key(x)
<1>1. /\ IInv /\ TypeOK /\ Live /\ Conveyed /\ At(Api, "emplace") /\ x \in Entities
      /\ api = "adding" /\ kind # "roots" /\ subscribed = "no"
  <2>1. IInv /\ TypeOK /\ Live /\ Conveyed /\ op[Api].pc = "emplace"
    BY DEF CInv, IInv, Live, Emplace, built, At
  <2>2. x \in Entities /\ api = "adding"
    BY <2>1 DEF IInv, Busy, Live, Actors, At
  <2> QED
    BY <2>1, <2>2 DEF Conveyed, Stages, At
<1>2. /\ modules' = IF taken THEN modules ELSE modules \cup {x}
      /\ op' = [op EXCEPT ![Api] = [pc |-> "init", e |-> x, kept |-> ~taken]]
      /\ UNCHANGED <<kind, session, api, todo, listening, twice, tasks, subscribed, client, list, overtaken,
                     entities, used, events>>
  BY <1>1 DEF Emplace, built, follower, host
<1> HIDE DEF x, taken
<1>3. /\ \A b \in Handlers : op'[b] = op[b]
      /\ op'[Api].pc = "init" /\ op'[Api].e = x
  BY <1>1, <1>2 DEF TypeOK, Handlers, Actors, Api, Host
<1>4. /\ InTurn' /\ Replaced'
      /\ \A pcs, e : Doing(pcs, e)' <=> Doing(pcs, e)
      /\ \A ev, e : Told(ev, e)' <=> Told(ev, e)
  BY <1>1, <1>2, <1>3, OrderFrame DEF Conveyed
<1>5. Unplaced(Api) = {x} /\ Unplaced(Api)' = {}
  BY <1>1, <1>3 DEF Unplaced, At, x
<1>6. x \in modules' \/ (taken /\ x \notin modules)
  BY <1>2
<1>7. Stages'
  <2>1. CopiesFirst => \A e : Key(e) = e
    BY <1>1 DEF CopiesFirst, Key
  <2>2. CopiesFirst => x \in modules'
    BY <1>2, <2>1 DEF taken
  <2>3. listening <=> ~CopiesFirst
    BY <1>1 DEF Conveyed, Stages
  <2> QED
    BY <1>1, <1>2, <1>3, <2>2, <2>3 DEF Conveyed, Stages, CopiesFirst, At, Handlers
<1>8. NoneLost'
  <2>1. ASSUME x \in entities PROVE x \in modules' \/ Told("created", x)
    <3>1. CASE x \notin modules'
      <4>1. PICK f \in modules : Key(f) = Key(x) /\ f # x
        BY <1>6, <3>1 DEF taken
      <4> QED
        BY <1>1, <2>1, <4>1, TakenAgain DEF Conveyed
    <3> QED
      BY <3>1
  <2>2. modules \subseteq modules'
    BY <1>2
  <2> QED
    BY <1>1, <1>2, <1>4, <1>5, <2>1, <2>2 DEF Conveyed, NoneLost, Placing
<1>9. NoneLeft'
  BY <1>1, <1>2, <1>4, <1>5 DEF Conveyed, NoneLeft
<1>10. ClientAdds' /\ ClientDrops' /\ ClientRoots'
  BY <1>1, <1>2 DEF ClientAdds, ClientDrops, ClientRoots, Believed, Follows
<1> QED
  BY <1>4, <1>7, <1>8, <1>9, <1>10 DEF Conveyed

\* A handler places a submodule, over one that its key may have.
LEMMA EmplaceConveys ==
  ASSUME CInv, Live', NEW a \in Handlers, Emplace(a)
  PROVE  Conveyed'
<1> DEFINE x == op[a].e
           taken == \E f \in modules : Key(f) = Key(x)
           pc == IF kind = "roots" THEN "announce" ELSE "init"
<1>1. /\ IInv /\ TypeOK /\ Live /\ Conveyed /\ op[a].pc = "emplace" /\ x \in Entities
      /\ a \in Actors /\ a # Api /\ listening
  <2>1. IInv /\ TypeOK /\ Live /\ Conveyed /\ op[a].pc = "emplace"
    BY DEF CInv, IInv, Live, Emplace, built, At
  <2>2. a \in Actors /\ a # Api
    BY DEF Handlers, Actors, Api, Host
  <2>3. x \in Entities
    BY <2>1, <2>2 DEF IInv, Busy, At
  <2> QED
    BY <2>1, <2>2, <2>3 DEF Conveyed, Stages, At
<1>2. /\ modules' = IF taken THEN modules ELSE modules \cup {x}
      /\ op' = [op EXCEPT ![a] = [pc |-> pc, e |-> x, kept |-> ~taken]]
      /\ kind = "roots" => ~taken
      /\ UNCHANGED <<kind, session, api, todo, listening, twice, tasks, subscribed, client, list, overtaken,
                     entities, used, events>>
  BY <1>1 DEF Emplace, built, follower, host, Live
<1>3. taken \/ x \in modules'
  BY <1>2
<1>4. x \in modules \/ ~taken \/ \E f \in modules : Key(f) = Key(x) /\ f # x
  OBVIOUS
<1> HIDE DEF x, taken
<1>5. /\ \A b \in Actors \ {a} : op'[b] = op[b]
      /\ op'[a].pc = pc /\ op'[a].e = x /\ op[a].e = x
  BY <1>1, <1>2 DEF TypeOK, x
<1>6. /\ \A ev, e : Told(ev, e)' <=> Told(ev, e)
      /\ Unplaced(Api)' = Unplaced(Api)
      /\ \A e : Key(e)' = Key(e)
  BY <1>2, <1>5, Moved, NoNews DEF Key
<1>7. \A e : /\ Doing(AddPcs, e)' <=> Doing(AddPcs, e)
             /\ Doing(RemPcs, e)' <=> Doing(RemPcs, e)
             /\ Doing(AddPcs \cup RemPcs, e)' <=> Doing(AddPcs \cup RemPcs, e)
             /\ Doing({"erase"}, e)' <=> Doing({"erase"}, e)
             /\ Doing({"emplace"}, e) => Doing({"emplace"}, e)' \/ e = x
             /\ Doing({"emplace", "retract"}, e) => Doing({"emplace", "retract"}, e)' \/ e = x
  BY <1>1, <1>5, Moved DEF AddPcs, RemPcs
<1>8. Doing(AddPcs, x)
  BY <1>1, <1>5, Moved DEF AddPcs
<1>9. Stages'
  <2>1. a = Host \/ a \in TaskThreads
    BY DEF Handlers
  <2>2. op'[Api] = op[Api] /\ (a # Host => op'[Host] = op[Host])
        /\ \A t \in TaskThreads : a # t => op'[t] = op[t]
    BY <1>1, <1>5 DEF Actors
  <2>3. kind = "roots" => ~At(Host, "init")'
    BY <1>1, <1>5, <2>2 DEF At, Conveyed, Stages
  <2> QED
    BY <1>1, <1>2, <2>1, <2>2, <2>3 DEF Conveyed, Stages, CopiesFirst, At
<1>10. InTurn' /\ Replaced'
  <2>1. Once(events') /\ Once(tasks') /\ InTurn /\ Replaced
    BY <1>1, <1>2 DEF Conveyed, InTurn
  <2>2. \A e, f : Behind(events', f, e) <=> Behind(events, f, e)
    BY <1>2
  <2>3. InTurn'
    BY <1>2, <1>6, <1>7, <2>1, NoNews DEF InTurn
  <2>4. Replaced'
    BY <1>2, <1>6, <1>7, <2>1, <2>2, NoNews DEF Replaced
  <2> QED
    BY <2>3, <2>4
<1>11. NoneLost'
  <2>1. x \in entities => x \in modules' \/ Told("created", x)
    <3>1. ASSUME x \in entities, x \notin modules' PROVE Told("created", x)
      <4>1. PICK f \in modules : Key(f) = Key(x) /\ f # x
        BY <1>2, <1>3, <1>4, <3>1
      <4> QED
        BY <1>1, <3>1, <4>1, TakenAgain DEF Conveyed
    <3> QED
      BY <3>1
  <2> QED
    BY <1>1, <1>2, <1>6, <1>7, <2>1 DEF Conveyed, NoneLost, Placing
<1>12. NoneLeft'
  <2>1. x \in entities \/ Told("removed", x)
    BY <1>1, <1>8 DEF Conveyed, InTurn, x
  <2> QED
    BY <1>1, <1>2, <1>6, <1>7, <2>1 DEF Conveyed, NoneLeft
<1>13. ClientAdds' /\ ClientDrops'
  BY <1>1, <1>2, <1>6, <1>7 DEF Conveyed, ClientAdds, ClientDrops, Believed, Follows
<1>14. ClientRoots'
  <2>1. kind = "roots" => a = Host /\ x \in modules'
    BY <1>1, <1>2 DEF Conveyed, Stages, Handlers, At
  <2> QED
    BY <1>1, <1>2, <1>5, <1>6, <1>7, <2>1 DEF Conveyed, ClientRoots, Believed, Follows, At
<1> QED
  BY <1>9, <1>10, <1>11, <1>12, <1>13, <1>14 DEF Conveyed

\* A submodule is initialised.
LEMMA InitModuleConveys ==
  ASSUME CInv, Live', NEW a \in Actors, InitModule(a)
  PROVE  Conveyed'
<1>1. /\ IInv /\ TypeOK /\ Live /\ Conveyed /\ op[a].pc = "init"
      /\ UNCHANGED <<kind, session, api, todo, listening, modules, twice, tasks, subscribed, client, list, overtaken,
                     entities, used, events>>
  BY DEF CInv, IInv, Live, InitModule, built, placed, follower, host, At
<1>2. /\ \A b \in Actors \ {a} : op'[b] = op[b]
      /\ a = Api => op'[a].pc = "idle"
      /\ a # Api => op'[a].pc = "announce" /\ op'[a].e = op[a].e
  BY <1>1 DEF InitModule, Finish, Goto, TypeOK, OpType, Idle
<1>3. /\ \A pcs, e : pcs \cap {"init", "idle", "announce"} = {} => (Doing(pcs, e)' <=> Doing(pcs, e))
      /\ \A e : /\ Doing(AddPcs, e)' <=> Doing(AddPcs, e)
                /\ Doing(AddPcs \cup RemPcs, e)' <=> Doing(AddPcs \cup RemPcs, e)
      /\ Unplaced(Api)' = Unplaced(Api)
  <2>1. CASE a = Api
    <3>1. \A b \in Handlers : op'[b] = op[b]
      BY <1>2, <2>1 DEF Handlers, Actors, Api, Host
    <3>2. \A pcs, e : Doing(pcs, e)' <=> Doing(pcs, e)
      BY <3>1, ApiMoved
    <3>3. Unplaced(Api) = {} /\ Unplaced(Api)' = {}
      BY <1>1, <1>2, <2>1 DEF Unplaced, At
    <3> QED
      BY <3>2, <3>3
  <2>2. CASE a # Api
    <3>1. a \in Handlers
      BY <2>2 DEF Handlers, Actors
    <3> QED
      BY <1>1, <1>2, <2>2, <3>1, Moved DEF AddPcs, RemPcs
  <2> QED
    BY <2>1, <2>2
<1>4. \A e : /\ Doing(RemPcs, e)' <=> Doing(RemPcs, e)
             /\ Doing({"erase"}, e)' <=> Doing({"erase"}, e)
             /\ Doing({"emplace"}, e)' <=> Doing({"emplace"}, e)
             /\ Doing({"emplace", "retract"}, e)' <=> Doing({"emplace", "retract"}, e)
  BY <1>3 DEF RemPcs
<1>5. /\ \A ev, e : Told(ev, e)' <=> Told(ev, e)
      /\ \A e : Key(e)' = Key(e)
  BY <1>1, NoNews DEF Key
<1>6. Stages'
  <2>1. listening \/ a = Api
    BY <1>1 DEF Conveyed, Stages, Handlers, Actors, At
  <2>2. kind = "hub" => a # Host
    BY <1>1 DEF Conveyed, Stages, At
  <2>3. kind # "hub" => a \notin TaskThreads
    BY <1>1 DEF Conveyed, Stages, At
  <2>4. kind # "roots"
    BY <1>1, <2>3 DEF Conveyed, Stages, At, Actors
  <2>5. Api # Host /\ Api \notin TaskThreads /\ Host \notin TaskThreads /\ {Api, Host} \subseteq Actors /\ TaskThreads \subseteq Actors
    BY DEF Api, Host, Actors
  <2>6. op'[Api].pc \in {"idle", "emplace", "init"} /\ (At(Api, "init")' => At(Api, "init") /\ op'[Api] = op[Api])
    BY <1>1, <1>2, <2>5 DEF Conveyed, Stages, At
  <2> QED
    BY <1>1, <1>2, <2>1, <2>2, <2>3, <2>4, <2>5, <2>6 DEF Conveyed, Stages, CopiesFirst, At, Handlers
<1>7. InTurn' /\ Replaced'
  <2>1. Once(events') /\ Once(tasks') /\ InTurn /\ Replaced
    BY <1>1 DEF Conveyed, InTurn
  <2>2. \A e, f : Behind(events', f, e) <=> Behind(events, f, e)
    BY <1>1
  <2>3. InTurn'
    BY <1>1, <1>3, <1>4, <1>5, <2>1, NoNews DEF InTurn
  <2>4. Replaced'
    BY <1>1, <1>3, <1>4, <1>5, <2>1, <2>2, NoNews DEF Replaced
  <2> QED
    BY <2>3, <2>4
<1>8. NoneLost' /\ NoneLeft'
  BY <1>1, <1>3, <1>4, <1>5 DEF Conveyed, NoneLost, NoneLeft, Placing
<1>9. ClientAdds' /\ ClientDrops'
  BY <1>1, <1>3, <1>4, <1>5 DEF Conveyed, ClientAdds, ClientDrops, Believed, Follows
<1>10. ClientRoots'
  <2>1. kind # "roots"
    BY <1>1 DEF Conveyed, Stages, At, Actors
  <2> QED
    BY <1>1, <2>1 DEF ClientRoots, Believed, Follows
<1> QED
  BY <1>6, <1>7, <1>8, <1>9, <1>10 DEF Conveyed

\* The client is told of a new entity.
LEMMA AnnounceConveys ==
  ASSUME CInv, Live', NEW a \in Actors, Announce(a)
  PROVE  Conveyed'
<1> DEFINE x == op[a].e
<1>1. /\ IInv /\ TypeOK /\ Live /\ Conveyed /\ op[a].pc = "announce"
      /\ subscribed # "no" => Believed' = Believed \cup {Key(x)}
      /\ UNCHANGED <<kind, session, api, todo, listening, modules, twice, tasks, subscribed,
                     entities, used, events>>
  <2>1. subscribed # "no" => client' = client \cup {Key(x)}
    BY DEF Announce
  <2>2. list' = list /\ overtaken' = overtaken \ {Key(x)}
    BY DEF Announce
  <2>3. subscribed # "no" => Believed' = Believed \cup {Key(x)}
    BY <2>1, <2>2 DEF Believed
  <2> QED
    BY <2>3 DEF CInv, IInv, Live, Announce, built, placed, host, At
<1>2. a \in Handlers /\ x \in Entities
  <2>1. a # Api
    BY <1>1 DEF Conveyed, Stages
  <2> QED
    BY <1>1, <2>1 DEF Handlers, Actors, IInv, Busy, At
<1>3. op'[a].pc = "idle" /\ \A b \in Actors \ {a} : op'[b] = op[b]
  BY <1>1 DEF Announce, Finish, TypeOK, Idle
<1>4. /\ \A pcs, e : "idle" \notin pcs => /\ Doing(pcs, e)' => Doing(pcs, e)
                                          /\ Doing(pcs, e) => Doing(pcs, e)' \/ ("announce" \in pcs /\ e = x)
      /\ Doing(AddPcs, x)
      /\ Unplaced(Api)' = Unplaced(Api)
  BY <1>1, <1>2, <1>3, Moved DEF AddPcs
<1>5. \A e : /\ Doing(RemPcs, e)' <=> Doing(RemPcs, e)
             /\ Doing({"erase"}, e)' <=> Doing({"erase"}, e)
             /\ Doing({"emplace"}, e)' <=> Doing({"emplace"}, e)
             /\ Doing({"emplace", "retract"}, e)' <=> Doing({"emplace", "retract"}, e)
             /\ Doing(AddPcs, e)' => Doing(AddPcs, e)
             /\ Doing(AddPcs, e) => Doing(AddPcs, e)' \/ e = x
             /\ Doing(AddPcs \cup RemPcs, e)' => Doing(AddPcs \cup RemPcs, e)
  BY <1>4 DEF RemPcs, AddPcs
<1>6. /\ \A ev, e : Told(ev, e)' <=> Told(ev, e)
      /\ \A e : Key(e)' = Key(e)
  BY <1>1, NoNews DEF Key
<1> HIDE DEF x
<1>7. Stages'
  <2>1. listening
    BY <1>1, <1>2 DEF Conveyed, Stages, At
  <2>2. Api # Host /\ a # Api /\ {Api, Host} \subseteq Actors /\ TaskThreads \subseteq Actors
    BY <1>2 DEF Api, Host, Actors, Handlers
  <2>3. op'[Api] = op[Api] /\ \A b \in Actors : op'[b].pc = "idle" \/ op'[b] = op[b]
    BY <1>3, <2>2
  <2> QED
    BY <1>1, <2>1, <2>2, <2>3 DEF Conveyed, Stages, CopiesFirst, At
<1>8. InTurn' /\ Replaced'
  <2>1. Once(events') /\ Once(tasks') /\ InTurn /\ Replaced
    BY <1>1 DEF Conveyed, InTurn
  <2>2. \A e, f : Behind(events', f, e) <=> Behind(events, f, e)
    BY <1>1
  <2>3. InTurn'
    BY <1>1, <1>5, <1>6, <2>1, NoNews DEF InTurn
  <2>4. Replaced'
    BY <1>1, <1>5, <1>6, <2>1, <2>2, NoNews DEF Replaced
  <2> QED
    BY <2>3, <2>4
<1>9. NoneLost' /\ NoneLeft'
  BY <1>1, <1>4, <1>5, <1>6 DEF Conveyed, NoneLost, NoneLeft, Placing
<1>10. ClientAdds'
  BY <1>1, <1>5, <1>6 DEF Conveyed, ClientAdds, Follows
<1>11. ClientDrops'
  <2>1. x \in entities \/ Told("removed", x)
    BY <1>1, <1>2, <1>4 DEF Conveyed, InTurn
  <2> QED
    BY <1>1, <1>2, <1>5, <1>6, <2>1 DEF Conveyed, ClientDrops
<1>12. ClientRoots'
  <2>1. kind = "roots" => a = Host
    BY <1>1, <1>2 DEF Conveyed, Stages, Handlers, At
  <2>2. kind = "roots" => x \in modules /\ Key(x) = x
    BY <1>1, <2>1 DEF Conveyed, ClientRoots, At, Key, x
  <2>3. kind = "roots" => op'[Host].pc # "announce"
    BY <1>3, <2>1
  <2> QED
    BY <1>1, <1>5, <1>6, <2>2, <2>3 DEF Conveyed, ClientRoots, At
<1> QED
  BY <1>7, <1>8, <1>9, <1>10, <1>11, <1>12 DEF Conveyed

\* The client is told that an entity is gone.
LEMMA RetractConveys ==
  ASSUME CInv, Live', NEW a \in Actors, Retract(a)
  PROVE  Conveyed'
<1> DEFINE x == op[a].e
<1>1. /\ IInv /\ TypeOK /\ Live /\ Conveyed /\ op[a].pc = "retract"
      /\ subscribed # "no" => Believed' = Believed \ {Key(x)}
      /\ UNCHANGED <<kind, session, api, todo, listening, modules, twice, tasks, subscribed,
                     entities, used, events>>
  <2>1. ~(kind = "roots" /\ subscribed \notin {"no", "view"})
    BY DEF Retract, Live
  <2>2. /\ subscribed # "no" => client' = client \ {Key(x)}
        /\ list' = list
        /\ overtaken' = IF Key(x) \in list THEN overtaken \cup {Key(x)} ELSE overtaken \ {Key(x)}
    BY <2>1 DEF Retract
  <2>3. subscribed # "no" => Believed' = Believed \ {Key(x)}
    BY <2>2 DEF Believed
  <2> QED
    BY <2>1, <2>3 DEF CInv, IInv, Live, Retract, placed, host, At
<1>2. a \in Handlers /\ x \in Entities
  <2>1. a # Api
    BY <1>1 DEF Conveyed, Stages
  <2> QED
    BY <1>1, <2>1 DEF Handlers, Actors, IInv, Busy, At
<1>3. op'[a].pc = "idle" /\ \A b \in Actors \ {a} : op'[b] = op[b]
  BY <1>1 DEF Retract, Finish, TypeOK, Idle
<1>4. /\ \A pcs, e : "idle" \notin pcs => /\ Doing(pcs, e)' => Doing(pcs, e)
                                          /\ Doing(pcs, e) => Doing(pcs, e)' \/ ("retract" \in pcs /\ e = x)
      /\ Doing(RemPcs, x)
      /\ Unplaced(Api)' = Unplaced(Api)
  BY <1>1, <1>2, <1>3, Moved DEF RemPcs
<1>5. \A e : /\ Doing(AddPcs, e)' <=> Doing(AddPcs, e)
             /\ Doing({"erase"}, e)' <=> Doing({"erase"}, e)
             /\ Doing({"emplace"}, e)' <=> Doing({"emplace"}, e)
             /\ Doing({"emplace", "retract"}, e) => Doing({"emplace", "retract"}, e)' \/ e = x
             /\ Doing(RemPcs, e)' => Doing(RemPcs, e)
             /\ Doing(RemPcs, e) => Doing(RemPcs, e)' \/ e = x
             /\ Doing(AddPcs \cup RemPcs, e)' => Doing(AddPcs \cup RemPcs, e)
  BY <1>4 DEF RemPcs, AddPcs
<1>6. /\ \A ev, e : Told(ev, e)' <=> Told(ev, e)
      /\ \A e : Key(e)' = Key(e)
  BY <1>1, NoNews DEF Key
<1> HIDE DEF x
<1>7. Stages'
  <2>1. listening
    BY <1>1, <1>2 DEF Conveyed, Stages, At
  <2>2. Api # Host /\ a # Api /\ {Api, Host} \subseteq Actors /\ TaskThreads \subseteq Actors
    BY <1>2 DEF Api, Host, Actors, Handlers
  <2>3. op'[Api] = op[Api] /\ \A b \in Actors : op'[b].pc = "idle" \/ op'[b] = op[b]
    BY <1>3, <2>2
  <2> QED
    BY <1>1, <2>1, <2>2, <2>3 DEF Conveyed, Stages, CopiesFirst, At
<1>8. InTurn' /\ Replaced'
  <2>1. Once(events') /\ Once(tasks') /\ InTurn /\ Replaced
    BY <1>1 DEF Conveyed, InTurn
  <2>2. \A e, f : Behind(events', f, e) <=> Behind(events, f, e)
    BY <1>1
  <2>3. InTurn'
    BY <1>1, <1>5, <1>6, <2>1, NoNews DEF InTurn
  <2>4. Replaced'
    BY <1>1, <1>5, <1>6, <2>1, <2>2, NoNews DEF Replaced
  <2> QED
    BY <2>3, <2>4
<1>9. NoneLost' /\ NoneLeft'
  BY <1>1, <1>4, <1>5, <1>6 DEF Conveyed, NoneLost, NoneLeft, Placing
<1>10. ClientAdds'
  <2>1. ASSUME NEW e \in entities, Key(e) = Key(x)
        PROVE  Told("created", e)
    <3>1. x \notin entities /\ e \in Entities
      BY <1>1, <1>2, <1>4 DEF Conveyed, InTurn, TypeOK
    <3> QED
      BY <1>1, <1>2, <1>4, <2>1, <3>1 DEF Conveyed, Replaced, Told
  <2> QED
    BY <1>1, <1>5, <1>6, <2>1 DEF Conveyed, ClientAdds, Follows
<1>11. ClientDrops'
  BY <1>1, <1>2, <1>5, <1>6 DEF Conveyed, ClientDrops
<1>12. ClientRoots'
  <2>1. kind = "roots" => Key(x) = x
    BY DEF Key
  <2>2. kind = "roots" => op'[Host].pc # "announce" \/ op'[Host] = op[Host]
    BY <1>1, <1>3 DEF Actors
  <2> QED
    BY <1>1, <1>5, <1>6, <2>1, <2>2 DEF Conveyed, ClientRoots, At
<1> QED
  BY <1>7, <1>8, <1>9, <1>10, <1>11, <1>12 DEF Conveyed

\* A handler erases the submodule.
LEMMA EraseConveys ==
  ASSUME CInv, Live', NEW a \in Actors, Erase(a)
  PROVE  Conveyed'
<1> DEFINE x    == op[a].e
           gone == {f \in modules : Key(f) = Key(x)}
           lost == kind = "roots" /\ x \notin modules
<1>1. /\ IInv /\ TypeOK /\ Live /\ Conveyed /\ op[a].pc = "erase" /\ twice = {} /\ twice' = {}
      /\ modules' = modules \ gone /\ x \notin todo \cup Unplaced(Api)
      /\ UNCHANGED <<kind, session, api, todo, listening, tasks, subscribed, client, list, overtaken,
                     entities, used, events>>
  <2>1. IInv /\ TypeOK /\ Live /\ Conveyed
    BY DEF CInv, IInv, Live, Erase, built
  <2>2. twice = {}
    BY <2>1 DEF Conveyed, Stages
  <2> QED
    BY <2>1, <2>2 DEF Erase, Live, built, follower, host, At
<1>2. a \in Handlers /\ x \in Entities
  <2>1. a # Api
    BY <1>1 DEF Conveyed, Stages
  <2> QED
    BY <1>1, <2>1 DEF Handlers, Actors, IInv, Busy, At
<1>3. /\ \A b \in Actors \ {a} : op'[b].pc = op[b].pc /\ op'[b].e = op[b].e
      /\ IF lost THEN op'[a].pc = "idle" ELSE op'[a].pc = "retract" /\ op'[a].e = x
  BY <1>1 DEF Erase, TypeOK, OpType, Idle
<1> HIDE DEF gone, lost
<1>4. /\ \A pcs, e : "idle" \notin pcs =>
           /\ Doing(pcs, e)' => Doing(pcs, e) \/ ("retract" \in pcs /\ e = x)
           /\ Doing(pcs, e) => Doing(pcs, e)' \/ ("erase" \in pcs /\ e = x)
           /\ "retract" \in pcs /\ ~lost /\ e = x => Doing(pcs, e)'
      /\ Doing(RemPcs, x) /\ Doing(AddPcs \cup RemPcs, x)
      /\ Unplaced(Api)' = Unplaced(Api)
  BY <1>1, <1>2, <1>3, Moved DEF RemPcs, AddPcs
<1>5. \A e : /\ Doing(AddPcs, e)' <=> Doing(AddPcs, e)
             /\ Doing({"erase"}, e) => Doing({"erase"}, e)' \/ e = x
             /\ Doing({"emplace"}, e)' <=> Doing({"emplace"}, e)
             /\ Doing({"emplace", "retract"}, e) => Doing({"emplace", "retract"}, e)'
             /\ ~lost /\ e = x => Doing({"emplace", "retract"}, e)' /\ Doing(RemPcs, e)'
             /\ Doing(RemPcs, e)' => Doing(RemPcs, e)
             /\ Doing(RemPcs, e) => Doing(RemPcs, e)' \/ e = x
             /\ Doing(AddPcs \cup RemPcs, e)' => Doing(AddPcs \cup RemPcs, e)
  BY <1>4 DEF RemPcs, AddPcs
<1>6. /\ \A ev, e : Told(ev, e)' <=> Told(ev, e)
      /\ \A e : Key(e)' = Key(e)
  BY <1>1, NoNews DEF Key
<1> HIDE DEF x
<1>7. Stages'
  <2>1. listening
    BY <1>1, <1>2 DEF Conveyed, Stages, At
  <2>2. Api # Host /\ a # Api /\ {Api, Host} \subseteq Actors /\ TaskThreads \subseteq Actors
    BY <1>2 DEF Api, Host, Actors, Handlers
  <2>3. /\ op'[Api].pc = op[Api].pc
        /\ \A b \in Actors : op'[b].pc = op[b].pc \/ (b = a /\ op'[b].pc \in {"idle", "retract"})
    BY <1>3, <2>2
  <2> QED
    BY <1>1, <2>1, <2>2, <2>3 DEF Conveyed, Stages, CopiesFirst, At
<1>8. InTurn' /\ Replaced'
  <2>1. Once(events') /\ Once(tasks') /\ InTurn /\ Replaced
    BY <1>1 DEF Conveyed, InTurn
  <2>2. \A e, f : Behind(events', f, e) <=> Behind(events, f, e)
    BY <1>1
  <2>3. InTurn'
    BY <1>1, <1>5, <1>6, <2>1, NoNews DEF InTurn
  <2>4. Replaced'
    BY <1>1, <1>5, <1>6, <2>1, <2>2, NoNews DEF Replaced
  <2> QED
    BY <2>3, <2>4
<1>9. NoneLost'
  <2>1. ASSUME NEW e \in entities, Key(e) = Key(x)
        PROVE  Told("created", e)
    <3>1. x \notin entities /\ e \in Entities
      BY <1>1, <1>2, <1>4 DEF Conveyed, InTurn, TypeOK
    <3> QED
      BY <1>1, <1>2, <1>4, <2>1, <3>1 DEF Conveyed, Replaced, Told
  <2> QED
    BY <1>1, <1>4, <1>5, <1>6, <2>1 DEF Conveyed, NoneLost, Placing, gone
<1>10. NoneLeft'
  <2>1. x \notin modules'
    BY <1>1 DEF gone
  <2> QED
    BY <1>1, <1>4, <1>5, <1>6, <2>1 DEF Conveyed, NoneLeft
<1>11. ClientAdds'
  BY <1>1, <1>5, <1>6 DEF Conveyed, ClientAdds, Believed, Follows
<1>12. ClientDrops'
  <2>1. ASSUME subscribed # "no", lost PROVE Key(x) \notin Believed
    <3>1. kind = "roots" /\ Key(x) = x /\ x \notin modules
      BY <2>1 DEF lost, Key
    <3>2. ~Told("created", x)
      BY <1>1, <1>2, <1>4 DEF Conveyed, InTurn
    <3>3. ~Doing({"emplace", "retract"}, x)
      BY <1>1, <1>2, <3>1 DEF Conveyed, Stages, Doing, At, Handlers
    <3> QED
      BY <1>1, <2>1, <3>1, <3>2, <3>3 DEF Conveyed, ClientRoots, Believed, Follows
  <2>2. ASSUME subscribed # "no", NEW k \in Believed
        PROVE  \E e \in Entities : Key(e) = k /\ (e \in entities \/ Told("removed", e) \/ Doing(RemPcs, e)')
    <3>1. PICK e \in Entities : Key(e) = k /\ (e \in entities \/ Told("removed", e) \/ Doing(RemPcs, e))
      BY <1>1, <2>2 DEF Conveyed, ClientDrops, Believed, Follows
    <3>2. Doing(RemPcs, e) => Doing(RemPcs, e)'
      BY <1>5, <2>1, <2>2, <3>1
    <3> QED
      BY <3>1, <3>2
  <2> QED
    BY <1>1, <1>6, <2>2 DEF ClientDrops, Believed, Follows
<1>13. ClientRoots'
  <2>1. kind = "roots" => a = Host /\ \A e : Key(e) = e
    BY <1>1, <1>2 DEF Conveyed, Stages, Handlers, At, Key
  <2>2. kind = "roots" => op'[Host].pc # "announce"
    BY <1>3, <2>1
  <2>3. kind = "roots" => \A e \in gone : ~lost /\ e = x
    BY <2>1 DEF gone, lost
  <2>4. ASSUME kind = "roots", subscribed # "no", NEW e \in Believed
        PROVE  e \in modules' \/ Told("created", e) \/ Doing({"emplace", "retract"}, e)'
    <3>1. e \in modules \/ Told("created", e) \/ Doing({"emplace", "retract"}, e)
      BY <1>1, <2>4 DEF Conveyed, ClientRoots, Believed, Follows
    <3>2. e \in modules => e \in modules' \/ e \in gone
      BY <1>1
    <3> QED
      BY <1>5, <2>3, <2>4, <3>1, <3>2
  <2> QED
    BY <1>1, <1>6, <2>2, <2>4 DEF ClientRoots, Believed, Follows, At
<1> QED
  BY <1>7, <1>8, <1>9, <1>10, <1>11, <1>12, <1>13 DEF Conveyed

\* A task thread takes the first task.
LEMMA TakeConveys ==
  ASSUME CInv, Live', NEW t \in TaskThreads, Take(t)
  PROVE  Conveyed'
<1> DEFINE h  == Head(tasks)
           pc == IF h.ev = "created" THEN "emplace" ELSE "erase"
<1>1. /\ IInv /\ TypeOK /\ Live /\ Conveyed /\ tasks # <<>> /\ tasks' = Tail(tasks)
      /\ op[t].pc = "idle" /\ op' = [op EXCEPT ![t] = [pc |-> pc, e |-> h.e, kept |-> FALSE]]
      /\ \A b \in TaskThreads : h.e \notin Adding(b)
      /\ UNCHANGED <<kind, session, api, todo, listening, modules, twice, subscribed, client, list, overtaken,
                     entities, used, events>>
  BY DEF CInv, IInv, Live, Take, Begin, built, placed, follower, host, At
<1>2. /\ tasks \in Seq(Event) /\ Once(tasks) /\ InTurn /\ kind = "hub" /\ listening
  BY <1>1 DEF TypeOK, Conveyed, InTurn, Stages
<1>3. /\ h.ev \in {"created", "removed"} /\ h.e \in Entities /\ Once(tasks')
      /\ h.ev = "removed" => ~Pending(tasks, "created", h.e)
      /\ Pending(tasks, h.ev, h.e)
  BY <1>1, <1>2, PendingTail DEF Event
<1>4. \A ev, e : /\ Pending(tasks, ev, e)' <=> Pending(tasks, ev, e) /\ ~(h.ev = ev /\ h.e = e)
                 /\ Pending(events, ev, e)' <=> Pending(events, ev, e)
  <2>1. \A ev, e : /\ Pending(tasks, ev, e)' <=> Pending(tasks', ev, e)
                   /\ Pending(events, ev, e)' <=> Pending(events, ev, e)
    BY <1>1 DEF Pending
  <2> QED
    BY <1>1, <1>2, <2>1, PendingTail
<1> HIDE DEF h
<1>5. ~Pending(events, h.ev, h.e)
  BY <1>2, <1>3 DEF InTurn
<1>6. \A ev, e : Told(ev, e)' <=> Told(ev, e) /\ ~(h.ev = ev /\ h.e = e)
  <2>1. \A ev, e : Told(ev, e)' <=> Pending(events, ev, e)' \/ Pending(tasks, ev, e)'
    BY DEF Told
  <2> QED
    BY <1>4, <1>5, <2>1 DEF Told
<1>7. /\ op'[t].pc = pc /\ op'[t].e = h.e /\ \A b \in Actors \ {t} : op'[b] = op[b]
      /\ t \in Handlers /\ t # Host /\ t # Api /\ {Api, Host} \subseteq Actors
      /\ \A e : Key(e) = e /\ Key(e)' = e
  BY <1>1, <1>2 DEF TypeOK, Handlers, Actors, Api, Host, Key
<1>8. ~Doing(AddPcs, h.e)
  <2>1. op[Host].pc = "idle"
    BY <1>1, <1>2 DEF Conveyed, Stages, At
  <2>2. \A b \in TaskThreads : op[b].pc \in AddPcs => op[b].e # h.e
    BY <1>1 DEF Adding, AddPcs
  <2> QED
    BY <2>1, <2>2 DEF Doing, Handlers, AddPcs
<1>9. /\ \A pcs, e : "idle" \notin pcs => (Doing(pcs, e)' <=> Doing(pcs, e) \/ (pc \in pcs /\ e = h.e))
      /\ Unplaced(Api)' = Unplaced(Api)
  BY <1>1, <1>7, Moved
<1>10. \A e : /\ Doing(AddPcs, e)' <=> Doing(AddPcs, e) \/ (h.ev = "created" /\ e = h.e)
              /\ Doing({"emplace"}, e)' <=> Doing({"emplace"}, e) \/ (h.ev = "created" /\ e = h.e)
              /\ Doing(RemPcs, e)' <=> Doing(RemPcs, e) \/ (h.ev = "removed" /\ e = h.e)
              /\ Doing({"erase"}, e)' <=> Doing({"erase"}, e) \/ (h.ev = "removed" /\ e = h.e)
              /\ Doing(AddPcs \cup RemPcs, e)' <=> Doing(AddPcs \cup RemPcs, e) \/ e = h.e
  BY <1>3, <1>9 DEF AddPcs, RemPcs
<1>11. \A e : Doing(RemPcs, e) => Doing(AddPcs \cup RemPcs, e)
  BY DEF Doing
<1>12. Stages'
  <2>1. op'[Api] = op[Api] /\ op'[Host] = op[Host]
    BY <1>7
  <2> QED
    BY <1>1, <1>2, <2>1 DEF Conveyed, Stages, CopiesFirst, At
<1>13. InTurn'
  <2>1. ASSUME NEW e \in Entities
        PROVE  /\ Told("created", e)' \/ Told("removed", e)' \/ Doing(AddPcs \cup RemPcs, e)' => e \in used'
               /\ Pending(tasks, "created", e)' => ~Pending(events, "created", e)'
               /\ Pending(tasks, "removed", e)' => ~Pending(events, "created", e)' /\ ~Pending(events, "removed", e)'
               /\ Doing(AddPcs \cup RemPcs, e)' => ~Told("created", e)'
               /\ Doing(RemPcs, e)' => ~Told("removed", e)'
               /\ Told("removed", e)' \/ Doing(RemPcs, e)' => e \notin entities'
               /\ Told("created", e)' \/ Doing(AddPcs, e)' => e \in entities' \/ Told("removed", e)'
    <3>1. /\ Told("created", e) \/ Told("removed", e) \/ Doing(AddPcs \cup RemPcs, e) => e \in used
          /\ Pending(tasks, "created", e) => ~Pending(events, "created", e)
          /\ Pending(tasks, "removed", e) => ~Pending(events, "created", e) /\ ~Pending(events, "removed", e)
          /\ Doing(AddPcs \cup RemPcs, e) => ~Told("created", e)
          /\ Doing(RemPcs, e) => ~Told("removed", e)
          /\ Told("removed", e) \/ Doing(RemPcs, e) => e \notin entities
          /\ Told("created", e) \/ Doing(AddPcs, e) => e \in entities \/ Told("removed", e)
      BY <1>2 DEF InTurn
    <3>2. CASE e # h.e
      BY <1>1, <1>4, <1>6, <1>10, <3>1, <3>2
    <3>3. CASE e = h.e /\ h.ev = "created"
      <4>1. Told("created", e) /\ ~Told("created", e)' /\ (Told("removed", e)' <=> Told("removed", e))
        BY <1>3, <1>6, <3>3 DEF Told
      <4>2. ~Doing(RemPcs, e) /\ ~Doing(RemPcs, e)'
        BY <1>10, <1>11, <3>1, <3>3, <4>1
      <4> QED
        BY <1>1, <1>4, <3>1, <3>3, <4>1, <4>2
    <3>4. CASE e = h.e /\ h.ev = "removed"
      <4>1. Told("removed", e) /\ ~Told("removed", e)' /\ ~Told("created", e) /\ ~Told("created", e)'
        BY <1>3, <1>6, <3>1, <3>4 DEF Told
      <4>2. ~Doing(AddPcs, e)'
        BY <1>8, <1>10, <3>4
      <4> QED
        BY <1>1, <1>4, <3>1, <3>4, <4>1, <4>2
    <3> QED
      BY <1>3, <3>2, <3>3, <3>4
  <2> QED
    BY <1>1, <1>2, <1>3, <2>1 DEF InTurn
<1>14. Replaced'
  BY <1>7 DEF Replaced
<1>15. NoneLost'
  BY <1>1, <1>6, <1>9, <1>10 DEF Conveyed, NoneLost, Placing
<1>16. NoneLeft'
  BY <1>1, <1>6, <1>9, <1>10 DEF Conveyed, NoneLeft
<1>17. ClientAdds' /\ ClientDrops' /\ ClientRoots'
  BY <1>1, <1>2, <1>6, <1>7, <1>10 DEF Conveyed, ClientAdds, ClientDrops, ClientRoots, Believed, Follows
<1> QED
  BY <1>12, <1>13, <1>14, <1>15, <1>16, <1>17 DEF Conveyed

-----------------------------------------------------------------------------

LEMMA InitConveyed == Init => CInv
<1> SUFFICES ASSUME Init PROVE CInv
  OBVIOUS
<1>1. /\ events = <<>> /\ tasks = <<>> /\ modules = {} /\ todo = {} /\ twice = {} /\ entities = {}
      /\ api = "absent" /\ ~listening /\ subscribed = "no"
      /\ \A a \in Actors : op[a].pc = "idle"
  BY DEF Init, Idle
<1>2. /\ \A ev, e : ~Told(ev, e) /\ ~Pending(events, ev, e) /\ ~Pending(tasks, ev, e)
      /\ \A pcs, e : "idle" \notin pcs => ~Doing(pcs, e)
      /\ Unplaced(Api) = {}
  BY <1>1 DEF Told, Pending, Doing, Unplaced, At, Handlers, Actors
<1>3. Stages
  BY <1>1 DEF Stages, At, Actors, Handlers
<1>4. InTurn
  <2>1. Once(events) /\ Once(tasks)
    BY <1>1 DEF Once
  <2> QED
    BY <1>2, <2>1 DEF InTurn, AddPcs, RemPcs
<1>5. Replaced /\ NoneLost /\ NoneLeft /\ ClientAdds /\ ClientDrops /\ ClientRoots
  BY <1>1, <1>2 DEF Replaced, NoneLost, NoneLeft, ClientAdds, ClientDrops, ClientRoots, Believed, Follows, At, Actors
<1> QED
  BY InitEstablishes, HeardInit, <1>3, <1>4, <1>5 DEF CInv, Conveyed

LEMMA ConveyedPreserved == CInv /\ [Next]_vars => CInv'
<1> SUFFICES ASSUME CInv, [Next]_vars, Live' PROVE Conveyed'
  BY StepPreserves, HeardPreserved DEF CInv
<1>1. CASE UNCHANGED vars
  <2>1. Live /\ Conveyed
    BY <1>1 DEF vars, Live, CInv
  <2>2. \A b \in Handlers : op'[b].pc = op[b].pc /\ op'[b].e = op[b].e
    BY <1>1 DEF vars
  <2>3. /\ InTurn' /\ Replaced'
        /\ \A pcs, e : Doing(pcs, e)' <=> Doing(pcs, e)
        /\ \A ev, e : Told(ev, e)' <=> Told(ev, e)
        /\ \A e : Key(e)' = Key(e)
    BY <1>1, <2>1, <2>2, OrderFrame DEF vars, Conveyed
  <2>4. Stages'
    BY <1>1, <2>1 DEF vars, Conveyed, Stages, At, CopiesFirst
  <2>5. NoneLost' /\ NoneLeft'
    BY <1>1, <2>1, <2>3, Unmoved DEF vars, Conveyed, NoneLost, NoneLeft
  <2>6. ClientAdds' /\ ClientDrops' /\ ClientRoots'
    BY <1>1, <2>1, <2>3 DEF vars, Conveyed, ClientAdds, ClientDrops, ClientRoots, Believed, Follows, At
  <2> QED
    BY <2>3, <2>4, <2>5, <2>6 DEF Conveyed
<1>2. CASE Fire
  <2>1. listening \in BOOLEAN
    BY DEF CInv, IInv, TypeOK
  <2> QED
    BY <1>2, <2>1, FireUnheardConveys, FireQueuedConveys, FireHandledConveys
<1>3. ASSUME NEW a \in Actors, Step(a) PROVE Conveyed'
  <2>1. a = Api \/ a \in Handlers
    BY DEF Actors, Handlers
  <2> QED
    BY <1>3, <2>1, EmplaceApiConveys, EmplaceConveys, InitModuleConveys, EraseConveys, AnnounceConveys,
       RetractConveys DEF Step
<1>4. CASE EndSession \/ Unlisten \/ Destroy
  BY <1>4 DEF EndSession, Unlisten, Destroy, Live
<1> QED
  BY <1>1, <1>2, <1>3, <1>4, HostCreateConveys, HostRemoveConveys, ClientConveys, ConstructConveys,
     CopyConveys, AddNextConveys, ConstructedConveys, TakeConveys DEF Next, Building

\* Nothing is on its way and nobody is busy.
LEMMA AtRest ==
  ASSUME CInv, Quiet, api = "ready", session, ~missed
  PROVE  /\ Conveyed /\ todo = {} /\ entities \subseteq Entities
         /\ \A ev, e : ~Told(ev, e)
         /\ \A e : /\ ~Placing(e) /\ ~Doing({"erase"}, e) /\ ~Doing(AddPcs, e) /\ ~Doing(RemPcs, e)
<1>1. Conveyed /\ todo = {} /\ entities \subseteq Entities
  BY DEF CInv, Live, Conveyed, Stages, IInv, TypeOK
<1>2. \A ev, e : ~Told(ev, e)
  BY DEF Quiet, Told, Pending
<1>3. \A e : /\ ~Doing({"emplace"}, e) /\ ~Doing({"erase"}, e)
             /\ ~Doing(AddPcs, e) /\ ~Doing(RemPcs, e)
  BY DEF Quiet, Doing, At, Handlers, Actors, AddPcs, RemPcs
<1>4. Unplaced(Api) = {}
  BY DEF Quiet, Unplaced, At, Actors
<1> QED
  BY <1>1, <1>2, <1>3, <1>4 DEF Placing

(* At rest the module has exactly the entities of the application, unless  *)
(* one of the named races lost an event: for any entities, users and task  *)
(* threads.                                                                *)
THEOREM MirrorsHolds == Spec => []Mirrors
<1>1. CInv => Mirrors
  <2> SUFFICES ASSUME CInv, api = "ready", session, Quiet, ~missed PROVE modules = entities
    BY DEF Mirrors
  <2>1. \A e \in entities : e \in modules
    BY AtRest DEF Conveyed, NoneLost
  <2>2. \A e \in modules : e \in entities
    BY AtRest DEF Conveyed, NoneLeft
  <2> QED
    BY <2>1, <2>2
<1> QED
  BY InitConveyed, ConveyedPreserved, <1>1, PTL DEF Spec

(* The client that follows the messages has them too, as soon as it has    *)
(* the list, and in addition what was told to be gone while the list was   *)
(* on its way.                                                             *)
THEOREM ClientKnowsHolds == Spec => []ClientKnows
<1>1. CInv => ClientKnows
  <2> SUFFICES ASSUME CInv, api = "ready", session, Quiet, ~missed, subscribed \in {"listed", "view"}
               PROVE  client = {Key(e) : e \in entities} \cup overtaken
    BY DEF ClientKnows
  <2>1. Follows /\ subscribed # "no" /\ Believed = client \ overtaken /\ overtaken \subseteq client
    BY DEF CInv, Heard, Follows, Believed
  <2>2. \A e \in entities : Key(e) \in client
    BY <2>1, AtRest DEF Conveyed, ClientAdds
  <2>3. \A k \in client \ overtaken : \E e \in entities : Key(e) = k
    BY <2>1, AtRest DEF Conveyed, ClientDrops
  <2> QED
    BY <2>1, <2>2, <2>3
<1> QED
  BY InitConveyed, ConveyedPreserved, <1>1, PTL DEF Spec
=============================================================================
