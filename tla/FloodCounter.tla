---------------------------- MODULE FloodCounter ----------------------------
(***************************************************************************)
(* The login throttle (web-server/FloodCounter.cpp) together with the      *)
(* password check that uses it (WebUserManager::authenticateSession).      *)
(* HTTP threads and task threads run the check at the same time: the       *)
(* throttle is consulted under one lock, the failed attempt is recorded    *)
(* under another, and the password is compared in between.                 *)
(*                                                                         *)
(* floodIps is a multimap from an address to the tick of a failed attempt; *)
(* here every multimap node is an element of Nodes.  Only the age of an    *)
(* entry matters (prune compares it with the period), so an entry carries  *)
(* its age, counted in arbitrary units up to "older than the period".      *)
(***************************************************************************)
EXTENDS Naturals, FiniteSets

CONSTANTS Ips,          \* remote addresses
          Threads,      \* server threads that may authenticate
          Nodes,        \* multimap nodes available in memory
          FloodCount,   \* FLOOD_COUNT
          FloodPeriod,  \* FLOOD_PERIOD
          NoEntry       \* marks a node that is not in the multimap

ASSUME FloodAssumption == /\ IsFiniteSet(Threads)
                          /\ IsFiniteSet(Nodes)
                          /\ FloodCount \in Nat \ {0}
                          /\ FloodPeriod \in Nat
                          /\ NoEntry \notin [ip : Ips, age : Nat]

VARIABLES floodIps,   \* Nodes -> the attempt stored in the node, or NoEntry
          pc,         \* where each thread is inside authenticateSession
          addr,       \* the address each thread authenticates
          doomed      \* entries the running prune() has found expired

vars == <<floodIps, pc, addr, doomed>>

MaxAge == FloodPeriod + 1
Entry  == [ip : Ips, age : 0..MaxAge]

Live               == {n \in Nodes : floodIps[n] # NoEntry}
AttemptsOf(ip)     == {n \in Live : floodIps[n].ip = ip}
Authenticating(ip) == {t \in Threads : pc[t] = "checked" /\ addr[t] = ip}
Expired(n)         == n \in Live /\ floodIps[n].age > FloodPeriod

TypeOK == /\ floodIps \in [Nodes -> Entry \cup {NoEntry}]
          /\ pc \in [Threads -> {"idle", "checked"}]
          /\ addr \in [Threads -> Ips]
          /\ doomed \in SUBSET Live

Init == /\ floodIps = [n \in Nodes |-> NoEntry]
        /\ pc = [t \in Threads |-> "idle"]
        /\ addr \in [Threads -> Ips]
        /\ doomed = {}

-----------------------------------------------------------------------------
\* Mutant: one attempt too many is let through.
CheckFloodLate(t, ip) ==
  /\ pc[t] = "idle"
  /\ Cardinality(AttemptsOf(ip)) =< FloodCount
  /\ pc' = [pc EXCEPT ![t] = "checked"]
  /\ addr' = [addr EXCEPT ![t] = ip]
  /\ UNCHANGED <<floodIps, doomed>>

\* checkFlood: counts the address' entries under the read lock.  A refused
\* caller throws without touching any state.
CheckFlood(t, ip) ==
  /\ pc[t] = "idle"
  /\ Cardinality(AttemptsOf(ip)) < FloodCount
  /\ pc' = [pc EXCEPT ![t] = "checked"]
  /\ addr' = [addr EXCEPT ![t] = ip]
  /\ UNCHANGED <<floodIps, doomed>>

\* The user exists and the password matches: a session is created and the
\* throttle is left as it is.
Accept(t) ==
  /\ pc[t] = "checked"
  /\ pc' = [pc EXCEPT ![t] = "idle"]
  /\ UNCHANGED <<floodIps, addr, doomed>>

\* Mutant: a map, where the new attempt of an address replaces the older one.
ReplaceAttempt(t) ==
  /\ pc[t] = "checked"
  /\ \E n \in Nodes \ Live :
       floodIps' = [m \in Nodes |-> CASE m = n -> [ip |-> addr[t], age |-> 0]
                                     [] m \in AttemptsOf(addr[t]) -> NoEntry
                                     [] OTHER -> floodIps[m]]
  /\ pc' = [pc EXCEPT ![t] = "idle"]
  /\ UNCHANGED <<addr, doomed>>

\* addAttempt: unknown user or wrong password, a new node with the current tick.
AddAttempt(t) ==
  /\ pc[t] = "checked"
  /\ \E n \in Nodes \ Live :
       floodIps' = [floodIps EXCEPT ![n] = [ip |-> addr[t], age |-> 0]]
  /\ pc' = [pc EXCEPT ![t] = "idle"]
  /\ UNCHANGED <<addr, doomed>>

\* prune, first half: the tick is read before the write lock is taken, so what
\* the second half will erase is settled here.  One timer runs it: no two at once.
SamplePrune ==
  /\ doomed = {}
  /\ doomed' = {n \in Nodes : Expired(n)}
  /\ UNCHANGED <<floodIps, pc, addr>>

\* Mutant: erases by key, the address, instead of erasing the multimap's node.
ErasePruneByAddress ==
  /\ doomed # {}
  /\ floodIps' = [n \in Nodes |->
                    IF n \in Live /\ \E d \in doomed : floodIps[d].ip = floodIps[n].ip
                      THEN NoEntry ELSE floodIps[n]]
  /\ doomed' = {}
  /\ UNCHANGED <<pc, addr>>

\* Mutant: erases from a copy of the map.
ErasePruneCopy ==
  /\ doomed # {}
  /\ doomed' = {}
  /\ UNCHANGED <<floodIps, pc, addr>>

\* prune, second half: erases under the write lock.
ErasePrune ==
  /\ doomed # {}
  /\ floodIps' = [n \in Nodes |-> IF n \in doomed THEN NoEntry ELSE floodIps[n]]
  /\ doomed' = {}
  /\ UNCHANGED <<pc, addr>>

\* GET_TICK advances.
Tick ==
  /\ floodIps' = [n \in Nodes |->
                    IF n \in Live /\ floodIps[n].age < MaxAge
                      THEN [floodIps[n] EXCEPT !.age = @ + 1]
                      ELSE floodIps[n]]
  /\ UNCHANGED <<pc, addr, doomed>>

Next == \/ \E t \in Threads : \/ \E ip \in Ips : CheckFlood(t, ip)
                              \/ Accept(t)
                              \/ AddAttempt(t)
        \/ SamplePrune
        \/ ErasePrune
        \/ Tick

\* The expiration timer of WebUserManager calls prune as long as the server
\* runs, and time passes.  No thread needs to be fair.
Fairness == WF_vars(SamplePrune) /\ WF_vars(ErasePrune) /\ WF_vars(Tick)

Spec == Init /\ [][Next]_vars
FairSpec == Spec /\ Fairness

-----------------------------------------------------------------------------
(* Between the check and addAttempt every thread may hold a permission of  *)
(* its own, so the limit is not FloodCount but FloodCount - 1 plus one     *)
(* guess for each thread: entries and pending checks never exceed that.    *)
FloodBound ==
  \A ip \in Ips : Cardinality(AttemptsOf(ip)) + Cardinality(Authenticating(ip))
                    =< FloodCount - 1 + Cardinality(Threads)

(* prune works on a list computed before it locked: what it is about to    *)
(* erase is still there and still older than the period.                   *)
DoomedAreExpired ==
  \A n \in doomed : n \in Live /\ floodIps[n].age = MaxAge

(* No step forgets a failed attempt that is still inside the period: an    *)
(* entry that disappears was older than it.                                *)
NoEarlyForgiveness ==
  [][\A n \in Nodes : n \in Live /\ n \notin Live'
                         => floodIps[n].age > FloodPeriod]_vars

(* A throttled address is always admitted again: however many threads keep *)
(* failing, its entries expire and are pruned.                             *)
AlwaysAdmittedAgain ==
  \A ip \in Ips : []<>(Cardinality(AttemptsOf(ip)) < FloodCount)
=============================================================================
