------------------------- MODULE FloodCounterProofs -------------------------
(* Theorems about FloodCounter, for any finite set of threads and nodes.   *)
EXTENDS FloodCounter, FiniteSetTheorems, TLAPS

Budget == FloodCount - 1 + Cardinality(Threads)

\* The sets that FloodBound counts are finite, in the current state and in the next.
LEMMA CountedSetsFinite ==
  ASSUME NEW S \in SUBSET Nodes, NEW T \in SUBSET Threads
  PROVE  /\ IsFiniteSet(S) /\ Cardinality(S) \in Nat
         /\ IsFiniteSet(T) /\ Cardinality(T) \in Nat
         /\ Cardinality(T) =< Cardinality(Threads)
         /\ Cardinality(Threads) \in Nat
  BY FS_Subset, FS_CardinalityType, FloodAssumption

\* A step that adds neither an entry nor a pending check keeps the bound.
LEMMA ShrinkKeepsBound ==
  ASSUME NEW S1 \in SUBSET Nodes, NEW T1 \in SUBSET Threads,
         NEW S2 \in SUBSET S1, NEW T2 \in SUBSET T1,
         Cardinality(S1) + Cardinality(T1) =< Budget
  PROVE  Cardinality(S2) + Cardinality(T2) =< Budget
<1>1. Cardinality(S2) =< Cardinality(S1) /\ Cardinality(T2) =< Cardinality(T1)
  BY CountedSetsFinite, FS_Subset
<1>2. /\ Cardinality(S1) \in Nat /\ Cardinality(S2) \in Nat
      /\ Cardinality(T1) \in Nat /\ Cardinality(T2) \in Nat
      /\ Cardinality(Threads) \in Nat
  <2>1. S2 \in SUBSET Nodes /\ T2 \in SUBSET Threads
    OBVIOUS
  <2>2. QED
    BY <2>1, CountedSetsFinite
<1>3. QED
  BY <1>1, <1>2, FloodAssumption DEF Budget

\* A thread that passed the check may turn its permission into one entry.
LEMMA ExchangeKeepsBound ==
  ASSUME NEW S \in SUBSET Nodes, NEW T \in SUBSET Threads,
         NEW n \in Nodes \ S, NEW t \in T,
         Cardinality(S) + Cardinality(T) =< Budget
  PROVE  Cardinality(S \cup {n}) + Cardinality(T \ {t}) =< Budget
<1>1. IsFiniteSet(S) /\ IsFiniteSet(T)
  BY CountedSetsFinite
<1>2. /\ Cardinality(S \cup {n}) = Cardinality(S) + 1
      /\ Cardinality(T \ {t}) = Cardinality(T) - 1
  BY <1>1, FS_AddElement, FS_RemoveElement
<1>3. /\ Cardinality(S) \in Nat /\ Cardinality(T) \in Nat
      /\ Cardinality(Threads) \in Nat
  BY CountedSetsFinite
<1>4. QED
  BY <1>2, <1>3, FloodAssumption DEF Budget

\* The read under the lock: below FloodCount there is room for every thread.
LEMMA AdmissionKeepsBound ==
  ASSUME NEW S \in SUBSET Nodes, NEW T \in SUBSET Threads,
         Cardinality(S) < FloodCount
  PROVE  Cardinality(S) + Cardinality(T) =< Budget
BY CountedSetsFinite, FloodAssumption DEF Budget

-----------------------------------------------------------------------------
\* The variables of FloodCounter keep their types.
THEOREM TypeCorrect == Spec => []TypeOK
<1>1. Init => TypeOK
  BY DEF Init, TypeOK
<1>2. TypeOK /\ [Next]_vars => TypeOK'
  <2> SUFFICES ASSUME TypeOK, [Next]_vars
               PROVE  TypeOK'
    OBVIOUS
  <2> USE FloodAssumption DEF TypeOK, Entry, MaxAge, Live
  <2>1. ASSUME NEW t \in Threads, NEW ip \in Ips, CheckFlood(t, ip)
        PROVE  TypeOK'
    BY <2>1 DEF CheckFlood
  <2>2. ASSUME NEW t \in Threads, Accept(t)
        PROVE  TypeOK'
    BY <2>2 DEF Accept
  <2>3. ASSUME NEW t \in Threads, AddAttempt(t)
        PROVE  TypeOK'
    BY <2>3 DEF AddAttempt
  <2>4. CASE SamplePrune
    BY <2>4 DEF SamplePrune, Expired
  <2>5. CASE ErasePrune
    BY <2>5 DEF ErasePrune
  <2>6. CASE Tick
    <3>1. ASSUME NEW n \in Nodes, n \in Live, floodIps[n].age < MaxAge
          PROVE  [floodIps[n] EXCEPT !.age = @ + 1] \in Entry
      <4>1. floodIps[n] \in Entry
        BY <3>1 DEF Live
      <4>2. floodIps[n].age + 1 \in 0..MaxAge
        BY <4>1, <3>1
      <4>3. QED
        BY <4>1, <4>2
    <3>2. floodIps' \in [Nodes -> Entry \cup {NoEntry}]
      BY <2>6, <3>1 DEF Tick, Live
    <3>3. QED
      BY <2>6, <3>2 DEF Tick
  <2>7. CASE UNCHANGED vars
    BY <2>7 DEF vars
  <2>8. QED
    BY <2>1, <2>2, <2>3, <2>4, <2>5, <2>6, <2>7 DEF Next
<1>3. QED
  BY <1>1, <1>2, PTL DEF Spec

-----------------------------------------------------------------------------
(* However the threads interleave, an address never collects more than     *)
(* FloodCount - 1 + |Threads| entries and pending checks.                  *)
THEOREM FloodBoundHolds == Spec => []FloodBound
<1> USE DEF Budget
<1>1. Init => FloodBound
  <2> SUFFICES ASSUME Init, NEW ip \in Ips
               PROVE  Cardinality(AttemptsOf(ip)) + Cardinality(Authenticating(ip)) =< Budget
    BY DEF FloodBound
  <2>1. AttemptsOf(ip) = {} /\ Authenticating(ip) = {}
    BY DEF Init, AttemptsOf, Live, Authenticating
  <2>2. Cardinality({}) = 0
    BY FS_EmptySet
  <2>3. QED
    BY <2>1, <2>2, FS_CardinalityType, FloodAssumption
<1>2. TypeOK /\ FloodBound /\ [Next]_vars => FloodBound'
  <2> SUFFICES ASSUME TypeOK, FloodBound, [Next]_vars, NEW ip \in Ips
               PROVE  Cardinality(AttemptsOf(ip)') + Cardinality(Authenticating(ip)') =< Budget
    BY DEF FloodBound
  <2> DEFINE S == AttemptsOf(ip)
             T == Authenticating(ip)
  <2>0. /\ S \in SUBSET Nodes /\ T \in SUBSET Threads
        /\ Cardinality(S) + Cardinality(T) =< Budget
    BY DEF FloodBound, AttemptsOf, Live, Authenticating
  <2>1. ASSUME NEW t \in Threads, NEW ip2 \in Ips, CheckFlood(t, ip2)
        PROVE  Cardinality(S') + Cardinality(T') =< Budget
    <3>1. S' = S
      BY <2>1 DEF CheckFlood, AttemptsOf, Live
    <3>2. T' \in SUBSET Threads
      BY DEF Authenticating
    <3>3. CASE ip2 = ip
      BY <2>0, <2>1, <3>1, <3>2, <3>3, AdmissionKeepsBound DEF CheckFlood
    <3>4. CASE ip2 # ip
      <4>1. T' \in SUBSET T
        BY <2>1, <3>4 DEF CheckFlood, Authenticating, TypeOK
      <4>2. QED
        BY <2>0, <3>1, <4>1, ShrinkKeepsBound
    <3>5. QED
      BY <3>3, <3>4
  <2>2. ASSUME NEW t \in Threads, Accept(t)
        PROVE  Cardinality(S') + Cardinality(T') =< Budget
    <3>1. S' = S
      BY <2>2 DEF Accept, AttemptsOf, Live
    <3>2. T' \in SUBSET T
      BY <2>2 DEF Accept, Authenticating, TypeOK
    <3>3. QED
      BY <2>0, <3>1, <3>2, ShrinkKeepsBound
  <2>3. ASSUME NEW t \in Threads, AddAttempt(t)
        PROVE  Cardinality(S') + Cardinality(T') =< Budget
    <3>1. PICK n \in Nodes \ Live :
            floodIps' = [floodIps EXCEPT ![n] = [ip |-> addr[t], age |-> 0]]
      BY <2>3 DEF AddAttempt
    <3>2a. [ip |-> addr[t], age |-> 0] # NoEntry
      BY FloodAssumption DEF TypeOK
    <3>2. CASE addr[t] = ip
      <4>1. n \in Nodes \ S /\ t \in T
        BY <3>1, <3>2, <2>3 DEF AddAttempt, AttemptsOf, Authenticating
      <4>2. S' = S \cup {n}
        BY <3>1, <3>2a, <3>2 DEF AttemptsOf, Live, TypeOK
      <4>3. T' = T \ {t}
        BY <2>3 DEF AddAttempt, Authenticating, TypeOK
      <4>4. QED
        BY <2>0, <4>1, <4>2, <4>3, ExchangeKeepsBound
    <3>3. CASE addr[t] # ip
      <4>1. S' = S
        BY <3>1, <3>2a, <3>3 DEF AttemptsOf, Live, TypeOK
      <4>2. T' \in SUBSET T
        BY <2>3 DEF AddAttempt, Authenticating, TypeOK
      <4>3. QED
        BY <2>0, <4>1, <4>2, ShrinkKeepsBound
    <3>4. QED
      BY <3>2, <3>3
  <2>4. CASE SamplePrune
    <3>1. S' = S /\ T' = T
      BY <2>4 DEF SamplePrune, AttemptsOf, Live, Authenticating
    <3>2. QED
      BY <2>0, <3>1
  <2>5. CASE ErasePrune
    <3>1. S' \in SUBSET S
      BY <2>5 DEF ErasePrune, AttemptsOf, Live
    <3>2. T' = T
      BY <2>5 DEF ErasePrune, Authenticating
    <3>3. QED
      BY <2>0, <3>1, <3>2, ShrinkKeepsBound
  <2>6. CASE Tick
    <3>1. ASSUME NEW n \in Nodes
          PROVE  /\ n \in Live' <=> n \in Live
                 /\ n \in Live => floodIps'[n].ip = floodIps[n].ip
      <4>1. CASE n \in Live /\ floodIps[n].age < MaxAge
        <5>1. floodIps[n] \in Entry
          BY <4>1 DEF Live, TypeOK
        <5>2. floodIps'[n] = [floodIps[n] EXCEPT !.age = @ + 1]
          BY <2>6, <4>1 DEF Tick
        <5>3. floodIps'[n] \in [ip : Ips, age : Nat] /\ floodIps'[n].ip = floodIps[n].ip
          BY <5>1, <5>2, FloodAssumption DEF Entry, MaxAge
        <5>4. QED
          BY <4>1, <5>3, FloodAssumption DEF Live
      <4>2. CASE ~(n \in Live /\ floodIps[n].age < MaxAge)
        BY <2>6, <4>2 DEF Tick, Live
      <4>3. QED
        BY <4>1, <4>2
    <3>2. S' = S
      BY <3>1 DEF AttemptsOf, Live
    <3>3. T' = T
      BY <2>6 DEF Tick, Authenticating
    <3>4. QED
      BY <2>0, <3>2, <3>3
  <2>7. CASE UNCHANGED vars
    <3>1. S' = S /\ T' = T
      BY <2>7 DEF vars, AttemptsOf, Live, Authenticating
    <3>2. QED
      BY <2>0, <3>1
  <2>8. QED
    BY <2>1, <2>2, <2>3, <2>4, <2>5, <2>6, <2>7 DEF Next
<1>3. QED
  BY <1>1, <1>2, TypeCorrect, PTL DEF Spec

-----------------------------------------------------------------------------
(* Nothing touches the entries that a running prune has settled on, except *)
(* prune itself: time cannot make them younger and no node is reused.      *)
THEOREM DoomedHolds == Spec => []DoomedAreExpired
<1>1. Init => DoomedAreExpired
  BY DEF Init, DoomedAreExpired
<1>2. TypeOK /\ DoomedAreExpired /\ [Next]_vars => DoomedAreExpired'
  <2> SUFFICES ASSUME TypeOK, DoomedAreExpired, [Next]_vars, NEW n \in doomed'
               PROVE  n \in Live' /\ floodIps'[n].age = MaxAge
    BY DEF DoomedAreExpired
  <2> USE DEF DoomedAreExpired, Live
  <2>1. ASSUME NEW t \in Threads, Accept(t) \/ \E ip \in Ips : CheckFlood(t, ip)
        PROVE  n \in Live' /\ floodIps'[n].age = MaxAge
    BY <2>1 DEF CheckFlood, Accept
  <2>2. ASSUME NEW t \in Threads, AddAttempt(t)
        PROVE  n \in Live' /\ floodIps'[n].age = MaxAge
    BY <2>2 DEF AddAttempt, TypeOK
  <2>3. CASE SamplePrune
    <3>1. Expired(n)
      BY <2>3 DEF SamplePrune
    <3>2. floodIps[n] \in Entry
      BY <3>1 DEF Expired, TypeOK
    <3>3. QED
      BY <2>3, <3>1, <3>2, FloodAssumption DEF SamplePrune, Expired, Entry, MaxAge
  <2>4. CASE ErasePrune
    BY <2>4 DEF ErasePrune
  <2>5. CASE Tick
    <3>1. n \in Live /\ floodIps[n].age = MaxAge
      BY <2>5 DEF Tick
    <3>2. ~(floodIps[n].age < MaxAge)
      BY <3>1, FloodAssumption DEF MaxAge
    <3>3. floodIps'[n] = floodIps[n]
      BY <2>5, <3>1, <3>2 DEF Tick
    <3>4. QED
      BY <3>1, <3>3
  <2>6. CASE UNCHANGED vars
    BY <2>6 DEF vars
  <2>7. QED
    BY <2>1, <2>2, <2>3, <2>4, <2>5, <2>6 DEF Next
<1>3. QED
  BY <1>1, <1>2, TypeCorrect, PTL DEF Spec

(* prune never erases an attempt that is still within FLOOD_PERIOD, and no *)
(* other step erases anything.                                             *)
THEOREM NoEarlyForgivenessHolds == Spec => NoEarlyForgiveness
<1>1. TypeOK /\ DoomedAreExpired /\ [Next]_vars
        => [\A n \in Nodes : n \in Live /\ n \notin Live'
                               => floodIps[n].age > FloodPeriod]_vars
  <2> SUFFICES ASSUME TypeOK, DoomedAreExpired, Next,
                      NEW n \in Nodes, n \in Live, n \notin Live'
               PROVE  floodIps[n].age > FloodPeriod
    OBVIOUS
  <2> USE DEF Live
  <2>1. ASSUME NEW t \in Threads, Accept(t) \/ \E ip \in Ips : CheckFlood(t, ip)
        PROVE  FALSE
    BY <2>1 DEF CheckFlood, Accept
  <2>2. ASSUME NEW t \in Threads, AddAttempt(t)
        PROVE  FALSE
    BY <2>2 DEF AddAttempt, TypeOK
  <2>3. CASE SamplePrune
    BY <2>3 DEF SamplePrune
  <2>4. CASE ErasePrune
    <3>1. n \in doomed
      BY <2>4 DEF ErasePrune
    <3>2. QED
      BY <3>1, FloodAssumption DEF DoomedAreExpired, MaxAge
  <2>5. CASE Tick
    <3>1. CASE floodIps[n].age < MaxAge
      <4>1. floodIps'[n] = [floodIps[n] EXCEPT !.age = @ + 1]
        BY <2>5, <3>1 DEF Tick
      <4>2. floodIps[n] \in Entry
        BY DEF TypeOK
      <4>3. floodIps'[n] \in [ip : Ips, age : Nat]
        BY <4>1, <4>2, FloodAssumption DEF Entry, MaxAge
      <4>4. QED
        BY <4>3, FloodAssumption
    <3>2. CASE ~(floodIps[n].age < MaxAge)
      BY <2>5, <3>2 DEF Tick
    <3>3. QED
      BY <3>1, <3>2
  <2>6. QED
    BY <2>1, <2>2, <2>3, <2>4, <2>5 DEF Next
<1>2. QED
  BY <1>1, TypeCorrect, DoomedHolds, PTL DEF Spec, NoEarlyForgiveness
=============================================================================
