---------------------- MODULE ResourceSchedulerProofs ----------------------
(***************************************************************************)
(* Proofs about ResourceScheduler, for every population of jobs and every   *)
(* choice of limits.  The inductive invariant is IndInv: types, exactness   *)
(* of the incremental counters, and the limits themselves.  Exactness is    *)
(* what carries the argument: _fits compares counters with limits, so the   *)
(* limits hold of the running jobs only because the counters are the sums   *)
(* over the active table.                                                   *)
(***************************************************************************)
EXTENDS ResourceScheduler, SumLemmas, TLAPS

IndInv == TypeOK /\ CountersExact /\ NeverOversubscribed /\ ExclusiveRunsAlone

(* The walk of _should_admit only ever adds tentative usage: what fits on   *)
(* top of some tentatively started jobs fits on the running jobs alone.     *)
LEMMA FitsAlone ==
  ASSUME TypeOK, NEW j \in Jobs, NEW taken \in SUBSET Jobs, Fits(j, taken)
  PROVE  Fits(j, {})
<1>. USE ProfileAssumption, LimitAssumption
<1>1. IsFiniteSet(taken) /\ IsFiniteSet(active) /\ IsFiniteSet(active \cup taken)
  BY FS_Subset DEF TypeOK
<1>2. SumFunctionOnSet(Memory, taken) \in Nat /\ SumFunctionOnSet(Threads, taken) \in Nat
  <2>1. Memory \in [Jobs -> Nat] /\ Threads \in [Jobs -> Nat]  OBVIOUS
  <2>. QED  BY <1>1, <2>1, SumNat
<1>3. SumFunctionOnSet(Memory, {}) = 0 /\ SumFunctionOnSet(Threads, {}) = 0
  BY SumEmpty
<1>. DEFINE S == {v \in taken : Solver[v] = Solver[j]}
<1>4. Cardinality(S) \in Nat
  <2>1. IsFiniteSet(S)  BY <1>1, FS_Subset
  <2>. QED  BY <2>1, FS_CardinalityType
<1>5. {v \in {} : Solver[v] = Solver[j]} = {} /\ Cardinality({}) = 0
  BY FS_EmptySet
<1>6. /\ Cardinality(active) \in Nat
      /\ Cardinality(active \cup taken) \in Nat
      /\ Cardinality(active) <= Cardinality(active \cup taken)
  BY <1>1, FS_CardinalityType, FS_Subset
<1>7. bySolver[Solver[j]] \in Nat /\ Cap[Solver[j]] \in Nat /\ reserved \in Nat
      /\ threads \in Nat /\ Memory[j] \in Nat /\ Threads[j] \in Nat
      /\ Aggregate \in Nat /\ MaxThreads \in Nat /\ MaxActive \in Nat
  BY DEF TypeOK
<1>8. Feasible(j) /\ (IF j \in Exclusive THEN active \cup taken = {}
                                          ELSE (active \cup taken) \cap Exclusive = {})
  BY DEF Fits
<1>9. IF j \in Exclusive THEN active \cup {} = {} ELSE (active \cup {}) \cap Exclusive = {}
  BY <1>8
<1>10. bySolver[Solver[j]] + Cardinality({v \in {} : Solver[v] = Solver[j]}) < Cap[Solver[j]]
  <2>1. bySolver[Solver[j]] + Cardinality(S) < Cap[Solver[j]]  BY DEF Fits
  <2>. HIDE DEF S
  <2>. QED  BY <2>1, <1>4, <1>5, <1>7
<1>11. Cardinality(active \cup {}) < MaxActive
  <2>1. Cardinality(active \cup taken) < MaxActive  BY DEF Fits
  <2>2. active \cup {} = active  OBVIOUS
  <2>. QED  BY <2>1, <2>2, <1>6, <1>7
<1>12. reserved + SumFunctionOnSet(Memory, {}) + Memory[j] <= Aggregate
  <2>1. reserved + SumFunctionOnSet(Memory, taken) + Memory[j] <= Aggregate  BY DEF Fits
  <2>. QED  BY <2>1, <1>2, <1>3, <1>7
<1>13. threads + SumFunctionOnSet(Threads, {}) + Threads[j] <= MaxThreads
  <2>1. threads + SumFunctionOnSet(Threads, taken) + Threads[j] <= MaxThreads  BY DEF Fits
  <2>. QED  BY <2>1, <1>2, <1>3, <1>7
<1>. QED  BY <1>8, <1>9, <1>10, <1>11, <1>12, <1>13 DEF Fits

-----------------------------------------------------------------------------
(* The waiter table keeps its shape under registration, removal and ageing. *)

Table(ws) == DOMAIN ws \subseteq Jobs /\ ws \in [DOMAIN ws -> Waiter]

(* acquire leaves the waiter table a table of well-typed waiters.           *)
LEMMA RegisteredTable ==
  ASSUME TypeOK, NEW j \in Jobs
  PROVE  Table(Registered(j)) /\ DOMAIN Registered(j) = Waiting \cup {j}
<1>1. [tier |-> Priority[j], skips |-> 0, before |-> Waiting] \in Waiter
  BY ProfileAssumption, LimitAssumption DEF TypeOK, Waiter
<1>2. \A v \in Waiting : waiters[v] \in Waiter  BY DEF TypeOK
<1>. QED  BY <1>1, <1>2 DEF Table, Registered, TypeOK

(* So does taking a waiter out of it.                                       *)
LEMMA WithoutTable ==
  ASSUME NEW ws, Table(ws), NEW j \in Jobs
  PROVE  Table(Without(ws, j)) /\ DOMAIN Without(ws, j) = DOMAIN ws \ {j}
<1>1. ASSUME NEW v \in DOMAIN ws PROVE [ws[v] EXCEPT !.before = @ \ {j}] \in Waiter
  <2>1. ws[v] \in Waiter  BY DEF Table
  <2>. QED  BY <2>1 DEF Waiter
<1>. QED  BY <1>1 DEF Table, Without

(* So does ageing, which counts skips and lowers tiers.                     *)
LEMMA AgedTable ==
  ASSUME NEW ws, Table(ws)
  PROVE  Table(Aged(ws)) /\ DOMAIN Aged(ws) = DOMAIN ws
<1>1. ASSUME NEW v \in DOMAIN ws PROVE AgedWaiter(v, ws[v]) \in Waiter
  <2>1. ws[v] \in Waiter  BY DEF Table
  <2>2. Priority[v] \in Int  BY ProfileAssumption DEF Table
  <2>3. AgingAfterSkips \in Nat \ {0}  BY LimitAssumption
  <2>. QED  BY <2>1, <2>2, <2>3 DEF Waiter, AgedWaiter
<1>. QED  BY <1>1 DEF Table, Aged

-----------------------------------------------------------------------------
(* Admission preserves the invariant: the job that is started fits on the   *)
(* running jobs, and each counter grows by exactly its share.               *)
LEMMA ActivateInv ==
  ASSUME IndInv, NEW j \in Jobs, NEW ws, Table(ws), DOMAIN ws = Waiting \cup {j},
         j \notin active, j \notin finished, Activate(j, ws)
  PROVE  IndInv'
<1>. USE ProfileAssumption, LimitAssumption
<1>1. Fits(j, {})
  <2>1. PICK taken \in SUBSET Ahead(ws, j) : Fits(j, taken)
    BY DEF Activate, ShouldAdmit
  <2>2. taken \in SUBSET Jobs  BY DEF Ahead, Table
  <2>. QED  BY <2>1, <2>2, FitsAlone DEF IndInv
<1>2. active' = active \cup {j} /\ IsFiniteSet(active) /\ active \in SUBSET Jobs
  BY FS_Subset DEF Activate, IndInv, TypeOK
<1>3. TypeOK'
  <2>1. Table(waiters') /\ DOMAIN waiters' = Waiting \ {j}
    <3>1. Table(Without(ws, j)) /\ DOMAIN Without(ws, j) = DOMAIN ws \ {j}
      BY WithoutTable
    <3>2. Table(Aged(Without(ws, j))) /\ DOMAIN Aged(Without(ws, j)) = DOMAIN ws \ {j}
      BY <3>1, AgedTable
    <3>. QED  BY <3>2 DEF Activate
  <2>2. reserved' \in Nat /\ threads' \in Nat /\ bySolver' \in [Solvers -> Nat]
    BY DEF Activate, IndInv, TypeOK
  <2>3. cancelled' = cancelled /\ finished' = finished  BY DEF Activate
  <2>. QED  BY <1>2, <2>1, <2>2, <2>3 DEF IndInv, TypeOK, Table, Waiting
<1>4. CountersExact'
  <2>1. reserved' = SumFunctionOnSet(Memory, active')
    <3>1. Memory \in [Jobs -> Int] /\ j \in Jobs \ active  OBVIOUS
    <3>2. SumFunctionOnSet(Memory, active \cup {j}) = Memory[j] + SumFunctionOnSet(Memory, active)
      BY <1>2, <3>1, SumAdd
    <3>3. reserved' = reserved + Memory[j] /\ reserved = SumFunctionOnSet(Memory, active)
          /\ reserved \in Nat /\ Memory[j] \in Nat
      BY DEF Activate, IndInv, CountersExact, TypeOK
    <3>. QED  BY <1>2, <3>2, <3>3
  <2>2. threads' = SumFunctionOnSet(Threads, active')
    <3>1. Threads \in [Jobs -> Int] /\ j \in Jobs \ active  OBVIOUS
    <3>2. SumFunctionOnSet(Threads, active \cup {j}) = Threads[j] + SumFunctionOnSet(Threads, active)
      BY <1>2, <3>1, SumAdd
    <3>3. threads' = threads + Threads[j] /\ threads = SumFunctionOnSet(Threads, active)
          /\ threads \in Nat /\ Threads[j] \in Nat
      BY DEF Activate, IndInv, CountersExact, TypeOK
    <3>. QED  BY <1>2, <3>2, <3>3
  <2>3. ASSUME NEW s \in Solvers PROVE bySolver'[s] = Cardinality(RunningOf(s)')
    <3>1. bySolver[s] = Cardinality(RunningOf(s)) /\ bySolver \in [Solvers -> Nat]
      BY DEF IndInv, CountersExact, TypeOK
    <3>2. IsFiniteSet(RunningOf(s)) /\ j \notin RunningOf(s)
      BY <1>2, FS_Subset DEF RunningOf
    <3>3. CASE Solver[j] = s
      <4>1. RunningOf(s)' = RunningOf(s) \cup {j}  BY <1>2, <3>3 DEF RunningOf
      <4>2. bySolver'[s] = bySolver[s] + 1  BY <3>1, <3>3 DEF Activate
      <4>3. Cardinality(RunningOf(s) \cup {j}) = Cardinality(RunningOf(s)) + 1
        BY ONLY <3>2, FS_AddElement
      <4>. QED  BY ONLY <3>1, <4>1, <4>2, <4>3
    <3>4. CASE Solver[j] # s
      <4>1. RunningOf(s)' = RunningOf(s)  BY <1>2, <3>4 DEF RunningOf
      <4>2. bySolver'[s] = bySolver[s]  BY <3>1, <3>4 DEF Activate
      <4>. QED  BY <3>1, <4>1, <4>2
    <3>. QED  BY <3>3, <3>4
  <2>. QED  BY <2>1, <2>2, <2>3 DEF CountersExact
<1>5. NeverOversubscribed'
  <2>1. SumFunctionOnSet(Memory, {}) = 0 /\ SumFunctionOnSet(Threads, {}) = 0
        /\ Cardinality({}) = 0 /\ {v \in {} : Solver[v] = Solver[j]} = {}
        /\ active \cup {} = active
    BY SumEmpty, FS_EmptySet
  <2>2. reserved' <= Aggregate /\ threads' <= MaxThreads
    BY <1>1, <2>1 DEF Fits, Activate, IndInv, TypeOK
  <2>3. Cardinality(active') <= MaxActive
    <3>1. Cardinality(active) < MaxActive  BY <1>1, <2>1 DEF Fits
    <3>2. Cardinality(active') = Cardinality(active) + 1  BY <1>2, FS_AddElement
    <3>3. Cardinality(active) \in Nat /\ MaxActive \in Nat  BY <1>2, FS_CardinalityType
    <3>. QED  BY <3>1, <3>2, <3>3
  <2>4. ASSUME NEW s \in Solvers PROVE bySolver'[s] <= Cap[s]
    <3>1. bySolver[s] <= Cap[s] /\ bySolver \in [Solvers -> Nat]
      BY DEF IndInv, NeverOversubscribed, CountersExact, TypeOK
    <3>2. bySolver[Solver[j]] < Cap[Solver[j]]
      <4>1. bySolver[Solver[j]] + 0 < Cap[Solver[j]]  BY <1>1, <2>1 DEF Fits
      <4>. QED  BY <3>1, <4>1
    <3>. QED  BY <3>1, <3>2 DEF Activate
  <2>. QED  BY <1>4, <2>2, <2>3, <2>4 DEF NeverOversubscribed, CountersExact
<1>6. ExclusiveRunsAlone'
  <2>1. IF j \in Exclusive THEN active = {} ELSE active \cap Exclusive = {}
    BY <1>1 DEF Fits
  <2>. QED  BY <1>2, <2>1 DEF ExclusiveRunsAlone
<1>. QED  BY <1>3, <1>4, <1>5, <1>6 DEF IndInv

(* A release gives back exactly what the job's admission took; the max(0, _) *)
(* of the code never bites.                                                  *)
LEMMA ReleaseInv ==
  ASSUME IndInv, NEW j \in Jobs, Release(j)
  PROVE  IndInv'
<1>. USE ProfileAssumption, LimitAssumption
<1>1. /\ j \in active /\ active' = active \ {j}
      /\ IsFiniteSet(active) /\ active \in SUBSET Jobs
  BY FS_Subset DEF Release, IndInv, TypeOK
<1>2. IsFiniteSet(active') /\ active' \in SUBSET Jobs  BY <1>1, FS_Subset
<1>3. reserved' = SumFunctionOnSet(Memory, active') /\ reserved' <= reserved
      /\ reserved' \in Nat
  <2>1. Memory \in [Jobs -> Int] /\ Memory \in [Jobs -> Nat]  OBVIOUS
  <2>2. SumFunctionOnSet(Memory, active) = Memory[j] + SumFunctionOnSet(Memory, active')
    BY <1>1, <2>1, SumRemove
  <2>3. SumFunctionOnSet(Memory, active') \in Nat  BY <1>2, <2>1, SumNat
  <2>4. reserved = SumFunctionOnSet(Memory, active) /\ Memory[j] \in Nat
    BY DEF IndInv, CountersExact
  <2>. QED  BY <2>2, <2>3, <2>4 DEF Release, AtLeastZero
<1>4. threads' = SumFunctionOnSet(Threads, active') /\ threads' <= threads
      /\ threads' \in Nat
  <2>1. Threads \in [Jobs -> Int] /\ Threads \in [Jobs -> Nat]  OBVIOUS
  <2>2. SumFunctionOnSet(Threads, active) = Threads[j] + SumFunctionOnSet(Threads, active')
    BY <1>1, <2>1, SumRemove
  <2>3. SumFunctionOnSet(Threads, active') \in Nat  BY <1>2, <2>1, SumNat
  <2>4. threads = SumFunctionOnSet(Threads, active) /\ Threads[j] \in Nat
    BY DEF IndInv, CountersExact
  <2>. QED  BY <2>2, <2>3, <2>4 DEF Release, AtLeastZero
<1>5. bySolver' \in [Solvers -> Nat] /\ \A s \in Solvers : bySolver'[s] <= bySolver[s]
  BY DEF Release, AtLeastZero, IndInv, TypeOK
<1>6. ASSUME NEW s \in Solvers PROVE bySolver'[s] = Cardinality(RunningOf(s)')
  <2>1. bySolver[s] = Cardinality(RunningOf(s)) /\ bySolver \in [Solvers -> Nat]
    BY DEF IndInv, CountersExact, TypeOK
  <2>2. IsFiniteSet(RunningOf(s))  BY <1>1, FS_Subset DEF RunningOf
  <2>3. CASE Solver[j] = s
    <3>1. RunningOf(s)' = RunningOf(s) \ {j} /\ j \in RunningOf(s)
      BY <1>1, <2>3 DEF RunningOf
    <3>2. Cardinality(RunningOf(s)') = Cardinality(RunningOf(s)) - 1
          /\ Cardinality(RunningOf(s)') \in Nat
      BY <2>2, <3>1, FS_RemoveElement, FS_CardinalityType
    <3>3. bySolver'[s] = AtLeastZero(bySolver[s] - 1)  BY <2>1, <2>3 DEF Release
    <3>. QED  BY <2>1, <3>2, <3>3 DEF AtLeastZero
  <2>4. CASE Solver[j] # s
    <3>1. RunningOf(s)' = RunningOf(s)  BY <1>1, <2>4 DEF RunningOf
    <3>2. bySolver'[s] = bySolver[s]  BY <2>1, <2>4 DEF Release
    <3>. QED  BY <2>1, <3>1, <3>2
  <2>. QED  BY <2>3, <2>4
<1>7. TypeOK'
  <2>1. cancelled' \subseteq Jobs /\ finished' \subseteq finished \cup {j} /\ waiters' = waiters
    BY DEF Release, Retire, IndInv, TypeOK
  <2>. QED  BY <1>1, <1>3, <1>4, <1>5, <2>1 DEF IndInv, TypeOK, Waiting
<1>8. CountersExact'  BY <1>3, <1>4, <1>6 DEF CountersExact
<1>9. NeverOversubscribed'
  <2>1. Cardinality(active') <= Cardinality(active) /\ Cardinality(active) \in Nat
        /\ Cardinality(active') \in Nat
    BY <1>1, <1>2, FS_Subset, FS_CardinalityType
  <2>2. Cardinality(active') <= MaxActive
    BY <2>1 DEF IndInv, NeverOversubscribed
  <2>3. reserved' <= Aggregate /\ threads' <= MaxThreads
    BY <1>3, <1>4 DEF IndInv, NeverOversubscribed, CountersExact, TypeOK
  <2>4. \A s \in Solvers : bySolver'[s] <= Cap[s]
    BY <1>5 DEF IndInv, NeverOversubscribed, CountersExact, TypeOK
  <2>. QED  BY <1>3, <1>4, <1>6, <2>2, <2>3, <2>4 DEF NeverOversubscribed
<1>10. ExclusiveRunsAlone'  BY <1>1 DEF IndInv, ExclusiveRunsAlone
<1>. QED  BY <1>7, <1>8, <1>9, <1>10 DEF IndInv

(* Steps that leave the active table and its counters alone only have to     *)
(* keep the types.                                                           *)
LEMMA QuietInv ==
  ASSUME IndInv, UNCHANGED <<active, reserved, threads, bySolver>>, TypeOK'
  PROVE  IndInv'
BY DEF IndInv, CountersExact, NeverOversubscribed, ExclusiveRunsAlone, RunningOf

(* Whatever a woken waiter finds, it keeps the invariant.                   *)
LEMMA TurnInv ==
  ASSUME IndInv, NEW j \in Jobs, NEW ws, Table(ws), DOMAIN ws = Waiting \cup {j},
         j \notin active, j \notin finished, Turn(j, ws)
  PROVE  IndInv'
<1>1. CASE Activate(j, ws)  BY <1>1, ActivateInv
<1>2. CASE GiveUp(j, ws)
  <2>1. Table(waiters') /\ DOMAIN waiters' = DOMAIN ws \ {j}
    BY <1>2, WithoutTable DEF GiveUp
  <2>2. TypeOK'
    BY <1>2, <2>1 DEF GiveUp, Retire, IndInv, TypeOK, Table, Waiting
  <2>. QED  BY <1>2, <2>2, QuietInv DEF GiveUp
<1>3. CASE KeepWaiting(j, ws)
  <2>1. TypeOK'  BY <1>3 DEF KeepWaiting, IndInv, TypeOK, Table, Waiting
  <2>. QED  BY <1>3, <2>1, QuietInv DEF KeepWaiting
<1>. QED  BY <1>1, <1>2, <1>3 DEF Turn

(* Every step keeps the invariant.                                          *)
LEMMA StepInv == IndInv /\ [Next]_vars => IndInv'
<1>. SUFFICES ASSUME IndInv, [Next]_vars PROVE IndInv'  OBVIOUS
<1>1. ASSUME NEW j \in Jobs, Acquire(j) PROVE IndInv'
  <2>1. Table(Registered(j)) /\ DOMAIN Registered(j) = Waiting \cup {j}
    BY RegisteredTable DEF IndInv
  <2>. QED  BY <1>1, <2>1, TurnInv DEF Acquire
<1>2. ASSUME NEW j \in Jobs, Poll(j) PROVE IndInv'
  <2>1. Table(waiters) /\ DOMAIN waiters = Waiting \cup {j}
        /\ j \notin active /\ j \notin finished
    BY <1>2 DEF IndInv, TypeOK, Table, Poll, Waiting
  <2>. QED  BY <1>2, <2>1, TurnInv DEF Poll
<1>3. ASSUME NEW j \in Jobs, Release(j) PROVE IndInv'  BY <1>3, ReleaseInv
<1>4. ASSUME NEW j \in Jobs, Cancel(j) PROVE IndInv'
  <2>1. TypeOK'  BY <1>4 DEF Cancel, IndInv, TypeOK, Waiting
  <2>. QED  BY <1>4, <2>1, QuietInv DEF Cancel
<1>5. CASE UNCHANGED vars
  <2>1. TypeOK'  BY <1>5 DEF vars, IndInv, TypeOK, Waiting
  <2>. QED  BY <1>5, <2>1, QuietInv DEF vars
<1>. QED  BY <1>1, <1>2, <1>3, <1>4, <1>5 DEF Next

(* The idle scheduler satisfies the invariant: its sums are over no job.    *)
LEMMA InitInv == Init => IndInv
<1>. SUFFICES ASSUME Init PROVE IndInv  OBVIOUS
<1>. USE ProfileAssumption, LimitAssumption DEF Init
<1>1. TypeOK
  <2>1. DOMAIN waiters = {}  OBVIOUS
  <2>. QED  BY <2>1 DEF TypeOK, Waiting
<1>2. CountersExact
  <2>1. \A s \in Solvers : RunningOf(s) = {}  BY DEF RunningOf
  <2>. QED  BY <2>1, SumEmpty, FS_EmptySet DEF CountersExact
<1>3. NeverOversubscribed
  <2>1. \A s \in Solvers : RunningOf(s) = {}  BY DEF RunningOf
  <2>2. /\ SumFunctionOnSet(Memory, {}) = 0 /\ SumFunctionOnSet(Threads, {}) = 0
        /\ Cardinality({}) = 0
    BY SumEmpty, FS_EmptySet
  <2>3. Aggregate \in Nat /\ MaxThreads \in Nat /\ MaxActive \in Nat
        /\ \A s \in Solvers : Cap[s] \in Nat
    OBVIOUS
  <2>4. active = {}  OBVIOUS
  <2>5. SumFunctionOnSet(Memory, active) <= Aggregate
        /\ SumFunctionOnSet(Threads, active) <= MaxThreads
    BY ONLY <2>2, <2>3, <2>4
  <2>6. Cardinality(active) <= MaxActive  BY ONLY <2>2, <2>3, <2>4
  <2>7. \A s \in Solvers : Cardinality(RunningOf(s)) <= Cap[s]
    BY ONLY <2>1, <2>2, <2>3
  <2>. QED  BY <2>5, <2>6, <2>7 DEF NeverOversubscribed
<1>4. ExclusiveRunsAlone  BY DEF ExclusiveRunsAlone
<1>. QED  BY <1>1, <1>2, <1>3, <1>4 DEF IndInv

-----------------------------------------------------------------------------
(* IndInv holds in every reachable state. *)
THEOREM Invariance == Spec => []IndInv
<1>1. Init => IndInv  BY InitInv
<1>2. IndInv /\ [Next]_vars => IndInv'  BY StepInv
<1>. QED  BY <1>1, <1>2, PTL DEF Spec

(* Every state the scheduler reaches is well typed, and a job's thread is    *)
(* waiting, running or finished, never two of these.                         *)
THEOREM TypeCorrect == Spec => []TypeOK
<1>1. IndInv => TypeOK  BY DEF IndInv
<1>. QED  BY <1>1, Invariance, PTL

(* The incremental counters always equal the usage of the active table.      *)
THEOREM CountersAreExact == Spec => []CountersExact
<1>1. IndInv => CountersExact  BY DEF IndInv
<1>. QED  BY <1>1, Invariance, PTL

(* Memory, threads, active slots and solver-family slots are never           *)
(* oversubscribed, for any limits and any population of jobs.                *)
THEOREM NoOversubscription == Spec => []NeverOversubscribed
<1>1. IndInv => NeverOversubscribed  BY DEF IndInv
<1>. QED  BY <1>1, Invariance, PTL

(* A job of an exclusive solver never shares the host with another job.      *)
THEOREM ExclusiveIsolation == Spec => []ExclusiveRunsAlone
<1>1. IndInv => ExclusiveRunsAlone  BY DEF IndInv
<1>. QED  BY <1>1, Invariance, PTL

-----------------------------------------------------------------------------
(* A waiter the memory keeps out stops the walk: whatever was tentatively    *)
(* started before it can only make it more blocked.                          *)
LEMMA BlockedStays ==
  ASSUME TypeOK, NEW v \in Jobs, NEW taken \in SUBSET Jobs, BlockedOnReservation(v, {})
  PROVE  BlockedOnReservation(v, taken)
<1>. USE ProfileAssumption, LimitAssumption
<1>1. IsFiniteSet(taken) /\ Memory \in [Jobs -> Nat]  BY FS_Subset
<1>2. SumFunctionOnSet(Memory, taken) \in Nat  BY <1>1, SumNat
<1>3. SumFunctionOnSet(Memory, {}) = 0  BY SumEmpty
<1>4. reserved \in Nat /\ Memory[v] \in Nat /\ Aggregate \in Nat  BY DEF TypeOK
<1>. QED  BY <1>2, <1>3, <1>4 DEF BlockedOnReservation

(* An admission passes no waiter that holds the line, whichever table it    *)
(* walks.                                                                   *)
LEMMA ActivateHoldsLine ==
  ASSUME TypeOK, NEW j \in Jobs, NEW ws, Table(ws), Activate(j, ws),
         NEW v \in Ahead(ws, j), ~Fits(v, {})
  PROVE  ~BlockedOnReservation(v, {})
<1>1. PICK taken \in SUBSET Ahead(ws, j) :
        \A u \in Ahead(ws, j) :
            LET sofar == taken \cap Ahead(ws, u)
            IN  /\ u \in taken <=> Fits(u, sofar)
                /\ u \in taken \/ ~BlockedOnReservation(u, sofar)
  BY DEF Activate, ShouldAdmit
<1>. DEFINE sofar == taken \cap Ahead(ws, v)
<1>2. sofar \in SUBSET Jobs /\ v \in Jobs  BY DEF Ahead, Table
<1>3. ~Fits(v, sofar)  BY <1>2, FitsAlone
<1>4. ~BlockedOnReservation(v, sofar)  BY <1>1, <1>3
<1>. HIDE DEF sofar
<1>. QED  BY <1>2, <1>4, BlockedStays

(* Whatever the tiers and the ageing, a waiter kept out by memory, or by the *)
(* need to run alone, is never overtaken by a job behind it in the order.    *)
THEOREM LineHeld == Spec => HeadOfLine
<1>1. IndInv /\ [Next]_vars => [LineIsHeld]_vars
  <2>. SUFFICES ASSUME IndInv, Next,
                       NEW j \in Jobs, Admitted(j), NEW v \in Overtaken(j), ~Fits(v, {})
                PROVE  ~BlockedOnReservation(v, {})
    BY DEF LineIsHeld
  <2>1. TypeOK  BY DEF IndInv
  <2>2. Acquire(j) \/ Poll(j)
    <3>1. ASSUME NEW k \in Jobs, Release(k) \/ Cancel(k) PROVE FALSE
      BY <3>1 DEF Release, Cancel, Admitted
    <3>2. ASSUME NEW k \in Jobs, Acquire(k) \/ Poll(k) PROVE k = j
      BY <3>2 DEF Acquire, Poll, Turn, Activate, GiveUp, KeepWaiting, Admitted
    <3>. QED  BY <3>1, <3>2 DEF Next
  <2>3. CASE Acquire(j)
    <3>1. Table(Registered(j))  BY <2>1, RegisteredTable
    <3>2. Activate(j, Registered(j)) /\ j \notin Waiting
      BY <2>3 DEF Acquire, Turn, GiveUp, KeepWaiting, Admitted
    <3>. QED  BY <2>1, <3>1, <3>2, ActivateHoldsLine DEF Overtaken
  <2>4. CASE Poll(j)
    <3>1. Table(waiters)  BY <2>1 DEF TypeOK, Table, Waiting
    <3>2. Activate(j, waiters) /\ j \in Waiting
      BY <2>4 DEF Poll, Turn, GiveUp, KeepWaiting, Admitted
    <3>. QED  BY <2>1, <3>1, <3>2, ActivateHoldsLine DEF Overtaken
  <2>. QED  BY <2>2, <2>3, <2>4
<1>. QED  BY <1>1, Invariance, PTL DEF Spec, HeadOfLine
-----------------------------------------------------------------------------
(* Overtaking is harmless.  The walk that admits j and the walk that would   *)
(* have admitted v ahead of it start the same jobs before they reach v, for  *)
(* the order of the waiters is a strict order; so the walk of j starts v as  *)
(* well, and j fits on top of it.                                            *)

(* The admission sequence orders the waiters strictly.                       *)
Ordered(ws) ==
    /\ \A u \in DOMAIN ws : ws[u].before \subseteq DOMAIN ws \ {u}
    /\ \A u, v, w \in DOMAIN ws :
          u \in ws[v].before /\ v \in ws[w].before => u \in ws[w].before

(* A job that registers comes after everybody else.                          *)
LEMMA RegisteredOrdered ==
  ASSUME Ordered(waiters), NEW j \in Jobs \ Waiting
  PROVE  Ordered(Registered(j))
BY DEF Ordered, Registered, Waiting

(* Removal and ageing leave the sequence of the others as it is.             *)
LEMMA RemainOrdered ==
  ASSUME NEW ws, Ordered(ws), NEW j, Table(ws)
  PROVE  Ordered(Without(ws, j)) /\ Ordered(Aged(Without(ws, j)))
<1>1. \A v \in DOMAIN ws \ {j} : Without(ws, j)[v].before = ws[v].before \ {j}
  BY DEF Without, Table, Waiter
<1>2. DOMAIN Without(ws, j) = DOMAIN ws \ {j}  BY DEF Without
<1>3. Ordered(Without(ws, j))  BY <1>1, <1>2 DEF Ordered
<1>4. DOMAIN Aged(Without(ws, j)) = DOMAIN Without(ws, j)  BY DEF Aged
<1>5. \A v \in DOMAIN Without(ws, j) :
        Aged(Without(ws, j))[v].before = Without(ws, j)[v].before
  BY DEF Aged, AgedWaiter
<1>. QED  BY <1>3, <1>4, <1>5 DEF Ordered

(* Every step keeps the sequence a strict order.                             *)
LEMMA StepOrdered == IndInv /\ Ordered(waiters) /\ [Next]_vars => Ordered(waiters)'
<1>. SUFFICES ASSUME IndInv, Ordered(waiters), [Next]_vars PROVE Ordered(waiters')
  BY DEF Ordered
<1>0. ASSUME NEW j \in Jobs, NEW ws, Table(ws), Ordered(ws), Turn(j, ws)
      PROVE  Ordered(waiters')
  BY <1>0, RemainOrdered DEF Turn, Activate, GiveUp, KeepWaiting
<1>1. ASSUME NEW j \in Jobs, Acquire(j) PROVE Ordered(waiters')
  <2>1. Table(Registered(j))  BY RegisteredTable DEF IndInv
  <2>2. Ordered(Registered(j))  BY <1>1, RegisteredOrdered DEF Acquire
  <2>. QED  BY <1>0, <1>1, <2>1, <2>2 DEF Acquire
<1>2. ASSUME NEW j \in Jobs, Poll(j) PROVE Ordered(waiters')
  <2>1. Table(waiters)  BY DEF IndInv, TypeOK, Table, Waiting
  <2>. QED  BY <1>0, <1>2, <2>1 DEF Poll
<1>3. ASSUME NEW j \in Jobs, Release(j) \/ Cancel(j) PROVE Ordered(waiters')
  BY <1>3 DEF Release, Cancel
<1>4. CASE UNCHANGED vars  BY <1>4 DEF vars
<1>. QED  BY <1>1, <1>2, <1>3, <1>4 DEF Next

(* So the order of the walk, by tier and then by sequence, is strict too.    *)
LEMMA AheadOrder ==
  ASSUME NEW ws, Table(ws), Ordered(ws)
  PROVE  /\ \A u \in DOMAIN ws : u \notin Ahead(ws, u)
         /\ \A u, v, w \in DOMAIN ws :
               u \in Ahead(ws, v) /\ v \in Ahead(ws, w) => u \in Ahead(ws, w)
<1>1. \A u \in DOMAIN ws : ws[u].tier \in Int  BY DEF Table, Waiter
<1>2. ASSUME NEW u \in DOMAIN ws PROVE u \notin Ahead(ws, u)
  BY <1>1 DEF Ahead, Ordered
<1>3. ASSUME NEW u \in DOMAIN ws, NEW v \in DOMAIN ws, NEW w \in DOMAIN ws,
             u \in Ahead(ws, v), v \in Ahead(ws, w)
      PROVE  u \in Ahead(ws, w)
  <2>1. ws[u].tier \in Int /\ ws[v].tier \in Int /\ ws[w].tier \in Int  BY <1>1
  <2>2. CASE ws[u].tier > ws[w].tier  BY <2>2 DEF Ahead
  <2>3. CASE ~(ws[u].tier > ws[w].tier)
    <3>1. ws[u].tier = ws[v].tier /\ ws[v].tier = ws[w].tier
      BY <1>3, <2>1, <2>3 DEF Ahead
    <3>2. u \in ws[v].before /\ v \in ws[w].before
      BY <1>3, <2>1, <3>1 DEF Ahead
    <3>3. u \in ws[w].before  BY <3>2 DEF Ordered
    <3>. QED  BY <3>1, <3>3 DEF Ahead
  <2>. QED  BY <2>2, <2>3
<1>. QED  BY <1>2, <1>3

(* What the walk of ws has started when it reaches u depends on the waiters  *)
(* ahead of u only.                                                          *)
Started(ws, j, taken) ==
    /\ taken \subseteq Ahead(ws, j)
    /\ \A u \in Ahead(ws, j) : u \in taken <=> Fits(u, taken \cap Ahead(ws, u))

(* The walks of j and of a waiter v ahead of it start the same jobs before  *)
(* v.                                                                       *)
LEMMA OneWalk ==
  ASSUME NEW ws, Table(ws), Ordered(ws), NEW j \in DOMAIN ws, NEW v \in Ahead(ws, j),
         NEW ours, Started(ws, j, ours), NEW theirs, Started(ws, v, theirs)
  PROVE  theirs = ours \cap Ahead(ws, v)
<1>. DEFINE A(u) == Ahead(ws, u)
            Odd == {u \in A(v) : ~(u \in theirs <=> u \in ours)}
            F == {A(u) : u \in Odd}
<1>1. \A u : A(u) \subseteq DOMAIN ws  BY DEF Ahead
<1>2. /\ \A u \in DOMAIN ws : u \notin A(u)
      /\ \A u, w, x \in DOMAIN ws : u \in A(w) /\ w \in A(x) => u \in A(x)
  BY AheadOrder
<1>3. IsFiniteSet(DOMAIN ws)  BY ProfileAssumption, FS_Subset DEF Table
<1>4. theirs \subseteq A(v)  BY DEF Started
<1>5. \A u \in A(v) : u \in theirs <=> Fits(u, theirs \cap A(u))  BY DEF Started
<1>6. \A u \in A(j) : u \in ours <=> Fits(u, ours \cap A(u))  BY DEF Started
<1>7. v \in A(j)  OBVIOUS
<1>. HIDE DEF A
<1>8. Odd = {}
  <2>. SUFFICES ASSUME Odd # {} PROVE FALSE  OBVIOUS
  <2>1. F \in SUBSET (SUBSET (DOMAIN ws)) /\ F # {}  BY <1>1
  <2>2. PICK T \in F : \A U \in F : U \subseteq T => U = T
    <3>. HIDE DEF F
    <3>. QED  BY <1>3, <2>1, MinimalSubset
  <2>3. PICK u \in Odd : T = A(u)  BY <2>2
  <2>4. u \in DOMAIN ws /\ u \in A(v) /\ u \in A(j) /\ v \in DOMAIN ws
    BY <1>1, <1>2, <1>7
  <2>5. \A w \in A(u) : w \in A(v)  BY <1>1, <1>2, <2>4
  <2>6. \A w \in A(u) : w \notin Odd
    <3>. SUFFICES ASSUME NEW w \in A(u), w \in Odd PROVE FALSE  OBVIOUS
    <3>1. A(w) \subseteq A(u) /\ w \notin A(w)  BY <1>1, <1>2, <2>4
    <3>2. A(w) = A(u)  BY <2>2, <2>3, <3>1
    <3>. QED  BY <3>1, <3>2
  <2>7. theirs \cap A(u) = ours \cap A(u)  BY <2>5, <2>6
  <2>8. u \in theirs <=> u \in ours  BY <1>5, <1>6, <2>4, <2>7
  <2>. QED  BY <2>8
<1>. QED  BY <1>4, <1>8 DEF A

(* A job that joins the waiters behind v changes nothing for v.              *)
LEMMA NewcomerBehind ==
  ASSUME TypeOK, Ordered(waiters), NEW j \in Jobs \ Waiting,
         NEW v \in Ahead(Registered(j), j), ShouldAdmit(waiters, v)
  PROVE  ShouldAdmit(Registered(j), v)
<1>. DEFINE R == Registered(j)
<1>1. Table(R) /\ DOMAIN R = Waiting \cup {j}  BY RegisteredTable
<1>2. Ordered(R)  BY RegisteredOrdered
<1>3. \A w \in Waiting : R[w] = waiters[w]  BY DEF Registered
<1>4. /\ \A u \in DOMAIN R : u \notin Ahead(R, u)
      /\ \A u, w, x \in DOMAIN R : u \in Ahead(R, w) /\ w \in Ahead(R, x) => u \in Ahead(R, x)
  BY <1>1, <1>2, AheadOrder
<1>5. \A u : Ahead(R, u) \subseteq DOMAIN R  BY DEF Ahead
<1>. HIDE DEF R
<1>6. v \in Waiting /\ v \in DOMAIN R  BY <1>1, <1>4, <1>5 DEF R
<1>7. \A u \in DOMAIN R : u \in Ahead(R, j) => j \notin Ahead(R, u)  BY <1>1, <1>4
<1>8. ASSUME NEW u \in Waiting, u \in Ahead(R, j) PROVE Ahead(R, u) = Ahead(waiters, u)
  <2>1. j \notin Ahead(R, u)  BY <1>1, <1>7, <1>8
  <2>2. \A w \in Waiting : w \in Ahead(R, u) <=> w \in Ahead(waiters, u)
    BY <1>1, <1>3 DEF Ahead, Waiting
  <2>3. Ahead(R, u) \subseteq Waiting /\ Ahead(waiters, u) \subseteq Waiting
    BY <1>1, <1>5, <2>1 DEF Ahead, Waiting
  <2>. QED  BY <2>2, <2>3
<1>9. Ahead(R, v) = Ahead(waiters, v)  BY <1>6, <1>8 DEF R
<1>10. \A u \in Ahead(waiters, v) : Ahead(R, u) = Ahead(waiters, u)
  <2>. SUFFICES ASSUME NEW u \in Ahead(waiters, v) PROVE Ahead(R, u) = Ahead(waiters, u)
    OBVIOUS
  <2>1. u \in Waiting /\ u \in Ahead(R, v)  BY <1>9 DEF Ahead, Waiting
  <2>2. u \in Ahead(R, j)  BY <1>1, <1>4, <1>6, <2>1 DEF R
  <2>. QED  BY <1>8, <2>1, <2>2
<1>. QED  BY <1>9, <1>10 DEF ShouldAdmit, R

(* If j fits on top of a set of tentative starts with v in it, v fits        *)
(* beside j once j has really started.                                       *)
LEMMA RoomBeside ==
  ASSUME IndInv, NEW j \in Jobs, NEW ws, Activate(j, ws), j \notin active,
         NEW taken \in SUBSET Jobs, Fits(j, taken),
         NEW v \in taken, v \notin active, v # j, Fits(v, {})
  PROVE  Fits(v, {})'
<1>. USE ProfileAssumption, LimitAssumption
<1>1. /\ active' = active \cup {j}
      /\ reserved' = reserved + Memory[j]
      /\ threads' = threads + Threads[j]
      /\ bySolver' = [bySolver EXCEPT ![Solver[j]] = @ + 1]
  BY DEF Activate
<1>2. IsFiniteSet(taken) /\ IsFiniteSet(active) /\ IsFiniteSet(active \cup taken)
      /\ active \subseteq Jobs
  BY FS_Subset DEF IndInv, TypeOK
<1>3. SumFunctionOnSet(Memory, {}) = 0 /\ SumFunctionOnSet(Threads, {}) = 0
      /\ Cardinality({}) = 0
  BY SumEmpty, FS_EmptySet
<1>4. /\ Memory[v] \in 0..SumFunctionOnSet(Memory, taken)
      /\ Threads[v] \in 0..SumFunctionOnSet(Threads, taken)
      /\ SumFunctionOnSet(Memory, taken) \in Nat
      /\ SumFunctionOnSet(Threads, taken) \in Nat
  <2>1. Memory \in [Jobs -> Nat] /\ Threads \in [Jobs -> Nat]  OBVIOUS
  <2>. QED  BY <1>2, <2>1, SumMember, SumNat
<1>5. /\ bySolver \in [Solvers -> Nat] /\ Cap \in [Solvers -> Nat]
      /\ reserved \in Nat /\ threads \in Nat
      /\ {Memory[j], Memory[v], Threads[j], Threads[v]} \subseteq Nat
      /\ {Aggregate, MaxThreads, MaxActive} \subseteq Nat
      /\ v \in Jobs /\ Solver[j] \in Solvers /\ Solver[v] \in Solvers
  BY DEF IndInv, TypeOK
<1>6. Feasible(v)  BY DEF Fits
<1>7. v \notin Exclusive /\ (active \cup {j}) \cap Exclusive = {}
  <2>1. IF j \in Exclusive THEN active \cup taken = {} ELSE (active \cup taken) \cap Exclusive = {}
    BY DEF Fits
  <2>. QED  BY <2>1
<1>8. bySolver'[Solver[v]] < Cap[Solver[v]]
  <2>1. CASE Solver[j] = Solver[v]
    <3>. DEFINE S == {u \in taken : Solver[u] = Solver[j]}
    <3>1. bySolver[Solver[j]] + Cardinality(S) < Cap[Solver[j]]  BY DEF Fits
    <3>2. v \in S /\ IsFiniteSet(S)  BY <1>2, <2>1, FS_Subset
    <3>. HIDE DEF S
    <3>3. Cardinality(S) \in Nat /\ Cardinality(S) # 0
      BY <3>2, FS_CardinalityType, FS_EmptySet
    <3>4. bySolver'[Solver[v]] = bySolver[Solver[j]] + 1  BY <1>1, <1>5, <2>1
    <3>. QED  BY <1>5, <2>1, <3>1, <3>3, <3>4
  <2>2. CASE Solver[j] # Solver[v]
    <3>1. bySolver[Solver[v]] + Cardinality({u \in {} : Solver[u] = Solver[v]}) < Cap[Solver[v]]
      BY DEF Fits
    <3>2. {u \in {} : Solver[u] = Solver[v]} = {}  OBVIOUS
    <3>3. bySolver'[Solver[v]] = bySolver[Solver[v]]  BY <1>1, <1>5, <2>2
    <3>. QED  BY <1>3, <1>5, <3>1, <3>2, <3>3
  <2>. QED  BY <2>1, <2>2
<1>9. Cardinality(active \cup {j}) < MaxActive
  <2>1. Cardinality(active \cup taken) < MaxActive  BY DEF Fits
  <2>2. IsFiniteSet(active \cup {v}) /\ Cardinality(active \cup {v}) <= Cardinality(active \cup taken)
    BY <1>2, FS_Subset
  <2>3. Cardinality(active \cup {v}) = Cardinality(active) + 1  BY <1>2, FS_AddElement
  <2>4. Cardinality(active \cup {j}) = Cardinality(active) + 1  BY <1>2, FS_AddElement
  <2>5. Cardinality(active) \in Nat /\ Cardinality(active \cup taken) \in Nat
    BY <1>2, FS_CardinalityType
  <2>. QED  BY <1>5, <2>1, <2>2, <2>3, <2>4, <2>5
<1>10. reserved' + 0 + Memory[v] <= Aggregate
  <2>1. reserved + SumFunctionOnSet(Memory, taken) + Memory[j] <= Aggregate  BY DEF Fits
  <2>. QED  BY <1>1, <1>4, <1>5, <2>1
<1>11. threads' + 0 + Threads[v] <= MaxThreads
  <2>1. threads + SumFunctionOnSet(Threads, taken) + Threads[j] <= MaxThreads  BY DEF Fits
  <2>. QED  BY <1>1, <1>4, <1>5, <2>1
<1>12. bySolver'[Solver[v]] + Cardinality({u \in {} : Solver[u] = Solver[v]}) < Cap[Solver[v]]
  <2>1. {u \in {} : Solver[u] = Solver[v]} = {}  OBVIOUS
  <2>2. bySolver'[Solver[v]] \in Nat  BY <1>1, <1>5
  <2>. QED  BY <1>3, <1>8, <2>1, <2>2
<1>13. active' \cup {} = active \cup {j}  BY <1>1
<1>. QED  BY <1>3, <1>6, <1>7, <1>9, <1>10, <1>11, <1>12, <1>13 DEF Fits, Feasible

(* One admission, whichever table it walks.                                  *)
LEMMA ActivateLeavesRoom ==
  ASSUME IndInv, NEW j \in Jobs, NEW ws, Table(ws), Ordered(ws), Activate(j, ws),
         DOMAIN ws = Waiting \cup {j}, j \notin active,
         NEW v \in Ahead(ws, j), ShouldAdmit(ws, v)
  PROVE  Fits(v, {})'
<1>1. PICK ours : Started(ws, j, ours) /\ Fits(j, ours)
  BY DEF Activate, ShouldAdmit, Started
<1>2. PICK theirs : Started(ws, v, theirs) /\ Fits(v, theirs)
  BY DEF ShouldAdmit, Started
<1>3. theirs = ours \cap Ahead(ws, v)  BY <1>1, <1>2, OneWalk
<1>4. v \in ours  BY <1>1, <1>2, <1>3 DEF Started
<1>5. v \in Jobs /\ v \in DOMAIN ws /\ ours \in SUBSET Jobs /\ theirs \in SUBSET Jobs
  BY <1>1, <1>2 DEF Ahead, Table, Started
<1>6. v # j  BY AheadOrder
<1>7. v \notin active  BY <1>5, <1>6 DEF IndInv, TypeOK
<1>8. Fits(v, {})  BY <1>2, <1>5, FitsAlone DEF IndInv
<1>. QED  BY <1>1, <1>4, <1>5, <1>6, <1>7, <1>8, RoomBeside

(* Whoever is admitted past a waiter that could have started at once leaves  *)
(* room for it, whatever the limits, the tiers and the ageing.               *)
THEOREM NobodyIsCrowdedOut == Spec => OvertakingHarmless
<1>1. IndInv /\ Ordered(waiters) /\ [Next]_vars =>
        [\A j \in Jobs : Admitted(j) =>
            \A v \in Overtaken(j) : ShouldAdmit(waiters, v) => Fits(v, {})']_vars
  <2>. SUFFICES ASSUME IndInv, Ordered(waiters), Next, NEW j \in Jobs, Admitted(j),
                       NEW v \in Overtaken(j), ShouldAdmit(waiters, v)
                PROVE  Fits(v, {})'
    OBVIOUS
  <2>1. TypeOK  BY DEF IndInv
  <2>2. Acquire(j) \/ Poll(j)
    <3>1. ASSUME NEW k \in Jobs, Release(k) \/ Cancel(k) PROVE FALSE
      BY <3>1 DEF Release, Cancel, Admitted
    <3>2. ASSUME NEW k \in Jobs, Acquire(k) \/ Poll(k) PROVE k = j
      BY <3>2 DEF Acquire, Poll, Turn, Activate, GiveUp, KeepWaiting, Admitted
    <3>. QED  BY <3>1, <3>2 DEF Next
  <2>3. CASE Acquire(j)
    <3>1. Activate(j, Registered(j)) /\ j \notin Waiting /\ j \notin active
      BY <2>3 DEF Acquire, Turn, GiveUp, KeepWaiting, Admitted
    <3>2. Table(Registered(j)) /\ DOMAIN Registered(j) = Waiting \cup {j}
          /\ Ordered(Registered(j))
      BY <2>1, <3>1, RegisteredTable, RegisteredOrdered
    <3>3. v \in Ahead(Registered(j), j)  BY <3>1 DEF Overtaken
    <3>4. ShouldAdmit(Registered(j), v)  BY <2>1, <3>1, <3>3, NewcomerBehind
    <3>. QED  BY <3>1, <3>2, <3>3, <3>4, ActivateLeavesRoom
  <2>4. CASE Poll(j)
    <3>1. Activate(j, waiters) /\ j \in Waiting /\ j \notin active
      BY <2>4 DEF Poll, Turn, GiveUp, KeepWaiting, Admitted
    <3>2. Table(waiters) /\ DOMAIN waiters = Waiting \cup {j}
      BY <2>1, <3>1 DEF TypeOK, Table, Waiting
    <3>. QED  BY <3>1, <3>2, ActivateLeavesRoom DEF Overtaken
  <2>. QED  BY <2>2, <2>3, <2>4
<1>2. Init => Ordered(waiters)  BY DEF Init, Ordered
<1>3. Spec => [](IndInv /\ Ordered(waiters))
  <2>1. Init => IndInv /\ Ordered(waiters)  BY InitInv, <1>2
  <2>2. IndInv /\ Ordered(waiters) /\ [Next]_vars => IndInv' /\ Ordered(waiters)'
    BY StepInv, StepOrdered
  <2>. QED  BY <2>1, <2>2, PTL DEF Spec
<1>. QED  BY <1>1, <1>3, PTL DEF Spec, OvertakingHarmless

-----------------------------------------------------------------------------
(* Among the waiters that can be hosted, one has none of them ahead of it.   *)
LEMMA FirstHostable ==
  ASSUME TypeOK, Ordered(waiters), NEW i \in Waiting, Hostable(i)
  PROVE  \E j \in Waiting : Hostable(j) /\ \A v \in Ahead(waiters, j) : ~Hostable(v)
<1>. DEFINE A(u) == Ahead(waiters, u)
            Able == {u \in Waiting : Hostable(u)}
            F == {A(u) : u \in Able}
<1>1. Table(waiters) /\ IsFiniteSet(Waiting)
  BY ProfileAssumption, FS_Subset DEF TypeOK, Table, Waiting
<1>2. \A u : A(u) \subseteq Waiting  BY DEF Ahead, Waiting
<1>3. /\ \A u \in Waiting : u \notin A(u)
      /\ \A u, w, x \in Waiting : u \in A(w) /\ w \in A(x) => u \in A(x)
  BY <1>1, AheadOrder DEF Waiting
<1>4. F \in SUBSET (SUBSET Waiting) /\ F # {}  BY <1>2
<1>. HIDE DEF A
<1>5. PICK T \in F : \A U \in F : U \subseteq T => U = T
  <2>. HIDE DEF F
  <2>. QED  BY <1>1, <1>4, MinimalSubset
<1>6. PICK j \in Able : T = A(j)  BY <1>5
<1>7. ASSUME NEW v \in A(j), Hostable(v) PROVE FALSE
  <2>1. v \in Waiting /\ j \in Waiting  BY <1>2
  <2>2. A(v) \subseteq A(j) /\ v \notin A(v)  BY <1>2, <1>3, <2>1
  <2>3. A(v) \in F  BY <1>7, <2>1
  <2>. QED  BY <1>5, <1>6, <2>2, <2>3
<1>. QED  BY <1>6, <1>7 DEF A

(* On an idle machine the counters are zero, and a job fits exactly when it  *)
(* can be hosted.                                                            *)
LEMMA IdleFits ==
  ASSUME IndInv, active = {}, NEW j \in Jobs
  PROVE  /\ Fits(j, {}) <=> Hostable(j)
         /\ BlockedOnReservation(j, {}) => Feasible(j) /\ j \in Exclusive
<1>. USE ProfileAssumption, LimitAssumption
<1>1. /\ SumFunctionOnSet(Memory, {}) = 0 /\ SumFunctionOnSet(Threads, {}) = 0
  BY SumEmpty
<1>2. reserved = 0 /\ threads = 0  BY <1>1 DEF IndInv, CountersExact
<1>3. Cardinality({}) = 0  BY FS_EmptySet
<1>4. \A s \in Solvers : bySolver[s] = 0
  <2>1. \A s \in Solvers : RunningOf(s) = {}  BY DEF RunningOf
  <2>. QED  BY <1>3, <2>1 DEF IndInv, CountersExact
<1>5. {v \in {} : Solver[v] = Solver[j]} = {} /\ active \cup {} = {}  OBVIOUS
<1>6. Fits(j, {}) <=> Hostable(j)
  <2>1. bySolver[Solver[j]] + Cardinality({v \in {} : Solver[v] = Solver[j]})
          < Cap[Solver[j]]
    BY <1>3, <1>4, <1>5
  <2>2. Cardinality(active \cup {}) < MaxActive  BY <1>3, <1>5
  <2>. QED  BY <1>1, <1>2, <1>5, <2>1, <2>2 DEF Fits, Hostable, Feasible
<1>7. BlockedOnReservation(j, {}) => Feasible(j) /\ j \in Exclusive
  BY <1>1, <1>2 DEF BlockedOnReservation, Feasible
<1>. QED  BY <1>6, <1>7

(* An idle machine always has a next job: a waiter that can never be hosted  *)
(* is passed over, and the first one that can be is admitted at its turn.    *)
THEOREM IdleMachineIsUsed == Spec => []IdleMachineServes
<1>1. IndInv /\ Ordered(waiters) => IdleMachineServes
  <2>. SUFFICES ASSUME IndInv, Ordered(waiters), active = {},
                       NEW i \in Waiting, Hostable(i),
                       \A v \in Waiting \cap Exclusive : Feasible(v) => Hostable(v)
                PROVE  \E j \in Waiting : ShouldAdmit(waiters, j)
    BY DEF IdleMachineServes
  <2>1. TypeOK /\ Waiting \subseteq Jobs  BY DEF IndInv, TypeOK
  <2>2. PICK j \in Waiting :
               Hostable(j) /\ \A v \in Ahead(waiters, j) : ~Hostable(v)
    BY <2>1, FirstHostable
  <2>3. Fits(j, {})  BY <2>1, <2>2, IdleFits
  <2>4. ASSUME NEW v \in Ahead(waiters, j)
        PROVE  ~Fits(v, {}) /\ ~BlockedOnReservation(v, {})
    <3>1. v \in Waiting /\ v \in Jobs  BY <2>1 DEF Ahead, Waiting
    <3>. QED  BY <2>2, <3>1, IdleFits
  <2>5. \A v \in Ahead(waiters, j) : {} \cap Ahead(waiters, v) = {}  OBVIOUS
  <2>. QED  BY <2>3, <2>4, <2>5 DEF ShouldAdmit
<1>2. Init => Ordered(waiters)  BY DEF Init, Ordered
<1>3. Spec => [](IndInv /\ Ordered(waiters))
  <2>1. Init => IndInv /\ Ordered(waiters)  BY InitInv, <1>2
  <2>2. IndInv /\ Ordered(waiters) /\ [Next]_vars => IndInv' /\ Ordered(waiters)'
    BY StepInv, StepOrdered
  <2>. QED  BY <2>1, <2>2, PTL DEF Spec
<1>. QED  BY <1>1, <1>3, PTL
=============================================================================
