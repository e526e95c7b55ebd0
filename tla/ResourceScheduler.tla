------------------------- MODULE ResourceScheduler -------------------------
(***************************************************************************)
(* The admission monitor of the native-job control plane: class            *)
(* ResourceScheduler of solvers/participants/lifecycle.py.  One worker     *)
(* thread per job calls acquire, runs the job and calls release; all of    *)
(* them share one condition variable, so a step of a thread is one stretch *)
(* of code executed under the lock (from entry, or from a wake-up, to the  *)
(* next wait or return).                                                   *)
(*                                                                         *)
(* A member of Jobs is a job envelope (JobProfile).  A Recurring envelope  *)
(* is submitted again after each release, which is how a stream of jobs is *)
(* represented by finitely many slots.  Memory is counted in whole MiB, so *)
(* the 1e-9 slack of the code's float comparisons vanishes.                *)
(***************************************************************************)
EXTENDS Integers, FiniteSets, Functions

CONSTANTS
    Jobs, Solvers,
    Memory,           \* Memory[j]: MiB the profile reserves
    Threads,          \* Threads[j]: CPU threads the profile reserves
    Solver,           \* Solver[j]: solver family of the profile
    Priority,         \* Priority[j]: policy priority plus fidelity index
    Exclusive,        \* the jobs whose solver policy is exclusive
    Recurring,        \* the envelopes submitted again after each release
    Cap,              \* Cap[s]: max_concurrency of solver family s
    Aggregate,        \* aggregate_memory_mib
    MaxActive,        \* max_active_jobs
    MaxThreads,       \* max_threads
    AgingAfterSkips   \* aging_after_skips

(* _profile_for only builds profiles with a positive memory and at least   *)
(* one thread; it does not compare them with the scheduler's own limits.   *)
ASSUME ProfileAssumption ==
    /\ IsFiniteSet(Jobs)
    /\ Memory \in [Jobs -> Nat \ {0}]
    /\ Threads \in [Jobs -> Nat \ {0}]
    /\ Solver \in [Jobs -> Solvers]
    /\ Priority \in [Jobs -> Int]
    /\ Exclusive \subseteq Jobs
    /\ Recurring \subseteq Jobs

(* The checks of the constructors of ResourceScheduler and of              *)
(* SolverResourcePolicy.                                                   *)
ASSUME LimitAssumption ==
    /\ Cap \in [Solvers -> Nat \ {0}]
    /\ {Aggregate, MaxActive, MaxThreads, AgingAfterSkips} \subseteq Nat \ {0}

VARIABLES
    waiters,    \* _waiters: waiting job -> [tier, skips, before], where before
                \* is the set of the waiters with a smaller admission sequence
    active,     \* keys of _active
    reserved,   \* _active_reserved
    threads,    \* _active_threads
    bySolver,   \* _active_by_solver, 0 for a missing key
    cancelled,  \* the jobs whose cancel event is set
    finished    \* the jobs whose thread has left the scheduler for good

vars == <<waiters, active, reserved, threads, bySolver, cancelled, finished>>

Waiting == DOMAIN waiters

Init ==
    /\ waiters = [j \in {} |-> 0]
    /\ active = {}
    /\ reserved = 0
    /\ threads = 0
    /\ bySolver = [s \in Solvers |-> 0]
    /\ cancelled = {}
    /\ finished = {}

-----------------------------------------------------------------------------
(* Admission: the loop of _should_admit.  It walks the waiters in order and *)
(* simulates starting each one that fits; taken is what it has tentatively  *)
(* started on top of the active jobs when it reaches a waiter.              *)

Feasible(j) == Memory[j] <= Aggregate

(* The waiters of ws that sort before j: higher tier, or same tier and      *)
(* registered earlier.                                                      *)
Ahead(ws, j) ==
    {v \in DOMAIN ws : \/ ws[v].tier > ws[j].tier
                       \/ ws[v].tier = ws[j].tier /\ v \in ws[j].before}

(* Mutants of Fits: no thread budget; only the exclusive job looks around.  *)
FitsAnyThreads(j, taken) ==
    LET running == active \cup taken
    IN  /\ Feasible(j)
        /\ IF j \in Exclusive THEN running = {} ELSE running \cap Exclusive = {}
        /\ bySolver[Solver[j]] + Cardinality({v \in taken : Solver[v] = Solver[j]})
             < Cap[Solver[j]]
        /\ Cardinality(running) < MaxActive
        /\ reserved + SumFunctionOnSet(Memory, taken) + Memory[j] <= Aggregate

FitsBesideExclusive(j, taken) ==
    LET running == active \cup taken
    IN  /\ Feasible(j)
        /\ j \in Exclusive => running = {}
        /\ bySolver[Solver[j]] + Cardinality({v \in taken : Solver[v] = Solver[j]})
             < Cap[Solver[j]]
        /\ Cardinality(running) < MaxActive
        /\ reserved + SumFunctionOnSet(Memory, taken) + Memory[j] <= Aggregate
        /\ threads + SumFunctionOnSet(Threads, taken) + Threads[j] <= MaxThreads

Fits(j, taken) ==
    LET running == active \cup taken
    IN  /\ Feasible(j)
        /\ IF j \in Exclusive THEN running = {} ELSE running \cap Exclusive = {}
        /\ bySolver[Solver[j]] + Cardinality({v \in taken : Solver[v] = Solver[j]})
             < Cap[Solver[j]]
        /\ Cardinality(running) < MaxActive
        /\ reserved + SumFunctionOnSet(Memory, taken) + Memory[j] <= Aggregate
        /\ threads + SumFunctionOnSet(Threads, taken) + Threads[j] <= MaxThreads

BlockedOnReservation(j, taken) ==
    /\ Feasible(j)
    /\ \/ j \in Exclusive
       \/ reserved + SumFunctionOnSet(Memory, taken) + Memory[j] > Aggregate

(* Mutants: nobody holds the line; the waiters ahead are not simulated,     *)
(* only asked whether they hold the line.                                   *)
ShouldAdmitPastLine(ws, j) ==
    \E taken \in SUBSET Ahead(ws, j) :
        /\ \A v \in Ahead(ws, j) : v \in taken <=> Fits(v, taken \cap Ahead(ws, v))
        /\ Fits(j, taken)

ShouldAdmitUnsimulated(ws, j) ==
    /\ \A v \in Ahead(ws, j) : Fits(v, {}) \/ ~BlockedOnReservation(v, {})
    /\ Fits(j, {})

(* The loop reaches j, which fits, if every waiter ahead of j was either    *)
(* tentatively started or passed over without holding the line.             *)
ShouldAdmit(ws, j) ==
    \E taken \in SUBSET Ahead(ws, j) :
        /\ \A v \in Ahead(ws, j) :
              LET sofar == taken \cap Ahead(ws, v)
              IN  /\ v \in taken <=> Fits(v, sofar)
                  /\ v \in taken \/ ~BlockedOnReservation(v, sofar)
        /\ Fits(j, taken)

-----------------------------------------------------------------------------
(* The waiter table: registration, removal, and the ageing that every       *)
(* admission applies to the waiters it leaves behind (skips saturates at    *)
(* AgingAfterSkips, above which it has no further effect).                  *)

Registered(j) ==
    [v \in Waiting \cup {j} |->
        IF v = j THEN [tier |-> Priority[j], skips |-> 0, before |-> Waiting]
                 ELSE waiters[v]]

Without(ws, j) ==
    [v \in DOMAIN ws \ {j} |-> [ws[v] EXCEPT !.before = @ \ {j}]]

(* Mutant: skips are counted, but nobody is promoted.                       *)
AgedWithoutBoost(v, w) ==
    [w EXCEPT !.skips = IF @ < AgingAfterSkips THEN @ + 1 ELSE @]

AgedWaiter(v, w) ==
    LET skips == IF w.skips < AgingAfterSkips THEN w.skips + 1 ELSE w.skips
        boosted == skips >= AgingAfterSkips /\ w.tier < Priority[v] + 1
    IN  [tier   |-> IF boosted THEN Priority[v] + 1 ELSE w.tier,
         skips  |-> skips,
         before |-> w.before]

Aged(ws) == [v \in DOMAIN ws |-> AgedWaiter(v, ws[v])]

AtLeastZero(n) == IF n < 0 THEN 0 ELSE n

(* The thread of an envelope is over: a recurring one may be submitted      *)
(* again, as a new job with a fresh cancel event.                           *)
Retire(j) ==
    /\ finished' = IF j \in Recurring THEN finished ELSE finished \cup {j}
    /\ cancelled' = cancelled \ {j}

-----------------------------------------------------------------------------
(* One turn of acquire's loop for thread j, on waiter table ws.             *)

(* Mutant: the admitted job stays in the waiter table.                      *)
ActivateStillWaiting(j, ws) ==
    /\ j \notin cancelled
    /\ ShouldAdmit(ws, j)
    /\ waiters' = Aged(ws)
    /\ active' = active \cup {j}
    /\ reserved' = reserved + Memory[j]
    /\ threads' = threads + Threads[j]
    /\ bySolver' = [bySolver EXCEPT ![Solver[j]] = @ + 1]
    /\ UNCHANGED <<cancelled, finished>>

Activate(j, ws) ==
    /\ j \notin cancelled
    /\ ShouldAdmit(ws, j)
    /\ waiters' = Aged(Without(ws, j))
    /\ active' = active \cup {j}
    /\ reserved' = reserved + Memory[j]
    /\ threads' = threads + Threads[j]
    /\ bySolver' = [bySolver EXCEPT ![Solver[j]] = @ + 1]
    /\ UNCHANGED <<cancelled, finished>>

GiveUp(j, ws) ==
    /\ j \in cancelled
    /\ waiters' = Without(ws, j)
    /\ Retire(j)
    /\ UNCHANGED <<active, reserved, threads, bySolver>>

KeepWaiting(j, ws) ==
    /\ j \notin cancelled
    /\ ~ShouldAdmit(ws, j)
    /\ waiters' = ws
    /\ UNCHANGED <<active, reserved, threads, bySolver, cancelled, finished>>

Turn(j, ws) == Activate(j, ws) \/ GiveUp(j, ws) \/ KeepWaiting(j, ws)

(* acquire: register, then take the first turn of the loop. *)
Acquire(j) ==
    /\ j \notin Waiting \cup active \cup finished
    /\ Turn(j, Registered(j))

(* A notification or the poll_s timer wakes a waiting thread. *)
Poll(j) ==
    /\ j \in Waiting
    /\ Turn(j, waiters)

(* Mutant: the threads are not given back.                                  *)
ReleaseLeakingThreads(j) ==
    /\ j \in active
    /\ active' = active \ {j}
    /\ reserved' = AtLeastZero(reserved - Memory[j])
    /\ bySolver' = [bySolver EXCEPT ![Solver[j]] = AtLeastZero(@ - 1)]
    /\ Retire(j)
    /\ UNCHANGED <<waiters, threads>>

(* run() calls release only for a job that acquire admitted. *)
Release(j) ==
    /\ j \in active
    /\ active' = active \ {j}
    /\ reserved' = AtLeastZero(reserved - Memory[j])
    /\ threads' = AtLeastZero(threads - Threads[j])
    /\ bySolver' = [bySolver EXCEPT ![Solver[j]] = AtLeastZero(@ - 1)]
    /\ Retire(j)
    /\ UNCHANGED waiters

(* NativeJobManager.cancel sets the event whatever the thread is doing. *)
Cancel(j) ==
    /\ j \notin finished
    /\ cancelled' = cancelled \cup {j}
    /\ UNCHANGED <<waiters, active, reserved, threads, bySolver, finished>>

Next == \E j \in Jobs : Acquire(j) \/ Poll(j) \/ Release(j) \/ Cancel(j)

Spec == Init /\ [][Next]_vars

(* The condition wait has a timeout of poll_s, so a waiting thread always   *)
(* takes another turn; run() releases in a finally block after a governed,  *)
(* time-limited execution.  Nobody is obliged to submit or to cancel.       *)
Fairness == \A j \in Jobs : WF_vars(Poll(j)) /\ WF_vars(Release(j))

FairSpec == Spec /\ Fairness

-----------------------------------------------------------------------------
(* Properties.                                                              *)

Waiter == [tier : Int, skips : 0..AgingAfterSkips, before : SUBSET Jobs]

(* Types, and each job's thread is in at most one place. *)
TypeOK ==
    /\ Waiting \subseteq Jobs
    /\ waiters \in [Waiting -> Waiter]
    /\ active \subseteq Jobs
    /\ reserved \in Nat
    /\ threads \in Nat
    /\ bySolver \in [Solvers -> Nat]
    /\ cancelled \subseteq Jobs
    /\ finished \subseteq Jobs
    /\ active \cap Waiting = {}
    /\ active \cap finished = {}
    /\ Waiting \cap finished = {}

RunningOf(s) == {j \in active : Solver[j] = s}

(* The incrementally maintained counters are exactly the usage of the jobs  *)
(* in the active table: no release, cancellation or ageing step leaks or    *)
(* double-counts a reservation.                                             *)
CountersExact ==
    /\ reserved = SumFunctionOnSet(Memory, active)
    /\ threads = SumFunctionOnSet(Threads, active)
    /\ \A s \in Solvers : bySolver[s] = Cardinality(RunningOf(s))

(* The docstring's "memory is never oversubscribed", with the other limits  *)
(* the admission accounts for, said of the jobs that really run.            *)
NeverOversubscribed ==
    /\ SumFunctionOnSet(Memory, active) <= Aggregate
    /\ SumFunctionOnSet(Threads, active) <= MaxThreads
    /\ Cardinality(active) <= MaxActive
    /\ \A s \in Solvers : Cardinality(RunningOf(s)) <= Cap[s]

(* A job of an exclusive solver never overlaps any other job, whichever of  *)
(* the two was admitted first.                                              *)
ExclusiveRunsAlone ==
    \A j \in active \cap Exclusive : active = {j}

Admitted(j) == j \in active' \ active

(* The waiters that sort before a job that is admitted in this step. *)
Overtaken(j) == Ahead(IF j \in Waiting THEN waiters ELSE Registered(j), j)

(* Head-of-line reservation: no job is admitted past a waiter ahead of it   *)
(* that memory, or the need to run alone, keeps out at that moment.         *)
LineIsHeld ==
    \A j \in Jobs : Admitted(j) =>
        \A v \in Overtaken(j) : ~Fits(v, {}) => ~BlockedOnReservation(v, {})

HeadOfLine == [][LineIsHeld]_vars

(* Overtaking is harmless: a waiter ahead that could have started at once   *)
(* when a later one was admitted still fits beside it afterwards.           *)
OvertakingHarmless ==
    [][\A j \in Jobs : Admitted(j) =>
          \A v \in Overtaken(j) : ShouldAdmit(waiters, v) => Fits(v, {})']_vars

(* A profile the limits can host when nothing else runs. *)
Hostable(j) == Memory[j] <= Aggregate /\ Threads[j] <= MaxThreads

(* Nobody waits for a machine on which nothing runs: as long as some waiter *)
(* can be hosted, some waiter is admitted at its next turn, whatever has    *)
(* been released, given up, aged or rejected before.  An exclusive waiter   *)
(* that wants more threads than there are holds the line for ever.          *)
IdleMachineServes ==
    /\ active = {}
    /\ \E j \in Waiting : Hostable(j)
    /\ \A v \in Waiting \cap Exclusive : Feasible(v) => Hostable(v)
    => \E j \in Waiting : ShouldAdmit(waiters, j)

(* Every waiting job whose profile the limits can host leaves the queue,    *)
(* even when cheaper jobs keep arriving (aging and head-of-line             *)
(* reservation) and when another waiter can never be hosted.                *)
NoStarvation ==
    \A j \in Jobs : Hostable(j) => (j \in Waiting ~> j \notin Waiting)

(* The docstring's promise, "a stream of cheap jobs cannot starve a         *)
(* promoted high-fidelity job": a waiter whose tier ageing has raised is    *)
(* eventually admitted (or cancelled).                                      *)
PromotedNeverStarved ==
    \A j \in Jobs : Hostable(j) =>
        (j \in Waiting /\ waiters[j].tier > Priority[j] ~> j \notin Waiting)
=============================================================================
