--------------------------- MODULE JobLifecycle ---------------------------
(***************************************************************************)
(* The life of native jobs in the control plane: NativeJobManager          *)
(* (solvers/participants/lifecycle.py) over its SQLite JobLedger           *)
(* (solvers/participants/store.py).  Worker threads execute run(), API     *)
(* threads execute submit, start and cancel, and the whole process may     *)
(* crash and be restarted over the same ledger.                            *)
(*                                                                         *)
(* Every ledger call is one step, because it holds the ledger's lock and   *)
(* commits before it releases it.  _transition is two calls, a read that   *)
(* checks legality and a write, so it is two steps.                        *)
(*                                                                         *)
(* Local execution only: preemption and resume belong to the remote        *)
(* executor.  Admission by ResourceScheduler is abstracted to a number of  *)
(* slots; its own module says how they are granted.                        *)
(***************************************************************************)
EXTENDS Integers, FiniteSets

CONSTANTS
    Jobs,
    Workers,      \* threads that execute run()
    Cancellers,   \* API threads that execute cancel()
    Infeasible,   \* the jobs whose memory request _profile_for refuses
    Capacity,     \* jobs the resource scheduler admits at a time
    MaxRestarts,  \* bound on the number of crashes
    None          \* no job

ASSUME JobAssumption ==
    /\ IsFiniteSet(Jobs)
    /\ Infeasible \subseteq Jobs
    /\ None \notin Jobs
    /\ Capacity \in Nat \ {0}
    /\ MaxRestarts \in Nat

(* JobState; "ABSENT" stands for a job without a ledger row. *)
Terminal == {"COMPLETED", "FAILED", "CANCELLED"}
States == {"ABSENT", "QUEUED", "PREPARING", "RUNNING", "PARSING", "VALIDATING"}
            \cup Terminal

(* _LEGAL_TRANSITIONS. *)
Successor ==
    [QUEUED |-> "PREPARING", PREPARING |-> "RUNNING", RUNNING |-> "PARSING",
     PARSING |-> "VALIDATING", VALIDATING |-> "COMPLETED"]

Legal(from, to) ==
    from \in DOMAIN Successor /\ to \in {Successor[from], "FAILED", "CANCELLED"}

VARIABLES
    row,        \* the ledger: state of each job, and whether error_code and
                \* result_id are set
    recorded,   \* the jobs with a result event in the provenance store
    flag,       \* _cancel_flags: "none", "clear" or "set"
    claimed,    \* _claimed
    slots,      \* jobs the resource scheduler has admitted and not released
    worker,     \* each thread's job, program counter and pending transition
    canceller,  \* each cancelling thread's job, program counter and row read
    recovering, \* the constructor has not finished recover()
    patching,   \* the job recover() has failed but not yet given a code
    restarts,   \* number of restarts so far
    executions  \* number of times each job's solver was started

ledger == <<row, recorded>>
memory == <<flag, claimed, slots>>
vars == <<row, recorded, flag, claimed, slots, worker, canceller,
          recovering, patching, restarts, executions>>

Idle == [job |-> None, pc |-> "idle", to |-> "ABSENT"]
Asleep == [job |-> None, pc |-> "idle", read |-> "ABSENT"]

Init ==
    /\ row = [j \in Jobs |-> [state |-> "ABSENT", error |-> FALSE, result |-> FALSE]]
    /\ recorded = {}
    /\ flag = [j \in Jobs |-> "none"]
    /\ claimed = {}
    /\ slots = {}
    /\ worker = [w \in Workers |-> Idle]
    /\ canceller = [c \in Cancellers |-> Asleep]
    /\ recovering = FALSE
    /\ patching = None
    /\ restarts = 0
    /\ executions = [j \in Jobs |-> 0]

Up == ~recovering

-----------------------------------------------------------------------------
(* submit and start.                                                        *)

(* submit creates the row, then the cancel flag, then the launch event.     *)
(* Nobody else knows the job before submit returns, and a crash or a failed *)
(* launch event leaves a row that looks like a deferred job after a         *)
(* restart, so the three are one step.                                      *)
Submit(j) ==
    /\ Up
    /\ row[j].state = "ABSENT"
    /\ row' = [row EXCEPT ![j].state = "QUEUED"]
    /\ flag' = [flag EXCEPT ![j] = "clear"]
    /\ UNCHANGED <<recorded, claimed, slots, worker, canceller, recovering,
                   patching, restarts, executions>>

(* _spawn, from submit, submit_batch or start: a new thread for run(). *)
Spawn(w, j) ==
    /\ Up
    /\ worker[w].pc = "idle"
    /\ row[j].state = "QUEUED"
    /\ worker' = [worker EXCEPT ![w] = [job |-> j, pc |-> "claim", to |-> "ABSENT"]]
    /\ UNCHANGED <<ledger, memory, canceller, recovering, patching, restarts, executions>>

-----------------------------------------------------------------------------
(* run: claim, wait for admission, execute, give everything back.           *)

At(w, pc) == worker[w].pc = pc
Job(w) == worker[w].job
CancelSet(j) == flag[j] = "set"

Goto(w, pc) == worker' = [worker EXCEPT ![w].pc = pc]
(* Call _transition(to). *)
Begin(w, to) == worker' = [worker EXCEPT ![w].pc = "read", ![w].to = to]
Return(w) == worker' = [worker EXCEPT ![w] = Idle]

(* Mutant: the claim set is not consulted.                                  *)
ClaimAgain(w) ==
    /\ At(w, "claim")
    /\ IF row[Job(w)].state = "QUEUED"
       THEN /\ claimed' = claimed \cup {Job(w)}
            /\ IF Job(w) \in Infeasible
               THEN Goto(w, "guard") /\ UNCHANGED flag
               ELSE /\ Goto(w, "acquire")
                    /\ flag' = [flag EXCEPT ![Job(w)] = IF @ = "none" THEN "clear" ELSE @]
       ELSE Return(w) /\ UNCHANGED <<claimed, flag>>
    /\ UNCHANGED <<ledger, slots, canceller, recovering, patching, restarts, executions>>

(* Under _claims_lock; a claimed job with a feasible profile goes on to     *)
(* acquire with its cancel event, which _cancel_event creates if missing.   *)
Claim(w) ==
    /\ At(w, "claim")
    /\ IF row[Job(w)].state = "QUEUED" /\ Job(w) \notin claimed
       THEN /\ claimed' = claimed \cup {Job(w)}
            /\ IF Job(w) \in Infeasible
               THEN Goto(w, "guard") /\ UNCHANGED flag
               ELSE /\ Goto(w, "acquire")
                    /\ flag' = [flag EXCEPT ![Job(w)] = IF @ = "none" THEN "clear" ELSE @]
       ELSE Return(w) /\ UNCHANGED <<claimed, flag>>
    /\ UNCHANGED <<ledger, slots, canceller, recovering, patching, restarts, executions>>

(* acquire returns True while the job is not cancelled and fits. *)
Admit(w) ==
    /\ At(w, "acquire")
    /\ ~CancelSet(Job(w))
    /\ Cardinality(slots) < Capacity
    /\ slots' = slots \cup {Job(w)}
    /\ Goto(w, "guard")
    /\ UNCHANGED <<ledger, flag, claimed, canceller, recovering, patching, restarts, executions>>

(* acquire returns False. *)
TurnAway(w) ==
    /\ At(w, "acquire")
    /\ CancelSet(Job(w))
    /\ Goto(w, "unclaim")
    /\ UNCHANGED <<ledger, memory, canceller, recovering, patching, restarts, executions>>

(* The finally blocks of run. *)
Release(w) ==
    /\ At(w, "release")
    /\ slots' = slots \ {Job(w)}
    /\ Goto(w, "unclaim")
    /\ UNCHANGED <<ledger, flag, claimed, canceller, recovering, patching, restarts, executions>>

Unclaim(w) ==
    /\ At(w, "unclaim")
    /\ claimed' = claimed \ {Job(w)}
    /\ Return(w)
    /\ UNCHANGED <<ledger, flag, slots, canceller, recovering, patching, restarts, executions>>

-----------------------------------------------------------------------------
(* _transition, for workers.                                                *)

(* Mutant: an exception out of the handler skips the release.               *)
TransitionReadLeaking(w) ==
    /\ At(w, "read")
    /\ CASE Legal(row[Job(w)].state, worker[w].to) -> Goto(w, "write")
         [] OTHER -> IF worker[w].to = "FAILED" THEN Goto(w, "unclaim") ELSE Begin(w, "FAILED")
    /\ UNCHANGED <<ledger, memory, canceller, recovering, patching, restarts, executions>>

(* The read.  An illegal transition raises ValueError: the handler of       *)
(* _run_guarded answers it with a transition to FAILED, and if that one is  *)
(* illegal too the exception leaves run through its finally blocks.         *)
TransitionRead(w) ==
    /\ At(w, "read")
    /\ CASE Legal(row[Job(w)].state, worker[w].to) -> Goto(w, "write")
         [] OTHER -> IF worker[w].to = "FAILED" THEN Goto(w, "release") ELSE Begin(w, "FAILED")
    /\ UNCHANGED <<ledger, memory, canceller, recovering, patching, restarts, executions>>

After ==
    [PREPARING |-> "prepare", RUNNING |-> "execute", PARSING |-> "parse",
     VALIDATING |-> "validate", COMPLETED |-> "release", FAILED |-> "release",
     CANCELLED |-> "release"]

(* The write: JobLedger.transition, unconditional, with the metadata of the *)
(* terminal states in the same transaction.                                 *)
TransitionWrite(w) ==
    LET to == worker[w].to
    IN  /\ At(w, "write")
        /\ row' = [row EXCEPT ![Job(w)] =
                     [state  |-> to,
                      error  |-> to = "FAILED" \/ @.error,
                      result |-> to = "COMPLETED" \/ @.result]]
        /\ Goto(w, After[to])
        /\ UNCHANGED <<recorded, memory, canceller, recovering, patching, restarts, executions>>

-----------------------------------------------------------------------------
(* _run_guarded, between its transitions.                                   *)

Guard(w) ==
    /\ At(w, "guard")
    /\ Goto(w, IF row[Job(w)].state = "QUEUED" THEN "start" ELSE "release")
    /\ UNCHANGED <<ledger, memory, canceller, recovering, patching, restarts, executions>>

(* Mutant: the check after the execution is missing.                        *)
CheckOnlyBeforeRun(w, pc, to) ==
    /\ At(w, pc)
    /\ Begin(w, IF CancelSet(Job(w)) /\ pc # "completed" THEN "CANCELLED" ELSE to)
    /\ UNCHANGED <<ledger, memory, canceller, recovering, patching, restarts, executions>>

(* "cancelled before prepare", "cancelled before run". *)
CheckThenTransition(w, pc, to) ==
    /\ At(w, pc)
    /\ Begin(w, IF CancelSet(Job(w)) THEN "CANCELLED" ELSE to)
    /\ UNCHANGED <<ledger, memory, canceller, recovering, patching, restarts, executions>>

(* A call into the participant (prepare, probe, parse, validate) succeeds,  *)
(* or raises or reports a failure that ends in FAILED.                      *)
Call(w, pc, ok) ==
    /\ At(w, pc)
    /\ ok \/ Begin(w, "FAILED")
    /\ UNCHANGED <<ledger, memory, canceller, recovering, patching, restarts, executions>>

(* _admit, then the participant's prepare. *)
Prepare(w) == Call(w, "prepare", Job(w) \notin Infeasible /\ Goto(w, "store"))

(* ledger.update stores the hashes and, with them, the state PREPARING. *)
StoreHashes(w) ==
    /\ At(w, "store")
    /\ row' = [row EXCEPT ![Job(w)].state = "PREPARING"]
    /\ Goto(w, "prepared")
    /\ UNCHANGED <<recorded, memory, canceller, recovering, patching, restarts, executions>>

(* "cancelled after prepare". *)
CheckPrepared(w) ==
    /\ At(w, "prepared")
    /\ IF CancelSet(Job(w)) THEN Begin(w, "CANCELLED") ELSE Goto(w, "probe")
    /\ UNCHANGED <<ledger, memory, canceller, recovering, patching, restarts, executions>>

Probe(w) == Call(w, "probe", Goto(w, "probed"))

(* _execute starts the solver. *)
Execute(w) ==
    /\ At(w, "execute")
    /\ executions' = [executions EXCEPT ![Job(w)] = @ + 1]
    /\ Goto(w, "executing")
    /\ UNCHANGED <<ledger, memory, canceller, recovering, patching, restarts>>

(* The solver ends: it completed, or it failed, ran out of time or was      *)
(* stopped by the supervisor because of a cancel, or _execute raised, which *)
(* skips the check "cancelled during run".                                  *)
SolverEnds(w) ==
    /\ At(w, "executing")
    /\ Goto(w, "completed") \/ Goto(w, "failed") \/ Begin(w, "FAILED")
    /\ UNCHANGED <<ledger, memory, canceller, recovering, patching, restarts, executions>>

Parse(w) == Call(w, "parse", Begin(w, "VALIDATING"))

Validate(w) == Call(w, "validate", Goto(w, "publish"))

(* Mutant: the append is only attempted.                                    *)
PublishUnrecorded(w) ==
    /\ At(w, "publish")
    /\ \/ Begin(w, "COMPLETED") /\ (UNCHANGED recorded \/ recorded' = recorded \cup {Job(w)})
       \/ Begin(w, "FAILED") /\ UNCHANGED recorded
    /\ UNCHANGED <<row, memory, canceller, recovering, patching, restarts, executions>>

(* _publish appends the result event to the provenance store, or raises. *)
Publish(w) ==
    /\ At(w, "publish")
    /\ \/ /\ Job(w) \notin recorded
          /\ recorded' = recorded \cup {Job(w)}
          /\ Begin(w, "COMPLETED")
       \/ Begin(w, "FAILED") /\ UNCHANGED recorded
    /\ UNCHANGED <<row, memory, canceller, recovering, patching, restarts, executions>>

RunGuarded(w) ==
    \/ Guard(w)
    \/ CheckThenTransition(w, "start", "PREPARING")
    \/ Prepare(w)
    \/ StoreHashes(w)
    \/ CheckPrepared(w)
    \/ Probe(w)
    \/ CheckThenTransition(w, "probed", "RUNNING")
    \/ Execute(w)
    \/ SolverEnds(w)
    \/ CheckThenTransition(w, "completed", "PARSING")
    \/ CheckThenTransition(w, "failed", "FAILED")
    \/ Parse(w)
    \/ Validate(w)
    \/ Publish(w)

Run(w) ==
    \/ Claim(w) \/ Admit(w) \/ TurnAway(w) \/ Release(w) \/ Unclaim(w)
    \/ TransitionRead(w) \/ TransitionWrite(w)
    \/ RunGuarded(w)

-----------------------------------------------------------------------------
(* cancel.                                                                  *)

Wake(c, me) == canceller' = [canceller EXCEPT ![c] = me]

(* Read the row; a missing or terminal job is refused. *)
CancelBegin(c, j) ==
    /\ Up
    /\ canceller[c].pc = "idle"
    /\ row[j].state \notin Terminal \cup {"ABSENT"}
    /\ Wake(c, [job |-> j, pc |-> "flag", read |-> row[j].state])
    /\ UNCHANGED <<ledger, memory, worker, recovering, patching, restarts, executions>>

(* Set the flag, if there is one; only a job read as QUEUED is also moved   *)
(* to CANCELLED, for any other its state is returned.                       *)
CancelFlag(c) ==
    LET me == canceller[c]
    IN  /\ me.pc = "flag"
        /\ flag' = [flag EXCEPT ![me.job] = IF @ = "none" THEN @ ELSE "set"]
        /\ Wake(c, IF me.read = "QUEUED" THEN [me EXCEPT !.pc = "read"] ELSE Asleep)
        /\ UNCHANGED <<ledger, claimed, slots, worker, recovering, patching, restarts, executions>>

(* _transition's read; an illegal transition leaves cancel as an exception. *)
CancelRead(c) ==
    LET me == canceller[c]
    IN  /\ me.pc = "read"
        /\ Wake(c, IF Legal(row[me.job].state, "CANCELLED")
                   THEN [me EXCEPT !.pc = "write"] ELSE Asleep)
        /\ UNCHANGED <<ledger, memory, worker, recovering, patching, restarts, executions>>

(* _transition's write, after which cancel returns CANCELLED. *)
CancelWrite(c) ==
    LET me == canceller[c]
    IN  /\ me.pc = "write"
        /\ row' = [row EXCEPT ![me.job].state = "CANCELLED"]
        /\ Wake(c, Asleep)
        /\ UNCHANGED <<recorded, memory, worker, recovering, patching, restarts, executions>>

Cancel(c) == CancelFlag(c) \/ CancelRead(c) \/ CancelWrite(c)

-----------------------------------------------------------------------------
(* Crash, restart and recover.                                              *)

(* The process dies at any point, during recover too: only the ledger and   *)
(* the provenance store survive.                                            *)
Crash ==
    /\ restarts < MaxRestarts
    /\ restarts' = restarts + 1
    /\ flag' = [j \in Jobs |-> "none"]
    /\ claimed' = {}
    /\ slots' = {}
    /\ worker' = [w \in Workers |-> Idle]
    /\ canceller' = [c \in Cancellers |-> Asleep]
    /\ recovering' = TRUE
    /\ patching' = None
    /\ UNCHANGED <<ledger, executions>>

(* Mutant: recover overlooks jobs that have only been prepared.             *)
OrphanInSolver(j) == row[j].state \in {"RUNNING", "PARSING", "VALIDATING"}

Orphan(j) == row[j].state \notin {"ABSENT", "QUEUED"} \cup Terminal

(* recover fails an orphan (no error_code yet) ... *)
RecoverFail(j) ==
    /\ recovering
    /\ patching = None
    /\ Orphan(j)
    /\ row' = [row EXCEPT ![j].state = "FAILED"]
    /\ patching' = j
    /\ UNCHANGED <<recorded, memory, worker, canceller, recovering, restarts, executions>>

(* ... and in a second transaction gives it the code INTERRUPTED. *)
RecoverCode ==
    /\ patching # None
    /\ row' = [row EXCEPT ![patching].state = "FAILED", ![patching].error = TRUE]
    /\ patching' = None
    /\ UNCHANGED <<recorded, memory, worker, canceller, recovering, restarts, executions>>

(* Mutant: the constructor returns between recover's two transactions.      *)
RecoverDoneEarly ==
    /\ recovering
    /\ ~ \E j \in Jobs : Orphan(j)
    /\ recovering' = FALSE
    /\ UNCHANGED <<ledger, memory, worker, canceller, patching, restarts, executions>>

RecoverDone ==
    /\ recovering
    /\ patching = None
    /\ ~ \E j \in Jobs : Orphan(j)
    /\ recovering' = FALSE
    /\ UNCHANGED <<ledger, memory, worker, canceller, patching, restarts, executions>>

Recover == (\E j \in Jobs : RecoverFail(j)) \/ RecoverCode \/ RecoverDone

-----------------------------------------------------------------------------
Next ==
    \/ \E j \in Jobs : Submit(j)
    \/ \E w \in Workers, j \in Jobs : Spawn(w, j)
    \/ \E w \in Workers : Run(w)
    \/ \E c \in Cancellers, j \in Jobs : CancelBegin(c, j)
    \/ \E c \in Cancellers : Cancel(c)
    \/ Recover
    \/ Crash

Spec == Init /\ [][Next]_vars

(* Threads that run are scheduled, an execution is ended by its timeout,    *)
(* and the constructor finishes recover.  Nobody has to submit, start,      *)
(* cancel or crash.                                                         *)
Fairness ==
    /\ \A w \in Workers : WF_vars(Run(w))
    /\ \A c \in Cancellers : WF_vars(Cancel(c))
    /\ WF_vars(Recover)

FairSpec == Spec /\ Fairness

-----------------------------------------------------------------------------
(* Properties.                                                              *)

WorkerPcs ==
    {"idle", "claim", "acquire", "guard", "start", "read", "write", "prepare",
     "store", "prepared", "probe", "probed", "execute", "executing", "completed",
     "failed", "parse", "validate", "publish", "release", "unclaim"}

Row == [state : States, error : BOOLEAN, result : BOOLEAN]
Thread == [job : Jobs \cup {None}, pc : WorkerPcs, to : States]
CancelThread ==
    [job : Jobs \cup {None}, read : States, pc : {"idle", "flag", "read", "write"}]

(* Types; a job waits for its code only while recover runs.                 *)
TypeOK ==
    /\ row \in [Jobs -> Row]
    /\ recorded \subseteq Jobs
    /\ flag \in [Jobs -> {"none", "clear", "set"}]
    /\ claimed \subseteq Jobs
    /\ slots \subseteq Jobs
    /\ worker \in [Workers -> Thread]
    /\ canceller \in [Cancellers -> CancelThread]
    /\ recovering \in BOOLEAN
    /\ patching \in Jobs \cup {None}
    /\ patching # None => recovering
    /\ restarts \in 0..MaxRestarts
    /\ executions \in [Jobs -> Nat]

(* The threads inside run's claim, and those of them inside the slot.       *)
Holders == {w \in Workers : worker[w].pc \notin {"idle", "claim"}}
SlotHolders ==
    {w \in Holders : Job(w) \notin Infeasible /\ worker[w].pc \notin {"acquire", "unclaim"}}

(* "The claim set is the no-duplicate-execution guard": every claim and     *)
(* every admission slot belongs to exactly one live thread, on every path   *)
(* out of run, those of a rejected transition included.                     *)
ClaimsExact ==
    /\ claimed = {Job(w) : w \in Holders}
    /\ \A v, w \in Holders : Job(v) = Job(w) => v = w
    /\ slots = {Job(w) : w \in SlotHolders}
    /\ Cardinality(slots) <= Capacity

(* A job's solver is started at most once, whatever the number of start     *)
(* requests, cancels and restarts.                                          *)
AtMostOneExecution == \A j \in Jobs : executions[j] <= 1

(* A row is COMPLETED only with its result id, its result event in the      *)
(* provenance store and a solver that was really started: no race and no    *)
(* restart publishes a result that was not earned.                          *)
CompletedHasEvidence ==
    \A j \in Jobs : row[j].state = "COMPLETED" =>
        row[j].result /\ j \in recorded /\ executions[j] = 1

(* A worker of j has not yet passed the check that follows the execution.   *)
BeforeCollection(j) ==
    \E w \in Workers :
        /\ Job(w) = j
        /\ \/ worker[w].pc \in {"prepare", "store", "prepared", "probe", "probed",
                                "execute", "executing", "completed"}
           \/ worker[w].pc \in {"read", "write"} /\ worker[w].to = "RUNNING"

(* A cancel whose flag is set before the solver's result is collected wins: *)
(* the job is never COMPLETED afterwards.                                   *)
InFlightCancelWins ==
    \A j \in Jobs :
        [](CancelSet(j) /\ BeforeCollection(j) => [](row[j].state # "COMPLETED"))

InFlight(j) == row[j].state \in {"PREPARING", "RUNNING", "PARSING", "VALIDATING"}

(* The jobs that an accepted cancel will write CANCELLED in its next step.  *)
Ending ==
    {canceller[c].job : c \in {d \in Cancellers : canceller[d].pc = "write"}}

(* No job is abandoned in the middle: while the process is up, a row in     *)
(* flight has a live thread inside run that will move it on, on every way   *)
(* out of _run_guarded and after every recover.                             *)
InFlightAttended == Up => \A j \in Jobs : InFlight(j) => j \in claimed

(* A terminal row is final as soon as the thread that had claimed the job   *)
(* has given it up and no cancel has passed its legality check: no later    *)
(* start, cancel or restart changes the outcome, although the writes of     *)
(* _transition do not look at what they overwrite.                          *)
SettledForGood ==
    [][\A j \in Jobs :
         row[j].state \in Terminal /\ j \notin claimed /\ j \notin Ending
           => row'[j].state = row[j].state]_vars

(* Seen from outside, the job manager keeps the promises of JobService.     *)
Status(j) == IF InFlight(j) THEN "WORKING" ELSE row[j].state
Service == INSTANCE JobService WITH
    status <- [j \in Jobs |-> Status(j)], attended <- claimed, ending <- Ending,
    starts <- executions, published <- recorded, down <- recovering
ImplementsJobService == Service!Spec

(* No job hangs: a job that has left QUEUED reaches a terminal state (after *)
(* a crash, by recover), and a claimed job gives up claim and slot.         *)
EveryJobSettles ==
    \A j \in Jobs : /\ InFlight(j) ~> row[j].state \in Terminal
                    /\ j \in claimed ~> j \notin claimed

(* The comment on _LEGAL_TRANSITIONS: "Anything else is rejected, never     *)
(* persisted."                                                              *)
OnlyLegalTransitions ==
    [][\A j \in Jobs : row'[j].state # row[j].state /\ row[j].state # "ABSENT"
                         => Legal(row[j].state, row'[j].state)]_vars

(* The comment in _transition: a poller never observes "FAILED with a       *)
(* missing error_code".  Nobody polls before the constructor is done.       *)
FailedHasCode == Up => \A j \in Jobs : row[j].state = "FAILED" => row[j].error
=============================================================================
