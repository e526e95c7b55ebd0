--------------------------- MODULE RemoteExecution ---------------------------
(***************************************************************************)
(* Remote attempts of the native-job manager: NativeJobManager._execute,   *)
(* _execute_remote and _run_remote_transport, what _run_guarded does with  *)
(* their receipt, _handle_preemption, resume, and the restart of the       *)
(* process (solvers/participants/lifecycle.py), with the cost ledger they  *)
(* share.  The provider behind the JobExecutor protocol is external: an    *)
(* attempt it runs goes on when nobody watches it any more.                *)
(*                                                                         *)
(* A job is one attempt.  JobLifecycle shows that it is executed at most   *)
(* once and how its row is written; here a row has four phases, and the    *)
(* two races on the row of a queued job are left to that module.           *)
(***************************************************************************)
EXTENDS CostLedger

CONSTANTS
    Costs,        \* the costs a receipt may report
    MaxAttempts,  \* max_attempts of the retry policy
    AutoResumes,  \* whether the policy resumes after transient failures
    MaxRestarts   \* bound on the number of crashes

ASSUME PolicyAssumption ==
    /\ Costs \subseteq Nat
    /\ MaxAttempts \in Nat \ {0}
    /\ AutoResumes \in BOOLEAN
    /\ MaxRestarts \in Nat

VARIABLES
    row,         \* row[j]: the state column, RUNNING for every state between
    attempt,     \* attempt[j]: the attempt column
    resumeOf,    \* resumeOf[j]: the resume_of column
    checkpoint,  \* the jobs with a trusted checkpoint in checkpoint_json
    cost,        \* cost[j]: the cost_json column
    flag,        \* the jobs whose cancel event is set
    pc,          \* pc[j]: where the thread of the job is
    remote,      \* remote[j]: what the provider has made of the attempt
    stop,        \* the attempts the provider was asked to cancel
    restarts

rowVars == <<row, attempt, resumeOf, checkpoint>>
remoteVars == <<remote, stop>>
vars == <<ledgerVars, rowVars, remoteVars, cost, flag, pc, restarts>>

Terminal == {"COMPLETED", "FAILED", "CANCELLED"}
Finished == {"completed", "failed", "cancelled", "preempted", "checkpointed"}
(* What _execute hands back to _run_guarded: a receipt, or an exception. *)
Outcome == {"completed", "failed", "cancelled", "preempted", "raised"}
(* Where the thread is between reserve and the end of the reservation. *)
Reserving == {"launch", "poll", "received"}

Init ==
    /\ LedgerInit
    /\ row = [j \in Jobs |-> "ABSENT"]
    /\ attempt = [j \in Jobs |-> 1]
    /\ resumeOf = [j \in Jobs |-> None]
    /\ checkpoint = {}
    /\ cost = [j \in Jobs |-> None]
    /\ flag = {}
    /\ pc = [j \in Jobs |-> "idle"]
    /\ remote = [j \in Jobs |-> "none"]
    /\ stop = {}
    /\ restarts = 0

Goto(j, at) == pc' = [pc EXCEPT ![j] = at]
Ends(j, state) ==
    /\ row' = [row EXCEPT ![j] = state]
    /\ Goto(j, "idle")
    /\ UNCHANGED <<attempt, resumeOf, checkpoint>>

-----------------------------------------------------------------------------
(* submit, start and cancel.                                                *)

Submit(j) ==
    /\ row[j] = "ABSENT"
    /\ row' = [row EXCEPT ![j] = "QUEUED"]
    /\ UNCHANGED <<ledgerVars, remoteVars, attempt, resumeOf, checkpoint, cost,
                   flag, pc, restarts>>

(* The thread of the job reaches _execute_remote. *)
Start(j) ==
    /\ row[j] = "QUEUED"
    /\ row' = [row EXCEPT ![j] = "RUNNING"]
    /\ Goto(j, "reserve")
    /\ UNCHANGED <<ledgerVars, remoteVars, attempt, resumeOf, checkpoint, cost,
                   flag, restarts>>

(* cancel: a queued job is cancelled at once, a running one is only told. *)
Cancel(j) ==
    /\ row[j] \in {"QUEUED", "RUNNING"}
    /\ flag' = flag \cup {j}
    /\ row' = [row EXCEPT ![j] = IF @ = "QUEUED" THEN "CANCELLED" ELSE @]
    /\ UNCHANGED <<ledgerVars, remoteVars, attempt, resumeOf, checkpoint, cost,
                   pc, restarts>>

-----------------------------------------------------------------------------
(* _execute_remote.                                                         *)

Reserve(j) ==
    /\ pc[j] = "reserve"
    /\ IF Affordable(j)
       THEN ReserveCost(j) /\ Goto(j, "launch")
       ELSE Goto(j, "raised") /\ UNCHANGED ledgerVars
    /\ UNCHANGED <<rowVars, remoteVars, cost, flag, restarts>>

(* Mutant: the reservation is forgotten on the way out.                     *)
AbandonLeaking(j) == Goto(j, "raised") /\ UNCHANGED ledgerVars

(* The finally block of an attempt that was never settled. *)
Abandon(j) == DropReservation(j) /\ Goto(j, "raised")

(* executor.submit, which may raise. *)
Launch(j) ==
    /\ pc[j] = "launch"
    /\ \/ /\ remote' = [remote EXCEPT ![j] = "running"]
          /\ Goto(j, "poll")
          /\ UNCHANGED ledgerVars
       \/ Abandon(j) /\ UNCHANGED remote
    /\ UNCHANGED <<rowVars, stop, cost, flag, restarts>>

(* A turn of the polling loop passes a cancel on before it polls. *)
PassCancel(j) == stop' = IF j \in flag THEN stop \cup {j} ELSE stop

(* The attempt is not finished: poll again. *)
PollAgain(j) ==
    /\ pc[j] = "poll"
    /\ remote[j] = "running"
    /\ PassCancel(j)
    /\ UNCHANGED <<ledgerVars, rowVars, remote, cost, flag, pc, restarts>>

(* The attempt is finished: take its receipt. *)
PollFinished(j) ==
    /\ pc[j] = "poll"
    /\ remote[j] \in Finished
    /\ PassCancel(j)
    /\ Goto(j, "received")
    /\ UNCHANGED <<ledgerVars, rowVars, remote, cost, flag, restarts>>

(* Mutant: the loop has no deadline.                                        *)
PollTimeoutNever(j) == pc[j] = "poll" /\ FALSE /\ UNCHANGED vars

(* The wall time and its grace are over: cancel and raise. *)
PollTimeout(j) ==
    /\ pc[j] = "poll"
    /\ remote[j] = "running"
    /\ stop' = stop \cup {j}
    /\ Abandon(j)
    /\ UNCHANGED <<rowVars, remote, cost, flag, restarts>>

(* The transport raises while it polls or cancels. *)
PollRaises(j) ==
    /\ pc[j] = "poll"
    /\ PassCancel(j)
    /\ Abandon(j)
    /\ UNCHANGED <<rowVars, remote, cost, flag, restarts>>

(* Mutant: the cost is settled in the ledger and never written down.        *)
SettleRemoteUnwritten(j) ==
    \E bill \in [metered : BOOLEAN, cost : Costs] :
        SettleCost(j, bill) /\ UNCHANGED cost

(* _settle_remote_cost: settle in the ledger, then write cost_json. *)
SettleRemote(j) ==
    \E bill \in [metered : BOOLEAN, cost : Costs] :
        SettleCost(j, bill) /\ cost' = [cost EXCEPT ![j] = Charge(j, bill)]

(* What _execute_remote returns for a receipt.  A cancelled job is settled  *)
(* whatever its receipt says; evidence of a completed attempt that cannot   *)
(* be verified is settled and refused.                                      *)
ReceiptOutcomes(j) ==
    CASE j \in flag -> {"cancelled"}
      [] remote[j] = "completed" -> {"completed", "raised"}
      [] remote[j] \in {"preempted", "checkpointed"} -> {"preempted"}
      [] OTHER -> {remote[j]}

Settle(j) ==
    /\ pc[j] = "received"
    /\ SettleRemote(j)
    /\ \E result \in ReceiptOutcomes(j) : Goto(j, result)
    /\ UNCHANGED <<rowVars, remoteVars, flag, restarts>>

(* _preserve_checkpoint cannot write its files, before the settlement. *)
PreserveRaises(j) ==
    /\ pc[j] = "received"
    /\ j \notin flag
    /\ remote[j] = "checkpointed"
    /\ Abandon(j)
    /\ UNCHANGED <<rowVars, remoteVars, cost, flag, restarts>>

-----------------------------------------------------------------------------
(* _run_guarded after _execute.                                             *)

(* A completed attempt is still parsed, validated and published. *)
Conclude(j) ==
    /\ \/ pc[j] = "raised" /\ Ends(j, "FAILED")
       \/ /\ pc[j] \in Outcome \ {"raised"}
          /\ j \in flag \/ pc[j] = "cancelled"
          /\ Ends(j, "CANCELLED")
       \/ pc[j] = "failed" /\ j \notin flag /\ Ends(j, "FAILED")
       \/ /\ pc[j] = "completed"
          /\ j \notin flag
          /\ \E state \in {"COMPLETED", "FAILED"} : Ends(j, state)
    /\ UNCHANGED <<ledgerVars, remoteVars, cost, flag, restarts>>

(* The cancel flag of a preempted attempt is read for the last time. *)
BeginPreemption(j) ==
    /\ pc[j] = "preempted"
    /\ j \notin flag
    /\ Goto(j, "preempting")
    /\ UNCHANGED <<ledgerVars, rowVars, remoteVars, cost, flag, restarts>>

(* _handle_preemption: the transition to FAILED, with the checkpoint. *)
HandlePreemption(j) ==
    /\ pc[j] = "preempting"
    /\ row' = [row EXCEPT ![j] = "FAILED"]
    /\ checkpoint' = IF remote[j] = "checkpointed" THEN checkpoint \cup {j}
                     ELSE checkpoint
    /\ Goto(j, "resume")
    /\ UNCHANGED <<ledgerVars, remoteVars, attempt, resumeOf, cost, flag, restarts>>

-----------------------------------------------------------------------------
(* resume.                                                                  *)

(* Mutant: any failed job is resumed, with or without a checkpoint.         *)
ResumableUnchecked(j) == row[j] = "FAILED" /\ Headroom(j)

Resumable(j) == row[j] = "FAILED" /\ j \in checkpoint /\ Headroom(j)

(* Mutant: the attempt number restarts at zero.                             *)
NewAttemptFromZero(j, k) ==
    /\ row[k] = "ABSENT"
    /\ row' = [row EXCEPT ![k] = "QUEUED"]
    /\ attempt' = [attempt EXCEPT ![k] = 0]
    /\ resumeOf' = [resumeOf EXCEPT ![k] = j]

(* The new attempt; its thread is started, or the process dies before. *)
NewAttempt(j, k) ==
    /\ row[k] = "ABSENT"
    /\ row' = [row EXCEPT ![k] = "QUEUED"]
    /\ attempt' = [attempt EXCEPT ![k] = attempt[j] + 1]
    /\ resumeOf' = [resumeOf EXCEPT ![k] = j]

MayRetry(j) == attempt[j] < MaxAttempts /\ AutoResumes

(* _maybe_auto_resume, which a preempted attempt always reaches with a      *)
(* transient error code.  An incompatible checkpoint is refused.            *)
AutoResume(j) ==
    /\ pc[j] = "resume"
    /\ Goto(j, "idle")
    /\ \/ MayRetry(j) /\ Resumable(j) /\ \E k \in Jobs : NewAttempt(j, k)
       \/ UNCHANGED <<row, attempt, resumeOf>>
    /\ UNCHANGED <<ledgerVars, remoteVars, checkpoint, cost, flag, restarts>>

(* A caller of resume. *)
Resume(j) ==
    /\ Resumable(j)
    /\ \E k \in Jobs : NewAttempt(j, k)
    /\ UNCHANGED <<ledgerVars, remoteVars, checkpoint, cost, flag, pc, restarts>>

-----------------------------------------------------------------------------
(* The provider and the process.                                            *)

(* The attempt ends at the provider; one that was asked to stop may be      *)
(* cancelled or may still end in any other way.                             *)
Provide(j) ==
    /\ remote[j] = "running"
    /\ \E end \in Finished \ (IF j \in stop THEN {} ELSE {"cancelled"}) :
           remote' = [remote EXCEPT ![j] = end]
    /\ UNCHANGED <<ledgerVars, rowVars, stop, cost, flag, pc, restarts>>

(* A crash and the recover() of the next process: threads, flags and the    *)
(* cost ledger are gone, a row that was running is FAILED.                  *)
Crash ==
    /\ restarts < MaxRestarts
    /\ restarts' = restarts + 1
    /\ LedgerReset
    /\ flag' = {}
    /\ pc' = [j \in Jobs |-> "idle"]
    /\ row' = [j \in Jobs |-> IF row[j] = "RUNNING" THEN "FAILED" ELSE row[j]]
    /\ UNCHANGED <<remoteVars, attempt, resumeOf, checkpoint, cost>>

-----------------------------------------------------------------------------
Thread(j) ==
    \/ Reserve(j) \/ Launch(j) \/ PollAgain(j) \/ PollFinished(j) \/ PollTimeout(j)
    \/ Settle(j) \/ Conclude(j) \/ BeginPreemption(j) \/ HandlePreemption(j)
    \/ AutoResume(j)

Fault(j) == PollRaises(j) \/ PreserveRaises(j)

Next ==
    \/ \E j \in Jobs : Submit(j) \/ Start(j) \/ Cancel(j) \/ Thread(j)
                       \/ Fault(j) \/ Resume(j) \/ Provide(j)
    \/ Crash

(* A running thread is scheduled, and its polling loop ends by its deadline *)
(* whatever the provider does.  Faults, users, the provider and crashes owe *)
(* nothing.                                                                 *)
Spec == Init /\ [][Next]_vars /\ \A j \in Jobs : WF_vars(Thread(j))

-----------------------------------------------------------------------------
TypeOK ==
    /\ LedgerTypeOK
    /\ row \in [Jobs -> Terminal \cup {"ABSENT", "QUEUED", "RUNNING"}]
    /\ attempt \in [Jobs -> Nat \ {0}]
    /\ resumeOf \in [Jobs -> Jobs \cup {None}]
    /\ checkpoint \subseteq Jobs
    /\ cost \in [Jobs -> Nat \cup {None}]
    /\ flag \subseteq Jobs
    /\ pc \in [Jobs -> {"idle", "reserve", "preempting", "resume"} \cup Reserving \cup Outcome]
    /\ remote \in [Jobs -> Finished \cup {"none", "running"}]
    /\ stop \subseteq Jobs
    /\ restarts \in 0..MaxRestarts

(* A reservation is held exactly while the thread of its job is between     *)
(* reserve and the end of _execute_remote: none leaks on any way out, and   *)
(* none is given back while the attempt may still be charged.               *)
ReservationsExact == reservations = {j \in Jobs : pc[j] \in Reserving}

(* A resumed attempt continues an attempt that failed with a checkpoint and *)
(* stays failed: history is never rewritten.                                *)
ResumesContinueFailures ==
    \A k \in Jobs : resumeOf[k] # None =>
        LET j == resumeOf[k]
        IN  row[j] = "FAILED" /\ j \in checkpoint /\ attempt[k] = attempt[j] + 1

(* Every running attempt ends, whatever the provider does, and nothing      *)
(* remains reserved for it.                                                 *)
AttemptsEnd == \A j \in Jobs : row[j] = "RUNNING" ~>
                                   row[j] \in Terminal /\ j \notin reservations

(* "a cancelled job cannot resume automatically": no thread resumes a job   *)
(* whose cancel was accepted while it ran.                                  *)
CancelledNeverResumes ==
    [][\A j, k \in Jobs : pc[j] = "resume" /\ resumeOf'[k] # resumeOf[k]
                              /\ resumeOf'[k] = j /\ pc'[j] = "idle" => j \notin flag]_vars

(* "The paid attempt was accounted, never silently discarded": an attempt   *)
(* that ran at the provider and is over has a cost.                         *)
PaidAttemptsAccounted ==
    \A j \in Jobs : row[j] \in Terminal /\ remote[j] # "none" => cost[j] # None

-----------------------------------------------------------------------------
(* The attempts as those who pay for them see them: who holds money, who    *)
(* was placed and what was billed, without threads and running totals.      *)
Account == INSTANCE RemoteService WITH
    life <- row, number <- attempt, parent <- resumeOf, kept <- checkpoint,
    held <- reservations, placed <- {j \in Jobs : remote[j] # "none"},
    bill <- cost, booked <- {j \in Jobs : settled[j] # None}

(* Threads, receipts, faults and crashes keep the promises of the account:  *)
(* every attempt is placed at most once and within every ceiling, billed at *)
(* most once, and only ends as a success with its bill written down.        *)
ImplementsRemoteService == Account!Spec
=============================================================================
