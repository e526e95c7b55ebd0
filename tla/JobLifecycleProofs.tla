------------------------ MODULE JobLifecycleProofs ------------------------
(***************************************************************************)
(* Proofs about JobLifecycle, for every set of jobs, threads and cancels,  *)
(* every number of slots and every number of restarts.                     *)
(*                                                                         *)
(* ClaimsExact gives each job at most one thread inside run.  WorkerInv    *)
(* says what that thread may rely on at each point of _run_guarded: the    *)
(* solver has not been started yet, or has been started exactly once and   *)
(* the row has left QUEUED for good.  Nothing ever writes QUEUED back, not *)
(* even the unconditional writes, which is why a later thread cannot pass  *)
(* the guard of _run_guarded again.                                        *)
(*                                                                         *)
(* Served adds what the thread finds in the row: what it has written       *)
(* itself, or a cancel.  From there on every step can be read as one of    *)
(* JobService, and a job whose cancel came in time as Lost.                *)
(***************************************************************************)
EXTENDS JobLifecycle, FiniteSetTheorems, TLAPS

BeforeStart == {"start", "prepare", "store", "prepared", "probe", "probed", "execute"}
AfterStart == {"executing", "completed", "failed", "parse", "validate", "publish"}

(* Thread w is inside _transition(to) for some to of tos. *)
Moving(w, tos) == worker[w].pc \in {"read", "write"} /\ worker[w].to \in tos

(* The states a transition may aim at. *)
Targets == States \ {"ABSENT", "QUEUED"}

Left(j) == row[j].state \notin {"ABSENT", "QUEUED"}

WorkerOK(w) ==
    /\ worker[w].pc # "idle" => Job(w) \in Jobs
    /\ worker[w].pc \in {"read", "write"} => worker[w].to \in Targets
    /\ worker[w].pc \in BeforeStart \/ Moving(w, {"PREPARING", "RUNNING"})
         => executions[Job(w)] = 0
    /\ \/ worker[w].pc \in (BeforeStart \ {"start"}) \cup AfterStart
       \/ Moving(w, {"RUNNING", "PARSING", "VALIDATING", "COMPLETED"})
       => Left(Job(w))
    /\ worker[w].pc \in AfterStart \/ Moving(w, {"PARSING", "VALIDATING", "COMPLETED"})
         => executions[Job(w)] = 1
    /\ Moving(w, {"COMPLETED"}) => Job(w) \in recorded
    /\ worker[w].pc = "acquire" => Job(w) \notin Infeasible

CancellerOK(c) == canceller[c].pc # "idle" => canceller[c].job \in Jobs

WorkerInv == \A w \in Workers : WorkerOK(w)
CancellerInv == \A c \in Cancellers : CancellerOK(c)
RowInv == \A j \in Jobs : Left(j) \/ executions[j] = 0

IndInv ==
    /\ TypeOK
    /\ ClaimsExact
    /\ WorkerInv
    /\ CancellerInv
    /\ RowInv
    /\ AtMostOneExecution
    /\ CompletedHasEvidence

-----------------------------------------------------------------------------
(* A store with its jobs queued and no thread running satisfies the         *)
(* invariant.                                                               *)
LEMMA InitInv == Init => IndInv
<1>. SUFFICES ASSUME Init PROVE IndInv  OBVIOUS
<1>. USE JobAssumption DEF Init, Idle, Asleep
<1>1. TypeOK
  <2>1. row \in [Jobs -> Row]  BY DEF Row, States, Terminal
  <2>2. worker \in [Workers -> Thread]  BY DEF Thread, States, WorkerPcs
  <2>3. canceller \in [Cancellers -> CancelThread]  BY DEF CancelThread, States
  <2>4. /\ recorded \subseteq Jobs /\ claimed \subseteq Jobs /\ slots \subseteq Jobs
        /\ flag \in [Jobs -> {"none", "clear", "set"}]
        /\ recovering \in BOOLEAN
        /\ patching \in Jobs \cup {None}
        /\ patching # None => recovering
        /\ restarts \in 0..MaxRestarts
        /\ executions \in [Jobs -> Nat]
    <3>1. restarts \in 0..MaxRestarts /\ executions \in [Jobs -> Nat]  OBVIOUS
    <3>2. recovering \in BOOLEAN /\ (patching # None => recovering)  OBVIOUS
    <3>3. flag \in [Jobs -> {"none", "clear", "set"}]  OBVIOUS
    <3>4. recorded \subseteq Jobs /\ claimed \subseteq Jobs /\ slots \subseteq Jobs
          /\ patching \in Jobs \cup {None}
      OBVIOUS
    <3>. QED  BY ONLY <3>1, <3>2, <3>3, <3>4
  <2>. QED  BY ONLY <2>1, <2>2, <2>3, <2>4 DEF TypeOK
<1>2. ClaimsExact
  <2>1. Holders = {} /\ SlotHolders = {}  BY DEF Holders, SlotHolders
  <2>. QED  BY <2>1, FS_EmptySet DEF ClaimsExact
<1>3. WorkerInv  BY DEF WorkerInv, WorkerOK, Moving, BeforeStart, AfterStart
<1>4. CancellerInv  BY DEF CancellerInv, CancellerOK
<1>5. RowInv  BY DEF RowInv, Left
<1>6. AtMostOneExecution  BY DEF AtMostOneExecution
<1>7. CompletedHasEvidence  BY DEF CompletedHasEvidence
<1>. QED  BY <1>1, <1>2, <1>3, <1>4, <1>5, <1>6, <1>7 DEF IndInv

(* Types. *)
LEMMA WorkerType ==
  ASSUME TypeOK, NEW w \in Workers
  PROVE  /\ \A pc \in WorkerPcs : Goto(w, pc) => worker' \in [Workers -> Thread]
         /\ \A to \in States : Begin(w, to) => worker' \in [Workers -> Thread]
         /\ Return(w) => worker' \in [Workers -> Thread]
<1>1. worker \in [Workers -> Thread]  BY DEF TypeOK
<1>2. "read" \in WorkerPcs /\ Idle \in Thread
  BY DEF WorkerPcs, Idle, Thread, States
<1>. QED  BY <1>1, <1>2 DEF Goto, Begin, Return, Thread

(* Writing a state, or an error code with it, into a row.                   *)
LEMMA RowType ==
  ASSUME row \in [Jobs -> Row], NEW j, NEW s \in States
  PROVE  /\ [row EXCEPT ![j].state = s] \in [Jobs -> Row]
         /\ [row EXCEPT ![j].state = s, ![j].error = TRUE] \in [Jobs -> Row]
<1>1. CASE j \in Jobs
  <2>1. row[j] \in Row  BY <1>1
  <2>2. [row[j] EXCEPT !.state = s] \in Row  BY <2>1 DEF Row
  <2>3. [[row[j] EXCEPT !.state = s] EXCEPT !.error = TRUE] \in Row  BY <2>2 DEF Row
  <2>. QED  BY <1>1, <2>1, <2>2, <2>3
<1>2. CASE j \notin Jobs  BY <1>2
<1>. QED  BY <1>1, <1>2

(* Every step keeps the types.                                              *)
LEMMA TypeStep == IndInv /\ Next => TypeOK'
<1>. SUFFICES ASSUME IndInv, Next PROVE TypeOK'  OBVIOUS
<1>. USE JobAssumption DEF IndInv, TypeOK, ledger, memory
<1>1. ASSUME NEW j \in Jobs, Submit(j) PROVE TypeOK'
  BY <1>1 DEF Submit, Row, States
<1>2. ASSUME NEW w \in Workers, NEW j \in Jobs, Spawn(w, j) PROVE TypeOK'
  <2>1. [job |-> j, pc |-> "claim", to |-> "ABSENT"] \in Thread
    BY DEF Thread, WorkerPcs, States
  <2>. QED  BY <1>2, <2>1 DEF Spawn
<1>3. ASSUME NEW w \in Workers, Claim(w) PROVE TypeOK'
  <2>1. Job(w) \in Jobs  BY <1>3 DEF Claim, At, WorkerInv, WorkerOK
  <2>2. worker' \in [Workers -> Thread]
    BY <1>3, WorkerType DEF Claim, WorkerPcs
  <2>3. claimed' \subseteq Jobs /\ flag' \in [Jobs -> {"none", "clear", "set"}]
    BY <1>3, <2>1 DEF Claim
  <2>. QED  BY <1>3, <2>2, <2>3 DEF Claim
<1>4. ASSUME NEW w \in Workers, Admit(w) PROVE TypeOK'
  <2>1. Job(w) \in Jobs  BY <1>4 DEF Admit, At, WorkerInv, WorkerOK
  <2>2. worker' \in [Workers -> Thread]
    BY <1>4, WorkerType DEF Admit, WorkerPcs
  <2>. QED  BY <1>4, <2>1, <2>2 DEF Admit
<1>5. ASSUME NEW w \in Workers, TurnAway(w) \/ Release(w) \/ Unclaim(w) PROVE TypeOK'
  <2>1. worker' \in [Workers -> Thread]
    BY <1>5, WorkerType DEF TurnAway, Release, Unclaim, WorkerPcs
  <2>. QED  BY <1>5, <2>1 DEF TurnAway, Release, Unclaim
<1>6. ASSUME NEW w \in Workers, TransitionRead(w) PROVE TypeOK'
  <2>1. worker' \in [Workers -> Thread]
    BY <1>6, WorkerType DEF TransitionRead, WorkerPcs, States, Terminal
  <2>. QED  BY <1>6, <2>1 DEF TransitionRead
<1>7. ASSUME NEW w \in Workers, TransitionWrite(w) PROVE TypeOK'
  <2>1. worker[w].to \in Targets /\ worker[w].to \in States
    BY <1>7 DEF TransitionWrite, At, WorkerInv, WorkerOK, Thread
  <2>2. After[worker[w].to] \in WorkerPcs
    BY <2>1 DEF After, WorkerPcs, Targets, States, Terminal
  <2>3. worker' \in [Workers -> Thread]
    BY <1>7, <2>2, WorkerType DEF TransitionWrite
  <2>4. row' \in [Jobs -> Row]
    <3>. DEFINE to == worker[w].to
                old == row[Job(w)]
                new == [state |-> to, error |-> to = "FAILED" \/ old.error,
                        result |-> to = "COMPLETED" \/ old.result]
    <3>1. (to = "FAILED" \/ old.error) \in BOOLEAN
          /\ (to = "COMPLETED" \/ old.result) \in BOOLEAN
      OBVIOUS
    <3>2. new \in Row  BY <2>1, <3>1 DEF Row
    <3>3. row' = [row EXCEPT ![Job(w)] = new]  BY <1>7 DEF TransitionWrite
    <3>4. row \in [Jobs -> Row]  OBVIOUS
    <3>. HIDE DEF new
    <3>. QED  BY ONLY <3>2, <3>3, <3>4
  <2>. QED  BY <1>7, <2>3, <2>4 DEF TransitionWrite
<1>8. ASSUME NEW w \in Workers, RunGuarded(w) PROVE TypeOK'
  <2>. USE <1>8 DEF RunGuarded, Guard, CheckThenTransition, Call, Prepare, StoreHashes,
         CheckPrepared, Probe, Execute, SolverEnds, Parse, Validate, Publish
  <2>1. worker' \in [Workers -> Thread]
    BY WorkerType DEF WorkerPcs, States, Terminal
  <2>2. row' \in [Jobs -> Row]  BY DEF Row, States
  <2>3. recorded' \subseteq Jobs
    BY DEF At, Job, WorkerInv, WorkerOK
  <2>4. executions' \in [Jobs -> Nat]
    BY DEF WorkerInv, WorkerOK
  <2>5. UNCHANGED <<flag, claimed, slots, canceller, recovering, patching, restarts>>
    OBVIOUS
  <2>. QED  BY ONLY TypeOK, <2>1, <2>2, <2>3, <2>4, <2>5 DEF TypeOK
<1>9. ASSUME NEW c \in Cancellers, NEW j \in Jobs, CancelBegin(c, j) PROVE TypeOK'
  <2>1. [job |-> j, pc |-> "flag", read |-> row[j].state] \in CancelThread
    BY DEF CancelThread, Row
  <2>. QED  BY <1>9, <2>1 DEF CancelBegin, Wake
<1>10. ASSUME NEW c \in Cancellers, Cancel(c) PROVE TypeOK'
  <2>1. canceller[c] \in CancelThread /\ Asleep \in CancelThread
    BY DEF CancelThread, Asleep, States
  <2>2. canceller' \in [Cancellers -> CancelThread]
    BY <1>10, <2>1 DEF Cancel, CancelFlag, CancelRead, CancelWrite, Wake, CancelThread
  <2>3. row' \in [Jobs -> Row]
    <3>1. CASE CancelWrite(c)
      <4>1. row \in [Jobs -> Row] /\ "CANCELLED" \in States  BY DEF States, Terminal
      <4>. QED  BY ONLY <3>1, <4>1, RowType DEF CancelWrite
    <3>2. CASE UNCHANGED row  BY <3>2
    <3>. QED  BY <1>10, <3>1, <3>2 DEF Cancel, CancelFlag, CancelRead
  <2>4. flag' \in [Jobs -> {"none", "clear", "set"}]
    BY <1>10 DEF Cancel, CancelFlag, CancelRead, CancelWrite
  <2>. QED  BY <1>10, <2>2, <2>3, <2>4 DEF Cancel, CancelFlag, CancelRead, CancelWrite
<1>11. ASSUME Recover PROVE TypeOK'
  <2>1. row' \in [Jobs -> Row]
    <3>0. row \in [Jobs -> Row] /\ "FAILED" \in States  BY DEF States, Terminal
    <3>1. ASSUME NEW j \in Jobs, RecoverFail(j) PROVE row' \in [Jobs -> Row]
      BY ONLY <3>0, <3>1, RowType DEF RecoverFail
    <3>2. CASE RecoverCode
      BY ONLY <3>0, <3>2, RowType DEF RecoverCode
    <3>3. CASE RecoverDone  BY <3>3 DEF RecoverDone
    <3>. QED  BY <1>11, <3>1, <3>2, <3>3 DEF Recover
  <2>. QED  BY <1>11, <2>1 DEF Recover, RecoverFail, RecoverCode, RecoverDone
<1>12. ASSUME Crash PROVE TypeOK'
  <2>1. Idle \in Thread /\ Asleep \in CancelThread
    BY DEF Idle, Asleep, Thread, CancelThread, States, WorkerPcs
  <2>. QED  BY <1>12, <2>1 DEF Crash
<1>. QED  BY <1>1, <1>2, <1>3, <1>4, <1>5, <1>6, <1>7, <1>8, <1>9, <1>10, <1>11, <1>12
          DEF Next, Run

-----------------------------------------------------------------------------
(* Claims and slots.                                                        *)

Inside == WorkerPcs \ {"idle", "claim", "acquire", "unclaim"}

(* Every step of _run_guarded and of _transition keeps its thread inside    *)
(* the slot, on the same job.                                               *)
LEMMA InsideStep ==
  ASSUME IndInv, NEW w \in Workers,
         RunGuarded(w) \/ TransitionRead(w) \/ TransitionWrite(w)
  PROVE  /\ worker[w].pc \in Inside
         /\ worker' \in [Workers -> Thread]
         /\ worker'[w].pc \in Inside /\ worker'[w].job = worker[w].job
         /\ \A v \in Workers \ {w} : worker'[v] = worker[v]
         /\ UNCHANGED <<claimed, slots>>
<1>1. TypeOK'
  <2>1. Next  BY DEF Next, Run
  <2>. QED  BY <2>1, TypeStep
<1>. USE DEF IndInv, TypeOK, Thread, At, Goto, Begin, memory, ledger
<1>2. CASE RunGuarded(w)
  <2>. USE <1>2 DEF RunGuarded, Guard, CheckThenTransition, Call, Prepare, StoreHashes,
         CheckPrepared, Probe, Execute, SolverEnds, Parse, Validate, Publish
  <2>1. worker[w].pc \in Inside  BY DEF Inside, WorkerPcs
  <2>2. worker'[w].pc \in Inside  BY DEF Inside, WorkerPcs
  <2>3. worker'[w].job = worker[w].job  OBVIOUS
  <2>4. \A v \in Workers \ {w} : worker'[v] = worker[v]  OBVIOUS
  <2>5. UNCHANGED <<claimed, slots>>  OBVIOUS
  <2>. QED  BY ONLY <1>1, <2>1, <2>2, <2>3, <2>4, <2>5 DEF TypeOK
<1>3. CASE TransitionRead(w)
  BY <1>1, <1>3 DEF TransitionRead, Inside, WorkerPcs
<1>4. CASE TransitionWrite(w)
  <2>1. worker[w].to \in Targets  BY <1>4 DEF TransitionWrite, WorkerInv, WorkerOK
  <2>2. After[worker[w].to] \in Inside
    BY <2>1 DEF After, Inside, WorkerPcs, Targets, States, Terminal
  <2>. QED  BY <1>1, <1>4, <2>2 DEF TransitionWrite, Inside, WorkerPcs
<1>. QED  BY <1>2, <1>3, <1>4

(* What ClaimsExact is about has not changed. *)
LEMMA ClaimsKept ==
  ASSUME ClaimsExact, UNCHANGED <<claimed, slots>>,
         \A v \in Workers : v \in Holders' <=> v \in Holders,
         \A v \in Workers : v \in SlotHolders' <=> v \in SlotHolders,
         \A v \in Holders : Job(v)' = Job(v)
  PROVE  ClaimsExact'
<1>1. Holders' = Holders /\ SlotHolders' = SlotHolders
  BY DEF Holders, SlotHolders
<1>2. SlotHolders \subseteq Holders  BY DEF SlotHolders
<1>. QED  BY <1>1, <1>2 DEF ClaimsExact

(* Every step keeps claims and slots exact: the steps that take or give back*)
(* one are those that move a thread into or out of the slot.                *)
LEMMA ClaimsStep == IndInv /\ Next => ClaimsExact'
<1>. SUFFICES ASSUME IndInv, Next PROVE ClaimsExact'  OBVIOUS
<1>. USE JobAssumption
<1>0. ClaimsExact /\ TypeOK /\ TypeOK' /\ WorkerInv  BY TypeStep DEF IndInv
<1>1. CASE UNCHANGED <<worker, claimed, slots>>
  BY <1>0, <1>1, ClaimsKept DEF Holders, SlotHolders, Job
<1>2. ASSUME NEW w \in Workers, NEW j \in Jobs, Spawn(w, j) PROVE ClaimsExact'
  BY <1>0, <1>2, ClaimsKept DEF Spawn, TypeOK, Holders, SlotHolders, Job, memory
<1>3. ASSUME NEW w \in Workers,
             RunGuarded(w) \/ TransitionRead(w) \/ TransitionWrite(w)
      PROVE  ClaimsExact'
  <2>1. /\ worker[w].pc \in Inside /\ worker'[w].pc \in Inside
        /\ worker'[w].job = worker[w].job
        /\ \A v \in Workers \ {w} : worker'[v] = worker[v]
        /\ UNCHANGED <<claimed, slots>>
    BY <1>3, InsideStep
  <2>2. \A v \in Workers : Job(v)' = Job(v)  BY <2>1 DEF Job
  <2>3. \A v \in Workers : v \in Holders' <=> v \in Holders
    BY <2>1 DEF Holders, Inside
  <2>4. \A v \in Workers : v \in SlotHolders' <=> v \in SlotHolders
    BY <2>1, <2>2, <2>3 DEF SlotHolders, Inside
  <2>5. \A v \in Holders : Job(v)' = Job(v)  BY <2>2 DEF Holders
  <2>. QED  BY <1>0, <2>1, <2>3, <2>4, <2>5, ClaimsKept
<1>4. ASSUME NEW w \in Workers, Claim(w) PROVE ClaimsExact'
  <2>1. worker[w].pc = "claim" /\ w \notin Holders /\ w \notin SlotHolders
    BY <1>4 DEF Claim, At, Holders, SlotHolders
  <2>2. \A v \in Workers \ {w} : worker'[v] = worker[v]
    BY <1>0, <1>4 DEF Claim, Goto, Return, TypeOK
  <2>3. slots' = slots  BY <1>4 DEF Claim
  <2>4. CASE row[Job(w)].state = "QUEUED" /\ Job(w) \notin claimed
    <3>1. claimed' = claimed \cup {Job(w)}  BY <1>4, <2>4 DEF Claim
    <3>2. worker'[w].job = Job(w)
          /\ worker'[w].pc = IF Job(w) \in Infeasible THEN "guard" ELSE "acquire"
      BY <1>0, <1>4, <2>4 DEF Claim, Goto, Job, TypeOK, Thread
    <3>3. Holders' = Holders \cup {w}  BY <2>2, <3>2 DEF Holders
    <3>4. SlotHolders' = SlotHolders
      <4>1. w \notin SlotHolders'
        BY <3>2 DEF SlotHolders, Job
      <4>2. \A v \in Workers \ {w} : v \in SlotHolders' <=> v \in SlotHolders
        BY <2>2 DEF SlotHolders, Holders, Job
      <4>. QED  BY <2>1, <4>1, <4>2 DEF SlotHolders, Holders
    <3>5. \A v \in Holders : Job(v)' = Job(v) /\ v # w
      BY <2>1, <2>2 DEF Job, Holders
    <3>6. Job(w)' = Job(w)  BY <3>2 DEF Job
    <3>7. SlotHolders \subseteq Holders  BY DEF SlotHolders
    <3>8. \A v \in Holders : Job(v) # Job(w)  BY <1>0, <2>4 DEF ClaimsExact
    <3>. QED  BY <1>0, <2>3, <3>1, <3>3, <3>4, <3>5, <3>6, <3>7, <3>8 DEF ClaimsExact
  <2>5. CASE ~(row[Job(w)].state = "QUEUED" /\ Job(w) \notin claimed)
    <3>1. claimed' = claimed /\ worker'[w] = Idle
      BY <1>0, <1>4, <2>5 DEF Claim, Return, TypeOK
    <3>. QED
      BY <1>0, <2>1, <2>2, <2>3, <3>1, ClaimsKept DEF Holders, SlotHolders, Job, Idle
  <2>. QED  BY <2>4, <2>5
<1>5. ASSUME NEW w \in Workers, Admit(w) PROVE ClaimsExact'
  <2>1. /\ worker[w].pc = "acquire" /\ worker'[w].pc = "guard"
        /\ worker'[w].job = worker[w].job
        /\ \A v \in Workers \ {w} : worker'[v] = worker[v]
        /\ claimed' = claimed /\ slots' = slots \cup {Job(w)}
        /\ Cardinality(slots) < Capacity
    BY <1>0, <1>5 DEF Admit, At, Goto, TypeOK, Thread
  <2>2. Job(w) \in Jobs \ Infeasible  BY <1>0, <2>1 DEF WorkerInv, WorkerOK
  <2>3. \A v \in Workers : Job(v)' = Job(v)  BY <2>1 DEF Job
  <2>4. Holders' = Holders  BY <2>1 DEF Holders
  <2>5. SlotHolders' = SlotHolders \cup {w}
    BY <2>1, <2>2, <2>3 DEF SlotHolders, Holders
  <2>6. slots' = {Job(v)' : v \in SlotHolders'}
    <3>1. slots = {Job(v) : v \in SlotHolders}  BY <1>0 DEF ClaimsExact
    <3>. QED  BY <2>1, <2>3, <2>5, <3>1 DEF SlotHolders, Holders
  <2>7. Cardinality(slots') <= Capacity
    <3>1. IsFiniteSet(slots)  BY <1>0, FS_Subset DEF TypeOK
    <3>2. Cardinality(slots) \in Nat  BY <3>1, FS_CardinalityType
    <3>3. Cardinality(slots \cup {Job(w)})
            = IF Job(w) \in slots THEN Cardinality(slots) ELSE Cardinality(slots) + 1
      BY <3>1, FS_AddElement
    <3>. QED  BY <2>1, <3>2, <3>3
  <2>8. claimed' = {Job(v)' : v \in Holders'}
        /\ \A v, u \in Holders' : Job(v)' = Job(u)' => v = u
    BY <1>0, <2>1, <2>3, <2>4 DEF ClaimsExact, Holders
  <2>. QED  BY <2>6, <2>7, <2>8 DEF ClaimsExact
<1>6. ASSUME NEW w \in Workers, TurnAway(w) PROVE ClaimsExact'
  <2>1. /\ worker[w].pc = "acquire" /\ worker'[w].pc = "unclaim"
        /\ worker'[w].job = worker[w].job
        /\ \A v \in Workers \ {w} : worker'[v] = worker[v]
        /\ UNCHANGED <<claimed, slots>>
    BY <1>0, <1>6 DEF TurnAway, At, Goto, TypeOK, Thread, memory
  <2>. QED  BY <1>0, <2>1, ClaimsKept DEF Holders, SlotHolders, Job
<1>7. ASSUME NEW w \in Workers, Release(w) PROVE ClaimsExact'
  <2>1. /\ worker[w].pc = "release" /\ worker'[w].pc = "unclaim"
        /\ worker'[w].job = worker[w].job
        /\ \A v \in Workers \ {w} : worker'[v] = worker[v]
        /\ claimed' = claimed /\ slots' = slots \ {Job(w)}
    BY <1>0, <1>7 DEF Release, At, Goto, TypeOK, Thread
  <2>2. \A v \in Workers : Job(v)' = Job(v)  BY <2>1 DEF Job
  <2>3. Holders' = Holders /\ w \in Holders  BY <2>1 DEF Holders
  <2>4. SlotHolders' = SlotHolders \ {w}
    BY <2>1, <2>2 DEF SlotHolders, Holders
  <2>5. SlotHolders \subseteq Holders /\ Holders \subseteq Workers
    BY DEF SlotHolders, Holders
  <2>6. \A v \in SlotHolders \ {w} : Job(v) # Job(w)
    BY <1>0, <2>3, <2>5 DEF ClaimsExact
  <2>7. slots' = {Job(v)' : v \in SlotHolders'}
    <3>1. slots = {Job(v) : v \in SlotHolders}  BY <1>0 DEF ClaimsExact
    <3>. QED  BY <2>1, <2>2, <2>4, <2>5, <2>6, <3>1
  <2>8. Cardinality(slots') <= Capacity
    <3>1. IsFiniteSet(slots)  BY <1>0, FS_Subset DEF TypeOK
    <3>2. Cardinality(slots) \in Nat /\ Cardinality(slots') \in Nat
          /\ Cardinality(slots') <= Cardinality(slots)
      BY <2>1, <3>1, FS_Subset, FS_CardinalityType
    <3>3. Cardinality(slots) <= Capacity  BY <1>0 DEF ClaimsExact
    <3>. QED  BY <3>2, <3>3
  <2>9. claimed' = {Job(v)' : v \in Holders'}
        /\ \A v, u \in Holders' : Job(v)' = Job(u)' => v = u
    BY <1>0, <2>1, <2>2, <2>3, <2>5 DEF ClaimsExact
  <2>. QED  BY <2>7, <2>8, <2>9 DEF ClaimsExact
<1>8. ASSUME NEW w \in Workers, Unclaim(w) PROVE ClaimsExact'
  <2>1. /\ worker[w].pc = "unclaim" /\ worker'[w].pc = "idle"
        /\ \A v \in Workers \ {w} : worker'[v] = worker[v]
        /\ claimed' = claimed \ {Job(w)} /\ slots' = slots
    BY <1>0, <1>8 DEF Unclaim, At, Return, Idle, TypeOK
  <2>2. \A v \in Workers \ {w} : Job(v)' = Job(v)  BY <2>1 DEF Job
  <2>3. Holders' = Holders \ {w} /\ w \in Holders /\ Holders \subseteq Workers
    BY <2>1 DEF Holders
  <2>4. SlotHolders' = SlotHolders /\ w \notin SlotHolders /\ SlotHolders \subseteq Holders
    BY <2>1, <2>2, <2>3 DEF SlotHolders
  <2>5. \A v \in Holders \ {w} : Job(v) # Job(w)  BY <1>0, <2>3 DEF ClaimsExact
  <2>6. claimed' = {Job(v)' : v \in Holders'}
    <3>1. claimed = {Job(v) : v \in Holders}  BY <1>0 DEF ClaimsExact
    <3>. QED  BY <2>1, <2>2, <2>3, <2>5, <3>1
  <2>7. slots' = {Job(v)' : v \in SlotHolders'} /\ Cardinality(slots') <= Capacity
    BY <1>0, <2>1, <2>2, <2>3, <2>4 DEF ClaimsExact
  <2>8. \A v, u \in Holders' : Job(v)' = Job(u)' => v = u
    BY <1>0, <2>2, <2>3 DEF ClaimsExact
  <2>. QED  BY <2>6, <2>7, <2>8 DEF ClaimsExact
<1>9. CASE Crash
  <2>1. Holders' = {} /\ SlotHolders' = {}
    BY <1>9 DEF Crash, Holders, SlotHolders, Idle
  <2>. QED  BY <1>9, <2>1, FS_EmptySet DEF Crash, ClaimsExact
<1>. QED
  BY <1>1, <1>2, <1>3, <1>4, <1>5, <1>6, <1>7, <1>8, <1>9
  DEF Next, Run, Submit, CancelBegin, Cancel, CancelFlag, CancelRead, CancelWrite,
      Recover, RecoverFail, RecoverCode, RecoverDone, memory

-----------------------------------------------------------------------------
(* What a thread relies on.                                                 *)

(* Other threads keep it: they never make a row QUEUED or ABSENT again, the *)
(* provenance store only grows, and only the thread that has claimed a job  *)
(* starts its solver.                                                       *)
LEMMA WorkerKept ==
  ASSUME NEW v \in Workers, WorkerOK(v), worker'[v] = worker[v],
         worker[v].pc \notin {"idle"} => (Left(Job(v)) => Left(Job(v))'),
         worker[v].pc \notin {"idle", "claim"} => executions'[Job(v)] = executions[Job(v)],
         recorded \subseteq recorded'
  PROVE  WorkerOK(v)'
BY DEF WorkerOK, Moving, Job, BeforeStart, AfterStart

(* The steps that write rows. *)
LEMMA RowWriters ==
  ASSUME Next
  PROVE  \/ UNCHANGED row
         \/ \E j \in Jobs : Submit(j) \/ RecoverFail(j)
         \/ \E w \in Workers : TransitionWrite(w) \/ StoreHashes(w)
         \/ \E c \in Cancellers : CancelWrite(c)
         \/ RecoverCode
<1>1. ASSUME NEW w \in Workers, RunGuarded(w) PROVE UNCHANGED row \/ StoreHashes(w)
  BY <1>1
  DEF RunGuarded, Guard, CheckThenTransition, Call, Prepare, CheckPrepared, Probe,
      Execute, SolverEnds, Parse, Validate, Publish, ledger
<1>2. ASSUME NEW w \in Workers, Run(w)
      PROVE  UNCHANGED row \/ StoreHashes(w) \/ TransitionWrite(w)
  BY <1>1, <1>2 DEF Run, Claim, Admit, TurnAway, Release, Unclaim, TransitionRead, ledger
<1>3. ASSUME NEW c \in Cancellers, Cancel(c) PROVE UNCHANGED row \/ CancelWrite(c)
  BY <1>3 DEF Cancel, CancelFlag, CancelRead, ledger
<1>. QED  BY <1>2, <1>3 DEF Next, Spawn, CancelBegin, Recover, RecoverDone, Crash, ledger

(* No step makes a row that has left QUEUED go back. *)
LEMMA RowsLeave == IndInv /\ Next => \A j \in Jobs : Left(j) => Left(j)'
<1>. SUFFICES ASSUME IndInv, Next, NEW j \in Jobs, Left(j) PROVE Left(j)'  OBVIOUS
<1>. USE DEF Left, IndInv, TypeOK, ledger, memory
<1>1. ASSUME NEW k \in Jobs, Submit(k) PROVE Left(j)'  BY <1>1 DEF Submit, Row
<1>2. ASSUME NEW w \in Workers, TransitionWrite(w) PROVE Left(j)'
  <2>1. worker[w].to \in Targets  BY <1>2 DEF TransitionWrite, At, WorkerInv, WorkerOK
  <2>. QED  BY <1>2, <2>1 DEF TransitionWrite, Targets, Row
<1>3. ASSUME NEW w \in Workers, StoreHashes(w) PROVE Left(j)'
  BY <1>3 DEF StoreHashes, Row
<1>4. ASSUME NEW c \in Cancellers, CancelWrite(c) PROVE Left(j)'
  BY <1>4 DEF CancelWrite, Row
<1>5. ASSUME NEW k \in Jobs, RecoverFail(k) PROVE Left(j)'
  BY <1>5 DEF RecoverFail, Row
<1>6. CASE RecoverCode  BY <1>6 DEF RecoverCode, Row
<1>7. CASE UNCHANGED row  BY <1>7
<1>. QED  BY <1>1, <1>2, <1>3, <1>4, <1>5, <1>6, <1>7, RowWriters

(* Entering _transition(to). *)
LEMMA BeginOK ==
  ASSUME TypeOK, NEW w \in Workers, Job(w) \in Jobs, NEW to \in Targets, Begin(w, to),
         to \in {"PREPARING", "RUNNING"} => executions'[Job(w)] = 0,
         to \in {"RUNNING", "PARSING", "VALIDATING", "COMPLETED"} => Left(Job(w))',
         to \in {"PARSING", "VALIDATING", "COMPLETED"} => executions'[Job(w)] = 1,
         to = "COMPLETED" => Job(w) \in recorded'
  PROVE  WorkerOK(w)'
<1>1. worker'[w].pc = "read" /\ worker'[w].to = to /\ worker'[w].job = worker[w].job
  BY DEF Begin, TypeOK, Thread
<1>2. Job(w)' = Job(w)  BY <1>1 DEF Job
<1>. HIDE DEF Job
<1>3. /\ worker'[w].pc \notin BeforeStart /\ worker'[w].pc \notin AfterStart
      /\ worker'[w].pc \notin {"idle", "acquire"}
  BY <1>1 DEF BeforeStart, AfterStart
<1>4. \A tos : Moving(w, tos)' <=> to \in tos  BY <1>1 DEF Moving
<1>5. Left(Job(w))' <=> row'[Job(w)].state \notin {"ABSENT", "QUEUED"}
  BY <1>2 DEF Left
<1>. QED  BY <1>1, <1>2, <1>3, <1>4, <1>5 DEF WorkerOK, Left

(* The thread that moves. *)
LEMMA MoverOK ==
  ASSUME IndInv, NEW w \in Workers, RunGuarded(w) \/ TransitionRead(w) \/ TransitionWrite(w)
  PROVE  WorkerOK(w)'
<1>. USE DEF IndInv, TypeOK, Thread, At, Goto, Begin, Job, Left, Moving, BeforeStart,
             AfterStart, memory, ledger
<1>0. Next /\ WorkerOK(w) /\ worker[w] \in Thread /\ TypeOK
  BY DEF Next, Run, WorkerInv
<1>a. Job(w) \in Jobs /\ (Left(Job(w)) => Left(Job(w))')
  <2>1. worker[w].pc \in Inside /\ worker'[w].job = worker[w].job
    BY InsideStep
  <2>2. Job(w) \in Jobs /\ Job(w)' = Job(w)
    BY <1>0, <2>1 DEF WorkerOK, Inside
  <2>3. \A j \in Jobs : Left(j) => Left(j)'  BY <1>0, RowsLeave
  <2>. QED  BY ONLY <2>2, <2>3 DEF Left
<1>1. CASE TransitionRead(w)
  BY <1>0, <1>1 DEF TransitionRead, WorkerOK, Targets, States, Terminal
<1>2. CASE TransitionWrite(w)
  <2>1. worker[w].to \in Targets  BY <1>0, <1>2 DEF TransitionWrite, WorkerOK
  <2>. QED  BY <1>0, <1>2, <2>1
            DEF TransitionWrite, WorkerOK, Targets, States, Terminal, After, Row
<1>3. CASE Guard(w)  BY <1>0, <1>3 DEF Guard, WorkerOK, RowInv
<1>4. CASE CheckThenTransition(w, "start", "PREPARING")
  BY <1>0, <1>4 DEF CheckThenTransition, WorkerOK, Targets, States, Terminal
<1>5. CASE CheckThenTransition(w, "probed", "RUNNING")
  <2>1. Job(w) \in Jobs /\ executions'[Job(w)] = 0 /\ Left(Job(w))'
    <3>1. worker[w].pc = "probed" /\ executions' = executions
      BY <1>5 DEF CheckThenTransition
    <3>2. Left(Job(w)) /\ executions[Job(w)] = 0
      BY ONLY <1>0, <3>1 DEF WorkerOK, BeforeStart, AfterStart
    <3>. QED  BY ONLY <1>a, <3>1, <3>2
  <2>2. Begin(w, "RUNNING") \/ Begin(w, "CANCELLED")
    BY <1>5 DEF CheckThenTransition
  <2>3. {"RUNNING", "CANCELLED"} \subseteq Targets  BY DEF Targets, States, Terminal
  <2>. QED  BY ONLY <1>0, <2>1, <2>2, <2>3, BeginOK
<1>6. CASE CheckThenTransition(w, "completed", "PARSING")
  <2>1. Job(w) \in Jobs /\ executions'[Job(w)] = 1 /\ Left(Job(w))'
    <3>1. worker[w].pc = "completed" /\ executions' = executions
      BY <1>6 DEF CheckThenTransition
    <3>2. Left(Job(w)) /\ executions[Job(w)] = 1
      BY ONLY <1>0, <3>1 DEF WorkerOK, BeforeStart, AfterStart
    <3>. QED  BY ONLY <1>a, <3>1, <3>2
  <2>2. Begin(w, "PARSING") \/ Begin(w, "CANCELLED")
    BY <1>6 DEF CheckThenTransition
  <2>3. {"PARSING", "CANCELLED"} \subseteq Targets  BY DEF Targets, States, Terminal
  <2>. QED  BY ONLY <1>0, <2>1, <2>2, <2>3, BeginOK
<1>7. CASE CheckThenTransition(w, "failed", "FAILED")
  BY <1>0, <1>7 DEF CheckThenTransition, WorkerOK, Targets, States, Terminal
<1>8. CASE Prepare(w) \/ Probe(w) \/ Parse(w) \/ Validate(w)
  <2>1. Job(w) \in Jobs /\ Left(Job(w))' /\ executions' = executions
    <3>1. worker[w].pc \in {"prepare", "probe", "parse", "validate"}
          /\ executions' = executions
      BY <1>8 DEF Prepare, Probe, Parse, Validate, Call
    <3>2. Left(Job(w))  BY ONLY <1>0, <3>1 DEF WorkerOK, BeforeStart, AfterStart
    <3>. QED  BY ONLY <1>a, <3>1, <3>2
  <2>2. {"VALIDATING", "FAILED"} \subseteq Targets  BY DEF Targets, States, Terminal
  <2>3. CASE Begin(w, "FAILED")  BY ONLY <1>0, <2>1, <2>2, <2>3, BeginOK
  <2>4. CASE Parse(w) /\ Begin(w, "VALIDATING")
    <3>1. executions'[Job(w)] = 1  BY <1>0, <2>1, <2>4 DEF Parse, Call, WorkerOK
    <3>. QED  BY ONLY <1>0, <2>1, <2>2, <2>4, <3>1, BeginOK
  <2>5. CASE Prepare(w) /\ Goto(w, "store")
    BY <1>0, <2>1, <2>5 DEF Prepare, Call, WorkerOK
  <2>6. CASE Probe(w) /\ Goto(w, "probed")
    BY <1>0, <2>1, <2>6 DEF Probe, Call, WorkerOK
  <2>7. CASE Validate(w) /\ Goto(w, "publish")
    BY <1>0, <2>1, <2>7 DEF Validate, Call, WorkerOK
  <2>. QED  BY <1>8, <2>3, <2>4, <2>5, <2>6, <2>7 DEF Prepare, Probe, Parse, Validate, Call
<1>9. CASE StoreHashes(w)  BY <1>0, <1>9 DEF StoreHashes, WorkerOK, Row
<1>10. CASE CheckPrepared(w)
  BY <1>0, <1>10 DEF CheckPrepared, WorkerOK, Targets, States, Terminal
<1>11. CASE Execute(w)  BY <1>0, <1>11 DEF Execute, WorkerOK
<1>12. CASE SolverEnds(w)
  BY <1>0, <1>12 DEF SolverEnds, WorkerOK, Targets, States, Terminal
<1>13. CASE Publish(w)
  <2>1. Job(w) \in Jobs /\ Left(Job(w))' /\ executions'[Job(w)] = 1
    <3>1. worker[w].pc = "publish" /\ executions' = executions
      BY <1>13 DEF Publish
    <3>2. Left(Job(w)) /\ executions[Job(w)] = 1
      BY ONLY <1>0, <3>1 DEF WorkerOK, BeforeStart, AfterStart
    <3>. QED  BY ONLY <1>a, <3>1, <3>2
  <2>2. (Begin(w, "COMPLETED") /\ Job(w) \in recorded') \/ Begin(w, "FAILED")
    BY <1>13 DEF Publish
  <2>3. {"COMPLETED", "FAILED"} \subseteq Targets  BY DEF Targets, States, Terminal
  <2>. QED  BY ONLY <1>0, <2>1, <2>2, <2>3, BeginOK
<1>. QED  BY <1>1, <1>2, <1>3, <1>4, <1>5, <1>6, <1>7, <1>8, <1>9, <1>10, <1>11, <1>12, <1>13
          DEF RunGuarded

(* A step of thread w other than Claim, Admit and the like changes nothing  *)
(* another thread relies on.                                                *)
LEMMA WorkerStep == IndInv /\ Next => WorkerInv'
<1>. SUFFICES ASSUME IndInv, Next, NEW v \in Workers PROVE WorkerOK(v)'
  BY DEF WorkerInv
<1>1. TypeOK /\ TypeOK' /\ WorkerInv /\ WorkerOK(v) /\ ClaimsExact
      /\ worker \in [Workers -> Thread]
  BY TypeStep DEF IndInv, WorkerInv, TypeOK
<1>2. \A j \in Jobs : Left(j) => Left(j)'  BY RowsLeave
<1>3. ASSUME worker'[v] = worker[v], executions' = executions, recorded \subseteq recorded'
      PROVE  WorkerOK(v)'
  <2>1. Job(v)' = Job(v)  BY <1>3 DEF Job
  <2>2. worker[v].pc # "idle" => (Left(Job(v)) => Left(Job(v))')
    <3>1. worker[v].pc # "idle" => Job(v) \in Jobs  BY <1>1 DEF WorkerOK
    <3>. QED  BY ONLY <1>2, <2>1, <3>1 DEF Left
  <2>. QED  BY <1>1, <1>3, <2>2, WorkerKept
<1>4. ASSUME NEW j \in Jobs, Submit(j) PROVE WorkerOK(v)'
  BY <1>3, <1>4 DEF Submit
<1>5. ASSUME NEW w \in Workers, NEW j \in Jobs, Spawn(w, j) PROVE WorkerOK(v)'
  <2>1. CASE v # w  BY <1>1, <1>3, <1>5, <2>1 DEF Spawn, ledger
  <2>2. CASE v = w
    <3>1. worker'[v] = [job |-> j, pc |-> "claim", to |-> "ABSENT"]
      BY <1>1, <1>5, <2>2 DEF Spawn
    <3>. QED  BY <3>1 DEF WorkerOK, Moving, Job, BeforeStart, AfterStart
  <2>. QED  BY <2>1, <2>2
<1>6. ASSUME NEW w \in Workers,
             RunGuarded(w) \/ TransitionRead(w) \/ TransitionWrite(w)
      PROVE  WorkerOK(v)'
  <2>1. CASE v = w  BY <1>6, <2>1, MoverOK
  <2>2. CASE v # w /\ ~Execute(w)
    <3>1. worker'[v] = worker[v]  BY <1>6, <2>2, InsideStep
    <3>2. executions' = executions /\ recorded \subseteq recorded'
      BY <1>6, <2>2 DEF TransitionRead, TransitionWrite, RunGuarded, Guard,
         CheckThenTransition, Call, Prepare, StoreHashes, CheckPrepared, Probe,
         SolverEnds, Parse, Validate, Publish, ledger
    <3>. QED  BY <1>3, <3>1, <3>2
  <2>3. CASE v # w /\ Execute(w)
    <3>1. worker'[v] = worker[v] /\ w \in Holders
      BY <1>6, <2>3, InsideStep DEF Holders, Inside
    <3>2. recorded' = recorded
          /\ executions' = [executions EXCEPT ![Job(w)] = executions[Job(w)] + 1]
      BY <2>3 DEF Execute, ledger
    <3>3. Job(v)' = Job(v)  BY <3>1 DEF Job
    <3>4. worker[v].pc # "idle" => (Left(Job(v)) => Left(Job(v))')
      <4>1. worker[v].pc # "idle" => Job(v) \in Jobs  BY <1>1 DEF WorkerOK
      <4>. QED  BY ONLY <1>2, <3>3, <4>1 DEF Left
    <3>5. worker[v].pc \notin {"idle", "claim"} => executions'[Job(v)] = executions[Job(v)]
      <4>. SUFFICES ASSUME worker[v].pc \notin {"idle", "claim"}
                    PROVE  executions'[Job(v)] = executions[Job(v)]
        OBVIOUS
      <4>1. v \in Holders  BY DEF Holders
      <4>2. Job(v) # Job(w)  BY <1>1, <2>3, <3>1, <4>1 DEF ClaimsExact
      <4>3. Job(v) \in Jobs /\ executions \in [Jobs -> Nat]
        BY <1>1 DEF WorkerOK, TypeOK
      <4>. QED  BY <3>2, <4>2, <4>3
    <3>. QED  BY <1>1, <3>1, <3>2, <3>4, <3>5, WorkerKept
  <2>. QED  BY <2>1, <2>2, <2>3
<1>7. ASSUME NEW w \in Workers, Claim(w) \/ Admit(w) \/ TurnAway(w) \/ Release(w) \/ Unclaim(w)
      PROVE  WorkerOK(v)'
  <2>1. executions' = executions /\ recorded' = recorded
    BY <1>7 DEF Claim, Admit, TurnAway, Release, Unclaim, ledger
  <2>2. CASE v # w
    <3>1. worker'[v] = worker[v]
      BY <1>1, <1>7, <2>2 DEF Claim, Admit, TurnAway, Release, Unclaim, Goto, Return
    <3>. QED  BY <1>3, <2>1, <3>1
  <2>3. CASE v = w
    <3>1. /\ worker[v].pc # "idle"
          /\ \/ worker'[v] = Idle
             \/ /\ worker'[v].job = worker[v].job
                /\ worker'[v].pc \in {"acquire", "guard", "unclaim"}
                /\ worker'[v].pc = "acquire" => Job(v) \notin Infeasible
      BY <1>1, <1>7, <2>3
      DEF Claim, Admit, TurnAway, Release, Unclaim, Goto, Return, At, Thread
    <3>2. Job(v)' = worker'[v].job  BY DEF Job
    <3>3. Job(v) \in Jobs /\ Job(v) = worker[v].job  BY <1>1, <3>1 DEF WorkerOK, Job
    <3>. QED
      BY ONLY <3>1, <3>2, <3>3 DEF WorkerOK, Moving, BeforeStart, AfterStart, Idle
  <2>. QED  BY <2>2, <2>3
<1>8. CASE Crash
  <2>1. worker'[v] = Idle  BY <1>8 DEF Crash
  <2>. QED  BY <2>1 DEF WorkerOK, Moving, Job, BeforeStart, AfterStart, Idle
<1>9. CASE UNCHANGED <<worker, recorded, executions>>  BY <1>3, <1>9
<1>. QED
  BY <1>4, <1>5, <1>6, <1>7, <1>8, <1>9
  DEF Next, Run, CancelBegin, Cancel, CancelFlag, CancelRead, CancelWrite,
      Recover, RecoverFail, RecoverCode, RecoverDone, ledger

-----------------------------------------------------------------------------
(* Cancellers, rows and executions.                                         *)

(* A cancelling thread works on the job it was called for.                  *)
LEMMA CancellerStep == IndInv /\ Next => CancellerInv'
<1>. SUFFICES ASSUME IndInv, Next, NEW d \in Cancellers PROVE CancellerOK(d)'
  BY DEF CancellerInv
<1>1. CancellerOK(d) /\ canceller \in [Cancellers -> CancelThread]
  BY DEF IndInv, CancellerInv, TypeOK
<1>2. CASE UNCHANGED canceller  BY <1>1, <1>2 DEF CancellerOK
<1>3. ASSUME NEW c \in Cancellers, NEW j \in Jobs, CancelBegin(c, j) PROVE CancellerOK(d)'
  BY <1>1, <1>3 DEF CancelBegin, Wake, CancellerOK
<1>4. ASSUME NEW c \in Cancellers, Cancel(c) PROVE CancellerOK(d)'
  BY <1>1, <1>4
  DEF Cancel, CancelFlag, CancelRead, CancelWrite, Wake, CancellerOK, CancelThread, Asleep
<1>5. CASE Crash  BY <1>5 DEF Crash, CancellerOK, Asleep
<1>. QED
  BY <1>2, <1>3, <1>4, <1>5
  DEF Next, Submit, Spawn, Run, Claim, Admit, TurnAway, Release, Unclaim, TransitionRead,
      TransitionWrite, RunGuarded, Guard, CheckThenTransition, Call, Prepare, StoreHashes,
      CheckPrepared, Probe, Execute, SolverEnds, Parse, Validate, Publish, Recover,
      RecoverFail, RecoverCode, RecoverDone

(* Only Execute counts an execution: of a job that was never executed and   *)
(* whose row has left QUEUED.                                               *)
LEMMA ExecuteOnly ==
  ASSUME IndInv, Next
  PROVE  \/ executions' = executions
         \/ \E j \in Jobs : /\ executions[j] = 0 /\ Left(j)
                           /\ executions' = [executions EXCEPT ![j] = 1]
                           /\ UNCHANGED ledger
<1>1. ASSUME NEW w \in Workers, Execute(w)
      PROVE  \E j \in Jobs : /\ executions[j] = 0 /\ Left(j)
                            /\ executions' = [executions EXCEPT ![j] = 1]
                            /\ UNCHANGED ledger
  <2>1. WorkerOK(w) /\ worker[w].pc = "execute"
    BY <1>1 DEF IndInv, WorkerInv, Execute, At
  <2>2. Job(w) \in Jobs /\ executions[Job(w)] = 0 /\ Left(Job(w))
    BY ONLY <2>1 DEF WorkerOK, BeforeStart, AfterStart
  <2>3. executions' = [executions EXCEPT ![Job(w)] = 1] /\ UNCHANGED ledger
    BY <1>1, <2>2 DEF Execute
  <2>. QED  BY <2>2, <2>3
<1>. QED
  BY <1>1
  DEF Next, Submit, Spawn, Run, Claim, Admit, TurnAway, Release, Unclaim, TransitionRead,
      TransitionWrite, RunGuarded, Guard, CheckThenTransition, Call, Prepare, StoreHashes,
      CheckPrepared, Probe, SolverEnds, Parse, Validate, Publish, CancelBegin, Cancel,
      CancelFlag, CancelRead, CancelWrite, Recover, RecoverFail, RecoverCode,
      RecoverDone, Crash

(* Every step keeps executions to at most one a job, and to jobs whose row  *)
(* has left QUEUED.                                                         *)
LEMMA OnceStep == IndInv /\ Next => RowInv' /\ AtMostOneExecution'
<1>. SUFFICES ASSUME IndInv, Next, NEW j \in Jobs
              PROVE  (Left(j) \/ executions[j] = 0)' /\ executions'[j] <= 1
  BY DEF RowInv, AtMostOneExecution
<1>1. /\ executions \in [Jobs -> Nat] /\ executions[j] <= 1
      /\ Left(j) \/ executions[j] = 0
      /\ \A k \in Jobs : Left(k) => Left(k)'
  BY RowsLeave DEF IndInv, TypeOK, AtMostOneExecution, RowInv
<1>2. CASE executions' = executions  BY <1>1, <1>2
<1>3. ASSUME NEW k \in Jobs, Left(k), executions' = [executions EXCEPT ![k] = 1]
      PROVE  (Left(j) \/ executions[j] = 0)' /\ executions'[j] <= 1
  BY <1>1, <1>3
<1>. QED  BY <1>2, <1>3, ExecuteOnly

(* Evidence stays: only the write of a transition to COMPLETED completes a  *)
(* row, and it is made by the thread that recorded the result.              *)
LEMMA EvidenceStep == IndInv /\ Next => CompletedHasEvidence'
<1>. SUFFICES ASSUME IndInv, Next, NEW j \in Jobs, row'[j].state = "COMPLETED"
              PROVE  row'[j].result /\ j \in recorded' /\ executions'[j] = 1
  BY DEF CompletedHasEvidence
<1>1. /\ row \in [Jobs -> Row] /\ executions \in [Jobs -> Nat]
      /\ row[j].state = "COMPLETED" =>
           row[j].result /\ j \in recorded /\ executions[j] = 1
  BY DEF IndInv, TypeOK, CompletedHasEvidence
<1>2. executions[j] = 1 => executions'[j] = 1
  BY <1>1, ExecuteOnly
<1>3. recorded \subseteq recorded'
  BY DEF Next, Submit, Spawn, Run, Claim, Admit, TurnAway, Release, Unclaim, TransitionRead,
         TransitionWrite, RunGuarded, Guard, CheckThenTransition, Call, Prepare, StoreHashes,
         CheckPrepared, Probe, Execute, SolverEnds, Parse, Validate, Publish, CancelBegin,
         Cancel, CancelFlag, CancelRead, CancelWrite, Recover, RecoverFail, RecoverCode,
         RecoverDone, Crash, ledger
<1>4. CASE row'[j].state = row[j].state /\ row'[j].result = row[j].result
  BY <1>1, <1>2, <1>3, <1>4
<1>5. ASSUME NEW w \in Workers, TransitionWrite(w)
      PROVE  row'[j].result /\ j \in recorded' /\ executions'[j] = 1
  <2>1. CASE j # Job(w)
    BY <1>1, <1>2, <1>3, <1>5, <2>1 DEF TransitionWrite
  <2>2. CASE j = Job(w)
    <3>1. row'[j].state = worker[w].to /\ row'[j].result = (worker[w].to = "COMPLETED" \/ row[j].result)
          /\ worker[w].pc = "write"
      BY <1>1, <1>5, <2>2 DEF TransitionWrite, At
    <3>2. Moving(w, {"COMPLETED"}) /\ Moving(w, {"PARSING", "VALIDATING", "COMPLETED"})
      BY <3>1 DEF Moving
    <3>3. j \in recorded /\ executions[j] = 1
      BY <2>2, <3>2 DEF IndInv, WorkerInv, WorkerOK
    <3>. QED  BY <1>2, <1>3, <3>1, <3>3
  <2>. QED  BY <2>1, <2>2
<1>6. CASE \A k \in Jobs : row'[k] # row[k] =>
              row'[k].state # "COMPLETED"
  BY <1>4, <1>6
<1>7. (\E w \in Workers : TransitionWrite(w))
      \/ \A k \in Jobs : row'[k] # row[k] => row'[k].state # "COMPLETED"
  <2>. DEFINE Other == \A k \in Jobs : row'[k] # row[k] => row'[k].state # "COMPLETED"
  <2>1. ASSUME NEW k \in Jobs, Submit(k) PROVE Other  BY <1>1, <2>1 DEF Submit, Row
  <2>2. ASSUME NEW w \in Workers, StoreHashes(w) PROVE Other
    BY <1>1, <2>2 DEF StoreHashes, Row
  <2>3. ASSUME NEW c \in Cancellers, CancelWrite(c) PROVE Other
    BY <1>1, <2>3 DEF CancelWrite, Row
  <2>4. ASSUME NEW k \in Jobs, RecoverFail(k) PROVE Other
    BY <1>1, <2>4 DEF RecoverFail, Row
  <2>5. ASSUME RecoverCode PROVE Other  BY <1>1, <2>5 DEF RecoverCode, Row
  <2>6. ASSUME UNCHANGED row PROVE Other  BY <2>6
  <2>. HIDE DEF Other
  <2>7. Other \/ \E w \in Workers : TransitionWrite(w)
    BY ONLY RowWriters, Next, <2>1, <2>2, <2>3, <2>4, <2>5, <2>6
  <2>. QED  BY <2>7 DEF Other
<1>. QED  BY <1>5, <1>6, <1>7

-----------------------------------------------------------------------------
(* Every step, and every stutter, keeps the invariant.                      *)
LEMMA StepInv == IndInv /\ [Next]_vars => IndInv'
<1>1. ASSUME IndInv, Next PROVE IndInv'
  BY <1>1, TypeStep, ClaimsStep, WorkerStep, CancellerStep, OnceStep, EvidenceStep DEF IndInv
<1>2. ASSUME IndInv, UNCHANGED vars PROVE IndInv'
  <2>1. UNCHANGED <<row, recorded, flag, claimed, slots, worker, canceller, recovering,
                    patching, restarts, executions>>
    BY <1>2 DEF vars
  <2>2. TypeOK'  BY <1>2, <2>1 DEF IndInv, TypeOK
  <2>3. ClaimsExact'
    BY <1>2, <2>1, ClaimsKept DEF IndInv, Holders, SlotHolders, Job
  <2>4. WorkerInv'  BY <1>2, <2>1, WorkerKept DEF IndInv, WorkerInv, Left, Job
  <2>5. CancellerInv' /\ RowInv' /\ AtMostOneExecution' /\ CompletedHasEvidence'
    BY <1>2, <2>1 DEF IndInv, CancellerInv, CancellerOK, RowInv, Left, AtMostOneExecution,
                      CompletedHasEvidence
  <2>. QED  BY <2>2, <2>3, <2>4, <2>5 DEF IndInv
<1>. QED  BY <1>1, <1>2

(* The strengthened invariant holds in every reachable state, across any    *)
(* number of crashes.                                                       *)
THEOREM Invariance == Spec => []IndInv
BY InitInv, StepInv, PTL DEF Spec

(* Every variable keeps its type.                                           *)
THEOREM TypeCorrect == Spec => []TypeOK
<1>1. IndInv => TypeOK  BY DEF IndInv
<1>. QED  BY <1>1, Invariance, PTL

(* Every claim and every admission slot belongs to exactly one live thread  *)
(* of run, on every way out of it.                                          *)
THEOREM ClaimsAreExact == Spec => []ClaimsExact
<1>1. IndInv => ClaimsExact  BY DEF IndInv
<1>. QED  BY <1>1, Invariance, PTL

(* No job's solver is started twice, however many threads, start requests,  *)
(* cancels and restarts there are.                                          *)
THEOREM ExecutedAtMostOnce == Spec => []AtMostOneExecution
<1>1. IndInv => AtMostOneExecution  BY DEF IndInv
<1>. QED  BY <1>1, Invariance, PTL

(* A COMPLETED row always has its result id, its result event and exactly   *)
(* one execution behind it.                                                 *)
THEOREM CompletedIsEarned == Spec => []CompletedHasEvidence
<1>1. IndInv => CompletedHasEvidence  BY DEF IndInv
<1>. QED  BY <1>1, Invariance, PTL

-----------------------------------------------------------------------------
(* What a step of run does to its row, claim and evidence.                  *)

(* What a thread inside run finds in the row of its job: nobody but a       *)
(* cancel has touched it, and what the thread itself has settled it leaves. *)
Fits(pc, state) ==
    /\ pc \in {"acquire", "guard"} => state \in {"QUEUED", "CANCELLED"}
    /\ pc \in {"release", "unclaim"} => state \in {"QUEUED"} \cup Terminal
    /\ pc \notin {"idle", "claim", "release", "unclaim"} =>
         state \notin {"ABSENT", "COMPLETED", "FAILED"}

FitsOK(w) == Fits(worker[w].pc, row[Job(w)].state)

(* While recover runs, no thread does; the row it patches has failed.       *)
Quiet ==
    /\ recovering => /\ \A w \in Workers : worker[w].pc = "idle"
                     /\ \A c \in Cancellers : canceller[c].pc = "idle"
    /\ patching # None => row[patching].state = "FAILED"

Served ==
    /\ IndInv
    /\ \A w \in Workers : FitsOK(w)
    /\ Quiet
    /\ InFlightAttended

(* The ways in which a step of run changes what is seen from outside:       *)
(* nothing, the job is taken or given back, its row is written, its solver  *)
(* is started or its result is published.                                   *)
Hidden == UNCHANGED <<row, recorded, claimed, executions>>
Taken(j) ==
    /\ row[j].state = "QUEUED" /\ j \notin claimed /\ claimed' = claimed \cup {j}
    /\ UNCHANGED <<row, recorded, executions>>
Given(j) ==
    /\ row[j].state \in {"QUEUED"} \cup Terminal /\ claimed' = claimed \ {j}
    /\ UNCHANGED <<row, recorded, executions>>
Written(j) ==
    /\ row[j].state \notin {"ABSENT", "COMPLETED", "FAILED"}
    /\ \E s \in Targets :
         /\ s = "COMPLETED" => j \in recorded /\ executions[j] = 1
         /\ \A k \in Jobs : row'[k].state = IF k = j THEN s ELSE row[k].state
    /\ UNCHANGED <<recorded, claimed, executions>>
Started(j) ==
    /\ row[j].state \notin {"ABSENT", "QUEUED", "COMPLETED", "FAILED"}
    /\ executions[j] = 0 /\ executions' = [executions EXCEPT ![j] = 1]
    /\ UNCHANGED <<row, recorded, claimed>>
Appended(j) ==
    /\ executions[j] = 1 /\ j \notin recorded /\ recorded' = recorded \cup {j}
    /\ UNCHANGED <<row, executions, claimed>>

(* A step of a thread inside the slot, on the row of its job.               *)
LEMMA InsideEffect ==
  ASSUME IndInv, NEW w \in Workers, FitsOK(w),
         RunGuarded(w) \/ TransitionRead(w) \/ TransitionWrite(w)
  PROVE  /\ Hidden \/ Written(Job(w)) \/ Started(Job(w)) \/ Appended(Job(w))
         /\ Fits(worker'[w].pc, row'[Job(w)].state)
<1>. DEFINE j == Job(w)
<1>. USE DEF At, Goto, Begin, memory, ledger
<1>1. /\ worker \in [Workers -> Thread] /\ row \in [Jobs -> Row] /\ WorkerOK(w)
      /\ executions \in [Jobs -> Nat]
  BY DEF IndInv, TypeOK, WorkerInv
<1>2. /\ worker[w].pc \in Inside /\ j \in Jobs /\ claimed' = claimed
      /\ row[j] \in Row
  BY <1>1, InsideStep DEF WorkerOK, Inside
<1>3. Fits(worker[w].pc, row[j].state)  BY DEF FitsOK
<1>. HIDE DEF j
<1>4. CASE TransitionRead(w)
  <2>1. Hidden  BY <1>4 DEF TransitionRead, Hidden
  <2>2. row'[j] = row[j]  BY <1>4 DEF TransitionRead
  <2>3. \/ worker'[w].pc \in {"read", "write"} /\ worker[w].pc = "read"
        \/ worker'[w].pc = "release" /\ ~Legal(row[j].state, "FAILED") /\ worker[w].pc = "read"
    BY <1>1, <1>4 DEF TransitionRead, Thread, j
  <2>4. row[j].state \in States  BY <1>2 DEF Row
  <2>. QED  BY <1>3, <2>1, <2>2, <2>3, <2>4 DEF Fits, Legal, Successor, States, Terminal, j
<1>5. CASE TransitionWrite(w)
  <2>1. worker[w].pc = "write" /\ worker[w].to \in Targets
    BY <1>1, <1>5 DEF TransitionWrite, WorkerOK
  <2>2. worker[w].to = "COMPLETED" => j \in recorded /\ executions[j] = 1
    BY <1>1, <2>1 DEF WorkerOK, Moving, j
  <2>3. \A k \in Jobs : row'[k].state = IF k = j THEN worker[w].to ELSE row[k].state
    BY <1>1, <1>2, <1>5 DEF TransitionWrite, j
  <2>4. Written(j)
    BY <1>2, <1>3, <1>5, <2>1, <2>2, <2>3 DEF TransitionWrite, Written, Fits
  <2>5. worker'[w].pc = After[worker[w].to]  BY <1>1, <1>5 DEF TransitionWrite, Thread
  <2>6. Fits(worker'[w].pc, row'[j].state)
    BY <1>2, <2>1, <2>3, <2>5 DEF Fits, After, Targets, States, Terminal
  <2>. QED  BY <2>4, <2>6 DEF j
<1>6. CASE Guard(w)
  <2>1. Hidden /\ row'[j] = row[j]  BY <1>2, <1>6 DEF Guard, Hidden
  <2>2. worker'[w].pc = IF row[j].state = "QUEUED" THEN "start" ELSE "release"
    BY <1>1, <1>6 DEF Guard, Thread, j
  <2>. QED  BY <1>3, <1>6, <2>1, <2>2 DEF Guard, Fits, Terminal, j
<1>7. CASE StoreHashes(w)
  <2>1. \A k \in Jobs : row'[k].state = IF k = j THEN "PREPARING" ELSE row[k].state
    BY <1>1, <1>2, <1>7 DEF StoreHashes, Row, j
  <2>2. Written(j)
    BY <1>2, <1>3, <1>7, <2>1 DEF StoreHashes, Written, Fits, Targets, States
  <2>3. worker'[w].pc = "prepared"  BY <1>1, <1>7 DEF StoreHashes, Thread
  <2>. QED  BY <1>2, <2>1, <2>2, <2>3 DEF Fits, j
<1>8. CASE Execute(w)
  <2>1. executions[j] = 0 /\ Left(j) /\ worker[w].pc = "execute"
    BY <1>1, <1>8 DEF Execute, WorkerOK, BeforeStart, AfterStart, j
  <2>2. executions' = [executions EXCEPT ![j] = 1]
    BY <1>1, <1>2, <1>8, <2>1 DEF Execute, j
  <2>3. Started(j)  BY <1>2, <1>3, <1>8, <2>1, <2>2 DEF Execute, Started, Left, Fits
  <2>4. worker'[w].pc = "executing" /\ row' = row  BY <1>1, <1>8 DEF Execute, Thread
  <2>. QED  BY <1>3, <2>1, <2>3, <2>4 DEF Fits, j
<1>9. CASE Publish(w)
  <2>1. executions[j] = 1 /\ worker[w].pc = "publish"
    BY <1>1, <1>9 DEF Publish, WorkerOK, BeforeStart, AfterStart, j
  <2>2. Hidden \/ Appended(j)  BY <1>2, <1>9, <2>1 DEF Publish, Hidden, Appended, j
  <2>3. worker'[w].pc = "read" /\ row' = row  BY <1>1, <1>9 DEF Publish, Thread
  <2>. QED  BY <1>3, <2>1, <2>2, <2>3 DEF Fits, j
<1>10. CASE /\ ~Guard(w) /\ ~StoreHashes(w) /\ ~Execute(w) /\ ~Publish(w)
            /\ RunGuarded(w)
  <2>. USE <1>10 DEF RunGuarded, CheckThenTransition, Call, Prepare, CheckPrepared, Probe,
                     SolverEnds, Parse, Validate
  <2>1. Hidden /\ row' = row  BY <1>2 DEF Hidden
  <2>2. worker[w].pc \notin {"idle", "claim", "release", "unclaim", "acquire", "guard"}
    OBVIOUS
  <2>3. worker'[w].pc \notin {"idle", "claim", "release", "unclaim", "acquire", "guard"}
    BY <1>1 DEF Thread
  <2>. QED  BY ONLY <1>3, <2>1, <2>2, <2>3 DEF Fits, j
<1>. QED  BY <1>4, <1>5, <1>6, <1>7, <1>8, <1>9, <1>10 DEF j

(* A step of run, on the row of its job.                                    *)
LEMMA RunEffect ==
  ASSUME IndInv, NEW w \in Workers, FitsOK(w), Run(w)
  PROVE  /\ Job(w) \in Jobs
         /\ \/ Hidden \/ Taken(Job(w))
            \/ w \in Holders /\ (\/ Given(Job(w)) \/ Written(Job(w))
                                 \/ Started(Job(w)) \/ Appended(Job(w)))
         /\ worker'[w] = Idle \/ (/\ worker'[w].job = Job(w)
                                  /\ Fits(worker'[w].pc, row'[Job(w)].state))
         /\ \A v \in Workers \ {w} : worker'[v] = worker[v]
         /\ UNCHANGED <<canceller, recovering, patching>>
<1>. USE DEF At, memory, ledger
<1>1. /\ worker \in [Workers -> Thread] /\ WorkerOK(w)
      /\ Fits(worker[w].pc, row[Job(w)].state)
  BY DEF IndInv, TypeOK, WorkerInv, FitsOK
<1>2. CASE RunGuarded(w) \/ TransitionRead(w) \/ TransitionWrite(w)
  <2>1. UNCHANGED <<canceller, recovering, patching>>
    BY <1>2 DEF RunGuarded, Guard, CheckThenTransition, Call, Prepare, StoreHashes,
         CheckPrepared, Probe, Execute, SolverEnds, Parse, Validate, Publish,
         TransitionRead, TransitionWrite
  <2>2. /\ worker[w].pc \in Inside /\ worker'[w].job = Job(w)
        /\ \A v \in Workers \ {w} : worker'[v] = worker[v]
    BY <1>2, InsideStep DEF Job
  <2>3. w \in Holders /\ Job(w) \in Jobs  BY <1>1, <2>2 DEF Holders, Inside, WorkerOK
  <2>4. /\ Hidden \/ Written(Job(w)) \/ Started(Job(w)) \/ Appended(Job(w))
        /\ Fits(worker'[w].pc, row'[Job(w)].state)
    BY <1>2, InsideEffect
  <2>. QED  BY ONLY <2>1, <2>2, <2>3, <2>4
<1>3. CASE Claim(w) \/ Admit(w) \/ TurnAway(w) \/ Release(w) \/ Unclaim(w)
  <2>. USE <1>3 DEF Claim, Admit, TurnAway, Release, Unclaim, Goto, Return
  <2>1. worker[w].pc \in {"claim", "acquire", "release", "unclaim"} /\ Job(w) \in Jobs
    BY <1>1 DEF WorkerOK
  <2>2. UNCHANGED <<row, recorded, executions, canceller, recovering, patching>>  OBVIOUS
  <2>3. \A v \in Workers \ {w} : worker'[v] = worker[v]  BY <1>1
  <2>4. worker'[w] = Idle \/ (/\ worker'[w].job = Job(w)
                              /\ Fits(worker'[w].pc, row'[Job(w)].state))
    <3>1. CASE Claim(w)
      <4>1. \/ worker'[w] = Idle
            \/ /\ row[Job(w)].state = "QUEUED" /\ worker'[w].job = Job(w)
               /\ worker'[w].pc \in {"guard", "acquire"}
        BY <1>1, <3>1 DEF Job, Thread
      <4>. QED  BY <2>2, <4>1 DEF Fits
    <3>2. CASE Unclaim(w)  BY <1>1, <3>2
    <3>3. CASE ~Claim(w) /\ ~Unclaim(w)
      <4>1. /\ worker'[w].job = Job(w)
            /\ \/ worker[w].pc = "acquire" /\ worker'[w].pc \in {"guard", "unclaim"}
               \/ worker[w].pc = "release" /\ worker'[w].pc = "unclaim"
        BY <1>1, <3>3 DEF Job, Thread
      <4>. QED  BY <1>1, <2>2, <4>1 DEF Fits, Terminal
    <3>. QED  BY <3>1, <3>2, <3>3
  <2>5. Hidden \/ Taken(Job(w)) \/ (w \in Holders /\ Given(Job(w)))
    <3>1. CASE Claim(w)  BY <2>2, <3>1 DEF Hidden, Taken
    <3>2. CASE Unclaim(w)  BY <1>1, <2>2, <3>2 DEF Fits, Given, Holders
    <3>3. CASE ~Claim(w) /\ ~Unclaim(w)  BY <2>2, <3>3 DEF Hidden
    <3>. QED  BY <3>1, <3>2, <3>3
  <2>. QED  BY ONLY <2>1, <2>2, <2>3, <2>4, <2>5
<1>. QED  BY <1>2, <1>3 DEF Run

-----------------------------------------------------------------------------
(* No job is abandoned.                                                     *)

(* Nothing runs before the first job is submitted.                          *)
LEMMA InitServed == Init => Served
<1>. SUFFICES ASSUME Init PROVE Served  OBVIOUS
<1>1. IndInv  BY InitInv
<1>2. /\ \A w \in Workers : worker[w].pc = "idle"
      /\ ~recovering /\ patching = None
      /\ \A j \in Jobs : row[j].state = "ABSENT"
  BY DEF Init, Idle
<1>. QED  BY <1>1, <1>2 DEF Served, FitsOK, Fits, Quiet, InFlightAttended, InFlight

(* A thread whose job's row stays, or is cancelled, still finds it fit.     *)
LEMMA FitsKept ==
  ASSUME NEW w \in Workers, FitsOK(w), worker'[w] = worker[w],
         worker[w].pc \notin {"idle", "claim"} =>
            \/ row'[Job(w)].state = row[Job(w)].state
            \/ row'[Job(w)].state = "CANCELLED"
  PROVE  FitsOK(w)'
<1>1. Job(w)' = Job(w)  BY DEF Job
<1>2. Fits(worker[w].pc, row[Job(w)].state)  BY DEF FitsOK
<1>3. Fits(worker[w].pc, row'[Job(w)].state)  BY <1>2 DEF Fits, Terminal
<1>. QED  BY <1>1, <1>3 DEF FitsOK

(* A step of run keeps what the threads find in the rows, and leaves its    *)
(* job only when it is not in flight.                                       *)
LEMMA RunServed ==
  ASSUME Served, NEW w \in Workers, Run(w), IndInv'
  PROVE  Served'
<1>1. /\ \A v \in Workers : FitsOK(v)
      /\ IndInv /\ Quiet /\ InFlightAttended /\ WorkerInv /\ ClaimsExact
  BY DEF Served, IndInv
<1>2. /\ Job(w) \in Jobs
      /\ \/ Hidden \/ Taken(Job(w))
         \/ w \in Holders /\ (\/ Given(Job(w)) \/ Written(Job(w))
                              \/ Started(Job(w)) \/ Appended(Job(w)))
      /\ worker'[w] = Idle \/ (/\ worker'[w].job = Job(w)
                               /\ Fits(worker'[w].pc, row'[Job(w)].state))
      /\ \A v \in Workers \ {w} : worker'[v] = worker[v]
      /\ UNCHANGED <<canceller, recovering, patching>>
  BY <1>1, RunEffect
<1>3. ~recovering /\ ~recovering' /\ patching' = None
  <2>1. worker[w].pc # "idle"
    BY DEF Run, Claim, Admit, TurnAway, Release, Unclaim, TransitionRead, TransitionWrite,
           RunGuarded, Guard, CheckThenTransition, Call, Prepare, StoreHashes,
           CheckPrepared, Probe, Execute, SolverEnds, Parse, Validate, Publish, At
  <2>. QED  BY <1>1, <1>2, <2>1 DEF Quiet, IndInv, TypeOK
<1>4. ASSUME NEW v \in Workers PROVE FitsOK(v)'
  <2>1. CASE v = w
    <3>1. CASE worker'[w] = Idle  BY <2>1, <3>1 DEF FitsOK, Fits, Idle
    <3>2. CASE worker'[w].job = Job(w) /\ Fits(worker'[w].pc, row'[Job(w)].state)
      BY <2>1, <3>2 DEF FitsOK, Job
    <3>. QED  BY <1>2, <3>1, <3>2
  <2>2. CASE v # w
    <3>1. worker'[v] = worker[v]  BY <1>2, <2>2
    <3>2. worker[v].pc \notin {"idle", "claim"} => row'[Job(v)].state = row[Job(v)].state
      <4>. SUFFICES ASSUME worker[v].pc \notin {"idle", "claim"}
                    PROVE  row'[Job(v)].state = row[Job(v)].state
        OBVIOUS
      <4>1. v \in Holders /\ Job(v) \in Jobs  BY <1>1 DEF Holders, WorkerInv, WorkerOK
      <4>2. CASE UNCHANGED row  BY <4>2
      <4>3. CASE w \in Holders /\ Written(Job(w))
        <5>1. Job(v) # Job(w)  BY <1>1, <2>2, <4>1, <4>3 DEF ClaimsExact
        <5>. QED  BY <4>1, <4>3, <5>1 DEF Written
      <4>. QED  BY <1>2, <4>2, <4>3 DEF Hidden, Taken, Given, Started, Appended
    <3>. QED  BY <1>1, <3>1, <3>2, FitsKept
  <2>. QED  BY <2>1, <2>2
<1>5. InFlightAttended'
  <2>. SUFFICES ASSUME NEW k \in Jobs, InFlight(k)' PROVE k \in claimed'
    BY DEF InFlightAttended
  <2>1. InFlight(k) => k \in claimed  BY <1>1, <1>3 DEF InFlightAttended, Up
  <2>2. CASE Hidden \/ Taken(Job(w)) \/ Started(Job(w)) \/ Appended(Job(w))
    BY <2>1, <2>2 DEF Hidden, Taken, Started, Appended, InFlight
  <2>3. CASE Given(Job(w))  BY <2>1, <2>3 DEF Given, InFlight, Terminal
  <2>4. CASE w \in Holders /\ Written(Job(w))
    <3>1. Job(w) \in claimed /\ claimed' = claimed  BY <1>1, <2>4 DEF ClaimsExact, Written
    <3>2. k # Job(w) => row'[k].state = row[k].state  BY <2>4 DEF Written
    <3>. QED  BY <2>1, <3>1, <3>2 DEF InFlight
  <2>. QED  BY <1>2, <2>2, <2>3, <2>4
<1>6. Quiet'  BY <1>3 DEF Quiet
<1>. QED  BY <1>4, <1>5, <1>6 DEF Served

(* Every step keeps what is served.                                         *)
LEMMA ServedStep == Served /\ [Next]_vars => Served'
<1>. SUFFICES ASSUME Served, [Next]_vars PROVE Served'  OBVIOUS
<1>. USE DEF ledger, memory
<1>0. IndInv'  BY StepInv DEF Served
<1>1. /\ \A v \in Workers : FitsOK(v)
      /\ Quiet /\ InFlightAttended /\ row \in [Jobs -> Row] /\ WorkerInv
      /\ worker \in [Workers -> Thread] /\ patching \in Jobs \cup {None}
      /\ patching # None => recovering
      /\ canceller \in [Cancellers -> CancelThread]
  BY DEF Served, IndInv, TypeOK
(* Steps that change neither threads, claims nor rows.                      *)
<1>2. ASSUME UNCHANGED <<row, worker, claimed, patching>>,
             recovering' => recovering /\ canceller' = canceller,
             ~recovering' => ~recovering \/ \A j \in Jobs : ~InFlight(j)
      PROVE  Served'
  <2>1. \A v \in Workers : FitsOK(v)'  BY <1>1, <1>2, FitsKept
  <2>2. Quiet'  BY <1>1, <1>2 DEF Quiet
  <2>3. InFlightAttended'  BY <1>1, <1>2 DEF InFlightAttended, InFlight, Up
  <2>. QED  BY <1>0, <2>1, <2>2, <2>3 DEF Served
(* Steps that write the rows of idle jobs.                                  *)
<1>3. ASSUME UNCHANGED <<worker, claimed>>,
             \A v \in Workers : worker[v].pc \notin {"idle", "claim"} =>
                \/ row'[Job(v)].state = row[Job(v)].state
                \/ row'[Job(v)].state = "CANCELLED",
             \A k \in Jobs : InFlight(k)' => InFlight(k),
             recovering' = recovering, Quiet'
      PROVE  Served'
  <2>1. \A v \in Workers : FitsOK(v)'  BY <1>1, <1>3, FitsKept
  <2>2. InFlightAttended'  BY <1>1, <1>3 DEF InFlightAttended, Up
  <2>. QED  BY <1>0, <1>3, <2>1, <2>2 DEF Served
<1>4. ASSUME NEW j \in Jobs, Submit(j) PROVE Served'
  <2>1. /\ \A k \in Jobs : row'[k].state = IF k = j THEN "QUEUED" ELSE row[k].state
        /\ row[j].state = "ABSENT" /\ ~recovering
    BY <1>1, <1>4 DEF Submit, Up
  <2>2. ASSUME NEW v \in Workers, worker[v].pc \notin {"idle", "claim"}
        PROVE  row'[Job(v)].state = row[Job(v)].state
    <3>1. Job(v) # j /\ Job(v) \in Jobs
      BY <1>1, <2>1, <2>2 DEF FitsOK, Fits, Terminal, WorkerInv, WorkerOK
    <3>. QED  BY <2>1, <3>1
  <2>3. \A k \in Jobs : InFlight(k)' => InFlight(k)  BY <2>1 DEF InFlight
  <2>4. Quiet'  BY <1>1, <1>4, <2>1 DEF Quiet, Submit
  <2>. QED  BY <1>3, <1>4, <2>2, <2>3, <2>4 DEF Submit
<1>5. ASSUME NEW w \in Workers, NEW j \in Jobs, Spawn(w, j) PROVE Served'
  <2>1. /\ \A v \in Workers : IF v = w THEN worker'[v].pc = "claim" ELSE worker'[v] = worker[v]
        /\ UNCHANGED <<row, claimed, recovering, patching, canceller>> /\ ~recovering
    BY <1>1, <1>5 DEF Spawn, Up
  <2>2. ASSUME NEW v \in Workers PROVE FitsOK(v)'
    <3>1. CASE v = w  BY <2>1, <3>1 DEF FitsOK, Fits
    <3>2. CASE v # w  BY <1>1, <2>1, <3>2, FitsKept
    <3>. QED  BY <3>1, <3>2
  <2>3. Quiet'  BY <1>1, <2>1 DEF Quiet
  <2>4. InFlightAttended'  BY <1>1, <2>1 DEF InFlightAttended, InFlight, Up
  <2>. QED  BY <1>0, <2>2, <2>3, <2>4 DEF Served
<1>6. ASSUME NEW w \in Workers, Run(w) PROVE Served'  BY <1>0, <1>6, RunServed
<1>7. ASSUME NEW c \in Cancellers, NEW j \in Jobs, CancelBegin(c, j) PROVE Served'
  BY <1>2, <1>7 DEF CancelBegin, Up
<1>8. ASSUME NEW c \in Cancellers, Cancel(c) PROVE Served'
  <2>1. ~recovering /\ recovering' = recovering /\ patching' = patching /\ patching = None
        /\ worker' = worker /\ claimed' = claimed
    BY <1>1, <1>8 DEF Cancel, CancelFlag, CancelRead, CancelWrite, Quiet
  <2>2. CASE UNCHANGED row  BY <1>2, <2>1, <2>2
  <2>3. CASE CancelWrite(c)
    <3>1. \A k \in Jobs : row'[k].state = IF k = canceller[c].job THEN "CANCELLED"
                                         ELSE row[k].state
      BY <1>1, <2>3 DEF CancelWrite, Row
    <3>2. \A k \in Jobs : InFlight(k)' => InFlight(k)  BY <3>1 DEF InFlight
    <3>3. \A v \in Workers : worker[v].pc \notin {"idle", "claim"} =>
             \/ row'[Job(v)].state = row[Job(v)].state
             \/ row'[Job(v)].state = "CANCELLED"
      BY <1>1, <3>1 DEF WorkerInv, WorkerOK
    <3>4. Quiet'  BY <2>1 DEF Quiet
    <3>. QED  BY <1>3, <2>1, <3>2, <3>3, <3>4
  <2>. QED  BY <1>8, <2>2, <2>3 DEF Cancel, CancelFlag, CancelRead
<1>9. CASE Crash
  <2>1. /\ recovering' = TRUE /\ patching' = None
        /\ canceller' = [c \in Cancellers |-> Asleep] /\ \A v \in Workers : worker'[v] = Idle
    BY <1>9 DEF Crash
  <2>2. \A v \in Workers : FitsOK(v)'  BY <2>1 DEF FitsOK, Fits, Idle
  <2>3. Quiet'  BY <2>1 DEF Quiet, Idle, Asleep
  <2>4. InFlightAttended'  BY <2>1 DEF InFlightAttended, Up
  <2>. QED  BY <1>0, <2>2, <2>3, <2>4 DEF Served
<1>10. CASE Recover
  <2>1. recovering /\ \A v \in Workers : worker[v].pc = "idle"
    BY <1>1, <1>10 DEF Recover, RecoverFail, RecoverCode, RecoverDone, Quiet
  <2>2. ASSUME NEW k \in Jobs, \A x \in Jobs : row'[x].state = IF x = k THEN "FAILED" ELSE row[x].state,
               UNCHANGED <<worker, claimed, recovering, canceller>>,
               patching' \in {k, None}, k # None
        PROVE  Served'
    <3>1. \A x \in Jobs : InFlight(x)' => InFlight(x)  BY <2>2 DEF InFlight
    <3>2. Quiet'  BY <1>1, <2>1, <2>2 DEF Quiet
    <3>. QED  BY <1>3, <2>1, <2>2, <3>1, <3>2
  <2>3. ASSUME NEW k \in Jobs, RecoverFail(k) PROVE Served'
    <3>1. \A x \in Jobs : row'[x].state = IF x = k THEN "FAILED" ELSE row[x].state
      BY <1>1, <2>3 DEF RecoverFail, Row
    <3>. QED  BY <2>2, <2>3, <3>1, JobAssumption DEF RecoverFail
  <2>4. CASE RecoverCode
    <3>1. \A x \in Jobs : row'[x].state = IF x = patching THEN "FAILED" ELSE row[x].state
      BY <1>1, <2>4 DEF RecoverCode, Row
    <3>2. patching \in Jobs /\ patching # None  BY <1>1, <2>4 DEF RecoverCode
    <3>. QED  BY <2>2, <2>4, <3>1, <3>2 DEF RecoverCode
  <2>5. CASE RecoverDone
    <3>1. \A j \in Jobs : ~InFlight(j)
      BY <2>5 DEF RecoverDone, Orphan, InFlight, Terminal
    <3>. QED  BY <1>2, <2>5, <3>1 DEF RecoverDone
  <2>. QED  BY <1>10, <2>3, <2>4, <2>5 DEF Recover
<1>11. CASE UNCHANGED vars  BY <1>2, <1>11 DEF vars
<1>. QED  BY <1>4, <1>5, <1>6, <1>7, <1>8, <1>9, <1>10, <1>11 DEF Next

-----------------------------------------------------------------------------
(* The refinement: from JobLifecycle to JobService.                         *)

(* Seen from outside, a state is working or what its row says.              *)
Seen(s) == IF s \in {"PREPARING", "RUNNING", "PARSING", "VALIDATING"} THEN "WORKING" ELSE s

Statuses == [j \in Jobs |-> Status(j)]

(* What is seen of a row depends on its state alone.                        *)
LEMMA StatusSeen ==
  /\ Statuses = [j \in Jobs |-> Seen(row[j].state)]
  /\ Statuses' = [j \in Jobs |-> Seen(row'[j].state)]
BY DEF Statuses, Status, InFlight, Seen

(* What a write of one row changes of what is seen.                         *)
LEMMA StatusWritten ==
  ASSUME NEW j \in Jobs, NEW s,
         \A k \in Jobs : row'[k].state = IF k = j THEN s ELSE row[k].state
  PROVE  Statuses' = [Statuses EXCEPT ![j] = Seen(s)]
<1>1. \A k \in Jobs : Seen(row'[k].state) = IF k = j THEN Seen(s) ELSE Seen(row[k].state)
  OBVIOUS
<1>. QED  BY <1>1, StatusSeen

(* The abstract specification starts where this one does.                   *)
LEMMA ServiceInit == Init => Service!Init
<1>. SUFFICES ASSUME Init PROVE Service!Init  OBVIOUS
<1>1. Statuses = [j \in Jobs |-> "ABSENT"]
  BY StatusSeen DEF Init, Seen
<1>2. Ending = {}  BY DEF Init, Ending, Asleep
<1>. QED  BY <1>1, <1>2 DEF Init, Service!Init, Statuses

(* A step of run is the attendant's, or is not seen.                        *)
LEMMA RunServes ==
  ASSUME Served, NEW w \in Workers, Run(w)
  PROVE  [Service!Next]_(Service!vars)
<1>. DEFINE j == Job(w)
<1>1. /\ IndInv /\ FitsOK(w) /\ ClaimsExact /\ Quiet  BY DEF Served, IndInv
<1>2. /\ j \in Jobs
      /\ \/ Hidden \/ Taken(j)
         \/ w \in Holders /\ (Given(j) \/ Written(j) \/ Started(j) \/ Appended(j))
      /\ UNCHANGED <<canceller, recovering, patching>>
  BY <1>1, RunEffect
<1>3. Ending' = Ending  BY <1>2 DEF Ending
<1>4. w \in Holders => j \in claimed  BY <1>1 DEF ClaimsExact
<1>5. ~recovering
  <2>1. worker[w].pc # "idle"
    BY DEF Run, Claim, Admit, TurnAway, Release, Unclaim, TransitionRead, TransitionWrite,
           RunGuarded, Guard, CheckThenTransition, Call, Prepare, StoreHashes,
           CheckPrepared, Probe, Execute, SolverEnds, Parse, Validate, Publish, At
  <2>. QED  BY <1>1, <2>1 DEF Quiet
<1>6. /\ Statuses[j] = Seen(row[j].state)
      /\ row' = row => Statuses' = Statuses
  BY <1>2, StatusSeen
<1>. HIDE DEF j
<1>7. CASE Hidden
  <2>1. UNCHANGED <<Statuses, claimed, Ending, executions, recorded, recovering>>
    BY <1>2, <1>3, <1>6, <1>7 DEF Hidden
  <2>. QED  BY <2>1 DEF Service!vars, Statuses
<1>8. CASE Taken(j)
  <2>1. Service!Attend(j)
    BY <1>2, <1>3, <1>5, <1>6, <1>8 DEF Taken, Service!Attend, Seen, Statuses
  <2>. QED  BY <1>2, <2>1 DEF Service!Next
<1>9. CASE w \in Holders /\ Given(j)
  <2>1. Statuses[j] \in {"QUEUED"} \cup Service!Settled
    BY <1>6, <1>9 DEF Given, Seen, Terminal, Service!Settled
  <2>2. Service!Leave(j)
    BY <1>2, <1>3, <1>4, <1>6, <1>9, <2>1 DEF Given, Service!Leave, Statuses
  <2>. QED  BY <1>2, <2>2 DEF Service!Next
<1>10. CASE w \in Holders /\ Written(j)
  <2>1. PICK s \in Targets :
          /\ s = "COMPLETED" => j \in recorded /\ executions[j] = 1
          /\ \A k \in Jobs : row'[k].state = IF k = j THEN s ELSE row[k].state
    BY <1>10 DEF Written
  <2>2. Statuses' = [Statuses EXCEPT ![j] = Seen(s)]  BY <1>2, <2>1, StatusWritten
  <2>3. Statuses[j] \in Service!Open \cup {"CANCELLED"}
    <3>1. row[j].state \in States
      BY <1>1, <1>2 DEF IndInv, TypeOK, Row
    <3>. QED  BY <1>6, <1>10, <3>1 DEF Written, Seen, States, Terminal, Service!Open
  <2>4. \/ Seen(s) \in {"WORKING", "FAILED", "CANCELLED"}
        \/ Seen(s) = "COMPLETED" /\ j \in recorded /\ executions[j] = 1
    BY <2>1 DEF Seen, Targets, States, Terminal
  <2>5. Service!Work(j)
    BY <1>2, <1>3, <1>4, <1>10, <2>2, <2>3, <2>4
    DEF Written, Service!Work, Service!Become, Statuses
  <2>. QED  BY <1>2, <2>5 DEF Service!Next
<1>11. CASE w \in Holders /\ Started(j)
  <2>1. Statuses[j] \in {"WORKING", "CANCELLED"}
    <3>1. row[j].state \in States
      BY <1>1, <1>2 DEF IndInv, TypeOK, Row
    <3>. QED  BY <1>6, <1>11, <3>1 DEF Started, Seen, States, Terminal
  <2>2. Service!Execute(j)
    BY <1>2, <1>3, <1>4, <1>6, <1>11, <2>1 DEF Started, Service!Execute, Statuses
  <2>. QED  BY <1>2, <2>2 DEF Service!Next
<1>12. CASE w \in Holders /\ Appended(j)
  <2>1. Service!Publish(j)
    BY <1>2, <1>3, <1>4, <1>6, <1>12 DEF Appended, Service!Publish, Statuses
  <2>. QED  BY <1>2, <2>1 DEF Service!Next
<1>. QED  BY <1>2, <1>7, <1>8, <1>9, <1>10, <1>11, <1>12

(* So is a step of cancel, ...                                              *)
LEMMA CancelServes ==
  ASSUME Served, NEW c \in Cancellers, Cancel(c) \/ \E j \in Jobs : CancelBegin(c, j)
  PROVE  [Service!Next]_(Service!vars)
<1>. DEFINE j == canceller[c].job
<1>. USE DEF ledger, memory, Wake
<1>1. /\ canceller \in [Cancellers -> CancelThread] /\ row \in [Jobs -> Row]
      /\ canceller[c].pc # "idle" => j \in Jobs /\ ~recovering
  BY DEF Served, IndInv, TypeOK, CancellerInv, CancellerOK, Quiet
<1>2. UNCHANGED <<recorded, claimed, executions, recovering>>
  BY DEF Cancel, CancelFlag, CancelRead, CancelWrite, CancelBegin
<1>3. /\ DOMAIN canceller' = Cancellers
      /\ \A d \in Cancellers \ {c} : canceller'[d] = canceller[d]
  BY <1>1 DEF Cancel, CancelFlag, CancelRead, CancelWrite, CancelBegin
<1>. HIDE DEF j
<1>4. ASSUME row' = row, canceller'[c].pc # "write", canceller[c].pc # "write"
      PROVE  [Service!Next]_(Service!vars)
  <2>1. Ending' = Ending  BY <1>3, <1>4 DEF Ending
  <2>2. Statuses' = Statuses  BY <1>4, StatusSeen
  <2>. QED  BY <1>2, <2>1, <2>2 DEF Service!vars, Statuses
<1>5. CASE \E k \in Jobs : CancelBegin(c, k)
  BY <1>1, <1>4, <1>5 DEF CancelBegin
<1>6. CASE CancelFlag(c)
  BY <1>1, <1>4, <1>6 DEF CancelFlag, Asleep, CancelThread
<1>7. CASE CancelRead(c)
  <2>1. CASE ~Legal(row[j].state, "CANCELLED")
    BY <1>1, <1>4, <1>7, <2>1 DEF CancelRead, Asleep, j
  <2>2. CASE Legal(row[j].state, "CANCELLED")
    <3>1. /\ canceller'[c].pc = "write" /\ canceller'[c].job = j /\ canceller[c].pc = "read"
          /\ row' = row
      BY <1>1, <1>7, <2>2 DEF CancelRead, CancelThread, j
    <3>2. Ending' = Ending \cup {j}  BY <1>3, <3>1 DEF Ending
    <3>3. Statuses[j] \in Service!Open
      BY <1>1, <2>2, <3>1, StatusSeen DEF Legal, Successor, Seen, Service!Open
    <3>4. Statuses' = Statuses  BY <3>1, StatusSeen
    <3>5. Service!Accept(j)
      BY <1>1, <1>2, <3>1, <3>2, <3>3, <3>4 DEF Service!Accept, Statuses
    <3>. QED  BY <1>1, <3>1, <3>5 DEF Service!Next
  <2>. QED  BY <2>1, <2>2
<1>8. CASE CancelWrite(c)
  <2>1. /\ canceller'[c].pc = "idle" /\ canceller[c].pc = "write" /\ j \in Jobs
        /\ \A k \in Jobs : row'[k].state = IF k = j THEN "CANCELLED" ELSE row[k].state
    BY <1>1, <1>8 DEF CancelWrite, Asleep, Row, j
  <2>2. j \in Ending  BY <2>1 DEF Ending, j
  <2>3. Ending' \in {Ending, Ending \ {j}}
    <3>1. \A x : x \in Ending' <=>
             \E d \in Cancellers \ {c} : canceller[d].pc = "write" /\ x = canceller[d].job
      BY <1>3, <2>1 DEF Ending
    <3>2. \A x : x \in Ending <=> x \in Ending' \/ x = j
      <4>1. \A x : x \in Ending <=>
               \E d \in Cancellers : canceller[d].pc = "write" /\ x = canceller[d].job
        BY DEF Ending
      <4>. QED  BY <2>1, <3>1, <4>1 DEF j
    <3>3. CASE j \in Ending'
      <4>1. Ending' = Ending  BY <3>2, <3>3
      <4>. QED  BY <4>1
    <3>4. CASE j \notin Ending'
      <4>1. Ending' = Ending \ {j}  BY <3>2, <3>4
      <4>. QED  BY <4>1
    <3>. QED  BY <3>3, <3>4
  <2>4. Statuses' = [Statuses EXCEPT ![j] = "CANCELLED"]
    BY <2>1, StatusWritten DEF Seen
  <2>5. Service!End(j)
    BY <1>2, <2>2, <2>3, <2>4 DEF Service!End, Service!Become, Statuses
  <2>. QED  BY <2>1, <2>5 DEF Service!Next
<1>. QED  BY <1>5, <1>6, <1>7, <1>8 DEF Cancel

(* ... and every other step.                                                *)
LEMMA StepServes == Served /\ [Next]_vars => [Service!Next]_(Service!vars)
<1>. SUFFICES ASSUME Served, [Next]_vars PROVE [Service!Next]_(Service!vars)  OBVIOUS
<1>. USE DEF ledger, memory
<1>1. row \in [Jobs -> Row] /\ (patching # None => row[patching].state = "FAILED")
  BY DEF Served, IndInv, TypeOK, Quiet
<1>2. ASSUME UNCHANGED <<row, recorded, claimed, canceller, recovering, executions>>
      PROVE  [Service!Next]_(Service!vars)
  <2>1. Ending' = Ending /\ Statuses' = Statuses  BY <1>2, StatusSeen DEF Ending
  <2>. QED  BY <1>2, <2>1 DEF Service!vars, Statuses
<1>3. ASSUME NEW j \in Jobs, Submit(j) PROVE [Service!Next]_(Service!vars)
  <2>1. /\ \A k \in Jobs : row'[k].state = IF k = j THEN "QUEUED" ELSE row[k].state
        /\ row[j].state = "ABSENT"
    BY <1>1, <1>3 DEF Submit
  <2>2. Statuses' = [Statuses EXCEPT ![j] = "QUEUED"] /\ Statuses[j] = "ABSENT"
    BY <2>1, StatusWritten, StatusSeen DEF Seen
  <2>3. Ending' = Ending  BY <1>3 DEF Submit, Ending
  <2>4. Service!Submit(j)
    BY <1>3, <2>2, <2>3 DEF Submit, Up, Service!Submit, Service!Become, Statuses
  <2>. QED  BY <2>4 DEF Service!Next
<1>4. ASSUME NEW w \in Workers, NEW j \in Jobs, Spawn(w, j)
      PROVE  [Service!Next]_(Service!vars)
  BY <1>2, <1>4 DEF Spawn
<1>5. ASSUME NEW w \in Workers, Run(w) PROVE [Service!Next]_(Service!vars)
  BY <1>5, RunServes
<1>6. ASSUME NEW c \in Cancellers, Cancel(c) \/ \E j \in Jobs : CancelBegin(c, j)
      PROVE  [Service!Next]_(Service!vars)
  BY <1>6, CancelServes
<1>7. CASE Crash
  <2>1. Statuses' = Statuses  BY <1>7, StatusSeen DEF Crash
  <2>2. Ending' = {}  BY <1>7 DEF Crash, Ending, Asleep
  <2>3. Service!Crash  BY <1>7, <2>1, <2>2 DEF Crash, Service!Crash, Statuses
  <2>. QED  BY <2>3 DEF Service!Next
<1>8. ASSUME NEW j \in Jobs, RecoverFail(j) PROVE [Service!Next]_(Service!vars)
  <2>1. \A k \in Jobs : row'[k].state = IF k = j THEN "FAILED" ELSE row[k].state
    BY <1>1, <1>8 DEF RecoverFail, Row
  <2>2. Statuses' = [Statuses EXCEPT ![j] = "FAILED"]  BY <2>1, StatusWritten DEF Seen
  <2>3. Statuses[j] = "WORKING"
    <3>1. row[j].state \in States  BY <1>1 DEF Row
    <3>. QED  BY <1>8, <3>1, StatusSeen DEF RecoverFail, Orphan, Seen, States, Terminal
  <2>4. Ending' = Ending  BY <1>8 DEF RecoverFail, Ending
  <2>5. Service!Fail(j)
    BY <1>8, <2>2, <2>3, <2>4 DEF RecoverFail, Service!Fail, Service!Become, Statuses
  <2>. QED  BY <2>5 DEF Service!Next
<1>9. CASE RecoverCode
  <2>1. \A k \in Jobs : row'[k].state = row[k].state
    BY <1>1, <1>9 DEF RecoverCode
  <2>2. Statuses' = Statuses  BY <2>1, StatusSeen
  <2>3. Ending' = Ending  BY <1>9 DEF RecoverCode, Ending
  <2>. QED  BY <1>9, <2>2, <2>3 DEF RecoverCode, Service!vars, Statuses
<1>10. CASE RecoverDone
  <2>1. Statuses' = Statuses  BY <1>10, StatusSeen DEF RecoverDone
  <2>2. \A j \in Jobs : Statuses[j] # "WORKING"
    BY <1>10, StatusSeen DEF RecoverDone, Orphan, Seen, Terminal
  <2>3. Ending' = Ending  BY <1>10 DEF RecoverDone, Ending
  <2>4. Service!Restart
    BY <1>10, <2>1, <2>2, <2>3 DEF RecoverDone, Service!Restart, Statuses
  <2>. QED  BY <2>4 DEF Service!Next
<1>11. CASE UNCHANGED vars  BY <1>2, <1>11 DEF vars
<1>. QED  BY <1>3, <1>4, <1>5, <1>6, <1>7, <1>8, <1>9, <1>10, <1>11 DEF Next, Recover

-----------------------------------------------------------------------------
(* What follows for callers.                                                *)

(* What is served is so in every reachable state.                           *)
LEMMA ServedAlways == Spec => []Served
BY InitServed, ServedStep, PTL DEF Spec

(* A row in flight always has its thread, while the process is up.          *)
THEOREM NoJobAbandoned == Spec => []InFlightAttended
<1>1. Served => InFlightAttended  BY DEF Served
<1>. QED  BY <1>1, ServedAlways, PTL

(* NativeJobManager keeps the promises of JobService: each of its steps is  *)
(* a step of the abstract specification, or is not seen from outside.       *)
THEOREM KeepsPromises == Spec => ImplementsJobService
<1>. QED
  BY ServiceInit, StepServes, ServedAlways, PTL DEF Spec, ImplementsJobService, Service!Spec

(* A settled job whose attendant is gone and that no cancel is about to end *)
(* keeps its outcome for ever.                                              *)
THEOREM OutcomeFinal == Spec => SettledForGood
<1>1. Served /\ [Next]_vars =>
        [\A j \in Jobs :
           row[j].state \in Terminal /\ j \notin claimed /\ j \notin Ending
             => row'[j].state = row[j].state]_vars
  <2>. SUFFICES ASSUME Served, [Next]_vars, NEW j \in Jobs,
                       row[j].state \in Terminal, j \notin claimed, j \notin Ending
                PROVE  row'[j].state = row[j].state
    OBVIOUS
  <2>1. Statuses[j] = Seen(row[j].state) /\ Statuses'[j] = Seen(row'[j].state)
    BY StatusSeen
  <2>2. Statuses \in [Jobs -> {Statuses[k] : k \in Jobs}] /\ Statuses[j] \in Service!Settled
    BY <2>1 DEF Statuses, Seen, Terminal, Service!Settled
  <2>3. Statuses'[j] = Statuses[j]
    <3>1. [Service!Next]_(Service!vars)  BY StepServes
    <3>2. CASE UNCHANGED Service!vars  BY <3>2 DEF Service!vars, Statuses
    <3>3. ASSUME NEW k \in Jobs, Service!Submit(k) \/ Service!Work(k) \/ Service!End(k) \/ Service!Fail(k)
          PROVE  Statuses'[j] = Statuses[j]
      BY <2>2, <3>3 DEF Service!Submit, Service!Work, Service!End, Service!Fail, Service!Become,
                        Service!Settled, Statuses
    <3>4. ASSUME NEW k \in Jobs, Service!Attend(k) \/ Service!Leave(k) \/ Service!Execute(k)
                                 \/ Service!Publish(k) \/ Service!Accept(k)
          PROVE  Statuses'[j] = Statuses[j]
      BY <3>4 DEF Service!Attend, Service!Leave, Service!Execute, Service!Publish, Service!Accept,
                  Statuses
    <3>5. CASE Service!Crash \/ Service!Restart  BY <3>5 DEF Service!Crash, Service!Restart, Statuses
    <3>. QED  BY <3>1, <3>2, <3>3, <3>4, <3>5 DEF Service!Next
  <2>. QED  BY <2>1, <2>2, <2>3 DEF Seen, Service!Settled
<1>. QED  BY <1>1, ServedAlways, PTL DEF Spec, SettledForGood

-----------------------------------------------------------------------------
(* A cancel that comes in time.                                             *)

(* A thread that will not complete its job: it will meet a cancel flag that *)
(* is set, or is on its way out of run.                                     *)
InTime(w) ==
    \/ worker[w].pc \in {"prepare", "store", "prepared", "probe", "probed",
                         "execute", "executing", "completed"}
    \/ Moving(w, {"RUNNING"})
WayOut(w) == worker[w].pc \in {"failed", "release", "unclaim"} \/ Moving(w, {"FAILED", "CANCELLED"})
Giving(w) == worker[w].pc \in {"idle", "claim"} \/ WayOut(w) \/ (InTime(w) /\ CancelSet(Job(w)))

(* A job whose cancel came in time.                                         *)
Lost(j) ==
    /\ Left(j) /\ row[j].state # "COMPLETED"
    /\ \A w \in Workers : Job(w) = j => Giving(w)

(* A thread inside the slot keeps giving up, and does not complete its row. *)
LEMMA GivingStep ==
  ASSUME Served, NEW w \in Workers, Giving(w),
         RunGuarded(w) \/ TransitionRead(w) \/ TransitionWrite(w)
  PROVE  /\ Giving(w)'
         /\ row'[Job(w)].state # "COMPLETED" \/ row'[Job(w)] = row[Job(w)]
<1>1. /\ worker \in [Workers -> Thread] /\ row \in [Jobs -> Row] /\ WorkerOK(w)
      /\ IndInv
  BY DEF Served, IndInv, TypeOK, WorkerInv
<1>2. worker[w].pc \in Inside /\ worker'[w].job = worker[w].job  BY <1>1, InsideStep
<1>3. Job(w) \in Jobs /\ Job(w)' = Job(w)  BY <1>1, <1>2 DEF WorkerOK, Inside, Job
<1>4. flag' = flag
  BY DEF RunGuarded, Guard, CheckThenTransition, Call, Prepare, StoreHashes,
         CheckPrepared, Probe, Execute, SolverEnds, Parse, Validate, Publish,
         TransitionRead, TransitionWrite, memory
<1>5. CancelSet(Job(w))' <=> CancelSet(Job(w))  BY <1>3, <1>4 DEF CancelSet
<1>6. WayOut(w) \/ (InTime(w) /\ CancelSet(Job(w)))
  BY <1>2 DEF Giving, Inside
<1>7. ASSUME WayOut(w)' \/ (InTime(w)' /\ CancelSet(Job(w))), row'[Job(w)] = row[Job(w)]
      PROVE  /\ Giving(w)'
             /\ row'[Job(w)].state # "COMPLETED" \/ row'[Job(w)] = row[Job(w)]
  BY <1>5, <1>7 DEF Giving
<1>. USE DEF At, Goto, Begin, Thread, ledger
<1>8. CASE TransitionRead(w)
  <2>1. worker[w].pc = "read" /\ worker[w].to \in {"RUNNING", "FAILED", "CANCELLED"}
    BY <1>6, <1>8 DEF TransitionRead, WayOut, InTime, Moving
  <2>2. \/ worker'[w].pc = "write" /\ worker'[w].to = worker[w].to
        \/ worker'[w].pc = "release"
        \/ worker'[w].pc = "read" /\ worker'[w].to = "FAILED"
    BY <1>1, <1>8 DEF TransitionRead
  <2>3. WayOut(w)' \/ (InTime(w)' /\ CancelSet(Job(w)))
    BY <1>6, <2>1, <2>2 DEF WayOut, InTime, Moving
  <2>. QED  BY <1>7, <1>8, <2>3 DEF TransitionRead
<1>9. CASE TransitionWrite(w)
  <2>1. worker[w].pc = "write" /\ worker[w].to \in {"RUNNING", "FAILED", "CANCELLED"}
    BY <1>6, <1>9 DEF TransitionWrite, WayOut, InTime, Moving
  <2>2. row'[Job(w)].state = worker[w].to /\ worker'[w].pc = After[worker[w].to]
    BY <1>1, <1>3, <1>9 DEF TransitionWrite, Row
  <2>3. WayOut(w)' \/ (InTime(w)' /\ CancelSet(Job(w)))
    BY <1>6, <2>1, <2>2 DEF WayOut, InTime, Moving, After
  <2>. QED  BY <1>5, <2>1, <2>2, <2>3 DEF Giving
<1>10. CASE StoreHashes(w)
  <2>1. row'[Job(w)].state = "PREPARING" /\ worker'[w].pc = "prepared"
        /\ worker[w].pc = "store"
    BY <1>1, <1>3, <1>10 DEF StoreHashes, Row
  <2>. QED  BY <1>5, <1>6, <2>1 DEF Giving, WayOut, InTime, Moving
<1>11. CASE RunGuarded(w) /\ ~StoreHashes(w)
  <2>1. row' = row
    BY <1>11 DEF RunGuarded, Guard, CheckThenTransition, Call, Prepare, CheckPrepared, Probe,
                 Execute, SolverEnds, Parse, Validate, Publish
  <2>2. worker[w].pc \notin {"read", "write", "release", "unclaim"}
    BY <1>11 DEF RunGuarded, Guard, CheckThenTransition, Call, Prepare, CheckPrepared, Probe,
                 Execute, SolverEnds, Parse, Validate, Publish
  <2>3. worker[w].pc = "failed" \/ (CancelSet(Job(w)) /\
           worker[w].pc \in {"prepare", "prepared", "probe", "probed", "execute",
                             "executing", "completed", "store"})
    BY <1>6, <2>2 DEF WayOut, InTime, Moving
  <2>4. \/ worker'[w].pc \in {"store", "probe", "probed", "executing", "completed"}
           /\ CancelSet(Job(w))
        \/ worker'[w].pc = "failed"
        \/ worker'[w].pc = "read" /\ worker'[w].to \in {"FAILED", "CANCELLED"}
    BY <1>1, <1>11, <2>3
    DEF RunGuarded, Guard, CheckThenTransition, Call, Prepare, CheckPrepared, Probe,
        Execute, SolverEnds, Parse, Validate, Publish
  <2>5. WayOut(w)' \/ (InTime(w)' /\ CancelSet(Job(w)))
    BY <2>4 DEF WayOut, InTime, Moving
  <2>. QED  BY <1>7, <2>1, <2>5
<1>. QED  BY <1>8, <1>9, <1>10, <1>11

(* A job that is lost stays lost.                                           *)
LEMMA LostStep ==
  ASSUME Served, [Next]_vars, NEW j \in Jobs, Lost(j)
  PROVE  Lost(j)'
<1>. USE DEF ledger, memory
<1>1. /\ worker \in [Workers -> Thread] /\ row \in [Jobs -> Row] /\ IndInv
      /\ ClaimsExact /\ WorkerInv /\ flag \in [Jobs -> {"none", "clear", "set"}]
      /\ patching \in Jobs \cup {None} /\ \A v \in Workers : FitsOK(v)
  BY DEF Served, IndInv, TypeOK
<1>2. Left(j) /\ row[j].state # "COMPLETED" /\ \A w \in Workers : Job(w) = j => Giving(w)
  BY DEF Lost
<1>3. CASE UNCHANGED vars
  BY <1>2, <1>3 DEF vars, Lost, Left, Giving, WayOut, InTime, Moving, CancelSet, Job
<1>. SUFFICES ASSUME Next PROVE Lost(j)'  BY <1>3
<1>4. Left(j)'  BY <1>1, <1>2, RowsLeave
(* A set flag stays set as long as threads live.                            *)
<1>5. ASSUME row'[j].state = row[j].state \/ row'[j].state # "COMPLETED",
             flag[j] = "set" => flag'[j] = "set",
             \A v \in Workers : worker'[v] = worker[v] \/ (Job(v)' = j => Giving(v)')
      PROVE  Lost(j)'
  <2>1. ASSUME NEW v \in Workers, worker'[v] = worker[v], Job(v)' = j PROVE Giving(v)'
    <3>1. Job(v) = j /\ Giving(v)  BY <1>2, <2>1 DEF Job
    <3>. QED  BY <1>5, <2>1, <3>1 DEF Giving, WayOut, InTime, Moving, CancelSet, Job
  <2>. QED  BY <1>2, <1>4, <1>5, <2>1 DEF Lost
<1>6. ASSUME NEW k \in Jobs, Submit(k) PROVE Lost(j)'
  <2>1. k # j  BY <1>2, <1>6 DEF Submit, Left
  <2>. QED  BY <1>1, <1>5, <1>6, <2>1 DEF Submit
<1>7. ASSUME NEW w \in Workers, NEW k \in Jobs, Spawn(w, k) PROVE Lost(j)'
  <2>1. \A v \in Workers : worker'[v] = worker[v] \/ worker'[v].pc = "claim"
    BY <1>1, <1>7 DEF Spawn
  <2>. QED  BY <1>5, <1>7, <2>1 DEF Spawn, Giving
<1>8. ASSUME NEW w \in Workers, RunGuarded(w) \/ TransitionRead(w) \/ TransitionWrite(w)
      PROVE  Lost(j)'
  <2>1. /\ worker[w].pc \in Inside /\ worker'[w].job = worker[w].job
        /\ \A v \in Workers \ {w} : worker'[v] = worker[v]
    BY <1>1, <1>8, InsideStep
  <2>2. flag' = flag
    BY <1>8 DEF RunGuarded, Guard, CheckThenTransition, Call, Prepare, StoreHashes,
         CheckPrepared, Probe, Execute, SolverEnds, Parse, Validate, Publish,
         TransitionRead, TransitionWrite
  <2>3. Job(w) \in Jobs /\ Job(w)' = Job(w)
    BY <1>1, <2>1 DEF WorkerInv, WorkerOK, Inside, Job
  <2>4. CASE Job(w) = j
    <3>1. Giving(w)  BY <1>2, <2>4
    <3>2. Giving(w)' /\ (row'[j].state # "COMPLETED" \/ row'[j] = row[j])
      BY <1>8, <2>4, <3>1, GivingStep
    <3>. QED  BY <1>5, <2>1, <2>2, <3>2
  <2>5. CASE Job(w) # j
    <3>1. row'[j].state = row[j].state
      <4>1. Run(w)  BY <1>8 DEF Run
      <4>2. Hidden \/ Taken(Job(w)) \/ Given(Job(w)) \/ Written(Job(w)) \/ Started(Job(w))
            \/ Appended(Job(w))
        BY <1>1, <4>1, RunEffect
      <4>. QED  BY <2>5, <4>2 DEF Hidden, Taken, Given, Written, Started, Appended
    <3>. QED  BY <1>5, <2>1, <2>2, <2>3, <2>5, <3>1
  <2>. QED  BY <2>4, <2>5
<1>9. ASSUME NEW w \in Workers, Admit(w) \/ TurnAway(w) \/ Release(w) \/ Unclaim(w) \/ Claim(w)
      PROVE  Lost(j)'
  <2>. USE <1>9 DEF Admit, TurnAway, Release, Unclaim, Claim, Goto, Return, At
  <2>1. row' = row /\ \A v \in Workers \ {w} : worker'[v] = worker[v]  BY <1>1
  <2>2. flag[j] = "set" => flag'[j] = "set"  BY <1>1
  <2>3. Job(w)' = j => Giving(w)'
    <3>. SUFFICES ASSUME Job(w)' = j PROVE Giving(w)'  OBVIOUS
    <3>1. CASE Release(w) \/ Unclaim(w) \/ TurnAway(w)
      BY <1>1, <3>1 DEF Giving, WayOut, Thread, Idle
    <3>2. CASE Claim(w)
      <4>1. worker'[w] = Idle \/ (row[Job(w)].state = "QUEUED" /\ Job(w)' = Job(w))
        BY <1>1, <3>2 DEF Job, Thread
      <4>. QED  BY <1>2, <4>1 DEF Left, Giving, Idle
    <3>3. CASE Admit(w)
      <4>1. Job(w)' = Job(w) /\ worker[w].pc = "acquire"  BY <1>1, <3>3 DEF Job, Thread
      <4>. QED  BY <1>2, <4>1 DEF Giving, WayOut, InTime, Moving
    <3>. QED  BY <3>1, <3>2, <3>3
  <2>. QED  BY <1>5, <2>1, <2>2, <2>3
<1>10. ASSUME NEW c \in Cancellers, Cancel(c) \/ \E k \in Jobs : CancelBegin(c, k)
       PROVE  Lost(j)'
  <2>1. worker' = worker
    BY <1>10 DEF Cancel, CancelFlag, CancelRead, CancelWrite, CancelBegin
  <2>2. flag[j] = "set" => flag'[j] = "set"
    BY <1>1, <1>10 DEF Cancel, CancelFlag, CancelRead, CancelWrite, CancelBegin
  <2>3. row'[j].state = row[j].state \/ row'[j].state # "COMPLETED"
    BY <1>1, <1>10 DEF Cancel, CancelFlag, CancelRead, CancelWrite, CancelBegin, Row
  <2>. QED  BY <1>5, <2>1, <2>2, <2>3
<1>11. CASE Crash
  <2>1. row' = row /\ \A v \in Workers : worker'[v] = Idle  BY <1>11 DEF Crash
  <2>2. \A v \in Workers : Giving(v)'  BY <2>1 DEF Giving, Idle
  <2>. QED  BY <1>2, <1>4, <2>1, <2>2 DEF Lost
<1>12. CASE Recover
  <2>1. worker' = worker /\ flag' = flag
    BY <1>12 DEF Recover, RecoverFail, RecoverCode, RecoverDone
  <2>2. row'[j].state = row[j].state \/ row'[j].state # "COMPLETED"
    BY <1>1, <1>12 DEF Recover, RecoverFail, RecoverCode, RecoverDone, Row
  <2>. QED  BY <1>5, <2>1, <2>2
<1>. QED  BY <1>6, <1>7, <1>8, <1>9, <1>10, <1>11, <1>12 DEF Next, Run

(* A cancel whose flag is set before the result is collected wins for good, *)
(* whatever the other threads do and however often the process crashes.     *)
THEOREM CancelInTimeWins == Spec => InFlightCancelWins
<1>1. ASSUME NEW j \in Jobs
      PROVE  Spec => [](CancelSet(j) /\ BeforeCollection(j) => [](row[j].state # "COMPLETED"))
  <2>1. Served /\ CancelSet(j) /\ BeforeCollection(j) => Lost(j)
    <3>. SUFFICES ASSUME Served, CancelSet(j), BeforeCollection(j) PROVE Lost(j)  OBVIOUS
    <3>1. WorkerInv /\ ClaimsExact /\ \A v \in Workers : FitsOK(v)  BY DEF Served, IndInv
    <3>2. PICK w \in Workers : Job(w) = j /\ InTime(w)
      BY DEF BeforeCollection, InTime, Moving
    <3>3. w \in Holders /\ WorkerOK(w) /\ Fits(worker[w].pc, row[j].state)
      BY <3>1, <3>2 DEF Holders, InTime, Moving, WorkerInv, FitsOK
    <3>4. Left(j)
      BY <3>2, <3>3 DEF WorkerOK, InTime, Moving, BeforeStart, AfterStart
    <3>5. row[j].state # "COMPLETED"  BY <3>2, <3>3 DEF Fits, InTime, Moving
    <3>6. ASSUME NEW v \in Workers, Job(v) = j PROVE Giving(v)
      <4>1. CASE v \in Holders
        <5>1. v = w  BY <3>1, <3>2, <3>3, <3>6, <4>1 DEF ClaimsExact
        <5>. QED  BY <3>2, <5>1 DEF Giving
      <4>2. CASE v \notin Holders  BY <4>2 DEF Holders, Giving
      <4>. QED  BY <4>1, <4>2
    <3>. QED  BY <3>4, <3>5, <3>6 DEF Lost
  <2>2. Served /\ Lost(j) /\ [Next]_vars => Lost(j)'  BY LostStep
  <2>3. Lost(j) => row[j].state # "COMPLETED"  BY DEF Lost
  <2>. QED  BY <2>1, <2>2, <2>3, ServedAlways, PTL DEF Spec
<1>. QED  BY <1>1 DEF InFlightCancelWins
=============================================================================
