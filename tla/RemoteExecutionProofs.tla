------------------------ MODULE RemoteExecutionProofs ------------------------
(***************************************************************************)
(* Safety of remote attempts, for any number of attempts, any ceilings,    *)
(* any provider and any number of restarts.                                *)
(***************************************************************************)
EXTENDS RemoteExecution, CostLedgerProofs

(* Where an attempt's thread may be, and that it is charged only once: a    *)
(* reservation is made by an attempt that was never charged, because no     *)
(* attempt goes back to QUEUED.                                             *)
AttemptOK(j) ==
    /\ row[j] \in {"ABSENT", "QUEUED"} => pc[j] = "idle" /\ settled[j] = None
    /\ pc[j] \notin {"idle", "resume"} => row[j] = "RUNNING"
    /\ pc[j] \in Reserving \cup {"reserve"} => settled[j] = None
    /\ resumeOf[j] # None => row[j] # "ABSENT"
    /\ pc[j] = "received" => remote[j] \in Finished

AttemptInv == \A j \in Jobs : AttemptOK(j)

IndInv ==
    /\ TypeOK
    /\ LedgerInv
    /\ ReservationsExact
    /\ AttemptInv
    /\ ResumesContinueFailures

-----------------------------------------------------------------------------
(* The empty store satisfies the invariant. *)
LEMMA InitInv == Init => IndInv
<1>. SUFFICES ASSUME Init PROVE IndInv  OBVIOUS
<1>. USE LedgerAssumption, PolicyAssumption DEF Init
<1>1. LedgerInv  BY LedgerStarts
<1>2. TypeOK
  BY <1>1 DEF LedgerInv, TypeOK, Terminal, Finished, Reserving, Outcome
<1>3. ReservationsExact  BY DEF ReservationsExact, LedgerInit, Reserving
<1>4. AttemptInv  BY DEF AttemptInv, AttemptOK, LedgerInit, Reserving
<1>5. ResumesContinueFailures  BY DEF ResumesContinueFailures
<1>. QED  BY <1>1, <1>2, <1>3, <1>4, <1>5 DEF IndInv

(* Every call the threads make keeps the ledger balanced and in budget.     *)
LEMMA LedgerStep == IndInv /\ Next => LedgerInv'
<1>. SUFFICES ASSUME IndInv, Next PROVE LedgerInv'  OBVIOUS
<1>. USE DEF IndInv
<1>1. ASSUME NEW j \in Jobs, Reserve(j) PROVE LedgerInv'
  <2>1. CASE ReserveCost(j)
    <3>1. j \notin reservations  BY <1>1 DEF Reserve, ReservationsExact, Reserving
    <3>. QED  BY <2>1, <3>1, LedgerReserves
  <2>2. CASE UNCHANGED ledgerVars  BY <2>2, LedgerKept
  <2>. QED  BY <1>1, <2>1, <2>2 DEF Reserve
<1>2. ASSUME NEW j \in Jobs, Abandon(j) PROVE LedgerInv'
  BY <1>2, LedgerDrops DEF Abandon
<1>3. ASSUME NEW j \in Jobs, Settle(j) PROVE LedgerInv'
  <2>1. PICK bill \in [metered : BOOLEAN, cost : Costs] : SettleCost(j, bill)
    BY <1>3 DEF Settle, SettleRemote
  <2>2. bill \in [metered : BOOLEAN, cost : Nat]  BY <2>1, PolicyAssumption
  <2>3. settled[j] = None  BY <1>3 DEF Settle, AttemptInv, AttemptOK, Reserving
  <2>. QED  BY <2>1, <2>2, <2>3, LedgerSettles
<1>4. ASSUME LedgerReset PROVE LedgerInv'
  <2>1. LedgerInit'  BY <1>4 DEF LedgerReset, LedgerInit
  <2>. QED  BY <2>1, LedgerStarts, PTL
<1>5. ASSUME UNCHANGED ledgerVars PROVE LedgerInv'  BY <1>5, LedgerKept
<1>6. \/ \E j \in Jobs : Reserve(j) \/ Abandon(j) \/ Settle(j)
      \/ LedgerReset
      \/ UNCHANGED ledgerVars
  BY DEF Next, Thread, Fault, Submit, Start, Cancel, Launch, PollAgain, PollFinished,
         PollTimeout, PollRaises, PreserveRaises, Conclude, BeginPreemption,
         HandlePreemption, AutoResume, Resume, Provide, Crash
<1>. QED  BY <1>1, <1>2, <1>3, <1>4, <1>5, <1>6
-----------------------------------------------------------------------------
(* Every step keeps the types. *)
LEMMA TypeStep == IndInv /\ Next => TypeOK'
<1>. SUFFICES ASSUME IndInv, Next PROVE TypeOK'  OBVIOUS
<1>. USE LedgerAssumption, PolicyAssumption DEF IndInv
<1>1. LedgerTypeOK'  BY LedgerStep DEF LedgerInv
<1>2. attempt' \in [Jobs -> Nat \ {0}] /\ resumeOf' \in [Jobs -> Jobs \cup {None}]
  <2>1. ASSUME NEW j \in Jobs, NEW k \in Jobs, NewAttempt(j, k)
        PROVE  attempt' \in [Jobs -> Nat \ {0}] /\ resumeOf' \in [Jobs -> Jobs \cup {None}]
    <3>1. attempt[j] + 1 \in Nat \ {0}  BY DEF TypeOK
    <3>. QED  BY <2>1, <3>1 DEF NewAttempt, TypeOK
  <2>2. ASSUME UNCHANGED <<attempt, resumeOf>>
        PROVE  attempt' \in [Jobs -> Nat \ {0}] /\ resumeOf' \in [Jobs -> Jobs \cup {None}]
    BY <2>2 DEF TypeOK
  <2>3. \/ \E j, k \in Jobs : NewAttempt(j, k)
        \/ UNCHANGED <<attempt, resumeOf>>
    BY DEF Next, Thread, Fault, Submit, Start, Cancel, Reserve, Launch, PollAgain,
           PollFinished, PollTimeout, PollRaises, Settle, PreserveRaises, Conclude,
           Ends, BeginPreemption, HandlePreemption, AutoResume, Resume, Provide, Crash,
           rowVars
  <2>. QED  BY <2>1, <2>2, <2>3
<1>3. row' \in [Jobs -> Terminal \cup {"ABSENT", "QUEUED", "RUNNING"}]
  BY DEF TypeOK, Terminal, Next, Thread, Fault, Submit, Start, Cancel, Reserve, Launch,
         PollAgain, PollFinished, PollTimeout, PollRaises, Settle, PreserveRaises,
         Conclude, Ends, BeginPreemption, HandlePreemption, AutoResume, Resume,
         NewAttempt, Provide, Crash, rowVars
<1>4. pc' \in [Jobs -> {"idle", "reserve", "preempting", "resume"} \cup Reserving \cup Outcome]
  <2>1. ASSUME NEW j \in Jobs, Settle(j)
        PROVE  \E result \in Outcome : Goto(j, result)
    <3>1. PICK result \in ReceiptOutcomes(j) : Goto(j, result)  BY <2>1 DEF Settle
    <3>2. remote[j] \in Finished  BY <2>1 DEF Settle, AttemptInv, AttemptOK
    <3>3. result \in Outcome  BY <3>2 DEF ReceiptOutcomes, Finished, Outcome
    <3>. QED  BY <3>1, <3>3
  <2>. QED
    BY <2>1 DEF TypeOK, Reserving, Outcome, Next, Thread, Fault, Submit, Start, Cancel,
         Reserve, Launch, PollAgain, PollFinished, PollTimeout, PollRaises, Abandon,
         PreserveRaises, Conclude, Ends, BeginPreemption, HandlePreemption,
         AutoResume, Resume, Provide, Crash, Goto
<1>5. cost' \in [Jobs -> Nat \cup {None}]
  <2>1. ASSUME NEW j \in Jobs, SettleRemote(j) PROVE cost' \in [Jobs -> Nat \cup {None}]
    <3>1. PICK bill \in [metered : BOOLEAN, cost : Costs] :
              cost' = [cost EXCEPT ![j] = Charge(j, bill)]
      BY <2>1 DEF SettleRemote
    <3>2. Charge(j, bill) \in Nat  BY <3>1 DEF Charge
    <3>. QED  BY <3>1, <3>2 DEF TypeOK
  <2>2. (\E j \in Jobs : SettleRemote(j)) \/ UNCHANGED cost
    BY DEF Next, Thread, Fault, Submit, Start, Cancel, Reserve, Launch, PollAgain,
           PollFinished, PollTimeout, PollRaises, Settle, PreserveRaises, Conclude,
           BeginPreemption, HandlePreemption, AutoResume, Resume, Provide, Crash
  <2>. QED  BY <2>1, <2>2 DEF TypeOK
<1>6. checkpoint' \subseteq Jobs /\ flag' \subseteq Jobs /\ stop' \subseteq Jobs
  BY DEF TypeOK, Next, Thread, Fault, Submit, Start, Cancel, Reserve, Launch,
         PollAgain, PollFinished, PollTimeout, PollRaises, PassCancel, Settle,
         PreserveRaises, Conclude, Ends, BeginPreemption, HandlePreemption, AutoResume,
         Resume, Provide, Crash, rowVars, remoteVars
<1>7. remote' \in [Jobs -> Finished \cup {"none", "running"}]
  BY DEF TypeOK, Next, Thread, Fault, Submit, Start, Cancel, Reserve, Launch,
         PollAgain, PollFinished, PollTimeout, PollRaises, Settle, PreserveRaises,
         Conclude, BeginPreemption, HandlePreemption, AutoResume, Resume, Provide,
         Crash, remoteVars
<1>8. restarts' \in 0..MaxRestarts
  BY DEF TypeOK, Next, Thread, Fault, Submit, Start, Cancel, Reserve, Launch,
         PollAgain, PollFinished, PollTimeout, PollRaises, Settle, PreserveRaises,
         Conclude, BeginPreemption, HandlePreemption, AutoResume, Resume, Provide,
         Crash
<1>. QED  BY <1>1, <1>2, <1>3, <1>4, <1>5, <1>6, <1>7, <1>8 DEF TypeOK

(* A reservation is made when the thread leaves reserve for the launch, and *)
(* ends on each of the ways out.                                            *)
LEMMA ReservationsStep == IndInv /\ Next => ReservationsExact'
<1>. SUFFICES ASSUME IndInv, Next PROVE ReservationsExact'  OBVIOUS
<1>. USE DEF IndInv, ReservationsExact
<1>0. pc \in [Jobs -> {"idle", "reserve", "preempting", "resume"} \cup Reserving \cup Outcome]
  BY DEF TypeOK
<1>1. ASSUME NEW j \in Jobs, Reserve(j) PROVE ReservationsExact'
  BY <1>0, <1>1 DEF Reserve, ReserveCost, Goto, Reserving, ledgerVars
<1>2. ASSUME NEW j \in Jobs, Abandon(j) PROVE ReservationsExact'
  BY <1>0, <1>2 DEF Abandon, DropReservation, Goto, Reserving
<1>3. ASSUME NEW j \in Jobs, Settle(j) PROVE ReservationsExact'
  <2>1. PICK result \in ReceiptOutcomes(j) : Goto(j, result)  BY <1>3 DEF Settle
  <2>2. result \notin Reserving
    <3>1. remote[j] \in Finished  BY <1>3 DEF Settle, AttemptInv, AttemptOK
    <3>. QED  BY <3>1 DEF ReceiptOutcomes, Finished, Reserving
  <2>3. reservations' = reservations \ {j}  BY <1>3 DEF Settle, SettleRemote, SettleCost
  <2>. QED  BY <1>0, <2>1, <2>2, <2>3 DEF Goto
<1>4. ASSUME UNCHANGED ledgerVars,
             \A j \in Jobs : pc'[j] \in Reserving <=> pc[j] \in Reserving
      PROVE  ReservationsExact'
  BY <1>4 DEF ledgerVars
<1>5. ASSUME Crash PROVE ReservationsExact'
  BY <1>5 DEF Crash, LedgerReset, Reserving
<1>6. ASSUME NEW j \in Jobs,
             Submit(j) \/ Start(j) \/ Cancel(j) \/ PollAgain(j) \/ PollFinished(j)
             \/ Conclude(j) \/ BeginPreemption(j) \/ HandlePreemption(j)
             \/ AutoResume(j) \/ Resume(j) \/ Provide(j)
      PROVE  /\ UNCHANGED ledgerVars
             /\ \A i \in Jobs : pc'[i] \in Reserving <=> pc[i] \in Reserving
  <2>1. UNCHANGED ledgerVars
    BY <1>6 DEF Submit, Start, Cancel, PollAgain, PollFinished, Conclude,
         BeginPreemption, HandlePreemption, AutoResume, Resume, Provide
  <2>2. CASE Start(j)
    <3>1. pc[j] = "idle"  BY <2>2 DEF Start, AttemptInv, AttemptOK
    <3>. QED  BY <1>0, <2>1, <2>2, <3>1 DEF Start, Goto, Reserving
  <2>3. CASE Conclude(j)
    BY <1>0, <2>1, <2>3 DEF Conclude, Ends, Goto, Outcome, Reserving
  <2>4. CASE PollFinished(j) \/ BeginPreemption(j) \/ HandlePreemption(j) \/ AutoResume(j)
    BY <1>0, <2>1, <2>4 DEF PollFinished, BeginPreemption, HandlePreemption, AutoResume,
         Goto, Reserving
  <2>5. CASE Submit(j) \/ Cancel(j) \/ PollAgain(j) \/ Resume(j) \/ Provide(j)
    BY <2>1, <2>5 DEF Submit, Cancel, PollAgain, Resume, Provide
  <2>. QED  BY <1>6, <2>2, <2>3, <2>4, <2>5
<1>7. ASSUME NEW j \in Jobs, Launch(j) PROVE ReservationsExact'
  <2>1. CASE Abandon(j)  BY <1>2, <2>1
  <2>2. CASE Goto(j, "poll") /\ UNCHANGED ledgerVars
    BY <1>0, <1>7, <2>2 DEF Launch, Goto, Reserving, ledgerVars
  <2>. QED  BY <1>7, <2>1, <2>2 DEF Launch
<1>8. ASSUME NEW j \in Jobs, PollTimeout(j) \/ PollRaises(j) \/ PreserveRaises(j)
      PROVE  ReservationsExact'
  BY <1>2, <1>8 DEF PollTimeout, PollRaises, PreserveRaises
<1>. QED
  BY <1>1, <1>3, <1>4, <1>5, <1>6, <1>7, <1>8 DEF Next, Thread, Fault
-----------------------------------------------------------------------------
(* What a step does to an attempt other than the one it is about. *)
Untouched(i) ==
    /\ row'[i] = row[i] /\ pc'[i] = pc[i] /\ settled'[i] = settled[i]
    /\ resumeOf'[i] = resumeOf[i] /\ remote'[i] = remote[i]

(* An attempt nothing touched is where it was.                              *)
LEMMA UntouchedOK == \A i \in Jobs : AttemptOK(i) /\ Untouched(i) => AttemptOK(i)'
BY DEF AttemptOK, Untouched

(* A step of a thread, or about a job, touches no other attempt, except the *)
(* one a resume creates.                                                    *)
LEMMA OthersUntouched ==
  ASSUME IndInv, NEW j \in Jobs,
         \/ Submit(j) \/ Start(j) \/ Cancel(j) \/ Reserve(j) \/ Launch(j) \/ PollAgain(j)
         \/ PollFinished(j) \/ PollTimeout(j) \/ PollRaises(j) \/ Settle(j)
         \/ PreserveRaises(j) \/ Conclude(j) \/ BeginPreemption(j)
         \/ HandlePreemption(j) \/ Provide(j),
         NEW i \in Jobs, i # j
  PROVE  Untouched(i)
<1>. USE DEF IndInv, TypeOK, LedgerTypeOK
<1>1. row'[i] = row[i]
  BY DEF Submit, Start, Cancel, Reserve, Launch, PollAgain, PollFinished, PollTimeout,
         PollRaises, Settle, PreserveRaises, Conclude, Ends, BeginPreemption,
         HandlePreemption, Provide, rowVars
<1>2. pc'[i] = pc[i]
  BY DEF Submit, Start, Cancel, Reserve, Launch, PollAgain, PollFinished, PollTimeout,
         PollRaises, Abandon, Settle, PreserveRaises, Conclude, Ends, BeginPreemption,
         HandlePreemption, Provide, Goto
<1>3. settled'[i] = settled[i]
  BY DEF Submit, Start, Cancel, Reserve, ReserveCost, Launch, PollAgain, PollFinished,
         PollTimeout, PollRaises, Abandon, DropReservation, Settle, SettleRemote,
         SettleCost, PreserveRaises, Conclude, BeginPreemption, HandlePreemption,
         Provide, ledgerVars
<1>4. resumeOf'[i] = resumeOf[i]
  BY DEF Submit, Start, Cancel, Reserve, Launch, PollAgain, PollFinished, PollTimeout,
         PollRaises, Settle, PreserveRaises, Conclude, Ends, BeginPreemption,
         HandlePreemption, Provide, rowVars
<1>5. remote'[i] = remote[i]
  BY DEF Submit, Start, Cancel, Reserve, Launch, PollAgain, PollFinished, PollTimeout,
         PollRaises, Settle, PreserveRaises, Conclude, BeginPreemption,
         HandlePreemption, Provide, remoteVars
<1>. QED  BY <1>1, <1>2, <1>3, <1>4, <1>5 DEF Untouched

(* The attempt a step is about follows the order of its thread.             *)
LEMMA OwnAttempt ==
  ASSUME IndInv, NEW j \in Jobs,
         \/ Submit(j) \/ Start(j) \/ Cancel(j) \/ Reserve(j) \/ Launch(j) \/ PollAgain(j)
         \/ PollFinished(j) \/ PollTimeout(j) \/ PollRaises(j) \/ Settle(j)
         \/ PreserveRaises(j) \/ Conclude(j) \/ BeginPreemption(j)
         \/ HandlePreemption(j) \/ Provide(j)
  PROVE  AttemptOK(j)'
<1>. USE DEF IndInv, TypeOK, LedgerTypeOK, AttemptInv, AttemptOK
<1>1. CASE Submit(j) \/ Start(j) \/ Cancel(j)
  BY <1>1 DEF Submit, Start, Cancel, Goto, Reserving, ledgerVars, remoteVars
<1>2. CASE Reserve(j)
  BY <1>2 DEF Reserve, ReserveCost, Goto, Reserving, ledgerVars, rowVars, remoteVars
<1>3. CASE Launch(j)
  BY <1>3 DEF Launch, Abandon, DropReservation, Goto, Reserving, ledgerVars, rowVars
<1>4. CASE PollAgain(j) \/ PollFinished(j)
  BY <1>4 DEF PollAgain, PollFinished, Goto, Reserving, ledgerVars, rowVars
<1>5. CASE PollTimeout(j) \/ PollRaises(j) \/ PreserveRaises(j)
  BY <1>5 DEF PollTimeout, PollRaises, PreserveRaises, Abandon, DropReservation, Goto,
         Reserving, rowVars, remoteVars
<1>6. CASE Settle(j)
  <2>1. PICK result \in ReceiptOutcomes(j) : Goto(j, result)  BY <1>6 DEF Settle
  <2>2. result \in Outcome  BY <1>6 DEF Settle, ReceiptOutcomes, Finished, Outcome
  <2>3. pc'[j] \in Outcome /\ row'[j] = "RUNNING"
    BY <1>6, <2>1, <2>2 DEF Settle, Goto, rowVars
  <2>. QED  BY <2>3 DEF Outcome, Reserving
<1>7. CASE Conclude(j)
  BY <1>7 DEF Conclude, Ends, Goto, Reserving, ledgerVars, remoteVars
<1>8. CASE BeginPreemption(j) \/ HandlePreemption(j)
  BY <1>8 DEF BeginPreemption, HandlePreemption, Goto, Reserving, ledgerVars, rowVars,
         remoteVars
<1>9. CASE Provide(j)
  BY <1>9 DEF Provide, Reserving, Finished, ledgerVars, rowVars
<1>. QED  BY <1>1, <1>2, <1>3, <1>4, <1>5, <1>6, <1>7, <1>8, <1>9

(* A resume only touches the attempt it creates and the thread it leaves.   *)
LEMMA ResumeOK ==
  ASSUME IndInv, NEW j \in Jobs, AutoResume(j) \/ Resume(j)
  PROVE  AttemptInv'
<1>. USE DEF IndInv, TypeOK, LedgerTypeOK
<1>0. SUFFICES ASSUME NEW i \in Jobs PROVE AttemptOK(i)'  BY DEF AttemptInv
<1>. USE DEF AttemptInv, AttemptOK
<1>1. settled' = settled /\ remote' = remote
  BY DEF AutoResume, Resume, ledgerVars, remoteVars
<1>2. pc'[i] = pc[i] \/ (pc[i] = "resume" /\ pc'[i] = "idle")
  BY DEF AutoResume, Resume, Goto
<1>3. CASE UNCHANGED <<row, attempt, resumeOf>>
  BY <1>1, <1>2, <1>3 DEF Reserving
<1>4. ASSUME NEW k \in Jobs, NewAttempt(j, k) PROVE AttemptOK(i)'
  <2>1. CASE i = k
    BY <1>1, <1>2, <1>4, <2>1 DEF NewAttempt, Reserving
  <2>2. CASE i # k
    <3>1. row'[i] = row[i] /\ resumeOf'[i] = resumeOf[i]
      BY <1>4, <2>2 DEF NewAttempt
    <3>. QED  BY <1>1, <1>2, <3>1 DEF Reserving
  <2>. QED  BY <2>1, <2>2
<1>. QED  BY <1>3, <1>4 DEF AutoResume, Resume

(* A crash ends every thread and every running row.                         *)
LEMMA CrashOK == IndInv /\ Crash => AttemptInv'
BY DEF IndInv, TypeOK, AttemptInv, AttemptOK, Crash, LedgerReset, Reserving, remoteVars

(* Every step keeps the order of every attempt.                             *)
LEMMA AttemptStep == IndInv /\ Next => AttemptInv'
<1>. SUFFICES ASSUME IndInv, Next PROVE AttemptInv'  OBVIOUS
<1>1. CASE Crash  BY <1>1, CrashOK
<1>2. ASSUME NEW j \in Jobs, AutoResume(j) \/ Resume(j) PROVE AttemptInv'
  BY <1>2, ResumeOK
<1>3. ASSUME NEW j \in Jobs,
         \/ Submit(j) \/ Start(j) \/ Cancel(j) \/ Reserve(j) \/ Launch(j) \/ PollAgain(j)
         \/ PollFinished(j) \/ PollTimeout(j) \/ PollRaises(j) \/ Settle(j)
         \/ PreserveRaises(j) \/ Conclude(j) \/ BeginPreemption(j)
         \/ HandlePreemption(j) \/ Provide(j)
      PROVE AttemptInv'
  <2>1. AttemptOK(j)'  BY <1>3, OwnAttempt
  <2>2. ASSUME NEW i \in Jobs, i # j PROVE AttemptOK(i)'
    <3>1. Untouched(i)  BY <1>3, <2>2, OthersUntouched
    <3>. QED  BY <3>1, UntouchedOK DEF IndInv, AttemptInv
  <2>. QED  BY <2>1, <2>2 DEF AttemptInv
<1>. QED  BY <1>1, <1>2, <1>3 DEF Next, Thread, Fault

-----------------------------------------------------------------------------
(* A failed attempt with a checkpoint stays one: no step writes its row,    *)
(* its attempt number or its checkpoint again.                              *)
LEMMA FailuresStay ==
  ASSUME IndInv, Next, NEW j \in Jobs, row[j] = "FAILED"
  PROVE  /\ row'[j] = "FAILED" /\ attempt'[j] = attempt[j]
         /\ j \in checkpoint => j \in checkpoint'
<1>. USE DEF IndInv, TypeOK
<1>1. ASSUME NEW i \in Jobs, Conclude(i) \/ HandlePreemption(i) PROVE i # j
  BY <1>1 DEF Conclude, HandlePreemption, AttemptInv, AttemptOK, Outcome
<1>2. j \in checkpoint => j \in checkpoint'
  BY DEF Next, Thread, Fault, Submit, Start, Cancel, Reserve, Launch, PollAgain,
         PollFinished, PollTimeout, PollRaises, Settle, PreserveRaises, Conclude, Ends,
         BeginPreemption, HandlePreemption, AutoResume, Resume, Provide, Crash, rowVars
<1>3. row'[j] = "FAILED"
  BY <1>1 DEF Next, Thread, Fault, Submit, Start, Cancel, Reserve, Launch, PollAgain,
         PollFinished, PollTimeout, PollRaises, Settle, PreserveRaises, Conclude, Ends,
         BeginPreemption, HandlePreemption, AutoResume, Resume, NewAttempt, Provide,
         Crash, rowVars
<1>4. attempt'[j] = attempt[j]
  BY DEF Next, Thread, Fault, Submit, Start, Cancel, Reserve, Launch, PollAgain,
         PollFinished, PollTimeout, PollRaises, Settle, PreserveRaises, Conclude, Ends,
         BeginPreemption, HandlePreemption, AutoResume, Resume, NewAttempt, Provide,
         Crash, rowVars
<1>. QED  BY <1>2, <1>3, <1>4

(* Every step keeps resumed attempts tied to the failure they continue.     *)
LEMMA ResumesStep == IndInv /\ Next => ResumesContinueFailures'
<1>. SUFFICES ASSUME IndInv, Next, NEW k \in Jobs, resumeOf'[k] # None
              PROVE  LET j == resumeOf'[k]
                     IN  row'[j] = "FAILED" /\ j \in checkpoint'
                         /\ attempt'[k] = attempt'[j] + 1
  BY DEF ResumesContinueFailures
<1>. USE DEF IndInv, TypeOK
<1>1. CASE resumeOf'[k] = resumeOf[k] /\ attempt'[k] = attempt[k]
  <2>. DEFINE j == resumeOf[k]
  <2>1. j \in Jobs /\ row[j] = "FAILED" /\ j \in checkpoint /\ attempt[k] = attempt[j] + 1
    BY <1>1 DEF ResumesContinueFailures
  <2>2. row'[j] = "FAILED" /\ attempt'[j] = attempt[j] /\ j \in checkpoint'
    BY <2>1, FailuresStay
  <2>. QED  BY <1>1, <2>1, <2>2
<1>2. ASSUME NEW j \in Jobs, Resumable(j), NewAttempt(j, k)
      PROVE  row'[j] = "FAILED" /\ j \in checkpoint' /\ resumeOf'[k] = j
             /\ attempt'[k] = attempt'[j] + 1
  <2>1. row[j] = "FAILED" /\ j \in checkpoint  BY <1>2 DEF Resumable
  <2>2. row'[j] = "FAILED" /\ attempt'[j] = attempt[j] /\ j \in checkpoint'
    BY <2>1, FailuresStay
  <2>. QED  BY <1>2, <2>2 DEF NewAttempt
<1>3. \/ resumeOf'[k] = resumeOf[k] /\ attempt'[k] = attempt[k]
      \/ \E j \in Jobs : Resumable(j) /\ NewAttempt(j, k)
  <2>1. ASSUME NEW j \in Jobs, NEW i \in Jobs, NewAttempt(j, i), i # k
        PROVE  resumeOf'[k] = resumeOf[k] /\ attempt'[k] = attempt[k]
    BY <2>1 DEF NewAttempt
  <2>2. \/ UNCHANGED <<attempt, resumeOf>>
        \/ \E j, i \in Jobs : Resumable(j) /\ NewAttempt(j, i)
    BY DEF Next, Thread, Fault, Submit, Start, Cancel, Reserve, Launch, PollAgain,
           PollFinished, PollTimeout, PollRaises, Settle, PreserveRaises, Conclude,
           Ends, BeginPreemption, HandlePreemption, AutoResume, Resume, Provide, Crash,
           rowVars
  <2>. QED  BY <2>1, <2>2
<1>. QED  BY <1>1, <1>2, <1>3

-----------------------------------------------------------------------------
(* Every step, and every stutter, keeps the invariant.                      *)
LEMMA StepInv == IndInv /\ [Next]_vars => IndInv'
<1>. SUFFICES ASSUME IndInv, [Next]_vars PROVE IndInv'  OBVIOUS
<1>1. CASE Next
  BY <1>1, TypeStep, LedgerStep, ReservationsStep, AttemptStep, ResumesStep DEF IndInv
<1>2. CASE UNCHANGED vars
  <2>1. LedgerInv'  BY <1>2, LedgerKept DEF vars, IndInv
  <2>2. TypeOK'  BY <1>2, <2>1 DEF vars, rowVars, remoteVars, IndInv, TypeOK, LedgerInv
  <2>3. ReservationsExact' /\ AttemptInv' /\ ResumesContinueFailures'
    BY <1>2 DEF vars, ledgerVars, rowVars, remoteVars, IndInv, ReservationsExact,
           AttemptInv, AttemptOK, ResumesContinueFailures
  <2>. QED  BY <2>1, <2>2, <2>3 DEF IndInv
<1>. QED  BY <1>1, <1>2

(* The invariant holds in every reachable state. *)
THEOREM Invariance == Spec => []IndInv
BY InitInv, StepInv, PTL DEF Spec

(* Every variable keeps its type. *)
THEOREM TypeCorrect == Spec => []TypeOK
<1>1. IndInv => TypeOK  BY DEF IndInv
<1>. QED  BY <1>1, Invariance, PTL

(* What the ledger says is reserved and spent is what the reservations and  *)
(* the receipts add up to, whatever attempts race, fail or are resumed.     *)
THEOREM LedgerIsBalanced == Spec => []LedgerBalanced
<1>1. IndInv => LedgerBalanced  BY DEF IndInv, LedgerInv
<1>. QED  BY <1>1, Invariance, PTL

(* No ceiling of the user is passed by what is spent and promised together, *)
(* unless an attempt is billed more than the most it was planned to cost.   *)
THEOREM BudgetIsHeld == Spec => []BudgetHeld
<1>1. IndInv => BudgetHeld  BY DEF IndInv, LedgerInv
<1>. QED  BY <1>1, Invariance, PTL

(* No reservation leaks, and none is held by an attempt that is over.       *)
THEOREM ReservationsAreExact == Spec => []ReservationsExact
<1>1. IndInv => ReservationsExact  BY DEF IndInv
<1>. QED  BY <1>1, Invariance, PTL

(* A resumed attempt continues an attempt that failed with a checkpoint and *)
(* whose record is never changed again.                                     *)
THEOREM HistoryIsKept == Spec => []ResumesContinueFailures
<1>1. IndInv => ResumesContinueFailures  BY DEF IndInv
<1>. QED  BY <1>1, Invariance, PTL

-----------------------------------------------------------------------------
(* The account of the attempts, without threads and running totals.  What   *)
(* the invariant lacks for it: when an attempt has been placed and billed,  *)
(* and that the ledger in memory and the cost written down agree.           *)
Paid(j) ==
    /\ row[j] \in {"ABSENT", "QUEUED"} \/ pc[j] \in {"reserve", "launch"}
         => remote[j] = "none" /\ cost[j] = None
    /\ pc[j] \in {"poll", "received"} => remote[j] # "none" /\ cost[j] = None
    /\ pc[j] \in (Outcome \ {"raised"}) \cup {"preempting"} => cost[j] # None
    /\ settled[j] # None => cost[j] = settled[j]

AccountInv == \A j \in Jobs : Paid(j)

(* Nothing is placed or billed in the empty store.                          *)
LEMMA AccountStarts == Init => AccountInv
BY DEF Init, LedgerInit, AccountInv, Paid, Outcome

(* A step bills no attempt but the one it is about.                         *)
LEMMA OthersUnbilled ==
  ASSUME IndInv, NEW j \in Jobs,
         \/ Submit(j) \/ Start(j) \/ Cancel(j) \/ Reserve(j) \/ Launch(j) \/ PollAgain(j)
         \/ PollFinished(j) \/ PollTimeout(j) \/ PollRaises(j) \/ Settle(j)
         \/ PreserveRaises(j) \/ Conclude(j) \/ BeginPreemption(j)
         \/ HandlePreemption(j) \/ Provide(j),
         NEW i \in Jobs, i # j, Paid(i)
  PROVE  Paid(i)'
<1>1. Untouched(i)  BY OthersUntouched
<1>2. cost'[i] = cost[i]
  BY DEF IndInv, TypeOK, Submit, Start, Cancel, Reserve, Launch, PollAgain, PollFinished,
         PollTimeout, PollRaises, Settle, SettleRemote, PreserveRaises, Conclude,
         BeginPreemption, HandlePreemption, Provide
<1>. QED  BY <1>1, <1>2 DEF Untouched, Paid

(* An attempt is placed under its reservation and billed with its receipt.  *)
LEMMA OwnBill ==
  ASSUME IndInv, NEW j \in Jobs, Paid(j),
         \/ Submit(j) \/ Start(j) \/ Cancel(j) \/ Reserve(j) \/ Launch(j) \/ PollAgain(j)
         \/ PollFinished(j) \/ PollTimeout(j) \/ PollRaises(j) \/ Settle(j)
         \/ PreserveRaises(j) \/ Conclude(j) \/ BeginPreemption(j)
         \/ HandlePreemption(j) \/ Provide(j)
  PROVE  Paid(j)'
<1>. USE DEF IndInv, TypeOK, LedgerTypeOK, AttemptInv, AttemptOK, Paid, Outcome
<1>1. CASE Submit(j) \/ Start(j) \/ Cancel(j)
  BY <1>1 DEF Submit, Start, Cancel, Goto, ledgerVars, remoteVars
<1>2. CASE Reserve(j)
  BY <1>2 DEF Reserve, ReserveCost, Goto, ledgerVars, rowVars, remoteVars
<1>3. CASE Launch(j)
  BY <1>3 DEF Launch, Abandon, DropReservation, Goto, ledgerVars, rowVars
<1>4. CASE PollAgain(j) \/ PollFinished(j)
  BY <1>4 DEF PollAgain, PollFinished, Goto, ledgerVars, rowVars
<1>5. CASE PollTimeout(j) \/ PollRaises(j) \/ PreserveRaises(j)
  BY <1>5 DEF PollTimeout, PollRaises, PreserveRaises, Abandon, DropReservation, Goto,
         rowVars, remoteVars
<1>6. CASE Settle(j)
  <2>1. PICK bill \in [metered : BOOLEAN, cost : Costs] :
          SettleCost(j, bill) /\ cost' = [cost EXCEPT ![j] = Charge(j, bill)]
    BY <1>6 DEF Settle, SettleRemote
  <2>2. Charge(j, bill) \in Nat  BY PolicyAssumption, LedgerAssumption DEF Charge
  <2>3. Charge(j, bill) # None  BY <2>2, LedgerAssumption
  <2>4. cost'[j] = Charge(j, bill) /\ settled'[j] = Charge(j, bill)
    BY <2>1 DEF SettleCost
  <2>5. PICK result \in ReceiptOutcomes(j) : Goto(j, result)  BY <1>6 DEF Settle
  <2>6. pc'[j] \in {"completed", "failed", "cancelled", "preempted", "raised"}
    BY <1>6, <2>5 DEF Settle, ReceiptOutcomes, Finished, Goto
  <2>7. row'[j] = "RUNNING"  BY <1>6 DEF Settle, rowVars
  <2>. QED  BY <2>3, <2>4, <2>6, <2>7
<1>7. CASE Conclude(j)
  BY <1>7 DEF Conclude, Ends, Goto, ledgerVars, remoteVars
<1>8. CASE BeginPreemption(j) \/ HandlePreemption(j)
  BY <1>8 DEF BeginPreemption, HandlePreemption, Goto, ledgerVars, rowVars, remoteVars
<1>9. CASE Provide(j)
  BY <1>9 DEF Provide, Finished, ledgerVars, rowVars
<1>. QED  BY <1>1, <1>2, <1>3, <1>4, <1>5, <1>6, <1>7, <1>8, <1>9

(* A resume takes an attempt that was never placed.                         *)
LEMMA ResumeUnbilled ==
  ASSUME IndInv, AccountInv, NEW j \in Jobs, AutoResume(j) \/ Resume(j)
  PROVE  AccountInv'
<1>. SUFFICES ASSUME NEW i \in Jobs PROVE Paid(i)'  BY DEF AccountInv
<1>. USE DEF IndInv, TypeOK
<1>1. Paid(i) /\ remote' = remote /\ cost' = cost /\ settled' = settled
  BY DEF AccountInv, AutoResume, Resume, ledgerVars, remoteVars
<1>2. pc'[i] = pc[i] \/ pc'[i] = "idle"  BY DEF AutoResume, Resume, Goto
<1>3. row'[i] = row[i] \/ row[i] = "ABSENT"
  BY DEF AutoResume, Resume, NewAttempt
<1>. QED  BY <1>1, <1>2, <1>3 DEF Paid, Outcome

(* Every step keeps what was placed and billed in order.                    *)
LEMMA AccountStep == IndInv /\ AccountInv /\ [Next]_vars => AccountInv'
<1>. SUFFICES ASSUME IndInv, AccountInv, [Next]_vars PROVE AccountInv'  OBVIOUS
<1>1. CASE Crash
  BY <1>1 DEF AccountInv, Paid, IndInv, TypeOK, Crash, LedgerReset, remoteVars, Outcome
<1>2. ASSUME NEW j \in Jobs, AutoResume(j) \/ Resume(j) PROVE AccountInv'
  BY <1>2, ResumeUnbilled
<1>3. ASSUME NEW j \in Jobs,
         \/ Submit(j) \/ Start(j) \/ Cancel(j) \/ Reserve(j) \/ Launch(j) \/ PollAgain(j)
         \/ PollFinished(j) \/ PollTimeout(j) \/ PollRaises(j) \/ Settle(j)
         \/ PreserveRaises(j) \/ Conclude(j) \/ BeginPreemption(j)
         \/ HandlePreemption(j) \/ Provide(j)
      PROVE AccountInv'
  <2>1. Paid(j)'  BY <1>3, OwnBill DEF AccountInv
  <2>2. ASSUME NEW i \in Jobs, i # j PROVE Paid(i)'
    BY <1>3, <2>2, OthersUnbilled DEF AccountInv
  <2>. QED  BY <2>1, <2>2 DEF AccountInv
<1>4. CASE UNCHANGED vars
  BY <1>4 DEF AccountInv, Paid, vars, ledgerVars, rowVars, remoteVars
<1>. QED  BY <1>1, <1>2, <1>3, <1>4 DEF Next, Thread, Fault

-----------------------------------------------------------------------------
(* The totals of the account are the running totals of the ledger.          *)
LEMMA TotalsAgree ==
  ASSUME IndInv, AccountInv
  PROVE  /\ Account!Promised = reserved
         /\ \A s \in Scopes : spent[s] = Opening[s] + Account!Billed
<1>. DEFINE bills == [j \in Jobs |->
                        IF j \in {i \in Jobs : settled[i] # None} THEN cost[j] ELSE 0]
<1>1. ASSUME NEW f, NEW S
      PROVE  Account!SumFunctionOnSet(f, S) = SumFunctionOnSet(f, S)
  BY DEF Account!SumFunctionOnSet, SumFunctionOnSet, Account!FoldFunctionOnSet,
         FoldFunctionOnSet, Account!MapThenFoldSet, MapThenFoldSet
<1>2. bills = Charged  BY DEF AccountInv, Paid, Charged
<1>3. Account!Promised = SumFunctionOnSet(Planned, reservations)
  BY <1>1 DEF Account!Promised
<1>4. Account!Billed = Account!SumFunctionOnSet(bills, Jobs)  BY DEF Account!Billed
<1>. HIDE DEF bills
<1>5. Account!Billed = SumFunctionOnSet(Charged, Jobs)  BY <1>1, <1>2, <1>4
<1>. QED  BY <1>3, <1>5 DEF IndInv, LedgerInv, LedgerBalanced

(* What passes the checks of the ledger has room in the account.            *)
LEMMA RoomAgrees ==
  ASSUME IndInv, AccountInv, NEW j \in Jobs
  PROVE  /\ Affordable(j) => Account!Room(j)
         /\ Headroom(j) => Account!Prospect(j)
<1>1. /\ Account!Promised = reserved
      /\ \A s \in Scopes : spent[s] = Opening[s] + Account!Billed
  BY TotalsAgree
<1>2. ASSUME NEW S PROVE Account!Cardinality(S) = Cardinality(S)
  BY DEF Account!Cardinality, Cardinality
<1>3. /\ reserved \in Nat /\ Planned[j] \in Nat /\ JobCeiling \in Nat
      /\ \A s \in Scopes : spent[s] \in Nat /\ Limit[s] \in Nat
  BY LedgerAssumption DEF IndInv, TypeOK, LedgerTypeOK
<1>4. ASSUME Affordable(j) PROVE Account!Room(j)
  <2>1. Account!Cardinality(reservations) < MaxConcurrency  BY <1>2, <1>4 DEF Affordable
  <2>2. ASSUME NEW s \in Scopes
        PROVE  Opening[s] + Account!Billed + Account!Promised + Planned[j] <= Limit[s]
    BY <1>1, <1>4 DEF Affordable
  <2>. QED  BY <1>4, <2>1, <2>2 DEF Affordable, Account!Room
<1>5. ASSUME Headroom(j) PROVE Account!Prospect(j)
  <2>1. ASSUME Planned[j] > 0, NEW s \in Scopes
        PROVE  Opening[s] + Account!Billed + Account!Promised + Planned[j] <= Limit[s]
    <3>1. Limit[s] - spent[s] - reserved >= Planned[j]  BY <1>3, <1>5, <2>1 DEF Headroom
    <3>2. spent[s] + reserved + Planned[j] <= Limit[s]  BY <1>3, <3>1
    <3>. QED  BY <1>1, <3>2
  <2>2. Planned[j] > 0 => Account!Promised + Planned[j] <= JobCeiling
    BY <1>1, <1>3, <1>5 DEF Headroom
  <2>. QED  BY <2>1, <2>2 DEF Account!Prospect
<1>. QED  BY <1>4, <1>5

(* A step nobody who pays can see.                                          *)
LEMMA Unnoticed ==
  ASSUME UNCHANGED <<row, attempt, resumeOf, checkpoint, reservations, cost, settled>>,
         \A i \in Jobs : remote'[i] # "none" <=> remote[i] # "none"
  PROVE  UNCHANGED Account!vars
<1>1. {i \in Jobs : remote'[i] # "none"} = {i \in Jobs : remote[i] # "none"}  OBVIOUS
<1>. QED  BY <1>1 DEF Account!vars, Account!rowVars, Account!moneyVars

(* A new attempt continues a failure that left a checkpoint.                *)
LEMMA ContinueServes ==
  ASSUME IndInv, AccountInv, NEW j \in Jobs, NEW k \in Jobs, Resumable(j),
         NewAttempt(j, k), UNCHANGED <<ledgerVars, remoteVars, checkpoint, cost>>
  PROVE  Account!Continue(j, k)
BY RoomAgrees DEF Resumable, NewAttempt, ledgerVars, remoteVars, Account!Continue,
     Account!moneyVars

(* Every step of a thread, a user, the provider or a crash is a step of the *)
(* account, or unnoticed.                                                   *)
LEMMA AttemptServes ==
  ASSUME IndInv, AccountInv, NEW j \in Jobs,
         \/ Submit(j) \/ Start(j) \/ Cancel(j) \/ Reserve(j) \/ Launch(j) \/ PollAgain(j)
         \/ PollFinished(j) \/ PollTimeout(j) \/ PollRaises(j) \/ Settle(j)
         \/ PreserveRaises(j) \/ Conclude(j) \/ BeginPreemption(j)
         \/ HandlePreemption(j) \/ Provide(j)
  PROVE  \/ UNCHANGED Account!vars
         \/ Account!Ask(j) \/ Account!Withdraw(j) \/ Account!Begin(j) \/ Account!Hold(j)
         \/ Account!Place(j) \/ Account!Drop(j) \/ Account!Bill(j) \/ Account!Finish(j)
<1>. USE DEF IndInv, TypeOK, LedgerTypeOK, AttemptInv, AttemptOK, AccountInv, Paid
<1>1. CASE Submit(j)
  BY <1>1 DEF Submit, ledgerVars, remoteVars, Account!Ask, Account!Become,
       Account!moneyVars
<1>2. CASE Start(j)
  BY <1>2 DEF Start, ledgerVars, remoteVars, Account!Begin, Account!Become,
       Account!moneyVars
<1>3. CASE Cancel(j)
  <2>1. CASE row[j] = "QUEUED"
    BY <1>3, <2>1 DEF Cancel, ledgerVars, remoteVars, Account!Withdraw, Account!Become,
         Account!moneyVars
  <2>2. CASE row[j] = "RUNNING"
    <3>1. row' = row  BY <1>3, <2>2 DEF Cancel
    <3>. QED  BY <1>3, <3>1, Unnoticed DEF Cancel, ledgerVars, remoteVars
  <2>. QED  BY <1>3, <2>1, <2>2 DEF Cancel
<1>4. CASE Reserve(j)
  <2>1. CASE ReserveCost(j)
    <3>1. Account!Room(j)  BY <2>1, RoomAgrees DEF ReserveCost
    <3>2. j \notin reservations /\ row[j] = "RUNNING" /\ remote[j] = "none"
          /\ cost[j] = None
      BY <1>4 DEF Reserve, ReservationsExact, Reserving
    <3>. QED
      BY <1>4, <2>1, <3>1, <3>2 DEF Reserve, ReserveCost, rowVars, remoteVars,
           Account!Hold, Account!rowVars
  <2>2. CASE UNCHANGED ledgerVars
    BY <1>4, <2>2, Unnoticed DEF Reserve, ledgerVars, rowVars, remoteVars
  <2>. QED  BY <1>4, <2>1, <2>2 DEF Reserve
<1>5. ASSUME pc[j] \in Reserving, Abandon(j), UNCHANGED <<rowVars, remote, cost>>
      PROVE  Account!Drop(j)
  BY <1>5 DEF ReservationsExact, Abandon, DropReservation, rowVars, Account!Drop,
       Account!rowVars
<1>6. CASE Launch(j)
  <2>1. CASE Abandon(j) /\ UNCHANGED remote
    BY <1>5, <1>6, <2>1 DEF Launch, Reserving
  <2>2. CASE remote' = [remote EXCEPT ![j] = "running"] /\ UNCHANGED ledgerVars
    <3>1. j \in reservations /\ remote[j] = "none"
      BY <1>6 DEF Launch, ReservationsExact, Reserving
    <3>2. {i \in Jobs : remote'[i] # "none"} = {i \in Jobs : remote[i] # "none"} \cup {j}
      BY <2>2
    <3>. QED
      BY <1>6, <2>2, <3>1, <3>2 DEF Launch, ledgerVars, rowVars, Account!Place,
           Account!rowVars, Account!moneyVars
  <2>. QED  BY <1>6, <2>1, <2>2 DEF Launch
<1>7. CASE PollAgain(j) \/ PollFinished(j)
  BY <1>7, Unnoticed DEF PollAgain, PollFinished, ledgerVars, rowVars
<1>8. CASE PollTimeout(j) \/ PollRaises(j) \/ PreserveRaises(j)
  BY <1>5, <1>8 DEF PollTimeout, PollRaises, PreserveRaises, Reserving, remoteVars
<1>9. CASE Settle(j)
  <2>1. PICK bill \in [metered : BOOLEAN, cost : Costs] :
          SettleCost(j, bill) /\ cost' = [cost EXCEPT ![j] = Charge(j, bill)]
    BY <1>9 DEF Settle, SettleRemote
  <2>2. Charge(j, bill) \in Costs \cup 0 .. Planned[j]
    BY PolicyAssumption, LedgerAssumption DEF Charge
  <2>3. Charge(j, bill) # None
    <3>1. Charge(j, bill) \in Nat  BY PolicyAssumption, LedgerAssumption DEF Charge
    <3>. QED  BY <3>1, LedgerAssumption
  <2>4. {i \in Jobs : settled'[i] # None} = {i \in Jobs : settled[i] # None} \cup {j}
    BY <2>1, <2>3 DEF SettleCost
  <2>5. remote[j] # "none" /\ cost[j] = None /\ j \in reservations
    BY <1>9, <2>1 DEF Settle, SettleCost
  <2>. QED
    BY <1>9, <2>1, <2>2, <2>4, <2>5 DEF Settle, SettleCost, rowVars, remoteVars,
         Account!Bill, Account!rowVars
<1>10. CASE Conclude(j)
  <2>1. /\ j \notin reservations /\ row[j] = "RUNNING"
        /\ UNCHANGED <<attempt, resumeOf, checkpoint, cost, reservations, settled, remote>>
    BY <1>10 DEF Conclude, Ends, ReservationsExact, Reserving, Outcome, ledgerVars,
         remoteVars
  <2>2. \/ row' = [row EXCEPT ![j] = "FAILED"]
        \/ cost[j] # None /\ \E s \in {"COMPLETED", "CANCELLED"} :
                               row' = [row EXCEPT ![j] = s]
    BY <1>10 DEF Conclude, Ends, Outcome
  <2>. QED  BY <2>1, <2>2 DEF Account!Finish, Account!Become, Account!moneyVars
<1>11. CASE BeginPreemption(j)
  BY <1>11, Unnoticed DEF BeginPreemption, ledgerVars, rowVars, remoteVars
<1>12. CASE HandlePreemption(j)
  <2>1. j \notin reservations /\ row[j] = "RUNNING" /\ cost[j] # None
    BY <1>12 DEF HandlePreemption, ReservationsExact, Reserving
  <2>. QED
    BY <1>12, <2>1 DEF HandlePreemption, ledgerVars, remoteVars, Account!Finish,
         Account!Become, Account!moneyVars
<1>13. CASE Provide(j)
  <2>1. \A i \in Jobs : remote'[i] # "none" <=> remote[i] # "none"
    BY <1>13 DEF Provide, Finished
  <2>. QED  BY <1>13, <2>1, Unnoticed DEF Provide, ledgerVars, rowVars
<1>. QED
  BY <1>1, <1>2, <1>3, <1>4, <1>6, <1>7, <1>8, <1>9, <1>10, <1>11, <1>12, <1>13

(* So is every step.                                                        *)
LEMMA StepServes ==
  IndInv /\ AccountInv /\ [Next]_vars => [Account!Next]_(Account!vars)
<1>. SUFFICES ASSUME IndInv, AccountInv, [Next]_vars
              PROVE  Account!Next \/ UNCHANGED Account!vars
  OBVIOUS
<1>1. CASE Crash
  <2>1. {i \in Jobs : settled'[i] # None} = {}  BY <1>1 DEF Crash, LedgerReset
  <2>. QED
    BY <1>1, <2>1 DEF Crash, LedgerReset, remoteVars, Account!Next, Account!Crash
<1>2. ASSUME NEW j \in Jobs, AutoResume(j) \/ Resume(j)
      PROVE  Account!Next \/ UNCHANGED Account!vars
  <2>1. CASE \E k \in Jobs : Resumable(j) /\ NewAttempt(j, k)
    <3>1. PICK k \in Jobs : Resumable(j) /\ NewAttempt(j, k)  BY <2>1
    <3>2. Account!Continue(j, k)
      BY <1>2, <3>1, ContinueServes DEF AutoResume, Resume
    <3>. QED  BY <3>2 DEF Account!Next
  <2>2. CASE UNCHANGED <<row, attempt, resumeOf>>
    BY <1>2, <2>2, Unnoticed DEF AutoResume, Resume, ledgerVars, remoteVars
  <2>. QED  BY <1>2, <2>1, <2>2 DEF AutoResume, Resume
<1>3. ASSUME NEW j \in Jobs,
         \/ Submit(j) \/ Start(j) \/ Cancel(j) \/ Reserve(j) \/ Launch(j) \/ PollAgain(j)
         \/ PollFinished(j) \/ PollTimeout(j) \/ PollRaises(j) \/ Settle(j)
         \/ PreserveRaises(j) \/ Conclude(j) \/ BeginPreemption(j)
         \/ HandlePreemption(j) \/ Provide(j)
      PROVE  Account!Next \/ UNCHANGED Account!vars
  BY <1>3, AttemptServes DEF Account!Next
<1>4. CASE UNCHANGED vars
  BY <1>4, Unnoticed DEF vars, ledgerVars, rowVars, remoteVars
<1>. QED  BY <1>1, <1>2, <1>3, <1>4 DEF Next, Thread, Fault

(* Remote execution keeps the promises of the account: whatever attempts    *)
(* race, time out, are preempted, resumed or forgotten by a crash, money is *)
(* held before an attempt is placed, an attempt is placed and billed once,  *)
(* and none succeeds without a bill.                                        *)
THEOREM KeepsAccount == Spec => ImplementsRemoteService
<1>1. Init => Account!Init
  BY DEF Init, LedgerInit, Account!Init
<1>2. Spec => [](IndInv /\ AccountInv)
  <2>1. Spec => []IndInv  BY Invariance
  <2>. QED  BY <2>1, AccountStarts, AccountStep, PTL DEF Spec
<1>. QED  BY <1>1, <1>2, StepServes, PTL DEF Spec, ImplementsRemoteService, Account!Spec
=============================================================================
