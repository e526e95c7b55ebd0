---------------------------- MODULE RemoteService ----------------------------
(***************************************************************************)
(* What the native job manager promises about the attempts it pays for: no *)
(* attempt is placed with the provider unless its whole plan fits under    *)
(* every ceiling, beside what is billed and what other attempts may still  *)
(* cost; it is placed once, and billed once; it is completed, or ends as   *)
(* cancelled after it ran, only when its bill is written down; a failure   *)
(* that left a checkpoint is continued by a new attempt, and stays what it *)
(* is.  There are no threads and no running totals here: what is reserved  *)
(* and spent is what the attempts add up to.  RemoteExecution implements   *)
(* it.                                                                     *)
(*                                                                         *)
(* It does not promise that an attempt that was placed and failed has a    *)
(* bill, nor that a new process still counts the bills of the one before.  *)
(***************************************************************************)
EXTENDS Integers, FiniteSets, Functions

CONSTANTS Jobs, Scopes, Limit, Opening, JobCeiling, MaxConcurrency, Planned, Costs, None

VARIABLES
    life,    \* of each attempt, ACTIVE from when a thread has it
    number,  \* of the attempt
    parent,  \* the attempt it continues, or None
    kept,    \* the attempts that left a trusted checkpoint
    held,    \* the attempts that money is reserved for
    placed,  \* the attempts the provider was given
    bill,    \* what each attempt cost, once it is known
    booked   \* the attempts whose bill counts against the ceilings

rowVars == <<life, number, parent, kept>>
moneyVars == <<held, bill, booked>>
vars == <<rowVars, moneyVars, placed>>

Init ==
    /\ life = [j \in Jobs |-> "ABSENT"]
    /\ number = [j \in Jobs |-> 1]
    /\ parent = [j \in Jobs |-> None]
    /\ bill = [j \in Jobs |-> None]
    /\ kept = {} /\ held = {} /\ placed = {} /\ booked = {}

Become(j, s) ==
    /\ life' = [life EXCEPT ![j] = s]
    /\ UNCHANGED <<number, parent, moneyVars, placed>>

Promised == SumFunctionOnSet(Planned, held)
Billed == SumFunctionOnSet([j \in Jobs |-> IF j \in booked THEN bill[j] ELSE 0], Jobs)

(* Below every ceiling with the whole plan of one attempt more.             *)
Room(j) ==
    /\ Cardinality(held) < MaxConcurrency
    /\ Planned[j] <= JobCeiling
    /\ \A s \in Scopes : Opening[s] + Billed + Promised + Planned[j] <= Limit[s]

(* The room a continued attempt is asked to have before it waits: its job   *)
(* ceiling covers what is promised to others as well.                       *)
Prospect(j) ==
    Planned[j] > 0 =>
        /\ Promised + Planned[j] <= JobCeiling
        /\ \A s \in Scopes : Opening[s] + Billed + Promised + Planned[j] <= Limit[s]

-----------------------------------------------------------------------------
Ask(j) == life[j] = "ABSENT" /\ Become(j, "QUEUED") /\ UNCHANGED kept
Withdraw(j) == life[j] = "QUEUED" /\ Become(j, "CANCELLED") /\ UNCHANGED kept
Begin(j) == life[j] = "QUEUED" /\ Become(j, "RUNNING") /\ UNCHANGED kept

Hold(j) ==
    /\ life[j] = "RUNNING" /\ bill[j] = None
    /\ j \notin held \cup placed
    /\ Room(j)
    /\ held' = held \cup {j}
    /\ UNCHANGED <<rowVars, bill, booked, placed>>

Place(j) ==
    /\ j \in held \ placed
    /\ placed' = placed \cup {j}
    /\ UNCHANGED <<rowVars, moneyVars>>

(* The attempt is given up, or was never placed: it will not be billed.     *)
Drop(j) ==
    /\ j \in held
    /\ held' = held \ {j}
    /\ UNCHANGED <<rowVars, bill, booked, placed>>

(* A receipt may report more than was planned; an estimate never is more.   *)
Bill(j) ==
    /\ j \in held \cap placed /\ bill[j] = None
    /\ \E c \in Costs \cup 0 .. Planned[j] : bill' = [bill EXCEPT ![j] = c]
    /\ held' = held \ {j}
    /\ booked' = booked \cup {j}
    /\ UNCHANGED <<rowVars, placed>>

Finish(j) ==
    /\ life[j] = "RUNNING" /\ j \notin held
    /\ \/ Become(j, "FAILED") /\ kept' \in {kept, IF bill[j] = None THEN kept ELSE kept \cup {j}}
       \/ /\ bill[j] # None
          /\ \E s \in {"COMPLETED", "CANCELLED"} : Become(j, s)
          /\ UNCHANGED kept

Continue(j, k) ==
    /\ life[j] = "FAILED" /\ j \in kept /\ life[k] = "ABSENT"
    /\ Prospect(j)
    /\ life' = [life EXCEPT ![k] = "QUEUED"]
    /\ number' = [number EXCEPT ![k] = number[j] + 1]
    /\ parent' = [parent EXCEPT ![k] = j]
    /\ UNCHANGED <<kept, moneyVars, placed>>

(* The process dies: what ran is failed, what was promised is forgotten,    *)
(* and the ceilings are counted from their opening amounts again.           *)
Crash ==
    /\ life' = [j \in Jobs |-> IF life[j] = "RUNNING" THEN "FAILED" ELSE life[j]]
    /\ held' = {} /\ booked' = {}
    /\ UNCHANGED <<number, parent, kept, bill, placed>>

Next ==
    \/ \E j \in Jobs : \/ Ask(j) \/ Withdraw(j) \/ Begin(j) \/ Hold(j) \/ Place(j)
                       \/ Drop(j) \/ Bill(j) \/ Finish(j)
                       \/ \E k \in Jobs : Continue(j, k)
    \/ Crash

Spec == Init /\ [][Next]_vars
=============================================================================
