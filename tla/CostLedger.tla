----------------------------- MODULE CostLedger -----------------------------
(***************************************************************************)
(* The account of remote costs: class CostLedger of                        *)
(* solvers/participants/remote_policy.py.  Each of its methods runs under  *)
(* one lock, so each is one step; the module that extends this one says    *)
(* which thread calls them and when.                                       *)
(*                                                                         *)
(* Money is counted in whole units, so the 1e-9 slack of the comparisons   *)
(* and the rounding of the code vanish.  A plan is what is kept of it, the *)
(* most the attempt may cost.                                              *)
(***************************************************************************)
EXTENDS Integers, FiniteSets, Functions

CONSTANTS
    Jobs,
    Scopes,          \* session, daily and project
    Limit,           \* Limit[s]: max_session_cost_usd and the two others
    Opening,         \* Opening[s]: session_spent_usd ... given at construction
    JobCeiling,      \* max_job_cost_usd
    MaxConcurrency,  \* max_concurrency
    Planned,         \* Planned[j]: planned_max_cost_usd of the job's plan
    None

(* The checks of RemoteLimits, the max(0, _) of the constructor, and the    *)
(* positive rates and wall times plans are built from.                      *)
ASSUME LedgerAssumption ==
    /\ IsFiniteSet(Jobs)
    /\ Limit \in [Scopes -> Nat]
    /\ Opening \in [Scopes -> Nat]
    /\ JobCeiling \in Nat
    /\ MaxConcurrency \in Nat \ {0}
    /\ Planned \in [Jobs -> Nat]
    /\ None \notin Nat

VARIABLES
    reservations,  \* keys of _reservations
    reserved,      \* _reserved
    spent,         \* spent[s]: _session_spent, _daily_spent, _project_spent
    settled        \* settled[j]: the cost on the job's receipt in _settled

ledgerVars == <<reservations, reserved, spent, settled>>

LedgerInit ==
    /\ reservations = {}
    /\ reserved = 0
    /\ spent = Opening
    /\ settled = [j \in Jobs |-> None]

(* A new process builds a new ledger and is given the same opening amounts. *)
LedgerReset ==
    /\ reservations' = {}
    /\ reserved' = 0
    /\ spent' = Opening
    /\ settled' = [j \in Jobs |-> None]

AtLeastZero(n) == IF n < 0 THEN 0 ELSE n

(* Mutant: the reservations other attempts hold are not counted.            *)
AffordableAlone(j) ==
    /\ Planned[j] <= JobCeiling
    /\ Cardinality(reservations) < MaxConcurrency
    /\ \A s \in Scopes : spent[s] + Planned[j] <= Limit[s]

(* The plan passes the per-job, the concurrency and the three cumulative    *)
(* ceilings.                                                                *)
Affordable(j) ==
    /\ Planned[j] <= JobCeiling
    /\ Cardinality(reservations) < MaxConcurrency
    /\ \A s \in Scopes : spent[s] + reserved + Planned[j] <= Limit[s]

(* reserve, when it does not raise COST_LIMIT_EXCEEDED. *)
ReserveCost(j) ==
    /\ Affordable(j)
    /\ reservations' = reservations \cup {j}
    /\ reserved' = reserved + Planned[j]
    /\ UNCHANGED <<spent, settled>>

(* What an attempt is charged: the cost its receipt reports, whatever it    *)
(* is, or the estimate from its run time, which is cut at the planned cost. *)
Charge(j, bill) ==
    IF bill.metered THEN bill.cost
    ELSE IF bill.cost <= Planned[j] THEN bill.cost ELSE Planned[j]

(* Mutant: the reservation is kept in the sum when it is settled.           *)
SettleCostUnreleased(j, bill) ==
    /\ j \in reservations
    /\ reservations' = reservations \ {j}
    /\ spent' = [s \in Scopes |-> spent[s] + Charge(j, bill)]
    /\ settled' = [settled EXCEPT ![j] = Charge(j, bill)]
    /\ UNCHANGED reserved

(* settle; without a reservation it raises and changes nothing. *)
SettleCost(j, bill) ==
    /\ j \in reservations
    /\ reservations' = reservations \ {j}
    /\ reserved' = AtLeastZero(reserved - Planned[j])
    /\ spent' = [s \in Scopes |-> spent[s] + Charge(j, bill)]
    /\ settled' = [settled EXCEPT ![j] = Charge(j, bill)]

(* release: a job without a reservation is left alone. *)
DropReservation(j) ==
    /\ reservations' = reservations \ {j}
    /\ reserved' = IF j \in reservations THEN AtLeastZero(reserved - Planned[j])
                   ELSE reserved
    /\ UNCHANGED <<spent, settled>>

(* remaining_for(plan) >= the plan's cost, the check of resume.  It counts  *)
(* every reservation against the per-job ceiling as well.                   *)
Headroom(j) ==
    \/ Planned[j] = 0
    \/ /\ JobCeiling - reserved >= Planned[j]
       /\ \A s \in Scopes : Limit[s] - spent[s] - reserved >= Planned[j]

-----------------------------------------------------------------------------
(* What the ledger keeps.                                                   *)

Charged == [j \in Jobs |-> IF settled[j] = None THEN 0 ELSE settled[j]]

LedgerTypeOK ==
    /\ reservations \subseteq Jobs
    /\ reserved \in Nat
    /\ spent \in [Scopes -> Nat]
    /\ settled \in [Jobs -> Nat \cup {None}]

(* The running totals are what the reservations and the receipts add up to: *)
(* no reservation is lost or counted twice, no receipt is charged twice.    *)
LedgerBalanced ==
    /\ reserved = SumFunctionOnSet(Planned, reservations)
    /\ \A s \in Scopes : spent[s] = Opening[s] + SumFunctionOnSet(Charged, Jobs)

WithinPlan(j) == settled[j] # None => settled[j] <= Planned[j]

(* What is spent and what is promised together stay below every ceiling of  *)
(* the user, as long as no attempt was billed more than its planned cost.   *)
BudgetHeld ==
    (\A j \in Jobs : WithinPlan(j)) =>
        \A s \in Scopes : \/ spent[s] + reserved <= Limit[s]
                          \/ spent[s] = Opening[s] /\ reserved = 0
=============================================================================
