------------------------------ MODULE Campaign ------------------------------
(***************************************************************************)
(* The design campaign engine: run_campaign of                             *)
(* packages/optimization/aeroworkbench_optimization/campaign.py, with the  *)
(* fidelity planner of planner.py.  A campaign evaluates a stream of       *)
(* candidates on the cheapest rung of a fidelity ladder, promotes the best *)
(* ones rung by rung within its budgets, and returns a record.  Results    *)
(* go to a content-addressed store; a campaign is resumed by running it    *)
(* again on the store of the earlier run.  The engine is sequential: what  *)
(* comes from outside, at any moment, is a request to cancel, and what     *)
(* comes from the evaluators, a result or an interrupt.                    *)
(*                                                                         *)
(* Candidates are numbered in the order of their hashes.  An evaluation is *)
(* abstracted to its verdict, its two weighted objectives (lower is        *)
(* better), whether one of its signals is above the planner's threshold,   *)
(* and its cost.                                                           *)
(***************************************************************************)
EXTENDS Integers, FiniteSets

CONSTANTS
    Candidates,          \* what the generator yields, numbered in hash order
    Rejected,            \* those that its preflight found invalid
    Position,            \* Position[c]: place of c in the stream of the generator
    Feature,             \* Feature[c]: place of c in the normalized design space
    Top,                 \* the highest rank of the fidelity ladder
    RungCost,            \* RungCost[r]: the declared cost of rung r
    Outcomes,            \* what an evaluation may give
    Specs,               \* the CampaignSpecs: budgets and selection policy
    MinPromote,          \* min_promote
    BatchRows,           \* the effective batch size
    None,
    MaxRuns              \* bound of the instance

Rungs == 0 .. Top
Verdicts == {"invalid", "infeasible", "feasible", "incomplete"}
Stops == {"cancelled", "max-evaluations", "max-high-fidelity-evaluations", "max-cost",
          "no-valid-candidates", "target-feasibility", "no-improvement", "completed",
          "promotion-halted", "failed"}

ASSUME CampaignAssumption ==
    /\ Candidates \subseteq Nat /\ IsFiniteSet(Candidates) /\ Candidates # {}
    /\ Rejected \subseteq Candidates
    /\ Position \in [Candidates -> Nat] /\ Feature \in [Candidates -> Int]
    /\ \A c, d \in Candidates : Position[c] = Position[d] => c = d
    /\ Top \in Nat /\ RungCost \in [Rungs -> Nat]
    /\ Outcomes \subseteq [verdict : Verdicts, goals : Int \X Int, hard : BOOLEAN, cost : Nat]
    /\ Specs \subseteq [evaluations : (Nat \ {0}) \cup {None}, high : (Nat \ {0}) \cup {None},
                        cost : (Nat \ {0}) \cup {None}, target : (0 .. 100) \cup {None},
                        rounds : (Nat \ {0}) \cup {None}, promote : 1 .. 100,
                        pareto : BOOLEAN, diversity : BOOLEAN]
    /\ MinPromote \in Nat \ {0} /\ BatchRows \in Nat \ {0}
    /\ None \notin Outcomes /\ None \notin Int /\ None \notin Stops

VARIABLES
    spec,    \* the CampaignSpec, the same for every resume
    store,   \* the ResultStore: the evaluation of a candidate on a rung, or None
    record,  \* the CampaignRecord of the run
    loop,    \* the locals of run_campaign and _evaluate_rung_batched
    cancel,  \* what cancel_check answers
    before,  \* the store at the start of the run
    runs

vars == <<spec, store, record, loop, cancel, before, runs>>

Empty == [c \in Candidates |-> None]
NewRecord == [state |-> "EVALUATING", stop |-> None, latest |-> Empty,
              status |-> [c \in Candidates |-> IF c \in Rejected THEN "preflight-invalid"
                                               ELSE "pending"],
              evaluations |-> 0, high |-> 0, cost |-> 0, best |-> None, pareto |-> {}]

(* now: the candidate the scalar evaluator works on;                        *)
(* todo: the candidates of the rung not yet considered; plan: the           *)
(* operations of a batched rung not yet carried out; due: the requests the  *)
(* batch evaluator has not had; halt: why planning ended early; rowCost:    *)
(* the cost of the row the batch evaluator gave last.                       *)
Resting == [pc |-> "rest", now |-> None, batch |-> FALSE, rank |-> 0, todo |-> {},
            place |-> Position, plan |-> {}, due |-> {}, rows |-> Empty, rowCost |-> 0,
            halt |-> None, evaluated |-> {}, bestScore |-> None, stale |-> 0]

Init ==
    /\ spec \in Specs
    /\ store = [c \in Candidates |-> [r \in Rungs |-> None]]
    /\ record = [NewRecord EXCEPT !.state = "CREATED"]
    /\ loop = Resting
    /\ cancel = FALSE
    /\ before = store
    /\ runs = 0

-----------------------------------------------------------------------------
(* Selection.                                                               *)

Valid(o) == o # None /\ o.verdict \in {"feasible", "infeasible"}
Feasible(o) == o # None /\ o.verdict = "feasible"
Score(o) == o.goals[1] + o.goals[2]

(* c ranks before d, where at gives the evaluation of each (rank_weighted). *)
Before(at, c, d) ==
    \/ Score(at[c]) < Score(at[d])
    \/ Score(at[c]) = Score(at[d]) /\ c < d

Dominates(at, c, d) ==
    /\ at[c].goals[1] <= at[d].goals[1] /\ at[c].goals[2] <= at[d].goals[2]
    /\ at[c].goals # at[d].goals

(* Mutant: feasibility does not come first.                                 *)
AnyBasis(at, S) == S

(* The feasible ones, or all if none is (select_feasible, _select).         *)
Basis(at, S) ==
    LET feasible == {c \in S : Feasible(at[c])}
    IN IF feasible # {} THEN feasible ELSE S

Front(at, S) == {c \in S : \A d \in S : ~Dominates(at, d, c)}

(* _select: what is selected under the policy of a CampaignSpec, and the    *)
(* place of each in its order.                                              *)
Selected(policy, at, S) == IF policy.pareto THEN Front(at, S) ELSE Basis(at, S)
Ahead(policy, at, S, c) == {d \in S : IF policy.pareto THEN d < c ELSE Before(at, d, c)}
Leaders(policy, at, S) == {c \in S : Ahead(policy, at, S, c) = {}}

(* _survive_count.                                                          *)
SurviveCount(policy, n) ==
    LET share == (n * policy.promote + 99) \div 100
        keep == IF share > MinPromote THEN share ELSE MinPromote
    IN IF keep < n THEN keep ELSE n

(* select_diverse: after the leader, every pick is as far as possible from  *)
(* its nearest earlier pick.                                                *)
Distance(c, d) == IF Feature[c] > Feature[d] THEN Feature[c] - Feature[d]
                  ELSE Feature[d] - Feature[c]
Gap(c, S) == CHOOSE g \in {Distance(c, d) : d \in S} : \A d \in S : g <= Distance(c, d)
Picks(policy, at, S, k) ==
    {p \in [1 .. k -> S] :
        /\ p[1] \in Leaders(policy, at, S)
        /\ \A n \in 2 .. k :
             LET chosen == {p[i] : i \in 1 .. n - 1}
             IN /\ p[n] \notin chosen
                /\ \A d \in S \ (chosen \cup {p[n]}) :
                     \/ Gap(p[n], chosen) > Gap(d, chosen)
                     \/ Gap(p[n], chosen) = Gap(d, chosen) /\ p[n] < d}

(* The survivors of a rung, and their places in the next one.               *)
Diverse(policy, S) ==
    policy.diversity /\ SurviveCount(policy, Cardinality(S)) < Cardinality(S)
Survivors(policy, at, S) ==
    LET k == SurviveCount(policy, Cardinality(S))
    IN IF Diverse(policy, S) THEN UNION {{p[n] : n \in 1 .. k} : p \in Picks(policy, at, S, k)}
       ELSE {c \in S : Cardinality(Ahead(policy, at, S, c)) < k}
PlaceOf(policy, at, S) ==
    LET k == SurviveCount(policy, Cardinality(S))
        picks == Picks(policy, at, S, k)
    IN [c \in Candidates |->
          IF c \notin S THEN 0
          ELSE IF Diverse(policy, S)
          THEN Cardinality({n \in 1 .. k : \A p \in picks : \A m \in 1 .. n : p[m] # c})
          ELSE Cardinality(Ahead(policy, at, S, c))]

-----------------------------------------------------------------------------
(* plan_fidelity, as a campaign calls it: the record is valid, so the       *)
(* validity rule does not fire; a signal is a float, so that no required    *)
(* capability is ever matched.  What is left is the escalation by one rank  *)
(* on a difficult signal, and the cost guard.                               *)
Affordable(policy, r) == policy.cost = None \/ RungCost[r] <= policy.cost
Wanted(r, o) == IF o.hard /\ r < Top THEN r + 1 ELSE r
PlanFails(policy, r, o) ==
    ~Affordable(policy, Wanted(r, o)) /\ \A q \in Rungs : ~Affordable(policy, q)
(* Mutant: the signals are not asked.                                       *)
EagerEscalates(policy, r, o) == r < Top /\ Affordable(policy, r + 1)

Escalates(policy, r, o) ==
    IF Affordable(policy, Wanted(r, o)) THEN Wanted(r, o) > r
    ELSE \E q \in Rungs : q > r /\ Affordable(policy, q)

-----------------------------------------------------------------------------
(* The end of a run.                                                        *)

(* _finalize: the evidence of every candidate is its latest evaluation.     *)
Bests(at, S) ==
    IF S = {} THEN {None} ELSE {c \in S : \A d \in S \ {c} : Before(at, c, d)}
Stop(rec, reason) ==
    /\ LET basis == Basis(rec.latest, {c \in Candidates : Valid(rec.latest[c])})
       IN \E best \in Bests(rec.latest, basis) :
            record' = [rec EXCEPT
                         !.state = IF reason = "cancelled" THEN "CANCELLED" ELSE "COMPLETED",
                         !.stop = reason, !.best = best, !.pareto = Front(rec.latest, basis)]
    /\ loop' = Resting
Fail(rec) == record' = [rec EXCEPT !.state = "FAILED", !.stop = "failed"] /\ loop' = Resting

(* run_campaign is called, for the first time or to resume; generating the  *)
(* candidates may raise.                                                    *)
Start ==
    /\ loop.pc = "rest"
    /\ runs < MaxRuns
    /\ runs' = runs + 1
    /\ cancel' = FALSE
    /\ before' = store
    /\ \/ \E batched \in BOOLEAN :
            /\ record' = NewRecord
            /\ loop' = [Resting EXCEPT !.batch = batched, !.todo = Candidates,
                           !.pc = IF batched /\ spec.cost = None THEN "batch" ELSE "scan"]
       \/ Fail(NewRecord)
    /\ UNCHANGED <<spec, store>>

(* The caller wants the run cancelled.                                      *)
Cancel ==
    /\ loop.pc # "rest" /\ ~cancel
    /\ cancel' = TRUE
    /\ UNCHANGED <<spec, store, record, loop, before, runs>>

(* An exception that is not an Exception (an interrupt) leaves run_campaign *)
(* from within an evaluator: the record is lost, the store is not.          *)
Interrupt ==
    /\ loop.pc = "call" \/ (loop.pc = "batch" /\ loop.todo = {} /\ loop.due # {})
    /\ loop' = Resting
    /\ record' = [NewRecord EXCEPT !.state = "CREATED"]
    /\ UNCHANGED <<spec, store, cancel, before, runs>>

-----------------------------------------------------------------------------
(* One candidate after the other.                                           *)

(* The candidate whose turn it is: places differ, so there is one at most.  *)
First(S) == {c \in S : \A d \in S : loop.place[c] <= loop.place[d]}

(* Mutant: requests that are planned but not yet evaluated do not count.    *)
PlannedForgotten == 0

(* The new evaluations a batched rung has planned.                          *)
Planned == Cardinality({c \in loop.plan : store[c][0] = None})

(* Mutant: the limit may be reached by one more evaluation.                 *)
LateCostReached == spec.cost # None /\ record.cost > spec.cost

CostReached == spec.cost # None /\ record.cost >= spec.cost

(* The budget that stops the rung before its next candidate, if any.        *)
Exhausted ==
    IF spec.evaluations # None /\ record.evaluations + Planned >= spec.evaluations
    THEN "max-evaluations"
    ELSE IF loop.rank > 0 /\ spec.high # None /\ record.high >= spec.high
    THEN "max-high-fidelity-evaluations"
    ELSE IF CostReached THEN "max-cost" ELSE None

(* Mutant: the store is not asked.                                          *)
BlindCached(c) == None

Cached(c) == store[c][loop.rank]

(* Mutant: the loop does not get past a candidate that is skipped.          *)
StuckSkip(c) == loop' = loop

Skip(c) == loop' = [loop EXCEPT !.todo = @ \ {c}]

(* Mutant: the evidence of the cheaper rung is kept.                        *)
FirstRemember(rec, c, o) ==
    [rec EXCEPT !.latest[c] = IF @ = None THEN o ELSE @, !.status[c] = o.verdict]

(* metrics_by_hash and _update_candidate_record: the latest evaluation of a *)
(* candidate is its evidence.                                               *)
Remember(rec, c, o) == [rec EXCEPT !.latest[c] = o, !.status[c] = o.verdict]

(* _accept_evaluation.  A result without one of the objectives passes the   *)
(* quality gate and is stored, and raises here.                             *)
Accept(rec, c, o) ==
    LET counted == [rec EXCEPT !.high = IF loop.rank > 0 THEN @ + 1 ELSE @]
    IN IF o.verdict = "incomplete" THEN Fail(counted)
       ELSE /\ record' = Remember(counted, c, o)
            /\ loop' = [loop EXCEPT !.todo = @ \ {c}, !.plan = @ \ {c},
                          !.now = None,
                          !.pc = IF @ = "call" THEN IF c \in loop.plan THEN "batch" ELSE "scan"
                                 ELSE @,
                          !.evaluated = IF Valid(o) THEN @ \cup {c} ELSE @]

(* The next candidate: cancelled, out of budget, skipped, already known, or *)
(* given to the evaluator.                                                  *)
Consider ==
    /\ loop.pc = "scan" /\ loop.todo # {}
    /\ \E c \in First(loop.todo) :
          \/ cancel /\ Stop(record, "cancelled")
          \/ ~cancel /\ Exhausted # None /\ Stop(record, Exhausted)
          \/ /\ ~cancel /\ Exhausted = None
             /\ \/ /\ c \in Rejected
                   /\ Skip(c) /\ UNCHANGED record
                \/ /\ c \notin Rejected /\ Cached(c) # None
                   /\ Accept(record, c, Cached(c))
                \/ /\ c \notin Rejected /\ Cached(c) = None
                   /\ loop' = [loop EXCEPT !.pc = "call", !.now = c]
                   /\ UNCHANGED record
    /\ UNCHANGED <<spec, store, cancel, before, runs>>

(* Mutant: a stored result is not counted.                                  *)
UncountedSpent(rec, cost) == [rec EXCEPT !.cost = @ + cost]

(* Mutant: the cost is given back.                                          *)
RefundedSpent(rec, cost) == [rec EXCEPT !.evaluations = @ + 1, !.cost = @ - cost]

(* A new evaluation is counted.                                             *)
Spent(rec, cost) == [rec EXCEPT !.evaluations = @ + 1, !.cost = @ + cost]

(* The evaluator returns, or raises: an invalid result of cost 0.           *)
Evaluated ==
    /\ loop.pc = "call"
    /\ \E o \in Outcomes :
          /\ store' = [store EXCEPT ![loop.now][loop.rank] = o]
          /\ Accept(Spent(record, o.cost), loop.now, o)
    /\ UNCHANGED <<spec, cancel, before, runs>>

-----------------------------------------------------------------------------
(* The cheapest rung in batches (_evaluate_rung_batched): all its           *)
(* candidates are planned first, the requests go to the batch evaluator in  *)
(* chunks, and the results are accepted in the order of the candidates.     *)

Plan ==
    /\ loop.pc = "batch" /\ loop.todo # {}
    /\ \E c \in First(loop.todo) :
       LET halted(reason) == loop' = [loop EXCEPT !.todo = {}, !.halt = reason]
       IN \/ cancel /\ halted("cancelled")
          \/ ~cancel /\ Exhausted # None /\ halted(Exhausted)
          \/ /\ ~cancel /\ Exhausted = None
             /\ IF c \in Rejected THEN Skip(c)
                ELSE loop' = [loop EXCEPT !.todo = @ \ {c}, !.plan = @ \cup {c},
                                 !.due = IF Cached(c) = None THEN @ \cup {c} ELSE @]
    /\ UNCHANGED <<spec, store, record, cancel, before, runs>>

(* One chunk: it answers with a row for each request, or is unusable, and   *)
(* its candidates are left to the scalar evaluator.                         *)
Chunk ==
    /\ loop.pc = "batch" /\ loop.todo = {} /\ loop.due # {}
    /\ LET chunk == {c \in loop.due :
                       Cardinality({d \in loop.due : loop.place[d] < loop.place[c]}) < BatchRows}
       IN \/ \E answer \in [chunk -> Outcomes], last \in chunk :
               /\ \A c \in chunk : loop.place[c] <= loop.place[last]
               /\ loop' = [loop EXCEPT
                          !.due = @ \ chunk,
                          !.rows = [c \in Candidates |-> IF c \in chunk THEN answer[c] ELSE @[c]],
                          !.rowCost = answer[last].cost]
          \/ loop' = [loop EXCEPT !.due = @ \ chunk]
    /\ UNCHANGED <<spec, store, record, cancel, before, runs>>

(* One operation: a known result, a row, or a call of the scalar evaluator. *)
(* The cost of a row is counted as the cost of the last one.                *)
Operate ==
    /\ loop.pc = "batch" /\ loop.todo = {} /\ loop.due = {} /\ loop.plan # {}
    /\ \E c \in First(loop.plan) :
          \/ /\ Cached(c) # None
             /\ Accept(record, c, Cached(c))
             /\ UNCHANGED store
          \/ /\ Cached(c) = None /\ loop.rows[c] # None
             /\ store' = [store EXCEPT ![c][loop.rank] = loop.rows[c]]
             /\ Accept(Spent(record, loop.rowCost), c, loop.rows[c])
          \/ /\ Cached(c) = None /\ loop.rows[c] = None
             /\ loop' = [loop EXCEPT !.pc = "call", !.now = c]
             /\ UNCHANGED <<store, record>>
    /\ UNCHANGED <<spec, cancel, before, runs>>

Halted ==
    /\ loop.pc = "batch" /\ loop.todo = {} /\ loop.plan = {} /\ loop.halt # None
    /\ Stop(record, loop.halt)
    /\ UNCHANGED <<spec, store, cancel, before, runs>>

-----------------------------------------------------------------------------
(* The rung is done: select, and stop or promote.                           *)

LastRung == loop.rank = Top

Select ==
    /\ loop.pc \in {"scan", "batch"} /\ loop.todo = {} /\ loop.plan = {} /\ loop.halt = None
    /\ LET S == loop.evaluated
           at == record.latest
           chosen == Selected(spec, at, S)
           feasible == {c \in S : Feasible(at[c])}
           onTarget == /\ spec.target # None
                       /\ 100 * Cardinality(feasible) >= spec.target * Cardinality(S)
           better(c) == loop.bestScore = None \/ Score(at[c]) < loop.bestScore
           stale(c) == IF better(c) THEN 0 ELSE loop.stale + 1
           stalled(c) == spec.rounds # None /\ stale(c) >= spec.rounds
           rec == [record EXCEPT !.state = "SELECTING"]
       IN \/ /\ S = {}
             /\ Stop(rec, "no-valid-candidates")
          \/ /\ S # {} /\ onTarget
             /\ Stop(rec, "target-feasibility")
          \/ /\ S # {} /\ ~onTarget
             /\ \E c \in Leaders(spec, at, chosen) :
                  \/ stalled(c) /\ Stop(rec, "no-improvement")
                  \/ /\ ~stalled(c) /\ LastRung
                     /\ Stop([rec EXCEPT !.status = [d \in Candidates |->
                                IF d \in chosen THEN "retained" ELSE @[d]]], "completed")
                  \/ /\ ~stalled(c) /\ ~LastRung
                     /\ record' = rec
                     /\ loop' = [loop EXCEPT !.pc = "promote", !.stale = stale(c),
                                   !.bestScore = IF better(c) THEN Score(at[c]) ELSE @]
    /\ UNCHANGED <<spec, store, cancel, before, runs>>

(* The planner is asked about every survivor, and may raise.                *)
Promote ==
    /\ loop.pc = "promote"
    /\ LET chosen == Selected(spec, record.latest, loop.evaluated)
           survivors == Survivors(spec, record.latest, chosen)
           advanced == {c \in survivors : Escalates(spec, loop.rank, record.latest[c])}
           marked == [record EXCEPT !.state = "PROMOTING",
                        !.status = [c \in Candidates |->
                            IF c \in advanced THEN "promoted"
                            ELSE IF c \in survivors THEN "retained" ELSE @[c]]]
       IN \/ /\ \E c \in survivors : PlanFails(spec, loop.rank, record.latest[c])
             /\ Fail(record)
          \/ /\ \A c \in survivors : ~PlanFails(spec, loop.rank, record.latest[c])
             /\ advanced = {}
             /\ Stop(marked, "promotion-halted")
          \/ /\ \A c \in survivors : ~PlanFails(spec, loop.rank, record.latest[c])
             /\ advanced # {}
             /\ record' = [marked EXCEPT !.state = "EVALUATING"]
             /\ loop' = [Resting EXCEPT !.pc = "scan", !.batch = loop.batch,
                           !.rank = loop.rank + 1, !.todo = advanced,
                           !.place = PlaceOf(spec, record.latest, chosen),
                           !.bestScore = loop.bestScore, !.stale = loop.stale]
    /\ UNCHANGED <<spec, store, cancel, before, runs>>

Step == Consider \/ Evaluated \/ Plan \/ Chunk \/ Operate \/ Halted \/ Select \/ Promote

(* Nobody resumes it any more.                                              *)
Rest == loop.pc = "rest" /\ runs = MaxRuns /\ UNCHANGED vars

Next == Start \/ Step \/ Cancel \/ Interrupt \/ Rest

(* The engine goes on once it is called; the evaluators return.             *)
Spec == Init /\ [][Next]_vars /\ WF_vars(Step)

-----------------------------------------------------------------------------
Results == [Candidates -> Outcomes \cup {None}]
Stores  == [Candidates -> [Rungs -> Outcomes \cup {None}]]
Records ==
    [state : {"CREATED", "EVALUATING", "SELECTING", "COMPLETED", "FAILED", "CANCELLED"},
     stop : Stops \cup {None}, latest : Results,
     status : [Candidates -> {"pending", "preflight-invalid", "promoted", "retained"}
                             \cup Verdicts],
     evaluations : Nat, high : Nat, cost : Nat,
     best : Candidates \cup {None}, pareto : SUBSET Candidates]
Loops ==
    [pc : {"rest", "scan", "call", "batch", "promote"}, now : Candidates \cup {None},
     batch : BOOLEAN, rank : Rungs,
     todo : SUBSET Candidates, place : [Candidates -> Nat],
     plan : SUBSET Candidates, due : SUBSET Candidates, rows : Results, rowCost : Nat,
     halt : Stops \cup {None}, evaluated : SUBSET Candidates,
     bestScore : Int \cup {None}, stale : Nat]

TypeOK ==
    /\ spec \in Specs
    /\ store \in Stores /\ before \in Stores
    /\ record \in Records /\ loop \in Loops
    /\ cancel \in BOOLEAN /\ runs \in Nat

(* A run never evaluates more than max_evaluations, nor accepts more than   *)
(* max_high_fidelity_evaluations, whatever part of it is batched, falls     *)
(* back or is already known; and one that stops for its evaluations has     *)
(* used them all, so that every resume gets further.                        *)
BudgetKept ==
    /\ spec.evaluations # None => record.evaluations <= spec.evaluations
    /\ spec.high # None => record.high <= spec.high
    /\ record.stop = "max-evaluations" => record.evaluations = spec.evaluations

(* A run exceeds max_cost by less than its last evaluation costs.           *)
CostBounded ==
    spec.cost # None =>
        record.cost < spec.cost \/ \E o \in Outcomes : record.cost < spec.cost + o.cost

(* What a run evaluates it stores and counts once, and, unless it fails,    *)
(* returns as evidence: also when it is cancelled while a batch is planned. *)
Added == {key \in Candidates \X Rungs :
            store[key[1]][key[2]] # None /\ before[key[1]][key[2]] = None}
EvidenceKept ==
    record.state # "CREATED" =>
        /\ record.evaluations = Cardinality(Added)
        /\ record.state # "FAILED" => \A key \in Added : record.latest[key[1]] # None

(* Expensive rungs are only spent on candidates that earned it on the       *)
(* cheaper one, with a valid result and a signal that asked for it, and on  *)
(* no rung that costs more than max_cost.  (A ladder whose costs fall with  *)
(* the rank is another matter: holding the cost limit may then escalate.)   *)
CostsRise == \A r, q \in Rungs : r <= q => RungCost[r] <= RungCost[q]
EarnedFidelity ==
    CostsRise =>
        \A c \in Candidates, r \in Rungs \ {0} :
            store[c][r] # None =>
                /\ Valid(store[c][r - 1]) /\ store[c][r - 1].hard
                /\ Affordable(spec, r)

(* With weighted selection a candidate that violates a constraint is only   *)
(* promoted where no candidate of its rung satisfies them all.              *)
FeasibleFirst ==
    \A c, d \in Candidates, r \in Rungs \ {0} :
        ~spec.pareto /\ store[c][r] # None /\ Feasible(store[d][r - 1])
        => Feasible(store[c][r - 1])

(* A record put into the content-addressed store is never replaced.         *)
StoreImmutable ==
    [][\A c \in Candidates, r \in Rungs :
         store[c][r] # None => store'[c][r] = store[c][r]]_vars

(* The campaign as a function of the results: who is evaluated on each      *)
(* rung, and the last evaluation of each.                                   *)
Level(r) == [c \in Candidates |-> store[c][r]]
Climbers(policy, r, at, S) ==
    LET valid == {c \in S : Valid(at[c])}
    IN IF valid = {} THEN {}
       ELSE {c \in Survivors(policy, at, Selected(policy, at, valid)) :
               Escalates(policy, r, at[c])}
Entrants[r \in Rungs] ==
    IF r = 0 THEN Candidates \ Rejected
    ELSE Climbers(spec, r - 1, Level(r - 1), Entrants[r - 1])
Evidence ==
    LET entrants == [r \in Rungs |-> Entrants[r]]
    IN [c \in Candidates |->
          IF c \in Rejected THEN None
          ELSE store[c][CHOOSE r \in Rungs :
                           /\ c \in entrants[r]
                           /\ \A q \in Rungs : q > r => c \notin entrants[q]]]

(* A run that is not stopped by a budget returns what that function says,   *)
(* however the results came about: one by one or in batches, falling back,  *)
(* in this run or in earlier ones that were cancelled, interrupted, failed  *)
(* or out of budget.                                                        *)
OutcomeIsReference ==
    record.stop \in {"completed", "promotion-halted", "no-valid-candidates"} =>
        LET evidence == Evidence
            valid == {c \in Candidates : Valid(evidence[c])}
            basis == Basis(evidence, valid)
        IN /\ record.latest = evidence
           /\ record.pareto = Front(evidence, basis)
           /\ IF valid = {} THEN record.best = None
              ELSE \A d \in basis : d = record.best \/ Before(evidence, record.best, d)

(* Every run ends, whatever the evaluators answer.                          *)
RunEnds == loop.pc # "rest" ~> loop.pc = "rest"
=============================================================================
