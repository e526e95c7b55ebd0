--------------------------- MODULE CampaignProofs ---------------------------
(***************************************************************************)
(* Proofs about Campaign, for every stream of candidates, ladder, policy   *)
(* and whatever the evaluators answer.                                     *)
(***************************************************************************)
EXTENDS Campaign, FiniteSetTheorems, WellFoundedInduction, TLAPS

(* Where the run is, and what its locals hold there.                        *)
Shape ==
    /\ loop.pc = "rest" => loop = Resting
    /\ loop.pc # "rest" => record.stop = None /\ record.state \in {"EVALUATING", "SELECTING"}
    /\ loop.pc \in {"scan", "promote"} => loop.plan = {}
    /\ loop.pc = "batch" => loop.rank = 0
    /\ loop.pc = "promote" => loop.rank < Top
    /\ loop.rank > 0 => loop.plan = {}
    /\ loop.halt # None => loop.todo = {}
    /\ loop.due \subseteq loop.plan
    /\ spec.cost # None => loop.pc # "batch" /\ loop.plan = {}
    /\ loop.pc = "call" => loop.due = {}
    /\ loop.pc = "call" => /\ loop.now \in Candidates
                           /\ store[loop.now][loop.rank] = None
                           /\ loop.now \in (IF loop.plan # {} THEN loop.plan ELSE loop.todo)

(* The budgets, with the evaluations that are planned and the one under way. *)
Within ==
    /\ spec.evaluations # None =>
          /\ record.evaluations + Planned <= spec.evaluations
          /\ loop.pc = "call" /\ loop.plan = {} => record.evaluations < spec.evaluations
    /\ spec.high # None =>
          /\ record.high <= spec.high
          /\ loop.pc = "call" /\ loop.rank > 0 => record.high < spec.high
    /\ spec.cost # None /\ loop.pc = "call" => record.cost < spec.cost
    /\ loop.halt = "max-evaluations" =>
          spec.evaluations # None /\ record.evaluations + Planned = spec.evaluations
    /\ record.stop = "max-evaluations" => record.evaluations = spec.evaluations

(* The valid candidates of the rung are those whose stored result is the    *)
(* latest of the record; those on a higher rung have earned it.             *)
Evaluations ==
    \A c \in loop.evaluated :
        record.latest[c] = store[c][loop.rank] /\ Valid(record.latest[c])
Earned(c, r) == Valid(store[c][r - 1]) /\ store[c][r - 1].hard /\ Affordable(spec, r)
Entered == CostsRise /\ loop.rank > 0 => \A c \in loop.todo : Earned(c, loop.rank)

Grown == \A c \in Candidates, r \in Rungs : before[c][r] # None => store[c][r] = before[c][r]

Inv ==
    /\ TypeOK /\ Shape /\ Within /\ CostBounded
    /\ Evaluations /\ Entered /\ EarnedFidelity
    /\ Grown /\ EvidenceKept

-----------------------------------------------------------------------------
(* Types.                                                                   *)

(* Sets of candidates can be counted.                                       *)
LEMMA CandidatesFinite ==
  ASSUME NEW S \in SUBSET Candidates
  PROVE  IsFiniteSet(S) /\ Cardinality(S) \in Nat
BY CampaignAssumption, FS_Subset, FS_CardinalityType

(* The locals of a run that is over.                                        *)
LEMMA RestingTyped == Resting \in Loops
<1>1. Empty \in Results  BY DEF Empty, Results
<1>2. Position \in [Candidates -> Nat] /\ 0 \in Rungs  BY CampaignAssumption DEF Rungs
<1>. QED  BY <1>1, <1>2 DEF Resting, Loops

(* What a step may make of a record: anything but its state is typed.       *)
Drafts ==
    [state : {"CREATED", "EVALUATING", "SELECTING", "PROMOTING", "COMPLETED", "FAILED",
              "CANCELLED"},
     stop : Stops \cup {None}, latest : Results,
     status : [Candidates -> {"pending", "preflight-invalid", "promoted", "retained"}
                             \cup Verdicts],
     evaluations : Nat, high : Nat, cost : Nat,
     best : Candidates \cup {None}, pareto : SUBSET Candidates]

(* The record a run starts with.                                            *)
LEMMA NewRecordTyped == NewRecord \in Records /\ NewRecord \in Drafts
<1>1. Empty \in Results  BY DEF Empty, Results
<1>. QED  BY <1>1 DEF NewRecord, Records, Drafts

(* Every record is a draft.                                                 *)
LEMMA RecordsAreDrafts == \A r \in Records : r \in Drafts
BY DEF Records, Drafts

(* _finalize returns a record with the counts and results it was given.     *)
LEMMA StopEffect ==
  ASSUME NEW rec \in Drafts, NEW reason \in Stops, Stop(rec, reason)
  PROVE  /\ loop' = Resting /\ record' \in Records
         /\ record'.state \in {"CANCELLED", "COMPLETED"} /\ record'.stop = reason
         /\ record'.latest = rec.latest /\ record'.evaluations = rec.evaluations
         /\ record'.high = rec.high /\ record'.cost = rec.cost
<1>. DEFINE valid == {c \in Candidates : Valid(rec.latest[c])}
            basis == Basis(rec.latest, valid)
<1>1. PICK best \in Bests(rec.latest, basis) :
        record' = [rec EXCEPT
                     !.state = IF reason = "cancelled" THEN "CANCELLED" ELSE "COMPLETED",
                     !.stop = reason, !.best = best, !.pareto = Front(rec.latest, basis)]
  BY DEF Stop
<1>2. basis \in SUBSET Candidates  BY DEF Basis
<1>3. best \in Candidates \cup {None} /\ Front(rec.latest, basis) \in SUBSET Candidates
  <2>. HIDE DEF basis
  <2>. QED  BY <1>1, <1>2 DEF Bests, Front
<1>4. loop' = Resting  BY DEF Stop
<1>. QED
  <2>. DEFINE front == Front(rec.latest, basis)
  <2>1. front \in SUBSET Candidates  BY <1>3
  <2>. HIDE DEF front
  <2>2. record' = [rec EXCEPT
                     !.state = IF reason = "cancelled" THEN "CANCELLED" ELSE "COMPLETED",
                     !.stop = reason, !.best = best, !.pareto = front]
    BY <1>1 DEF front
  <2>. QED  BY <1>3, <1>4, <2>1, <2>2 DEF Drafts, Records

(* A run that fails ends with the counters and results it had.              *)
LEMMA FailEffect ==
  ASSUME NEW rec \in Drafts, Fail(rec)
  PROVE  /\ loop' = Resting /\ record' \in Records
         /\ record'.state = "FAILED" /\ record'.stop = "failed"
         /\ record'.latest = rec.latest /\ record'.evaluations = rec.evaluations
         /\ record'.high = rec.high /\ record'.cost = rec.cost
BY DEF Fail, Drafts, Records, Stops

(* What accepting an evaluation o of c makes of the record and the locals.  *)
Accepted(rec, c, o) ==
    /\ record' \in Records /\ loop' \in Loops
    /\ record'.evaluations = rec.evaluations /\ record'.cost = rec.cost
    /\ record'.high = IF loop.rank > 0 THEN rec.high + 1 ELSE rec.high
    /\ \/ /\ loop' = Resting /\ record'.latest = rec.latest
          /\ record'.state = "FAILED" /\ record'.stop = "failed"
       \/ /\ record'.latest = [rec.latest EXCEPT ![c] = o]
          /\ record'.state = rec.state /\ record'.stop = rec.stop
          /\ loop'.rank = loop.rank /\ loop'.halt = loop.halt /\ loop'.due = loop.due
          /\ loop'.todo = loop.todo \ {c} /\ loop'.plan = loop.plan \ {c}
          /\ loop'.evaluated = IF Valid(o) THEN loop.evaluated \cup {c} ELSE loop.evaluated
          /\ loop'.pc = IF loop.pc = "call" THEN IF c \in loop.plan THEN "batch" ELSE "scan"
                        ELSE loop.pc

(* What accepting a result does to the record and the locals.               *)
LEMMA AcceptEffect ==
  ASSUME CampaignAssumption, loop \in Loops, NEW rec \in Records,
         NEW c \in Candidates, NEW o \in Outcomes, Accept(rec, c, o)
  PROVE  Accepted(rec, c, o)
<1>. DEFINE high == IF loop.rank > 0 THEN rec.high + 1 ELSE rec.high
            counted == [rec EXCEPT !.high = IF loop.rank > 0 THEN @ + 1 ELSE @]
<1>1. loop.rank \in Nat /\ high \in Nat  BY CampaignAssumption DEF Loops, Rungs, Records
<1>2. counted = [rec EXCEPT !.high = high]  BY DEF Records
<1>3. counted \in Records /\ counted.high = high /\ counted.latest = rec.latest
      /\ counted.evaluations = rec.evaluations /\ counted.cost = rec.cost
      /\ counted.state = rec.state /\ counted.stop = rec.stop
  <2>. HIDE DEF high, counted
  <2>. QED  BY <1>1, <1>2 DEF Records
<1>4. CASE o.verdict = "incomplete"
  <2>1. Fail(counted)  BY <1>4 DEF Accept
  <2>2. counted \in Drafts  BY <1>3, RecordsAreDrafts
  <2>. HIDE DEF counted
  <2>. QED  BY <1>3, <2>1, <2>2, FailEffect, RestingTyped DEF Accepted
<1>5. CASE o.verdict # "incomplete"
  <2>. DEFINE latest == [rec.latest EXCEPT ![c] = o]
              status == [rec.status EXCEPT ![c] = o.verdict]
              pc == IF loop.pc = "call" THEN IF c \in loop.plan THEN "batch" ELSE "scan"
                    ELSE loop.pc
              evaluated == IF Valid(o) THEN loop.evaluated \cup {c} ELSE loop.evaluated
  <2>1. record' = Remember(counted, c, o)  BY <1>5 DEF Accept
  <2>2. latest \in Results  BY DEF Records, Results
  <2>3. status \in [Candidates -> {"pending", "preflight-invalid", "promoted", "retained"}
                                  \cup Verdicts]
    BY CampaignAssumption DEF Records
  <2>4. record' = [counted EXCEPT !.latest = latest, !.status = status]
    BY <2>1, <1>2 DEF Remember, Records
  <2>5. /\ record' \in Records /\ record'.latest = latest /\ record'.high = high
        /\ record'.evaluations = rec.evaluations /\ record'.cost = rec.cost
        /\ record'.state = rec.state /\ record'.stop = rec.stop
    <3>. HIDE DEF latest, status, counted, high
    <3>. QED  BY <1>3, <2>2, <2>3, <2>4 DEF Records
  <2>6. loop' = [loop EXCEPT !.todo = @ \ {c}, !.plan = @ \ {c}, !.now = None,
                   !.pc = pc, !.evaluated = evaluated]
    BY <1>5 DEF Accept, Loops
  <2>7. pc \in {"rest", "scan", "call", "batch", "promote"}
        /\ evaluated \in SUBSET Candidates
    BY DEF Loops
  <2>8. /\ loop' \in Loops /\ loop'.rank = loop.rank /\ loop'.halt = loop.halt
        /\ loop'.due = loop.due /\ loop'.todo = loop.todo \ {c}
        /\ loop'.plan = loop.plan \ {c} /\ loop'.evaluated = evaluated /\ loop'.pc = pc
    <3>. HIDE DEF pc, evaluated
    <3>. QED  BY <2>6, <2>7, ZenonT(60) DEF Loops
  <2>. QED  BY <2>5, <2>8 DEF Accepted
<1>. QED  BY <1>4, <1>5

-----------------------------------------------------------------------------
(* The store.                                                               *)

(* A step that leaves the store alone keeps what was earned in it.          *)
LEMMA StoreKept ==
  ASSUME UNCHANGED <<spec, store, before>>, Grown, EarnedFidelity
  PROVE  Grown' /\ EarnedFidelity' /\ Added' = Added
<1>1. Grown'  BY DEF Grown
<1>2. EarnedFidelity'  BY DEF EarnedFidelity, Affordable, Valid
<1>3. Added' = Added  BY DEF Added
<1>. QED  BY <1>1, <1>2, <1>3

(* The store gets the evaluation o of c, which it did not have.             *)
Write(c, o) == store[c][loop.rank] = None /\ store' = [store EXCEPT ![c][loop.rank] = o]

(* A write changes one place of the store.                                  *)
LEMMA WriteEffect ==
  ASSUME Inv, CampaignAssumption, NEW c \in Candidates, NEW o \in Outcomes, Write(c, o)
  PROVE  /\ store' \in Stores /\ store'[c][loop.rank] = o
         /\ \A d \in Candidates, q \in Rungs :
               d # c \/ q # loop.rank => store'[d][q] = store[d][q]
<1>1. store \in [Candidates -> [Rungs -> Outcomes \cup {None}]] /\ loop.rank \in Rungs
  BY DEF Inv, TypeOK, Stores, Loops
<1>2. store' \in [Candidates -> [Rungs -> Outcomes \cup {None}]]  BY <1>1 DEF Write
<1>. QED  BY <1>1, <1>2 DEF Write, Stores

(* A write adds one to what this run has stored.                            *)
LEMMA WriteAdds ==
  ASSUME Inv, CampaignAssumption, NEW c \in Candidates, NEW o \in Outcomes, Write(c, o),
         before' = before
  PROVE  /\ Grown' /\ Added' = Added \cup {<<c, loop.rank>>}
         /\ Cardinality(Added') = Cardinality(Added) + 1
<1>1. loop.rank \in Rungs  BY DEF Inv, TypeOK, Loops
<1>2. o # None  BY CampaignAssumption
<1>3. \A d \in Candidates, q \in Rungs :
        IF d = c /\ q = loop.rank THEN store[d][q] = None /\ store'[d][q] = o
        ELSE store'[d][q] = store[d][q]
  <2>1. /\ store'[c][loop.rank] = o
        /\ \A d \in Candidates, q \in Rungs :
              d # c \/ q # loop.rank => store'[d][q] = store[d][q]
    BY WriteEffect
  <2>2. store[c][loop.rank] = None  BY DEF Write
  <2>. QED  BY <2>1, <2>2
<1>4. Grown'  BY <1>3, <1>1 DEF Inv, Grown
<1>5. before[c][loop.rank] = None  BY <1>1, <1>3 DEF Inv, Grown
<1>. DEFINE key == <<c, loop.rank>>
<1>6. key \notin Added /\ key \in Candidates \X Rungs  BY <1>1 DEF Added, Write
<1>7. \A k \in Candidates \X Rungs : k = <<k[1], k[2]>> /\ k[1] \in Candidates /\ k[2] \in Rungs
  OBVIOUS
<1>8. \A k \in Candidates \X Rungs : k \in Added' <=> k \in Added \/ k = key
  <2>. TAKE k \in Candidates \X Rungs
  <2>1. k[1] \in Candidates /\ k[2] \in Rungs /\ k = <<k[1], k[2]>>  BY <1>7
  <2>2. CASE k[1] = c /\ k[2] = loop.rank
    <3>1. k = key  BY <2>1, <2>2
    <3>2. store'[k[1]][k[2]] # None /\ before'[k[1]][k[2]] = None
      BY <2>2, <1>2, <1>3, <1>5, <1>1
    <3>. QED  BY <3>1, <3>2 DEF Added
  <2>3. CASE ~(k[1] = c /\ k[2] = loop.rank)
    <3>1. k # key  BY <2>3
    <3>2. store'[k[1]][k[2]] = store[k[1]][k[2]]  BY <2>1, <2>3, <1>3
    <3>. QED  BY <3>1, <3>2 DEF Added
  <2>. QED  BY <2>2, <2>3
<1>9. Added' = Added \cup {key}
  <2>1. Added \subseteq Candidates \X Rungs /\ Added' \subseteq Candidates \X Rungs  BY DEF Added
  <2>. HIDE DEF key
  <2>. QED  BY <1>6, <1>8, <2>1
<1>10. IsFiniteSet(Added)
  <2>1. IsFiniteSet(Rungs)  BY CampaignAssumption, FS_Interval DEF Rungs
  <2>2. IsFiniteSet(Candidates \X Rungs)  BY <2>1, CampaignAssumption, FS_Product
  <2>. QED  BY <2>2, FS_Subset DEF Added
<1>11. Cardinality(Added \cup {key}) = Cardinality(Added) + 1
  <2>. HIDE DEF key
  <2>. QED  BY <1>6, <1>10, FS_AddElement
<1>. QED  BY <1>4, <1>9, <1>11

(* What is written on a higher rung was earned on the rung below.           *)
LEMMA WriteEarned ==
  ASSUME Inv, CampaignAssumption, NEW c \in Candidates, NEW o \in Outcomes, Write(c, o),
         spec' = spec, loop.rank > 0 => c \in loop.todo
  PROVE  EarnedFidelity'
<1>1. loop.rank \in Nat /\ Rungs \subseteq Nat /\ \A r \in Rungs \ {0} : r - 1 \in Rungs /\ r > 0
  BY CampaignAssumption DEF Inv, TypeOK, Loops, Rungs
<1>2. SUFFICES ASSUME CostsRise, NEW d \in Candidates, NEW q \in Rungs \ {0},
                      store'[d][q] # None
               PROVE  /\ Valid(store'[d][q - 1]) /\ store'[d][q - 1].hard
                      /\ Affordable(spec, q)
  BY DEF EarnedFidelity, Affordable, Valid
<1>3. \A e \in Candidates, r \in Rungs :
         e # c \/ r # loop.rank => store'[e][r] = store[e][r]
  BY WriteEffect
<1>4. q - 1 \in Rungs /\ q - 1 # q /\ q > 0  BY <1>1
<1>5. CASE d = c /\ q = loop.rank
  <2>1. Earned(d, q)  BY <1>2, <1>4, <1>5 DEF Inv, Entered
  <2>2. store'[d][q - 1] = store[d][q - 1]  BY <1>3, <1>4, <1>5
  <2>. QED  BY <2>1, <2>2 DEF Earned
<1>6. CASE ~(d = c /\ q = loop.rank)
  <2>1. store[d][q] # None  BY <1>2, <1>3, <1>6
  <2>2. Valid(store[d][q - 1]) /\ store[d][q - 1].hard /\ Affordable(spec, q)
    BY <1>2, <2>1 DEF Inv, EarnedFidelity
  <2>3. ~(d = c /\ q - 1 = loop.rank)  BY <2>2 DEF Valid, Write
  <2>4. store'[d][q - 1] = store[d][q - 1]  BY <1>3, <1>4, <2>3
  <2>. QED  BY <2>2, <2>4
<1>. QED  BY <1>5, <1>6

-----------------------------------------------------------------------------
(* The end of a run.                                                        *)

(* A run that ends with its limits kept satisfies the invariant.            *)
LEMMA Ended ==
  ASSUME Inv, CampaignAssumption,
         loop' = Resting, record' \in Records, store' \in Stores, before' \in Stores,
         spec' = spec, cancel' \in BOOLEAN, runs' \in Nat,
         Grown', EarnedFidelity', EvidenceKept', CostBounded',
         spec.evaluations # None => record'.evaluations <= spec.evaluations,
         spec.high # None => record'.high <= spec.high,
         record'.stop = "max-evaluations" => record'.evaluations = spec.evaluations
  PROVE  Inv'
<1>1. /\ loop'.pc = "rest" /\ loop'.rank = 0 /\ loop'.plan = {} /\ loop'.todo = {}
      /\ loop'.due = {} /\ loop'.halt = None /\ loop'.evaluated = {}
  BY DEF Resting
<1>2. None # "max-evaluations"  BY CampaignAssumption DEF Stops
<1>3. Planned' = 0
  <2>1. {c \in loop'.plan : store'[c][0] = None} = {}  BY <1>1
  <2>. QED  BY <2>1, FS_EmptySet DEF Planned
<1>4. TypeOK'  BY RestingTyped DEF Inv, TypeOK
<1>5. Shape'  BY <1>1 DEF Shape
<1>6. Within'
  <2>1. record'.evaluations \in Nat  BY DEF Records
  <2>. QED  BY <1>1, <1>2, <1>3, <2>1 DEF Within
<1>7. Evaluations' /\ Entered'  BY <1>1 DEF Evaluations, Entered
<1>. QED  BY <1>4, <1>5, <1>6, <1>7 DEF Inv

(* The record is returned as it stands.                                     *)
LEMMA Stopped ==
  ASSUME Inv, CampaignAssumption, loop.pc # "rest",
         NEW rec \in Drafts, NEW reason \in Stops,
         \/ Stop(rec, reason) /\ (reason = "max-evaluations" =>
                                    spec.evaluations # None /\ record.evaluations >= spec.evaluations)
         \/ Fail(rec),
         rec.latest = record.latest, rec.evaluations = record.evaluations,
         rec.high = record.high, rec.cost = record.cost,
         UNCHANGED <<spec, store, cancel, before, runs>>
  PROVE  Inv'
<1>1. /\ loop' = Resting /\ record' \in Records
      /\ record'.latest = record.latest /\ record'.evaluations = record.evaluations
      /\ record'.high = record.high /\ record'.cost = record.cost
  BY StopEffect, FailEffect
<1>2. record'.stop = "max-evaluations" =>
        spec.evaluations # None /\ record.evaluations >= spec.evaluations
  BY StopEffect, FailEffect
<1>3. record.state # "CREATED" /\ record.state # "FAILED"  BY DEF Inv, Shape
<1>4. Grown' /\ EarnedFidelity' /\ Added' = Added  BY StoreKept DEF Inv
<1>5. EvidenceKept'
  <2>1. record.evaluations = Cardinality(Added) /\ \A key \in Added : record.latest[key[1]] # None
    BY <1>3 DEF Inv, EvidenceKept
  <2>. QED  BY <1>1, <1>4, <2>1 DEF EvidenceKept
<1>6. CostBounded'  BY <1>1 DEF Inv, CostBounded
<1>7. spec.evaluations # None => record.evaluations <= spec.evaluations
  <2>1. Planned \in Nat /\ record.evaluations \in Nat
    <3>1. {c \in loop.plan : store[c][0] = None} \in SUBSET Candidates
      BY DEF Inv, TypeOK, Loops
    <3>. QED  BY <3>1, CandidatesFinite DEF Planned, Inv, TypeOK, Records
  <2>2. spec.evaluations # None => spec.evaluations \in Nat
    BY CampaignAssumption DEF Inv, TypeOK
  <2>. QED  BY <2>1, <2>2 DEF Inv, Within
<1>8. record'.stop = "max-evaluations" => record'.evaluations = spec.evaluations
  <2>1. spec.evaluations # None => spec.evaluations \in Nat
    BY CampaignAssumption DEF Inv, TypeOK
  <2>2. record.evaluations \in Nat  BY DEF Inv, TypeOK, Records
  <2>. QED  BY <1>1, <1>2, <1>7, <2>1, <2>2
<1>9. TypeOK  BY DEF Inv
<1>10. spec.high # None => record'.high <= spec.high  BY <1>1 DEF Inv, Within
<1>. QED
  <2>1. store' \in Stores /\ before' \in Stores /\ cancel' \in BOOLEAN /\ runs' \in Nat
        /\ spec' = spec
    BY <1>9 DEF TypeOK
  <2>. QED  BY <1>1, <1>4, <1>5, <1>6, <1>7, <1>8, <1>10, <2>1, Ended

-----------------------------------------------------------------------------
(* An evaluation is accepted: a known one, or one that has just been        *)
(* written and counted.                                                     *)
Known(rec, c, o) == store' = store /\ store[c][loop.rank] = o /\ rec = record
Bought(rec, c, o) ==
    /\ Write(c, o)
    /\ spec.evaluations # None /\ loop.plan = {} => record.evaluations < spec.evaluations
    /\ spec.cost # None => record.cost < spec.cost
    /\ \E cost \in Nat :
          rec = Spent(record, cost) /\ (spec.cost # None => \E p \in Outcomes : cost = p.cost)

Accepting(rec, c, o) ==
    /\ Known(rec, c, o) \/ Bought(rec, c, o)
    /\ loop.pc \in {"scan", "call", "batch"} /\ loop.due = {}
    /\ c \in (IF loop.plan # {} THEN loop.plan ELSE loop.todo)
    /\ loop.rank > 0 /\ spec.high # None => record.high < spec.high
    /\ Accept(rec, c, o)
    /\ UNCHANGED <<spec, cancel, before, runs>>

(* What both have in common.                                                *)
LEMMA AcceptStore ==
  ASSUME Inv, CampaignAssumption, NEW c \in Candidates, NEW o \in Outcomes, NEW rec,
         Accepting(rec, c, o)
  PROVE  /\ rec \in Records /\ rec.latest = record.latest /\ rec.high = record.high
         /\ rec.state = record.state /\ rec.stop = record.stop
         /\ store' \in Stores /\ Grown' /\ EarnedFidelity'
         /\ store'[c][loop.rank] = o
         /\ \A d \in Candidates, q \in Rungs :
               d # c \/ q # loop.rank => store'[d][q] = store[d][q]
         /\ rec.evaluations = Cardinality(Added') /\ Added' \subseteq Added \cup {<<c, loop.rank>>}
         /\ (spec.cost # None =>
               rec.cost < spec.cost \/ \E p \in Outcomes : rec.cost < spec.cost + p.cost)
<1>0. record \in Records /\ store \in Stores /\ before' = before /\ spec' = spec
  BY DEF Inv, TypeOK, Accepting
<1>1. record.evaluations = Cardinality(Added)
  BY DEF Inv, Shape, EvidenceKept, Accepting
<1>2. CASE Known(rec, c, o)
  <2>1. Grown' /\ EarnedFidelity' /\ Added' = Added
    BY <1>0, <1>2, StoreKept DEF Inv, Known
  <2>. QED  BY <1>0, <1>1, <1>2, <2>1 DEF Known, Inv, CostBounded
<1>3. CASE Bought(rec, c, o)
  <2>1. PICK cost \in Nat : /\ rec = Spent(record, cost)
                            /\ spec.cost # None => \E p \in Outcomes : cost = p.cost
    BY <1>3 DEF Bought
  <2>2. /\ rec \in Records /\ rec.latest = record.latest /\ rec.high = record.high
        /\ rec.state = record.state /\ rec.stop = record.stop
        /\ rec.evaluations = record.evaluations + 1 /\ rec.cost = record.cost + cost
    <3>1. rec = [record EXCEPT !.evaluations = @ + 1, !.cost = @ + cost]  BY <2>1 DEF Spent
    <3>2. record.evaluations + 1 \in Nat /\ record.cost + cost \in Nat  BY <1>0 DEF Records
    <3>. QED  BY <1>0, <3>1, <3>2 DEF Records
  <2>3. Write(c, o)  BY <1>3 DEF Bought
  <2>4. Grown' /\ Added' = Added \cup {<<c, loop.rank>>}
        /\ Cardinality(Added') = Cardinality(Added) + 1
    BY <1>0, <2>3, WriteAdds
  <2>5. loop.rank > 0 => c \in loop.todo  BY DEF Accepting, Inv, Shape
  <2>6. EarnedFidelity'  BY <1>0, <2>3, <2>5, WriteEarned
  <2>7. /\ store' \in Stores /\ store'[c][loop.rank] = o
        /\ \A d \in Candidates, q \in Rungs :
              d # c \/ q # loop.rank => store'[d][q] = store[d][q]
    BY <2>3, WriteEffect
  <2>8. spec.cost # None => \E p \in Outcomes : rec.cost < spec.cost + p.cost
    <3>1. SUFFICES ASSUME spec.cost # None
                   PROVE  \E p \in Outcomes : rec.cost < spec.cost + p.cost
      OBVIOUS
    <3>2. PICK p \in Outcomes : cost = p.cost  BY <2>1, <3>1
    <3>3. record.cost < spec.cost /\ record.cost \in Nat /\ spec.cost \in Nat
      BY <1>0, <1>3, <3>1, CampaignAssumption DEF Bought, Records, Inv, TypeOK
    <3>4. rec.cost < spec.cost + p.cost  BY <2>2, <3>2, <3>3
    <3>. QED  BY <3>4
  <2>. QED  BY <1>1, <2>2, <2>4, <2>6, <2>7, <2>8
<1>. QED  BY <1>2, <1>3 DEF Accepting

(* The planned evaluations after c was accepted from the plan.              *)
LEMMA PlannedLess ==
  ASSUME Inv, CampaignAssumption, NEW c \in Candidates, NEW o \in Outcomes, NEW rec,
         Accepting(rec, c, o)
  PROVE  LET left == Cardinality({d \in loop.plan \ {c} : store'[d][0] = None})
         IN /\ left \in Nat /\ Planned \in Nat
            /\ Known(rec, c, o) => left = Planned
            /\ Bought(rec, c, o) /\ loop.plan # {} => Planned = left + 1
            /\ loop.plan = {} => left = 0 /\ Planned = 0
<1>. DEFINE now == {d \in loop.plan : store[d][0] = None}
            then == {d \in loop.plan \ {c} : store'[d][0] = None}
<1>1. loop.plan \in SUBSET Candidates /\ 0 \in Rungs /\ loop.rank \in Nat
  BY CampaignAssumption DEF Inv, TypeOK, Loops, Rungs
<1>2. IsFiniteSet(then) /\ Cardinality(then) \in Nat /\ Cardinality(now) \in Nat
  BY <1>1, CandidatesFinite
<1>3. Planned = Cardinality(now)  BY DEF Planned
<1>4. /\ store'[c][loop.rank] = o /\ o # None
      /\ \A d \in Candidates : d # c => store'[d][0] = store[d][0]
  BY <1>1, AcceptStore, CampaignAssumption
<1>5. loop.plan # {} => loop.rank = 0 /\ c \in loop.plan
  BY <1>1 DEF Inv, Shape, Accepting
<1>6. ASSUME Known(rec, c, o) PROVE then = now
  <2>1. loop.plan # {} => store[c][0] # None  BY <1>4, <1>5, <1>6 DEF Known
  <2>2. CASE loop.plan = {}  BY <2>2
  <2>3. CASE loop.plan # {}
    <3>1. \A d \in loop.plan \ {c} : store'[d][0] = store[d][0]  BY <1>1, <1>4
    <3>2. store[c][0] # None  BY <2>1, <2>3
    <3>. QED  BY <3>1, <3>2
  <2>. QED  BY <2>2, <2>3
<1>7. ASSUME Bought(rec, c, o), loop.plan # {} PROVE Cardinality(now) = Cardinality(then) + 1
  <2>1. store[c][0] = None  BY <1>5, <1>7 DEF Bought, Write
  <2>2. now = then \cup {c} /\ c \notin then  BY <1>1, <1>4, <1>5, <1>7, <2>1, ZenonT(60)
  <2>. HIDE DEF now, then
  <2>. QED  BY <1>2, <2>2, FS_AddElement
<1>8. loop.plan = {} => then = {} /\ now = {}  OBVIOUS
<1>. HIDE DEF now
<1>. QED  BY <1>2, <1>3, <1>6, <1>7, <1>8, FS_EmptySet

(* Accepting a result, whichever path it came on, keeps the invariant.      *)
LEMMA AcceptInv ==
  ASSUME Inv, CampaignAssumption, NEW c \in Candidates, NEW o \in Outcomes, NEW rec,
         Accepting(rec, c, o)
  PROVE  Inv'
<1>. DEFINE left == Cardinality({d \in loop.plan \ {c} : store'[d][0] = None})
<1>1. /\ rec \in Records /\ rec.latest = record.latest /\ rec.high = record.high
      /\ rec.state = record.state /\ rec.stop = record.stop
      /\ rec.evaluations = Cardinality(Added') /\ Added' \subseteq Added \cup {<<c, loop.rank>>}
  BY AcceptStore
<1>2. /\ store' \in Stores /\ Grown' /\ EarnedFidelity' /\ store'[c][loop.rank] = o
      /\ \A d \in Candidates, q \in Rungs :
            d # c \/ q # loop.rank => store'[d][q] = store[d][q]
  BY AcceptStore
<1>3. /\ record \in Records /\ loop \in Loops /\ before' \in Stores /\ spec' = spec
      /\ cancel' \in BOOLEAN /\ runs' \in Nat /\ before' = before /\ spec \in Specs
  BY DEF Inv, TypeOK, Accepting
<1>4. Accepted(rec, c, o)
  <2>1. Accept(rec, c, o)  BY DEF Accepting
  <2>. QED  BY <1>1, <1>3, <2>1, AcceptEffect
<1>5. /\ record' \in Records /\ loop' \in Loops
      /\ record'.evaluations = rec.evaluations /\ record'.cost = rec.cost
      /\ record'.high = IF loop.rank > 0 THEN record.high + 1 ELSE record.high
  BY <1>1, <1>4 DEF Accepted
<1>6. /\ record.stop = None /\ record.state \in {"EVALUATING", "SELECTING"}
      /\ loop.pc \in {"scan", "call", "batch"} /\ loop.due = {}
      /\ c \in (IF loop.plan # {} THEN loop.plan ELSE loop.todo)
  BY DEF Inv, Shape, Accepting
<1>7. CostBounded'
  <2>1. spec.cost # None =>
          rec.cost < spec.cost \/ \E p \in Outcomes : rec.cost < spec.cost + p.cost
    BY AcceptStore
  <2>. QED  BY <1>3, <1>5, <2>1 DEF CostBounded
<1>8. left \in Nat /\ rec.evaluations \in Nat /\ record.evaluations \in Nat
      /\ (spec.evaluations # None =>
            spec.evaluations \in Nat /\ rec.evaluations + left <= spec.evaluations)
      /\ (loop.halt = "max-evaluations" =>
            spec.evaluations # None /\ rec.evaluations + left = spec.evaluations)
  <2>1. /\ left \in Nat /\ Planned \in Nat
        /\ Known(rec, c, o) => left = Planned
        /\ Bought(rec, c, o) /\ loop.plan # {} => Planned = left + 1
        /\ loop.plan = {} => left = 0 /\ Planned = 0
    BY PlannedLess
  <2>2. Known(rec, c, o) => rec = record  BY DEF Known
  <2>3. Bought(rec, c, o) => rec.evaluations = record.evaluations + 1
    <3>1. SUFFICES ASSUME Bought(rec, c, o) PROVE rec.evaluations = record.evaluations + 1
      OBVIOUS
    <3>2. PICK cost \in Nat : rec = Spent(record, cost)  BY <3>1 DEF Bought
    <3>. QED  BY <1>3, <3>2 DEF Spent, Records
  <2>4. Bought(rec, c, o) /\ loop.plan = {} /\ spec.evaluations # None =>
          record.evaluations < spec.evaluations
    BY DEF Bought
  <2>5. loop.halt # None => loop.plan # {}  BY <1>6 DEF Inv, Shape
  <2>6. /\ spec.evaluations # None => record.evaluations + Planned <= spec.evaluations
        /\ loop.halt = "max-evaluations" =>
              spec.evaluations # None /\ record.evaluations + Planned = spec.evaluations
    BY DEF Inv, Within
  <2>7. spec.evaluations # None => spec.evaluations \in Nat  BY <1>3, CampaignAssumption
  <2>8. record.evaluations \in Nat /\ rec.evaluations \in Nat  BY <1>1, <1>3 DEF Records
  <2>9. None # "max-evaluations"  BY CampaignAssumption DEF Stops
  <2>10. Known(rec, c, o) \/ Bought(rec, c, o)  BY DEF Accepting
  <2>. HIDE DEF left
  <2>11. CASE Known(rec, c, o)
    BY <2>1, <2>2, <2>6, <2>7, <2>8, <2>11
  <2>12. CASE Bought(rec, c, o) /\ loop.plan # {}
    BY <2>1, <2>3, <2>6, <2>7, <2>8, <2>12
  <2>13. CASE Bought(rec, c, o) /\ loop.plan = {}
    BY <2>1, <2>3, <2>4, <2>5, <2>7, <2>8, <2>9, <2>13
  <2>. QED  BY <2>10, <2>11, <2>12, <2>13
<1>9. spec.high # None => record'.high <= spec.high
  <2>1. spec.high # None => record.high <= spec.high /\ spec.high \in Nat
    BY <1>3, CampaignAssumption DEF Inv, Within
  <2>2. loop.rank > 0 /\ spec.high # None => record.high < spec.high  BY DEF Accepting
  <2>. QED  BY <1>3, <1>5, <2>1, <2>2 DEF Records
<1>10. CASE loop' = Resting /\ record'.latest = rec.latest
            /\ record'.state = "FAILED" /\ record'.stop = "failed"
  <2>1. EvidenceKept'  BY <1>1, <1>5, <1>10 DEF EvidenceKept
  <2>2. spec.evaluations # None => record'.evaluations <= spec.evaluations
    <3>. HIDE DEF left
    <3>. QED  BY <1>5, <1>8
  <2>3. record'.stop # "max-evaluations"  BY <1>10
  <2>. QED  BY <1>2, <1>3, <1>5, <1>7, <1>9, <1>10, <2>1, <2>2, <2>3, Ended
<1>11. CASE /\ record'.latest = [rec.latest EXCEPT ![c] = o]
            /\ record'.state = rec.state /\ record'.stop = rec.stop
            /\ loop'.rank = loop.rank /\ loop'.halt = loop.halt /\ loop'.due = loop.due
            /\ loop'.todo = loop.todo \ {c} /\ loop'.plan = loop.plan \ {c}
            /\ loop'.evaluated = IF Valid(o) THEN loop.evaluated \cup {c} ELSE loop.evaluated
            /\ loop'.pc = IF loop.pc = "call" THEN IF c \in loop.plan THEN "batch" ELSE "scan"
                          ELSE loop.pc
  <2>1. TypeOK'  BY <1>2, <1>3, <1>5 DEF TypeOK
  <2>2. Shape'
    <3>1. loop.rank \in Nat  BY <1>3, CampaignAssumption DEF Loops, Rungs
    <3>2. /\ loop.pc = "scan" => loop.plan = {}
          /\ loop.pc = "batch" => loop.rank = 0
          /\ loop.rank > 0 => loop.plan = {}
          /\ loop.halt # None => loop.todo = {}
          /\ spec.cost # None => loop.pc # "batch" /\ loop.plan = {}
      BY DEF Inv, Shape
    <3>3. loop'.pc \in {"scan", "batch"}  BY <1>6, <1>11
    <3>4. loop'.pc = "scan" => loop'.plan = {}  BY <1>6, <1>11, <3>2
    <3>5. loop'.pc = "batch" => loop'.rank = 0  BY <1>6, <1>11, <3>1, <3>2
    <3>6. spec'.cost # None => loop'.pc # "batch" /\ loop'.plan = {}
      BY <1>3, <1>6, <1>11, <3>2
    <3>7. loop'.rank > 0 => loop'.plan = {}  BY <1>11, <3>2
    <3>8. loop'.halt # None => loop'.todo = {}  BY <1>11, <3>2
    <3>9. loop'.due \subseteq loop'.plan  BY <1>6, <1>11
    <3>10. record'.stop = None /\ record'.state \in {"EVALUATING", "SELECTING"}
      BY <1>1, <1>6, <1>11
    <3>. QED  BY <3>3, <3>4, <3>5, <3>6, <3>7, <3>8, <3>9, <3>10 DEF Shape
  <2>3. Within'
    <3>1. Planned' = left  BY <1>11 DEF Planned
    <3>2. loop'.pc # "call"  BY <1>6, <1>11
    <3>3. record'.stop # "max-evaluations"
      BY <1>1, <1>6, <1>11, CampaignAssumption DEF Stops
    <3>4. loop'.halt = loop.halt  BY <1>11
    <3>. HIDE DEF left
    <3>. QED  BY <1>3, <1>5, <1>8, <1>9, <3>1, <3>2, <3>3, <3>4 DEF Within
  <2>4. /\ record'.latest[c] = o
        /\ \A d \in Candidates \ {c} : record'.latest[d] = record.latest[d]
    BY <1>1, <1>11 DEF Records, Results
  <2>5. Evaluations'
    <3>1. SUFFICES ASSUME NEW d \in loop'.evaluated
                   PROVE  record'.latest[d] = store'[d][loop.rank] /\ Valid(record'.latest[d])
      BY <1>11 DEF Evaluations, Valid
    <3>2. CASE d = c /\ Valid(o)  BY <1>2, <2>4, <3>2
    <3>3. CASE d # c
      <4>1. d \in loop.evaluated /\ d \in Candidates  BY <1>3, <1>11, <3>1, <3>3 DEF Loops
      <4>2. record.latest[d] = store[d][loop.rank] /\ Valid(record.latest[d])
        BY <4>1 DEF Inv, Evaluations
      <4>3. loop.rank \in Rungs  BY <1>3 DEF Loops
      <4>. QED  BY <1>2, <2>4, <3>3, <4>1, <4>2, <4>3
    <3>4. CASE d = c /\ ~Valid(o)
      <4>1. c \in loop.evaluated  BY <1>11, <3>1, <3>4
      <4>2. store[c][loop.rank] # None  BY <4>1 DEF Inv, Evaluations, Valid
      <4>3. store[c][loop.rank] = o
        BY <4>2 DEF Accepting, Known, Bought, Write
      <4>. QED  BY <3>4, <4>1, <4>3 DEF Inv, Evaluations
    <3>. QED  BY <3>2, <3>3, <3>4
  <2>6. Entered'
    <3>1. SUFFICES ASSUME CostsRise, loop.rank > 0, NEW d \in loop.todo, d # c
                   PROVE  /\ Valid(store'[d][loop.rank - 1]) /\ store'[d][loop.rank - 1].hard
                          /\ Affordable(spec, loop.rank)
      BY <1>3, <1>11 DEF Entered, Earned, Affordable, Valid
    <3>2. Earned(d, loop.rank)  BY <3>1 DEF Inv, Entered
    <3>3. loop.rank - 1 \in Rungs /\ d \in Candidates
      <4>1. loop.rank \in 0 .. Top /\ loop.todo \subseteq Candidates  BY <1>3 DEF Loops, Rungs
      <4>2. Top \in Nat  BY CampaignAssumption
      <4>. QED  BY <3>1, <4>1, <4>2, SMTT(30) DEF Rungs
    <3>4. store'[d][loop.rank - 1] = store[d][loop.rank - 1]  BY <1>2, <3>1, <3>3
    <3>. QED  BY <3>2, <3>4 DEF Earned
  <2>7. EvidenceKept'
    <3>1. \A key \in Added' : record'.latest[key[1]] # None
      <4>1. TAKE key \in Added'
      <4>2. key[1] \in Candidates  BY <4>1 DEF Added
      <4>3. CASE key[1] = c  BY <2>4, <4>3, CampaignAssumption
      <4>4. CASE key[1] # c
        <5>1. key \in Added  BY <1>1, <4>1, <4>4
        <5>2. record.latest[key[1]] # None  BY <1>6, <5>1 DEF Inv, EvidenceKept
        <5>. QED  BY <2>4, <4>2, <4>4, <5>2
      <4>. QED  BY <4>3, <4>4
    <3>. QED  BY <1>1, <1>5, <3>1 DEF EvidenceKept
  <2>. QED  BY <1>2, <1>7, <2>1, <2>2, <2>3, <2>5, <2>6, <2>7 DEF Inv
<1>. QED  BY <1>4, <1>10, <1>11 DEF Accepted

-----------------------------------------------------------------------------
(* The steps.                                                               *)

(* The invariant holds before the first run.                                *)
LEMMA InitInv == CampaignAssumption /\ Init => Inv
<1>. SUFFICES ASSUME CampaignAssumption, Init PROVE Inv  OBVIOUS
<1>1. spec \in Specs /\ store \in Stores /\ before \in Stores /\ before = store
      /\ \A c \in Candidates, r \in Rungs : store[c][r] = None
  BY DEF Init, Stores
<1>2. record \in Records /\ record.state = "CREATED" /\ record.stop = None
      /\ record.evaluations = 0 /\ record.high = 0 /\ record.cost = 0
  <2>1. record = [NewRecord EXCEPT !.state = "CREATED"]  BY DEF Init
  <2>2. NewRecord \in Records /\ NewRecord.stop = None
        /\ NewRecord.evaluations = 0 /\ NewRecord.high = 0 /\ NewRecord.cost = 0
    BY NewRecordTyped DEF NewRecord
  <2>. QED  BY <2>1, <2>2 DEF Records
<1>3. loop = Resting /\ cancel = FALSE /\ runs = 0  BY DEF Init
<1>4. /\ loop.pc = "rest" /\ loop.rank = 0 /\ loop.plan = {} /\ loop.todo = {}
      /\ loop.due = {} /\ loop.halt = None /\ loop.evaluated = {}
  BY <1>3 DEF Resting
<1>5. TypeOK  BY <1>1, <1>2, <1>3, RestingTyped DEF TypeOK
<1>6. Shape  BY <1>3, <1>4 DEF Shape
<1>7. Planned = 0
  <2>1. {c \in loop.plan : store[c][0] = None} = {}  BY <1>4
  <2>. QED  BY <2>1, FS_EmptySet DEF Planned
<1>8. /\ spec.evaluations # None => spec.evaluations \in Nat \ {0}
      /\ spec.high # None => spec.high \in Nat \ {0}
      /\ spec.cost # None => spec.cost \in Nat \ {0}
  BY <1>1, CampaignAssumption
<1>9. Within
  <2>1. None # "max-evaluations"  BY CampaignAssumption DEF Stops
  <2>. QED  BY <1>2, <1>4, <1>7, <1>8, <2>1 DEF Within
<1>10. CostBounded  BY <1>2, <1>8 DEF CostBounded
<1>11. Evaluations /\ Entered  BY <1>4 DEF Evaluations, Entered
<1>12. EarnedFidelity  BY <1>1 DEF EarnedFidelity
<1>13. Grown /\ EvidenceKept  BY <1>1, <1>2 DEF Grown, EvidenceKept
<1>. QED  BY <1>5, <1>6, <1>9, <1>10, <1>11, <1>12, <1>13 DEF Inv

(* Only the locals of the rung move.                                        *)
LEMMA LoopMove ==
  ASSUME Inv, UNCHANGED <<spec, store, record, before>>, cancel' \in BOOLEAN, runs' \in Nat,
         loop' \in Loops, loop'.rank = loop.rank, loop'.evaluated = loop.evaluated,
         loop'.todo \subseteq loop.todo, Shape', Within'
  PROVE  Inv'
<1>1. Grown' /\ EarnedFidelity' /\ Added' = Added  BY StoreKept DEF Inv
<1>2. EvidenceKept'  BY <1>1 DEF Inv, EvidenceKept
<1>3. CostBounded'  BY DEF Inv, CostBounded
<1>4. Evaluations'  BY DEF Inv, Evaluations, Valid
<1>5. Entered'  BY DEF Inv, Entered, Earned, Valid, Affordable
<1>6. TypeOK'  BY DEF Inv, TypeOK
<1>. QED  BY <1>1, <1>2, <1>3, <1>4, <1>5, <1>6 DEF Inv

(* What the budget check says of the run.                                   *)
LEMMA BudgetLeft ==
  ASSUME Inv, CampaignAssumption, Exhausted = None
  PROVE  /\ spec.evaluations # None => record.evaluations + Planned < spec.evaluations
         /\ loop.rank > 0 /\ spec.high # None => record.high < spec.high
         /\ spec.cost # None => record.cost < spec.cost
<1>1. None \notin Stops  BY CampaignAssumption
<1>2. /\ spec.evaluations # None => spec.evaluations \in Nat
      /\ spec.high # None => spec.high \in Nat
      /\ spec.cost # None => spec.cost \in Nat
  BY CampaignAssumption DEF Inv, TypeOK
<1>3. record.evaluations \in Nat /\ record.high \in Nat /\ record.cost \in Nat
  BY DEF Inv, TypeOK, Records
<1>4. Planned \in Nat
  <2>1. {c \in loop.plan : store[c][0] = None} \in SUBSET Candidates
    BY DEF Inv, TypeOK, Loops
  <2>. QED  BY <2>1, CandidatesFinite DEF Planned
<1>. QED  BY <1>1, <1>2, <1>3, <1>4 DEF Exhausted, Stops, CostReached

(* A run stops for its evaluations only when done and planned ones use up   *)
(* the limit.                                                               *)
LEMMA BudgetGone ==
  ASSUME Inv, CampaignAssumption, Exhausted # None
  PROVE  /\ Exhausted \in Stops
         /\ Exhausted = "max-evaluations" =>
               spec.evaluations # None /\ record.evaluations + Planned >= spec.evaluations
BY DEF Exhausted, Stops

(* Without a plan nothing is planned.                                       *)
LEMMA NothingPlanned == loop.plan = {} => Planned = 0
<1>1. loop.plan = {} => {c \in loop.plan : store[c][0] = None} = {}  OBVIOUS
<1>. QED  BY <1>1, FS_EmptySet DEF Planned

(* The next candidate goes to the scalar evaluator.                         *)
LEMMA CallTyped ==
  ASSUME NEW l \in Loops, NEW c \in Candidates
  PROVE  [l EXCEPT !.pc = "call", !.now = c] \in Loops
BY DEF Loops

(* Calling the evaluator, from either loop, keeps the invariant.            *)
LEMMA CallInv ==
  ASSUME Inv, CampaignAssumption, NEW c \in Candidates,
         loop.pc \in {"scan", "batch"}, loop.due = {},
         c \in (IF loop.plan # {} THEN loop.plan ELSE loop.todo),
         store[c][loop.rank] = None,
         loop.plan = {} => Exhausted = None,
         loop' = [loop EXCEPT !.pc = "call", !.now = c],
         UNCHANGED <<spec, store, record, cancel, before, runs>>
  PROVE  Inv'
<1>1. /\ loop' \in Loops /\ loop'.pc = "call" /\ loop'.now = c /\ loop'.rank = loop.rank
      /\ loop'.todo = loop.todo /\ loop'.plan = loop.plan /\ loop'.due = loop.due
      /\ loop'.halt = loop.halt /\ loop'.evaluated = loop.evaluated
  <2>1. loop \in Loops  BY DEF Inv, TypeOK
  <2>2. loop' \in Loops  BY <2>1, CallTyped
  <2>3. loop'.pc = "call" /\ loop'.now = c  BY <2>1 DEF Loops
  <2>4. /\ loop'.rank = loop.rank /\ loop'.todo = loop.todo /\ loop'.plan = loop.plan
        /\ loop'.due = loop.due /\ loop'.halt = loop.halt /\ loop'.evaluated = loop.evaluated
    BY <2>1 DEF Loops
  <2>. QED  BY <2>2, <2>3, <2>4
<1>2. Planned' = Planned  BY <1>1 DEF Planned
<1>3. loop.rank \in Nat  BY CampaignAssumption DEF Inv, TypeOK, Loops, Rungs
<1>4. loop.plan # {} => loop.rank = 0 /\ spec.cost = None
  BY <1>3 DEF Inv, Shape
<1>5. loop.plan = {} => Planned = 0  BY NothingPlanned
<1>6. /\ loop.plan = {} /\ spec.evaluations # None =>
            record.evaluations + Planned < spec.evaluations
      /\ loop.rank > 0 /\ spec.high # None => record.high < spec.high
      /\ spec.cost # None => record.cost < spec.cost
  BY <1>4, <1>3, BudgetLeft
<1>7. Shape'  BY <1>1, <1>4 DEF Inv, Shape
<1>8. Within'
  <2>1. record.evaluations \in Nat  BY DEF Inv, TypeOK, Records
  <2>2. loop.plan = {} /\ spec.evaluations # None => record.evaluations < spec.evaluations
    BY <1>5, <1>6, <2>1
  <2>. QED  BY <1>1, <1>2, <1>6, <2>2 DEF Inv, Within
<1>9. TypeOK'  BY <1>1 DEF Inv, TypeOK
<1>. QED  BY <1>1, <1>7, <1>8, <1>9, LoopMove DEF TypeOK

(* The scalar loop takes its next candidate.                                *)
LEMMA ConsiderInv == ASSUME Inv, CampaignAssumption, Consider PROVE Inv'
<1>1. PICK c \in First(loop.todo) :
        \/ cancel /\ Stop(record, "cancelled")
        \/ ~cancel /\ Exhausted # None /\ Stop(record, Exhausted)
        \/ /\ ~cancel /\ Exhausted = None
           /\ \/ /\ c \in Rejected
                 /\ Skip(c) /\ UNCHANGED record
              \/ /\ c \notin Rejected /\ Cached(c) # None
                 /\ Accept(record, c, Cached(c))
              \/ /\ c \notin Rejected /\ Cached(c) = None
                 /\ loop' = [loop EXCEPT !.pc = "call", !.now = c]
                 /\ UNCHANGED record
  BY DEF Consider
<1>2. loop.pc = "scan" /\ UNCHANGED <<spec, store, cancel, before, runs>>  BY DEF Consider
<1>3. c \in Candidates /\ c \in loop.todo  BY DEF First, Inv, TypeOK, Loops
<1>4. loop.plan = {} /\ loop.due = {}  BY <1>2 DEF Inv, Shape
<1>5. record \in Drafts /\ record.evaluations \in Nat  BY RecordsAreDrafts DEF Inv, TypeOK, Records
<1>6. CASE Stop(record, "cancelled")
  <2>1. "cancelled" \in Stops /\ loop.pc # "rest"  BY <1>2 DEF Stops
  <2>. QED  BY <1>2, <1>5, <1>6, <2>1, Stopped
<1>7. CASE Exhausted # None /\ Stop(record, Exhausted)
  <2>1. Exhausted \in Stops /\ loop.pc # "rest"
        /\ (Exhausted = "max-evaluations" =>
              spec.evaluations # None /\ record.evaluations >= spec.evaluations)
    BY <1>2, <1>4, <1>5, <1>7, BudgetGone, NothingPlanned
  <2>. QED  BY <1>2, <1>5, <1>7, <2>1, Stopped
<1>8. CASE Exhausted = None /\ Skip(c) /\ UNCHANGED record
  <2>1. /\ loop' \in Loops /\ loop'.pc = "scan" /\ loop'.rank = loop.rank
        /\ loop'.todo = loop.todo \ {c} /\ loop'.plan = {} /\ loop'.due = {}
        /\ loop'.halt = loop.halt /\ loop'.evaluated = loop.evaluated
    BY <1>2, <1>4, <1>8 DEF Skip, Inv, TypeOK, Loops
  <2>2. Planned' = Planned  BY <1>2, <1>4, <2>1 DEF Planned
  <2>3. Shape'  BY <1>2, <1>4, <1>8, <2>1 DEF Inv, Shape
  <2>4. Within'  BY <1>2, <1>8, <2>1, <2>2 DEF Inv, Within
  <2>5. cancel' \in BOOLEAN /\ runs' \in Nat  BY <1>2 DEF Inv, TypeOK
  <2>. QED  BY <1>2, <1>8, <2>1, <2>3, <2>4, <2>5, LoopMove
<1>9. CASE Exhausted = None /\ Cached(c) # None /\ Accept(record, c, Cached(c))
  <2>1. Cached(c) \in Outcomes /\ Cached(c) = store[c][loop.rank]
    BY <1>3, <1>9 DEF Cached, Inv, TypeOK, Stores, Loops
  <2>2. loop.rank > 0 /\ spec.high # None => record.high < spec.high  BY <1>9, BudgetLeft
  <2>3. Accepting(record, c, Cached(c))
    BY <1>2, <1>3, <1>4, <1>9, <2>1, <2>2 DEF Accepting, Known
  <2>. QED  BY <1>3, <2>1, <2>3, AcceptInv
<1>10. CASE /\ Exhausted = None /\ Cached(c) = None
            /\ loop' = [loop EXCEPT !.pc = "call", !.now = c] /\ UNCHANGED record
  BY <1>2, <1>3, <1>4, <1>10, CallInv DEF Cached
<1>. QED  BY <1>1, <1>6, <1>7, <1>8, <1>9, <1>10

(* The scalar evaluator has answered: its result is accepted as a new one.  *)
LEMMA EvaluatedAccepts ==
  ASSUME Inv, CampaignAssumption, Evaluated, NEW o \in Outcomes,
         store' = [store EXCEPT ![loop.now][loop.rank] = o],
         Accept(Spent(record, o.cost), loop.now, o)
  PROVE  loop.now \in Candidates /\ Accepting(Spent(record, o.cost), loop.now, o)
<1>. DEFINE rec == Spent(record, o.cost)
<1>1. Accept(rec, loop.now, o)  OBVIOUS
<1>2. loop.pc = "call" /\ UNCHANGED <<spec, cancel, before, runs>>  BY DEF Evaluated
<1>3. /\ loop.now \in Candidates /\ store[loop.now][loop.rank] = None /\ loop.due = {}
      /\ loop.now \in (IF loop.plan # {} THEN loop.plan ELSE loop.todo)
  BY <1>2 DEF Inv, Shape
<1>4. /\ spec.evaluations # None /\ loop.plan = {} => record.evaluations < spec.evaluations
      /\ spec.high # None /\ loop.rank > 0 => record.high < spec.high
      /\ spec.cost # None => record.cost < spec.cost
  BY <1>2 DEF Inv, Within
<1>5. o.cost \in Nat  BY CampaignAssumption
<1>6. Bought(rec, loop.now, o)
  <2>1. \E cost \in Nat : rec = Spent(record, cost)
                          /\ (spec.cost # None => \E p \in Outcomes : cost = p.cost)
    BY <1>5
  <2>2. Write(loop.now, o)  BY <1>3 DEF Write
  <2>. HIDE DEF rec
  <2>. QED  BY <1>4, <2>1, <2>2 DEF Bought
<1>7. Accepting(rec, loop.now, o)
  <2>. HIDE DEF rec
  <2>. QED  BY <1>1, <1>2, <1>3, <1>4, <1>6 DEF Accepting
<1>. QED  BY <1>3, <1>7

(* It keeps the invariant.                                                  *)
LEMMA EvaluatedInv == ASSUME Inv, CampaignAssumption, Evaluated PROVE Inv'
<1>1. PICK o \in Outcomes : /\ store' = [store EXCEPT ![loop.now][loop.rank] = o]
                            /\ Accept(Spent(record, o.cost), loop.now, o)
  BY DEF Evaluated
<1>. DEFINE rec == Spent(record, o.cost)
<1>2. loop.now \in Candidates /\ Accepting(rec, loop.now, o)  BY <1>1, EvaluatedAccepts
<1>. HIDE DEF rec
<1>. QED  BY <1>2, AcceptInv

(* The batched path plans a rung.                                           *)
LEMMA PlanInv == ASSUME Inv, CampaignAssumption, Plan PROVE Inv'
<1>1. /\ loop.pc = "batch" /\ loop.todo # {}
      /\ UNCHANGED <<spec, store, record, cancel, before, runs>>
  BY DEF Plan
<1>2. PICK c \in First(loop.todo) :
        \/ cancel /\ loop' = [loop EXCEPT !.todo = {}, !.halt = "cancelled"]
        \/ ~cancel /\ Exhausted # None /\ loop' = [loop EXCEPT !.todo = {}, !.halt = Exhausted]
        \/ /\ ~cancel /\ Exhausted = None
           /\ IF c \in Rejected THEN Skip(c)
              ELSE loop' = [loop EXCEPT !.todo = @ \ {c}, !.plan = @ \cup {c},
                               !.due = IF Cached(c) = None THEN @ \cup {c} ELSE @]
  BY DEF Plan
<1>3. c \in Candidates /\ c \in loop.todo /\ loop \in Loops
  BY DEF First, Inv, TypeOK, Loops
<1>4. loop.rank = 0 /\ loop.due \subseteq loop.plan /\ loop.halt = None /\ spec.cost = None
      /\ record.stop = None
  BY <1>1 DEF Inv, Shape
<1>5. cancel' \in BOOLEAN /\ runs' \in Nat  BY <1>1 DEF Inv, TypeOK
<1>6. record.evaluations \in Nat /\ Planned \in Nat
      /\ (spec.evaluations # None =>
            spec.evaluations \in Nat /\ record.evaluations + Planned <= spec.evaluations)
  <2>1. {d \in loop.plan : store[d][0] = None} \in SUBSET Candidates  BY <1>3 DEF Loops
  <2>2. Planned \in Nat  BY <2>1, CandidatesFinite DEF Planned
  <2>. QED  BY <2>2, CampaignAssumption DEF Inv, TypeOK, Records, Within
<1>7. None \notin Stops  BY CampaignAssumption
<1>8. ASSUME NEW reason \in Stops,
             reason = "max-evaluations" =>
               spec.evaluations # None /\ record.evaluations + Planned >= spec.evaluations,
             loop' = [loop EXCEPT !.todo = {}, !.halt = reason]
      PROVE  Inv'
  <2>1. /\ loop' \in Loops /\ loop'.pc = "batch" /\ loop'.rank = 0
        /\ loop'.todo = {} /\ loop'.plan = loop.plan /\ loop'.due = loop.due
        /\ loop'.halt = reason /\ loop'.evaluated = loop.evaluated
    <3>1. loop' \in Loops  BY <1>3, <1>8, ZenonT(60) DEF Loops
    <3>2. loop'.todo = {} /\ loop'.halt = reason  BY <1>3, <1>8 DEF Loops
    <3>3. /\ loop'.pc = loop.pc /\ loop'.rank = loop.rank /\ loop'.plan = loop.plan
          /\ loop'.due = loop.due /\ loop'.evaluated = loop.evaluated
      BY <1>3, <1>8 DEF Loops
    <3>. QED  BY <1>1, <1>4, <3>1, <3>2, <3>3
  <2>2. Planned' = Planned  BY <1>1, <2>1 DEF Planned
  <2>3. Shape'  BY <1>1, <1>4, <2>1 DEF Inv, Shape
  <2>4. Within'
    <3>1. reason = "max-evaluations" => record.evaluations + Planned = spec.evaluations
      BY <1>6, <1>8
    <3>. QED  BY <1>1, <1>8, <2>1, <2>2, <3>1 DEF Inv, Within
  <2>. QED  BY <1>1, <1>4, <1>5, <2>1, <2>3, <2>4, LoopMove
<1>9. CASE cancel /\ loop' = [loop EXCEPT !.todo = {}, !.halt = "cancelled"]
  BY <1>8, <1>9 DEF Stops
<1>10. CASE Exhausted # None /\ loop' = [loop EXCEPT !.todo = {}, !.halt = Exhausted]
  BY <1>8, <1>10, BudgetGone
<1>11. CASE Exhausted = None /\ c \in Rejected /\ Skip(c)
  <2>1. /\ loop' \in Loops /\ loop'.pc = "batch" /\ loop'.rank = 0
        /\ loop'.todo = loop.todo \ {c} /\ loop'.plan = loop.plan /\ loop'.due = loop.due
        /\ loop'.halt = None /\ loop'.evaluated = loop.evaluated
    BY <1>1, <1>3, <1>4, <1>11 DEF Skip, Loops
  <2>2. Planned' = Planned  BY <1>1, <2>1 DEF Planned
  <2>3. Shape'  BY <1>1, <1>4, <2>1 DEF Inv, Shape
  <2>4. Within'  BY <1>1, <1>4, <2>1, <2>2 DEF Inv, Within
  <2>. QED  BY <1>1, <1>4, <1>5, <2>1, <2>3, <2>4, LoopMove
<1>12. CASE /\ Exhausted = None
            /\ loop' = [loop EXCEPT !.todo = @ \ {c}, !.plan = @ \cup {c},
                            !.due = IF Cached(c) = None THEN @ \cup {c} ELSE @]
  <2>. DEFINE due == IF Cached(c) = None THEN loop.due \cup {c} ELSE loop.due
  <2>1. /\ loop' \in Loops /\ loop'.pc = "batch" /\ loop'.rank = 0
        /\ loop'.todo = loop.todo \ {c} /\ loop'.plan = loop.plan \cup {c} /\ loop'.due = due
        /\ loop'.halt = None /\ loop'.evaluated = loop.evaluated
    <3>1. due \in SUBSET Candidates  BY <1>3 DEF Loops
    <3>2. loop' = [loop EXCEPT !.todo = @ \ {c}, !.plan = @ \cup {c}, !.due = due]
      BY <1>3, <1>12 DEF Loops
    <3>. HIDE DEF due
    <3>3. loop' \in Loops  BY <1>3, <3>1, <3>2, ZenonT(60) DEF Loops
    <3>4. /\ loop'.todo = loop.todo \ {c} /\ loop'.plan = loop.plan \cup {c}
          /\ loop'.due = due
      BY <1>3, <3>2 DEF Loops
    <3>5. /\ loop'.pc = loop.pc /\ loop'.rank = loop.rank /\ loop'.halt = loop.halt
          /\ loop'.evaluated = loop.evaluated
      BY <1>3, <3>2 DEF Loops
    <3>. QED  BY <1>1, <1>4, <3>3, <3>4, <3>5
  <2>2. Planned' \in Nat /\ Planned' <= Planned + 1
    <3>. DEFINE now == {d \in loop.plan : store[d][0] = None}
                then == {d \in loop.plan \cup {c} : store[d][0] = None}
    <3>1. now \in SUBSET Candidates /\ then \in SUBSET Candidates  BY <1>3 DEF Loops
    <3>2. IsFiniteSet(now) /\ Cardinality(now) \in Nat /\ Cardinality(then) \in Nat
      BY <3>1, CandidatesFinite
    <3>3. Planned = Cardinality(now) /\ Planned' = Cardinality(then)
      BY <1>1, <2>1 DEF Planned
    <3>4. then = now \/ (then = now \cup {c} /\ c \notin now)  OBVIOUS
    <3>. HIDE DEF now, then
    <3>5. CASE then = now  BY <3>2, <3>3, <3>5
    <3>6. CASE then = now \cup {c} /\ c \notin now
      <4>1. Cardinality(now \cup {c}) = Cardinality(now) + 1  BY <3>2, <3>6, FS_AddElement
      <4>. QED  BY <3>2, <3>3, <3>6, <4>1
    <3>. QED  BY <3>4, <3>5, <3>6
  <2>3. Shape'
    <3>1. due \subseteq loop.plan \cup {c}  BY <1>4
    <3>. HIDE DEF due
    <3>. QED  BY <1>1, <1>4, <2>1, <3>1 DEF Inv, Shape
  <2>4. Within'
    <3>1. spec.evaluations # None => record.evaluations + Planned < spec.evaluations
      BY <1>12, BudgetLeft
    <3>2. spec.evaluations # None => record.evaluations + Planned' <= spec.evaluations
      BY <1>6, <2>2, <3>1
    <3>3. None # "max-evaluations"  BY <1>7 DEF Stops
    <3>. QED  BY <1>1, <1>4, <2>1, <3>2, <3>3 DEF Inv, Within
  <2>. QED  BY <1>1, <1>4, <1>5, <2>1, <2>3, <2>4, LoopMove
<1>. QED  BY <1>2, <1>9, <1>10, <1>11, <1>12

(* A chunk of a batch comes back: only its requests and rows change.        *)
LEMMA ChunkEffect ==
  ASSUME Inv, CampaignAssumption, Chunk
  PROVE  \E chunk \in SUBSET Candidates, rows \in Results, cost \in Nat :
           loop' = [loop EXCEPT !.due = @ \ chunk, !.rows = rows, !.rowCost = cost]
<1>. DEFINE chunk == {c \in loop.due :
               Cardinality({d \in loop.due : loop.place[d] < loop.place[c]}) < BatchRows}
<1>1. loop \in Loops /\ chunk \in SUBSET Candidates  BY SMTT(30) DEF Inv, TypeOK, Loops
<1>2. \E rows \in Results, cost \in Nat :
        loop' = [loop EXCEPT !.due = @ \ chunk, !.rows = rows, !.rowCost = cost]
  <2>1. \/ \E answer \in [chunk -> Outcomes], last \in chunk :
              loop' = [loop EXCEPT
                        !.due = @ \ chunk,
                        !.rows = [c \in Candidates |-> IF c \in chunk THEN answer[c] ELSE @[c]],
                        !.rowCost = answer[last].cost]
        \/ loop' = [loop EXCEPT !.due = @ \ chunk]
    BY DEF Chunk
  <2>. HIDE DEF chunk
  <2>2. CASE loop' = [loop EXCEPT !.due = @ \ chunk]
    <3>1. loop' = [loop EXCEPT !.due = @ \ chunk, !.rows = loop.rows, !.rowCost = loop.rowCost]
      BY <1>1, <2>2 DEF Loops
    <3>2. loop.rows \in Results /\ loop.rowCost \in Nat  BY <1>1 DEF Loops
    <3>. QED  BY <3>1, <3>2
  <2>3. ASSUME NEW answer \in [chunk -> Outcomes], NEW last \in chunk,
               loop' = [loop EXCEPT
                        !.due = @ \ chunk,
                        !.rows = [c \in Candidates |-> IF c \in chunk THEN answer[c] ELSE @[c]],
                        !.rowCost = answer[last].cost]
        PROVE  \E rows \in Results, cost \in Nat :
                 loop' = [loop EXCEPT !.due = @ \ chunk, !.rows = rows, !.rowCost = cost]
    <3>. DEFINE rows == [c \in Candidates |-> IF c \in chunk THEN answer[c] ELSE loop.rows[c]]
                cost == answer[last].cost
    <3>1. rows \in Results  BY <1>1 DEF Loops, Results
    <3>2. cost \in Nat  BY CampaignAssumption
    <3>3. loop' = [loop EXCEPT !.due = @ \ chunk, !.rows = rows, !.rowCost = cost]  BY <2>3
    <3>. HIDE DEF rows, cost
    <3>. QED  BY <3>1, <3>2, <3>3
  <2>. QED  BY <2>1, <2>2, <2>3, ZenonT(60)
<1>. HIDE DEF chunk
<1>. QED  BY <1>1, <1>2

(* It keeps the invariant.                                                  *)
LEMMA ChunkInv == ASSUME Inv, CampaignAssumption, Chunk PROVE Inv'
<1>1. /\ loop.pc = "batch" /\ loop.todo = {} /\ loop \in Loops
      /\ UNCHANGED <<spec, store, record, cancel, before, runs>>
  BY DEF Chunk, Inv, TypeOK
<1>2. PICK chunk \in SUBSET Candidates, rows \in Results, cost \in Nat :
        loop' = [loop EXCEPT !.due = @ \ chunk, !.rows = rows, !.rowCost = cost]
  BY ChunkEffect
<1>3. /\ loop' \in Loops /\ loop'.pc = "batch" /\ loop'.rank = loop.rank
      /\ loop'.todo = {} /\ loop'.plan = loop.plan /\ loop'.due = loop.due \ chunk
      /\ loop'.halt = loop.halt /\ loop'.evaluated = loop.evaluated
  BY <1>1, <1>2, ZenonT(60) DEF Loops
<1>4. Planned' = Planned  BY <1>1, <1>3 DEF Planned
<1>5. Shape'  BY <1>1, <1>3 DEF Inv, Shape
<1>6. Within'  BY <1>1, <1>3, <1>4 DEF Inv, Within
<1>7. cancel' \in BOOLEAN /\ runs' \in Nat  BY <1>1 DEF Inv, TypeOK
<1>. QED  BY <1>1, <1>3, <1>5, <1>6, <1>7, LoopMove, SMTT(30)

(* The rows of a batched rung are accepted in order, missing ones evaluated *)
(* alone.                                                                   *)
LEMMA OperateAccepts ==
  ASSUME Inv, CampaignAssumption, Operate
  PROVE  \E c \in loop.plan :
           \/ \E rec : \E o \in Outcomes : Accepting(rec, c, o)
           \/ /\ Cached(c) = None /\ loop' = [loop EXCEPT !.pc = "call", !.now = c]
              /\ UNCHANGED <<store, record>>
<1>1. /\ loop.pc = "batch" /\ loop.due = {} /\ loop.plan # {}
      /\ UNCHANGED <<spec, cancel, before, runs>>
  BY DEF Operate
<1>2. PICK c \in First(loop.plan) :
        \/ /\ Cached(c) # None
           /\ Accept(record, c, Cached(c))
           /\ UNCHANGED store
        \/ /\ Cached(c) = None /\ loop.rows[c] # None
           /\ store' = [store EXCEPT ![c][loop.rank] = loop.rows[c]]
           /\ Accept(Spent(record, loop.rowCost), c, loop.rows[c])
        \/ /\ Cached(c) = None /\ loop.rows[c] = None
           /\ loop' = [loop EXCEPT !.pc = "call", !.now = c]
           /\ UNCHANGED <<store, record>>
  BY DEF Operate
<1>3. c \in Candidates /\ c \in loop.plan /\ loop \in Loops
  BY DEF First, Inv, TypeOK, Loops
<1>4. loop.rank = 0 /\ spec.cost = None  BY <1>1 DEF Inv, Shape
<1>5. CASE Cached(c) # None /\ Accept(record, c, Cached(c)) /\ UNCHANGED store
  <2>1. Cached(c) \in Outcomes /\ Cached(c) = store[c][loop.rank]
    <3>1. store \in Stores  BY DEF Inv, TypeOK
    <3>2. loop.rank \in Rungs  BY <1>3 DEF Loops
    <3>3. store[c][loop.rank] \in Outcomes \cup {None}  BY <1>3, <3>1, <3>2 DEF Stores
    <3>. QED  BY <1>5, <3>3 DEF Cached
  <2>2. Accepting(record, c, Cached(c))
    BY <1>1, <1>3, <1>4, <1>5, <2>1 DEF Accepting, Known
  <2>. QED  BY <1>3, <2>1, <2>2
<1>6. CASE /\ Cached(c) = None /\ loop.rows[c] # None
           /\ store' = [store EXCEPT ![c][loop.rank] = loop.rows[c]]
           /\ Accept(Spent(record, loop.rowCost), c, loop.rows[c])
  <2>. DEFINE o == loop.rows[c]
              rec == Spent(record, loop.rowCost)
  <2>1. o \in Outcomes /\ loop.rowCost \in Nat  BY <1>3, <1>6 DEF Loops, Results
  <2>2. Write(c, o)  BY <1>6 DEF Write, Cached
  <2>3. Accept(rec, c, o)  BY <1>6
  <2>4. \E cost \in Nat : rec = Spent(record, cost)  BY <2>1
  <2>. HIDE DEF o, rec
  <2>5. Bought(rec, c, o)  BY <1>1, <1>4, <2>2, <2>4 DEF Bought
  <2>6. Accepting(rec, c, o)  BY <1>1, <1>3, <1>4, <2>3, <2>5 DEF Accepting
  <2>. QED  BY <1>3, <2>1, <2>6
<1>. QED  BY <1>2, <1>3, <1>5, <1>6

(* Both keep the invariant.                                                 *)
LEMMA OperateInv == ASSUME Inv, CampaignAssumption, Operate PROVE Inv'
<1>1. PICK c \in loop.plan :
        \/ \E rec : \E o \in Outcomes : Accepting(rec, c, o)
        \/ /\ Cached(c) = None /\ loop' = [loop EXCEPT !.pc = "call", !.now = c]
           /\ UNCHANGED <<store, record>>
  BY OperateAccepts
<1>2. c \in Candidates  BY DEF Inv, TypeOK, Loops
<1>3. CASE \E rec : \E o \in Outcomes : Accepting(rec, c, o)  BY <1>2, <1>3, AcceptInv
<1>4. CASE /\ Cached(c) = None /\ loop' = [loop EXCEPT !.pc = "call", !.now = c]
           /\ UNCHANGED <<store, record>>
  <2>1. loop.pc = "batch" /\ loop.due = {} /\ UNCHANGED <<spec, cancel, before, runs>>
    BY DEF Operate
  <2>. QED  BY <1>2, <1>4, <2>1, CallInv DEF Cached
<1>. QED  BY <1>1, <1>3, <1>4

(* A planning that was cut short ends the run.                              *)
LEMMA HaltedInv == ASSUME Inv, CampaignAssumption, Halted PROVE Inv'
<1>1. /\ loop.pc = "batch" /\ loop.plan = {} /\ loop.halt # None /\ Stop(record, loop.halt)
      /\ UNCHANGED <<spec, store, cancel, before, runs>>
  BY DEF Halted
<1>2. loop.halt \in Stops /\ record \in Drafts /\ record.evaluations \in Nat
  BY <1>1, RecordsAreDrafts DEF Inv, TypeOK, Loops, Records
<1>3. loop.halt = "max-evaluations" =>
        spec.evaluations # None /\ record.evaluations >= spec.evaluations
  <2>1. Planned = 0  BY <1>1, NothingPlanned
  <2>. QED  BY <1>2, <2>1 DEF Inv, Within
<1>. QED  BY <1>1, <1>2, <1>3, Stopped

(* A selection takes nobody from outside.                                   *)
LEMMA SelectedIn ==
  ASSUME NEW policy, NEW at, NEW S
  PROVE  Selected(policy, at, S) \subseteq S
BY DEF Selected, Front, Basis

(* The rung is over and its survivors are chosen.                           *)
LEMMA SelectInv == ASSUME Inv, CampaignAssumption, Select PROVE Inv'
<1>. DEFINE S == loop.evaluated
            at == record.latest
            chosen == Selected(spec, at, S)
            rec == [record EXCEPT !.state = "SELECTING"]
            better(c) == loop.bestScore = None \/ Score(at[c]) < loop.bestScore
            stale(c) == IF better(c) THEN 0 ELSE loop.stale + 1
<1>1. /\ loop.pc \in {"scan", "batch"} /\ loop.todo = {} /\ loop.plan = {} /\ loop.halt = None
      /\ UNCHANGED <<spec, store, cancel, before, runs>>
  BY DEF Select
<1>2. record \in Records /\ loop \in Loops  BY DEF Inv, TypeOK
<1>3. /\ rec \in Drafts /\ rec.latest = record.latest /\ rec.evaluations = record.evaluations
      /\ rec.high = record.high /\ rec.cost = record.cost
  BY <1>2 DEF Records, Drafts
<1>4. \/ Stop(rec, "no-valid-candidates")
      \/ Stop(rec, "target-feasibility")
      \/ Stop(rec, "no-improvement")
      \/ Stop([rec EXCEPT !.status = [d \in Candidates |->
                  IF d \in chosen THEN "retained" ELSE @[d]]], "completed")
      \/ \E c \in Leaders(spec, at, chosen) :
            /\ ~LastRung /\ record' = rec
            /\ loop' = [loop EXCEPT !.pc = "promote", !.stale = stale(c),
                          !.bestScore = IF better(c) THEN Score(at[c]) ELSE @]
  BY DEF Select
<1>5. ASSUME NEW r \in Drafts, NEW reason \in Stops \ {"max-evaluations"}, Stop(r, reason),
             r.latest = record.latest, r.evaluations = record.evaluations,
             r.high = record.high, r.cost = record.cost
      PROVE  Inv'
  <2>1. loop.pc # "rest"  BY <1>1
  <2>. QED  BY <1>1, <1>5, <2>1, Stopped
<1>6. CASE \/ Stop(rec, "no-valid-candidates") \/ Stop(rec, "target-feasibility")
           \/ Stop(rec, "no-improvement")
  <2>. HIDE DEF rec
  <2>. QED  BY <1>3, <1>5, <1>6 DEF Stops
<1>7. CASE Stop([rec EXCEPT !.status = [d \in Candidates |->
                   IF d \in chosen THEN "retained" ELSE @[d]]], "completed")
  <2>. DEFINE status == [d \in Candidates |-> IF d \in chosen THEN "retained" ELSE rec.status[d]]
              r == [rec EXCEPT !.status = status]
  <2>1. status \in [Candidates -> {"pending", "preflight-invalid", "promoted", "retained"}
                                  \cup Verdicts]
    <3>. HIDE DEF rec, chosen
    <3>. QED  BY <1>3 DEF Drafts
  <2>2. Stop(r, "completed")  BY <1>7
  <2>3. /\ r \in Drafts /\ r.latest = record.latest /\ r.evaluations = record.evaluations
        /\ r.high = record.high /\ r.cost = record.cost
    <3>. HIDE DEF status, rec
    <3>. QED  BY <1>3, <2>1 DEF Drafts
  <2>. HIDE DEF r
  <2>. QED  BY <1>5, <2>2, <2>3 DEF Stops
<1>8. ASSUME NEW c \in Leaders(spec, at, chosen), ~LastRung, record' = rec,
             loop' = [loop EXCEPT !.pc = "promote", !.stale = stale(c),
                        !.bestScore = IF better(c) THEN Score(at[c]) ELSE @]
      PROVE  Inv'
  <2>. DEFINE best == IF better(c) THEN Score(at[c]) ELSE loop.bestScore
              count == stale(c)
  <2>1. c \in S  BY <1>8, SelectedIn DEF Leaders
  <2>2. at[c] \in Outcomes
    <3>1. at[c] # None /\ c \in Candidates  BY <1>2, <2>1 DEF Inv, Evaluations, Valid, Loops
    <3>. QED  BY <1>2, <3>1 DEF Records, Results
  <2>3. at[c].goals \in Int \X Int  BY <2>2, CampaignAssumption
  <2>4. Score(at[c]) \in Int  BY <2>3 DEF Score
  <2>5. best \in Int \cup {None} /\ count \in Nat  BY <1>2, <2>4 DEF Loops
  <2>6. loop' = [loop EXCEPT !.pc = "promote", !.stale = count, !.bestScore = best]
    BY <1>2, <1>8 DEF Loops
  <2>. HIDE DEF best, count
  <2>7. loop' \in Loops  BY <1>2, <2>5, <2>6, ZenonT(60) DEF Loops
  <2>8. /\ loop'.pc = "promote" /\ loop'.rank = loop.rank /\ loop'.todo = loop.todo
        /\ loop'.plan = loop.plan /\ loop'.due = loop.due /\ loop'.halt = loop.halt
        /\ loop'.evaluated = loop.evaluated
    BY <1>2, <2>6 DEF Loops
  <2>9. /\ record' \in Records /\ record'.state = "SELECTING" /\ record'.stop = record.stop
        /\ record'.latest = record.latest /\ record'.evaluations = record.evaluations
        /\ record'.high = record.high /\ record'.cost = record.cost
    BY <1>2, <1>8 DEF Records
  <2>10. record.stop = None /\ record.state \in {"EVALUATING", "SELECTING"}
         /\ loop.due \subseteq loop.plan
    BY <1>1 DEF Inv, Shape
  <2>11. loop.rank < Top
    <3>1. loop.rank \in 0 .. Top /\ Top \in Nat  BY <1>2, CampaignAssumption DEF Loops, Rungs
    <3>. QED  BY <1>8, <3>1 DEF LastRung
  <2>12. TypeOK'  BY <1>1, <2>7, <2>9 DEF Inv, TypeOK
  <2>13. Shape'  BY <1>1, <2>8, <2>9, <2>10, <2>11 DEF Shape
  <2>14. Within'
    <3>1. Planned' = Planned  BY <1>1, <2>8 DEF Planned
    <3>. QED  BY <1>1, <2>8, <2>9, <3>1 DEF Inv, Within
  <2>15. CostBounded'  BY <1>1, <2>9 DEF Inv, CostBounded
  <2>16. Evaluations' /\ Entered'
    BY <1>1, <2>8, <2>9 DEF Inv, Evaluations, Entered, Valid
  <2>17. Grown' /\ EarnedFidelity' /\ Added' = Added  BY <1>1, StoreKept DEF Inv
  <2>18. EvidenceKept'  BY <2>9, <2>10, <2>17 DEF Inv, EvidenceKept
  <2>. QED  BY <2>12, <2>13, <2>14, <2>15, <2>16, <2>17, <2>18 DEF Inv
<1>. QED  BY <1>4, <1>6, <1>7, <1>8

(* Only those that were selected survive a rung.                            *)
LEMMA SurvivorsIn ==
  ASSUME CampaignAssumption, NEW policy, NEW S \in SUBSET Candidates, NEW at
  PROVE  Survivors(policy, at, S) \subseteq S
<1>. DEFINE k == SurviveCount(policy, Cardinality(S))
<1>. HIDE DEF k
<1>1. ASSUME NEW p \in Picks(policy, at, S, k), NEW n \in 1 .. k PROVE p[n] \in S
  <2>1. p \in [1 .. k -> S]  BY DEF Picks
  <2>. QED  BY <2>1
<1>2. UNION {{p[n] : n \in 1 .. k} : p \in Picks(policy, at, S, k)} \subseteq S  BY <1>1
<1>. QED  BY <1>2 DEF Survivors, k

(* Places in a ranking are natural numbers.                                 *)
LEMMA PlacesTyped ==
  ASSUME CampaignAssumption, spec \in Specs, NEW S \in SUBSET Candidates, NEW at
  PROVE  PlaceOf(spec, at, S) \in [Candidates -> Nat]
<1>. DEFINE k == SurviveCount(spec, Cardinality(S))
            picks == Picks(spec, at, S, k)
            first(c) == {n \in 1 .. k : \A p \in picks : \A m \in 1 .. n : p[m] # c}
<1>1. k \in Int
  <2>1. Cardinality(S) \in Nat /\ MinPromote \in Nat /\ spec.promote \in 1 .. 100
    BY CandidatesFinite, CampaignAssumption
  <2>2. Cardinality(S) * spec.promote \in Int  BY <2>1
  <2>3. (Cardinality(S) * spec.promote + 99) \div 100 \in Int  BY <2>2
  <2>. QED  BY <2>1, <2>3 DEF SurviveCount
<1>2. IsFiniteSet(1 .. k)
  <2>. HIDE DEF k
  <2>. QED  BY <1>1, FS_Interval
<1>3. \A c \in Candidates : Cardinality(first(c)) \in Nat
  <2>. TAKE c \in Candidates
  <2>1. first(c) \subseteq 1 .. k  OBVIOUS
  <2>. HIDE DEF first, k
  <2>. QED  BY <1>2, <2>1, FS_Subset, FS_CardinalityType
<1>4. \A c \in Candidates : Cardinality(Ahead(spec, at, S, c)) \in Nat
  <2>. TAKE c \in Candidates
  <2>1. Ahead(spec, at, S, c) \in SUBSET Candidates  BY DEF Ahead
  <2>. QED  BY <2>1, CandidatesFinite
<1>5. PlaceOf(spec, at, S) = [c \in Candidates |-> IF c \notin S THEN 0
                          ELSE IF Diverse(spec, S) THEN Cardinality(first(c))
                          ELSE Cardinality(Ahead(spec, at, S, c))]
  BY DEF PlaceOf
<1>. HIDE DEF first
<1>. QED  BY <1>3, <1>4, <1>5

(* On a ladder whose costs rise, an escalation was asked for by a signal.   *)
LEMMA Asked ==
  ASSUME CampaignAssumption, spec \in Specs, CostsRise, NEW r \in Rungs, r < Top, NEW o,
         Escalates(spec, r, o)
  PROVE  o.hard /\ Affordable(spec, r + 1)
<1>1. r \in Nat /\ Top \in Nat /\ Rungs = 0 .. Top  BY CampaignAssumption DEF Rungs
<1>2. Wanted(r, o) \in {r, r + 1} /\ Wanted(r, o) \in Rungs  BY <1>1 DEF Wanted
<1>3. Affordable(spec, Wanted(r, o))
  <2>1. SUFFICES ASSUME ~Affordable(spec, Wanted(r, o)) PROVE FALSE  OBVIOUS
  <2>2. PICK q \in Rungs : q > r /\ Affordable(spec, q)  BY <2>1 DEF Escalates
  <2>3. Wanted(r, o) <= q  BY <1>1, <1>2, <2>2
  <2>4. RungCost[Wanted(r, o)] <= RungCost[q]  BY <1>2, <2>3 DEF CostsRise
  <2>5. RungCost[Wanted(r, o)] \in Nat /\ RungCost[q] \in Nat
        /\ (spec.cost # None => spec.cost \in Nat)
    BY <1>2, CampaignAssumption
  <2>. QED  BY <2>1, <2>2, <2>4, <2>5 DEF Affordable
<1>4. Wanted(r, o) > r  BY <1>3 DEF Escalates
<1>5. o.hard /\ Wanted(r, o) = r + 1  BY <1>1, <1>4 DEF Wanted
<1>. QED  BY <1>3, <1>5

(* The survivors that asked for it go up a rung, or the run completes.      *)
LEMMA PromoteInv == ASSUME Inv, CampaignAssumption, Promote PROVE Inv'
<1>. DEFINE at == record.latest
            chosen == Selected(spec, at, loop.evaluated)
            survivors == Survivors(spec, at, chosen)
            advanced == {c \in survivors : Escalates(spec, loop.rank, at[c])}
            status == [c \in Candidates |-> IF c \in advanced THEN "promoted"
                                            ELSE IF c \in survivors THEN "retained"
                                            ELSE record.status[c]]
            marked == [record EXCEPT !.state = "PROMOTING", !.status = status]
<1>1. loop.pc = "promote" /\ UNCHANGED <<spec, store, cancel, before, runs>>
  BY DEF Promote
<1>2. /\ record \in Records /\ loop \in Loops /\ spec \in Specs
      /\ record \in Drafts /\ loop.pc # "rest"
  BY <1>1, RecordsAreDrafts DEF Inv, TypeOK
<1>3. /\ record.state \in {"EVALUATING", "SELECTING"} /\ record.stop = None
      /\ loop.rank < Top /\ loop.plan = {}
  BY <1>1 DEF Inv, Shape
<1>4. \/ Fail(record)
      \/ Stop(marked, "promotion-halted")
      \/ /\ record' = [marked EXCEPT !.state = "EVALUATING"]
         /\ loop' = [Resting EXCEPT !.pc = "scan", !.batch = loop.batch,
                       !.rank = loop.rank + 1, !.todo = advanced,
                       !.place = PlaceOf(spec, at, chosen),
                       !.bestScore = loop.bestScore, !.stale = loop.stale]
  BY DEF Promote
<1>5. status \in [Candidates -> {"pending", "preflight-invalid", "promoted", "retained"}
                                \cup Verdicts]
  <2>. HIDE DEF advanced, survivors
  <2>. QED  BY <1>2 DEF Records
<1>6. /\ marked \in Drafts /\ marked.latest = record.latest
      /\ marked.evaluations = record.evaluations
      /\ marked.high = record.high /\ marked.cost = record.cost
  <2>. HIDE DEF status
  <2>. QED  BY <1>2, <1>5 DEF Records, Drafts
<1>7. CASE Fail(record)
  <2>1. "failed" \in Stops  BY DEF Stops
  <2>. QED  BY <1>1, <1>2, <1>7, <2>1, Stopped
<1>8. CASE Stop(marked, "promotion-halted")
  <2>1. "promotion-halted" \in Stops  BY DEF Stops
  <2>. HIDE DEF marked
  <2>. QED  BY <1>1, <1>2, <1>6, <1>8, <2>1, Stopped
<1>9. CASE /\ record' = [marked EXCEPT !.state = "EVALUATING"]
           /\ loop' = [Resting EXCEPT !.pc = "scan", !.batch = loop.batch,
                         !.rank = loop.rank + 1, !.todo = advanced,
                         !.place = PlaceOf(spec, at, chosen),
                         !.bestScore = loop.bestScore, !.stale = loop.stale]
  <2>1. chosen \in SUBSET Candidates /\ advanced \subseteq loop.evaluated
        /\ advanced \in SUBSET Candidates
    <3>1. loop.evaluated \subseteq Candidates  BY <1>2 DEF Loops
    <3>2. chosen \subseteq loop.evaluated  BY SelectedIn
    <3>. HIDE DEF chosen
    <3>3. survivors \subseteq chosen  BY <3>1, <3>2, SurvivorsIn
    <3>. QED  BY <3>1, <3>2, <3>3
  <2>2. PlaceOf(spec, at, chosen) \in [Candidates -> Nat]
    <3>. HIDE DEF chosen
    <3>. QED  BY <1>2, <2>1, PlacesTyped
  <2>3. loop.rank + 1 \in Rungs /\ loop.rank \in Rungs /\ loop.rank \in Nat
        /\ loop.rank + 1 > 0 /\ loop.rank + 1 - 1 = loop.rank
    <3>1. loop.rank \in 0 .. Top /\ Top \in Nat  BY <1>2, CampaignAssumption DEF Loops, Rungs
    <3>. QED  BY <1>3, <3>1 DEF Rungs
  <2>4. loop' \in Loops
    <3>. HIDE DEF advanced, chosen
    <3>. DEFINE place == PlaceOf(spec, at, chosen)
                rank == loop.rank + 1
    <3>1. place \in [Candidates -> Nat] /\ rank \in Rungs  BY <2>2, <2>3
    <3>2. loop' = [Resting EXCEPT !.pc = "scan", !.batch = loop.batch, !.rank = rank,
                     !.todo = advanced, !.place = place,
                     !.bestScore = loop.bestScore, !.stale = loop.stale]
      BY <1>9
    <3>3. loop.batch \in BOOLEAN /\ loop.bestScore \in Int \cup {None} /\ loop.stale \in Nat
      BY <1>2 DEF Loops
    <3>. HIDE DEF place, rank
    <3>. QED  BY <2>1, <3>1, <3>2, <3>3, RestingTyped, ZenonT(60) DEF Loops
  <2>5. /\ loop'.pc = "scan" /\ loop'.rank = loop.rank + 1 /\ loop'.todo = advanced
        /\ loop'.plan = {} /\ loop'.due = {} /\ loop'.halt = None /\ loop'.evaluated = {}
    <3>. HIDE DEF advanced, chosen
    <3>. QED  BY <1>9 DEF Resting
  <2>6. /\ record' \in Records /\ record'.state = "EVALUATING" /\ record'.stop = None
        /\ record'.latest = record.latest /\ record'.evaluations = record.evaluations
        /\ record'.high = record.high /\ record'.cost = record.cost
    <3>1. record' = [record EXCEPT !.state = "EVALUATING", !.status = status]
      <4>. HIDE DEF status
      <4>. QED  BY <1>2, <1>9 DEF Records
    <3>2. record \in Records  BY <1>2
    <3>3. record.stop = None  BY <1>3
    <3>. HIDE DEF status
    <3>4. record' \in Records  BY <1>5, <3>1, <3>2 DEF Records
    <3>5. /\ record'.state = "EVALUATING" /\ record'.stop = record.stop
          /\ record'.latest = record.latest /\ record'.evaluations = record.evaluations
          /\ record'.high = record.high /\ record'.cost = record.cost
      BY <3>1, <3>2 DEF Records
    <3>. QED  BY <3>3, <3>4, <3>5
  <2>7. TypeOK'  BY <1>1, <2>4, <2>6 DEF Inv, TypeOK
  <2>8. Shape'  BY <1>1, <2>5, <2>6 DEF Shape
  <2>9. Within'
    <3>1. Planned' = 0 /\ Planned = 0
      <4>1. {c \in loop'.plan : store'[c][0] = None} = {}  BY <2>5
      <4>. QED  BY <1>3, <4>1, NothingPlanned, FS_EmptySet DEF Planned
    <3>2. None # "max-evaluations"  BY CampaignAssumption DEF Stops
    <3>. QED  BY <1>1, <2>5, <2>6, <3>1, <3>2 DEF Inv, Within
  <2>10. CostBounded'  BY <1>1, <2>6 DEF Inv, CostBounded
  <2>11. Evaluations'  BY <2>5 DEF Evaluations
  <2>12. Entered'
    <3>1. SUFFICES ASSUME CostsRise, NEW c \in advanced
                   PROVE  /\ Valid(store[c][loop.rank]) /\ store[c][loop.rank].hard
                          /\ Affordable(spec, loop.rank + 1)
      <4>. HIDE DEF advanced
      <4>. QED  BY <1>1, <2>3, <2>5 DEF Entered, Earned, Affordable, Valid
    <3>2. c \in loop.evaluated /\ Escalates(spec, loop.rank, at[c])  BY <2>1, <3>1
    <3>3. at[c] = store[c][loop.rank] /\ Valid(at[c])  BY <3>2 DEF Inv, Evaluations
    <3>4. at[c].hard /\ Affordable(spec, loop.rank + 1)  BY <1>2, <1>3, <2>3, <3>1, <3>2, Asked
    <3>. HIDE DEF at
    <3>. QED  BY <3>3, <3>4
  <2>13. Grown' /\ EarnedFidelity' /\ Added' = Added  BY <1>1, StoreKept DEF Inv
  <2>14. EvidenceKept'  BY <1>3, <2>6, <2>13 DEF Inv, EvidenceKept
  <2>. QED  BY <2>7, <2>8, <2>9, <2>10, <2>11, <2>12, <2>13, <2>14 DEF Inv
<1>. QED  BY <1>4, <1>7, <1>8, <1>9

(* A run starts with the store of the earlier ones, none of whose results   *)
(* it has added.                                                            *)
LEMMA StartInv == ASSUME Inv, CampaignAssumption, Start PROVE Inv'
<1>1. /\ runs' \in Nat /\ cancel' = FALSE /\ before' = store /\ spec' = spec /\ store' = store
      /\ spec \in Specs /\ store \in Stores
  <2>1. runs' = runs + 1 /\ cancel' = FALSE /\ before' = store /\ UNCHANGED <<spec, store>>
    BY DEF Start
  <2>2. runs \in Nat /\ spec \in Specs /\ store \in Stores  BY DEF Inv, TypeOK
  <2>. QED  BY <2>1, <2>2
<1>2. /\ \A c \in Candidates, r \in Rungs : before'[c][r] = store'[c][r]
      /\ Added' = {} /\ Cardinality({}) = 0
  BY <1>1, FS_EmptySet DEF Added
<1>3. Grown'  BY <1>2 DEF Grown
<1>4. EarnedFidelity'  BY <1>1 DEF Inv, EarnedFidelity, Affordable, Valid
<1>5. /\ NewRecord \in Records /\ NewRecord \in Drafts /\ NewRecord.stop = None
      /\ NewRecord.state = "EVALUATING" /\ NewRecord.evaluations = 0
      /\ NewRecord.high = 0 /\ NewRecord.cost = 0
  BY NewRecordTyped DEF NewRecord
<1>6. /\ spec.evaluations # None => spec.evaluations \in Nat \ {0}
      /\ spec.high # None => spec.high \in Nat \ {0}
      /\ spec.cost # None => spec.cost \in Nat \ {0}
  BY <1>1, CampaignAssumption
<1>7. CASE Fail(NewRecord)
  <2>1. /\ loop' = Resting /\ record' \in Records /\ record'.evaluations = 0
        /\ record'.high = 0 /\ record'.cost = 0
        /\ record'.state = "FAILED" /\ record'.stop = "failed"
    BY <1>5, <1>7, FailEffect
  <2>2. EvidenceKept'  BY <1>2, <2>1 DEF EvidenceKept
  <2>3. CostBounded'  BY <1>1, <1>6, <2>1 DEF CostBounded
  <2>4. /\ spec.evaluations # None => record'.evaluations <= spec.evaluations
        /\ spec.high # None => record'.high <= spec.high
    BY <1>6, <2>1
  <2>5. record'.stop # "max-evaluations"  BY <2>1
  <2>. QED  BY <1>1, <1>3, <1>4, <2>1, <2>2, <2>3, <2>4, <2>5, Ended
<1>8. ASSUME NEW batched \in BOOLEAN, record' = NewRecord,
             loop' = [Resting EXCEPT !.batch = batched, !.todo = Candidates,
                        !.pc = IF batched /\ spec.cost = None THEN "batch" ELSE "scan"]
      PROVE  Inv'
  <2>1. loop' \in Loops
    <3>. DEFINE pc == IF batched /\ spec.cost = None THEN "batch" ELSE "scan"
    <3>1. pc \in {"batch", "scan"}  OBVIOUS
    <3>2. loop' = [Resting EXCEPT !.batch = batched, !.todo = Candidates, !.pc = pc]  BY <1>8
    <3>. HIDE DEF pc
    <3>. QED  BY <3>1, <3>2, RestingTyped, ZenonT(60) DEF Loops
  <2>2. /\ loop'.pc = IF batched /\ spec.cost = None THEN "batch" ELSE "scan"
        /\ loop'.rank = 0 /\ loop'.plan = {} /\ loop'.due = {} /\ loop'.halt = None
        /\ loop'.evaluated = {}
    BY <1>8 DEF Resting
  <2>3. TypeOK'  BY <1>1, <1>5, <1>8, <2>1 DEF TypeOK
  <2>4. Shape'  BY <1>1, <1>5, <1>8, <2>2 DEF Shape
  <2>5. Within'
    <3>1. Planned' = 0
      <4>1. {c \in loop'.plan : store'[c][0] = None} = {}  BY <2>2
      <4>. QED  BY <4>1, FS_EmptySet DEF Planned
    <3>2. None # "max-evaluations"  BY CampaignAssumption DEF Stops
    <3>. QED  BY <1>1, <1>5, <1>6, <1>8, <2>2, <3>1, <3>2 DEF Within
  <2>6. CostBounded'  BY <1>1, <1>5, <1>6, <1>8 DEF CostBounded
  <2>7. Evaluations' /\ Entered'  BY <2>2 DEF Evaluations, Entered
  <2>8. EvidenceKept'  BY <1>2, <1>5, <1>8 DEF EvidenceKept
  <2>. QED  BY <1>3, <1>4, <2>3, <2>4, <2>5, <2>6, <2>7, <2>8 DEF Inv
<1>. QED  BY <1>7, <1>8 DEF Start

(* An interrupt ends the run where it is.                                   *)
LEMMA InterruptInv == ASSUME Inv, CampaignAssumption, Interrupt PROVE Inv'
<1>. DEFINE rec == [NewRecord EXCEPT !.state = "CREATED"]
<1>1. loop' = Resting /\ record' = rec /\ UNCHANGED <<spec, store, cancel, before, runs>>
  BY DEF Interrupt
<1>2. /\ rec \in Records /\ rec.state = "CREATED" /\ rec.stop = None
      /\ rec.evaluations = 0 /\ rec.high = 0 /\ rec.cost = 0
  <2>1. NewRecord \in Records /\ NewRecord.stop = None
        /\ NewRecord.evaluations = 0 /\ NewRecord.high = 0 /\ NewRecord.cost = 0
    BY NewRecordTyped DEF NewRecord
  <2>. QED  BY <2>1 DEF Records
<1>. HIDE DEF rec
<1>3. Grown' /\ EarnedFidelity'  BY <1>1, StoreKept DEF Inv
<1>4. EvidenceKept'  BY <1>1, <1>2 DEF EvidenceKept
<1>5. /\ spec.evaluations # None => spec.evaluations \in Nat \ {0}
      /\ spec.high # None => spec.high \in Nat \ {0}
      /\ spec.cost # None => spec.cost \in Nat \ {0}
  BY CampaignAssumption DEF Inv, TypeOK
<1>6. CostBounded'  BY <1>1, <1>2, <1>5 DEF CostBounded
<1>7. /\ spec.evaluations # None => record'.evaluations <= spec.evaluations
      /\ spec.high # None => record'.high <= spec.high
  BY <1>1, <1>2, <1>5
<1>8. record'.stop # "max-evaluations"  BY <1>1, <1>2, CampaignAssumption DEF Stops
<1>9. store' \in Stores /\ before' \in Stores /\ cancel' \in BOOLEAN /\ runs' \in Nat
  BY <1>1 DEF Inv, TypeOK
<1>. QED  BY <1>1, <1>2, <1>3, <1>4, <1>6, <1>7, <1>8, <1>9, Ended

(* Only the answer of cancel_check changes.                                 *)
LEMMA StutterInv ==
  ASSUME Inv, UNCHANGED <<spec, store, record, loop, before, runs>>, cancel' \in BOOLEAN
  PROVE  Inv'
<1>1. Planned' = Planned  BY DEF Planned
<1>2. Shape' /\ Within'  BY <1>1 DEF Inv, Shape, Within
<1>3. loop' \in Loops /\ runs' \in Nat  BY DEF Inv, TypeOK
<1>. QED  BY <1>2, <1>3, LoopMove

(* Every step keeps the invariant.                                          *)
LEMMA InvStep == ASSUME Inv, CampaignAssumption, [Next]_vars PROVE Inv'
<1>1. ASSUME Cancel PROVE Inv'  BY <1>1, StutterInv DEF Cancel
<1>2. ASSUME Rest \/ UNCHANGED vars PROVE Inv'
  <2>1. UNCHANGED <<spec, store, record, loop, before, runs>> /\ cancel' = cancel
    BY <1>2 DEF Rest, vars
  <2>2. cancel' \in BOOLEAN  BY <2>1 DEF Inv, TypeOK
  <2>. QED  BY <2>1, <2>2, StutterInv
<1>3. ASSUME Step PROVE Inv'
  BY <1>3, ConsiderInv, EvaluatedInv, PlanInv, ChunkInv, OperateInv, HaltedInv, SelectInv,
     PromoteInv DEF Step
<1>. QED  BY <1>1, <1>2, <1>3, StartInv, InterruptInv DEF Next

-----------------------------------------------------------------------------
(* The results.                                                             *)

(* The invariant holds in every reachable state.                            *)
LEMMA InvAlways == Spec => []Inv
<1>1. Init => Inv  BY CampaignAssumption, InitInv
<1>2. Inv /\ [Next]_vars => Inv'  BY CampaignAssumption, InvStep
<1>. QED  BY <1>1, <1>2, PTL DEF Spec

(* Every variable keeps its type: the record of a run, its locals and the   *)
(* store are what the code's classes declare.                               *)
THEOREM TypeCorrect == Spec => []TypeOK
<1>1. Inv => TypeOK  BY DEF Inv
<1>. QED  BY <1>1, InvAlways, PTL

(* The evaluation limits of a CampaignSpec hold of every run, batched or    *)
(* not, and a run that names its evaluation limit as the reason has used it *)
(* up: what a batch has planned is counted before it is evaluated.          *)
THEOREM EvaluationsWithinBudget == Spec => []BudgetKept
<1>1. Inv => BudgetKept
  <2>. SUFFICES ASSUME Inv PROVE BudgetKept  OBVIOUS
  <2>1. Planned \in Nat /\ record.evaluations \in Nat
    <3>1. {c \in loop.plan : store[c][0] = None} \in SUBSET Candidates
      BY DEF Inv, TypeOK, Loops
    <3>. QED  BY <3>1, CandidatesFinite DEF Planned, Inv, TypeOK, Records
  <2>2. spec.evaluations # None => spec.evaluations \in Nat
    BY CampaignAssumption DEF Inv, TypeOK
  <2>. QED  BY <2>1, <2>2 DEF Inv, Within, BudgetKept
<1>. QED  BY <1>1, InvAlways, PTL

(* max_cost is exceeded by less than one evaluation: with a cost limit the  *)
(* engine never batches, and asks before every evaluation.                  *)
THEOREM CostWithinBudget == Spec => []CostBounded
<1>1. Inv => CostBounded  BY DEF Inv
<1>. QED  BY <1>1, InvAlways, PTL

(* No evaluation that was paid for is lost or counted twice: the counter of *)
(* a run is the number of results it added to the store, and every          *)
(* candidate that got one has evidence in the record.                       *)
THEOREM EvidenceNeverLost == Spec => []EvidenceKept
<1>1. Inv => EvidenceKept  BY DEF Inv
<1>. QED  BY <1>1, InvAlways, PTL

(* A candidate reaches a rung only with a valid result on the rung below    *)
(* whose signal asked for it, and never a rung it cannot afford, provided   *)
(* the declared costs rise along the ladder.                                *)
THEOREM PromotionEarned == Spec => []EarnedFidelity
<1>1. Inv => EarnedFidelity  BY DEF Inv
<1>. QED  BY <1>1, InvAlways, PTL

(* A result in the content-addressed store is never replaced: the engine    *)
(* evaluates nothing that is already known, in this run or an earlier one.  *)
THEOREM ResultsNeverReplaced == Spec => StoreImmutable
<1>. DEFINE Fixed == \A c \in Candidates, r \in Rungs :
                       store[c][r] # None => store'[c][r] = store[c][r]
<1>1. ASSUME Inv, [Next]_vars PROVE Fixed
  <2>1. ASSUME NEW c \in Candidates, NEW o, Write(c, o) PROVE Fixed
    <3>1. TAKE d \in Candidates, r \in Rungs
    <3>2. store \in [Candidates -> [Rungs -> Outcomes \cup {None}]]
      BY <1>1 DEF Inv, TypeOK, Stores
    <3>3. store[d][r] # None => d # c \/ r # loop.rank  BY <2>1 DEF Write
    <3>4. d # c \/ r # loop.rank => store'[d][r] = store[d][r]  BY <2>1, <3>2 DEF Write
    <3>. QED  BY <3>3, <3>4
  <2>2. CASE store' = store  BY <2>2
  <2>3. CASE Evaluated
    <3>1. PICK o \in Outcomes : store' = [store EXCEPT ![loop.now][loop.rank] = o]
      BY <2>3 DEF Evaluated
    <3>2. loop.now \in Candidates /\ store[loop.now][loop.rank] = None
      BY <1>1, <2>3 DEF Evaluated, Inv, Shape
    <3>. QED  BY <2>1, <3>1, <3>2 DEF Write
  <2>4. CASE Operate
    <3>1. PICK c \in First(loop.plan) :
            \/ UNCHANGED store
            \/ /\ Cached(c) = None
               /\ store' = [store EXCEPT ![c][loop.rank] = loop.rows[c]]
      BY <2>4 DEF Operate
    <3>2. c \in Candidates  BY <1>1 DEF First, Inv, TypeOK, Loops
    <3>. QED  BY <2>1, <2>2, <3>1, <3>2 DEF Write, Cached
  <2>5. ASSUME Step, ~Evaluated, ~Operate PROVE store' = store
    BY <2>5 DEF Step, Consider, Plan, Chunk, Halted, Select, Promote
  <2>6. ASSUME Start \/ Cancel \/ Interrupt \/ Rest \/ UNCHANGED vars PROVE store' = store
    BY <2>6 DEF Start, Cancel, Interrupt, Rest, vars
  <2>. QED  BY <1>1, <2>2, <2>3, <2>4, <2>5, <2>6 DEF Next
<1>2. Inv /\ [Next]_vars => [Fixed]_vars  BY <1>1
<1>. QED  BY <1>2, InvAlways, PTL DEF Spec, StoreImmutable

-----------------------------------------------------------------------------
(* The ladder: who enters each rung, as a function of the stored results.   *)

(* The ladder of a store: who enters each rung, given the results in it.    *)
LevelOf(st, q) == [c \in Candidates |-> st[c][q]]
Ladder(policy, st, E) ==
    /\ E \in [Rungs -> SUBSET Candidates]
    /\ E[0] = Candidates \ Rejected
    /\ \A r \in Rungs \ {0} : E[r] = Climbers(policy, r - 1, LevelOf(st, r - 1), E[r - 1])

(* Among some rungs there is a lowest one.  This lemma stands for induction *)
(* over the ladder in those that follow.                                    *)
LEMMA LowestRung ==
  ASSUME CampaignAssumption, NEW F \in SUBSET Rungs, F # {}
  PROVE  \E q \in F : \A p \in F : q <= p
<1>. DEFINE less == {ss \in Nat \X Nat : ss[1] < ss[2]}
<1>1. IsWellFoundedOn(less, Nat)
  <2>1. less = OpToRel(<, Nat)  BY DEF OpToRel
  <2>. QED  BY <2>1, NatLessThanWellFounded
<1>2. F \subseteq Nat  BY CampaignAssumption DEF Rungs
<1>3. PICK q \in F : \A p \in F : <<p, q>> \notin less
  <2>. HIDE DEF less
  <2>. QED  BY <1>1, <1>2, WFMin
<1>4. \A p \in F : ~(p < q)  BY <1>2, <1>3
<1>. QED  BY <1>2, <1>4

(* The bottom of the numbers.                                               *)
LEMMA NatOrder == \A n \in Nat : n <= n /\ ~(n < 0)
OBVIOUS

(* The rungs below a rung.                                                  *)
LEMMA RungBelow ==
  ASSUME CampaignAssumption, NEW r \in Rungs \ {0}
  PROVE  r \in Nat /\ r > 0 /\ r - 1 \in Rungs /\ r - 1 < r /\ Rungs \subseteq Nat /\ 0 \in Rungs
BY CampaignAssumption DEF Rungs

(* Nobody enters a rung from outside the one below.                         *)
LEMMA ClimbersIn ==
  ASSUME CampaignAssumption, NEW policy, NEW r, NEW at, NEW S \in SUBSET Candidates
  PROVE  Climbers(policy, r, at, S) \subseteq {c \in S : Valid(at[c])}
<1>. DEFINE valid == {c \in S : Valid(at[c])}
            chosen == Selected(policy, at, valid)
<1>1. chosen \subseteq valid  BY SelectedIn
<1>2. Survivors(policy, at, chosen) \subseteq chosen
  <2>1. chosen \in SUBSET Candidates  BY <1>1
  <2>. HIDE DEF chosen
  <2>. QED  BY <2>1, SurvivorsIn
<1>3. {c \in Survivors(policy, at, chosen) : Escalates(policy, r, at[c])} \subseteq valid
  BY <1>1, <1>2
<1>. HIDE DEF valid
<1>. QED  BY <1>3 DEF Climbers, valid

(* The recursion over the rungs, unfolded as far as rung n.                 *)
Unfolded(policy, st, n, E) ==
    /\ E \in [0 .. n -> SUBSET Candidates]
    /\ E[0] = Candidates \ Rejected
    /\ \A r \in 1 .. n : E[r] = Climbers(policy, r - 1, LevelOf(st, r - 1), E[r - 1])

(* Every store has a ladder: there is no first rung where the unfolding     *)
(* could fail.                                                              *)
LEMMA LadderExists ==
  ASSUME CampaignAssumption, NEW policy, NEW st
  PROVE  \E E : Ladder(policy, st, E)
<1>. DEFINE Bad == {n \in Rungs : ~ \E E : Unfolded(policy, st, n, E)}
<1>1. ASSUME Bad # {} PROVE FALSE
  <2>1. PICK n \in Bad : \A p \in Bad : n <= p
    <3>. HIDE DEF Bad
    <3>1. Bad \in SUBSET Rungs  BY DEF Bad
    <3>. QED  BY <1>1, <3>1, LowestRung
  <2>2. CASE n = 0
    <3>. DEFINE E == [q \in 0 .. 0 |-> Candidates \ Rejected]
    <3>1. Unfolded(policy, st, n, E)  BY <2>2 DEF Unfolded
    <3>. QED  BY <2>1, <3>1
  <2>3. CASE n # 0
    <3>1. n \in Nat /\ n > 0 /\ n - 1 \in Rungs /\ n - 1 < n  BY <2>1, <2>3, RungBelow
    <3>2. n - 1 \notin Bad  BY <2>1, <3>1
    <3>3. PICK G : Unfolded(policy, st, n - 1, G)  BY <3>1, <3>2
    <3>. DEFINE top == Climbers(policy, n - 1, LevelOf(st, n - 1), G[n - 1])
                E == [q \in 0 .. n |-> IF q = n THEN top ELSE G[q]]
    <3>4. /\ G \in [0 .. n - 1 -> SUBSET Candidates] /\ G[0] = Candidates \ Rejected
          /\ \A r \in 1 .. n - 1 : G[r] = Climbers(policy, r - 1, LevelOf(st, r - 1), G[r - 1])
      BY <3>3 DEF Unfolded
    <3>5. top \in SUBSET Candidates
      <4>1. G[n - 1] \in SUBSET Candidates  BY <3>1, <3>4
      <4>. QED  BY <4>1, ClimbersIn
    <3>. HIDE DEF top
    <3>6. E \in [0 .. n -> SUBSET Candidates] /\ E[0] = Candidates \ Rejected
      BY <3>1, <3>4, <3>5
    <3>7. ASSUME NEW r \in 1 .. n
          PROVE  E[r] = Climbers(policy, r - 1, LevelOf(st, r - 1), E[r - 1])
      <4>1. r - 1 \in 0 .. n /\ r - 1 # n /\ E[r - 1] = G[r - 1]  BY <3>1
      <4>2. CASE r = n
        <5>1. E[r] = top  BY <3>1, <4>2
        <5>. HIDE DEF E
        <5>. QED  BY <4>1, <4>2, <5>1 DEF top
      <4>3. CASE r # n
        <5>1. r \in 1 .. n - 1 /\ E[r] = G[r]  BY <3>1, <4>3
        <5>2. E[r] = Climbers(policy, r - 1, LevelOf(st, r - 1), G[r - 1])  BY <3>4, <5>1
        <5>. HIDE DEF E
        <5>. QED  BY <4>1, <5>2
      <4>. QED  BY <4>2, <4>3
    <3>. HIDE DEF E
    <3>8. Unfolded(policy, st, n, E)  BY <3>6, <3>7 DEF Unfolded
    <3>. QED  BY <2>1, <3>8
  <2>. QED  BY <2>2, <2>3
<1>2. Top \in Rungs /\ Top \in Nat /\ Rungs = 0 .. Top /\ Rungs \ {0} = 1 .. Top
  BY CampaignAssumption DEF Rungs
<1>3. PICK E : Unfolded(policy, st, Top, E)  BY <1>1, <1>2
<1>4. Ladder(policy, st, E)  BY <1>2, <1>3 DEF Unfolded, Ladder
<1>. QED  BY <1>4

(* The ladders of two stores agree up to the rung below which the stores do.*)
LEMMA LadderPrefix ==
  ASSUME CampaignAssumption, NEW policy, NEW st, NEW tt, NEW E, NEW F,
         Ladder(policy, st, E), Ladder(policy, tt, F), NEW r \in Rungs,
         \A c \in Candidates, q \in Rungs : q < r => tt[c][q] = st[c][q]
  PROVE  \A q \in Rungs : q <= r => F[q] = E[q]
<1>. DEFINE Bad == {q \in Rungs : q <= r /\ F[q] # E[q]}
<1>1. SUFFICES ASSUME Bad # {} PROVE FALSE  OBVIOUS
<1>2. PICK n \in Bad : \A p \in Bad : n <= p
  <2>1. Bad \in SUBSET Rungs  OBVIOUS
  <2>. HIDE DEF Bad
  <2>. QED  BY <1>1, <2>1, LowestRung
<1>3. n # 0  BY <1>2 DEF Ladder
<1>4. n \in Nat /\ n - 1 \in Rungs /\ n - 1 < n /\ n - 1 < r /\ n - 1 <= r
  BY <1>2, <1>3, RungBelow
<1>5. F[n - 1] = E[n - 1]  BY <1>2, <1>4
<1>6. LevelOf(tt, n - 1) = LevelOf(st, n - 1)  BY <1>4 DEF LevelOf
<1>7. /\ E[n] = Climbers(policy, n - 1, LevelOf(st, n - 1), E[n - 1])
      /\ F[n] = Climbers(policy, n - 1, LevelOf(tt, n - 1), F[n - 1])
  BY <1>2, <1>3 DEF Ladder
<1>8. F[n] = E[n]  BY <1>5, <1>6, <1>7
<1>. QED  BY <1>2, <1>8

(* Entrants, the reference of the runs, is the ladder of the store.         *)
LEMMA EntrantsLadder ==
  ASSUME CampaignAssumption, NEW E, Ladder(spec, store, E)
  PROVE  \A r \in Rungs : Entrants[r] = E[r]
<1>. DEFINE body(g) == [r \in Rungs |->
                          IF r = 0 THEN Candidates \ Rejected
                          ELSE Climbers(spec, r - 1, Level(r - 1), g[r - 1])]
<1>1. \A q : LevelOf(store, q) = Level(q)  BY DEF Level, LevelOf
<1>2. E = body(E)
  <2>1. E \in [Rungs -> SUBSET Candidates]  BY DEF Ladder
  <2>2. \A r \in Rungs : E[r] = body(E)[r]  BY <1>1 DEF Ladder
  <2>. HIDE DEF body
  <2>3. body(E) = [r \in Rungs |-> body(E)[r]]  BY DEF body
  <2>. QED  BY <2>1, <2>2, <2>3
<1>3. Entrants = CHOOSE g : g = body(g)  BY DEF Entrants
<1>4. Entrants = body(Entrants)
  <2>. HIDE DEF body
  <2>. QED  BY <1>2, <1>3
<1>5. \A r \in Rungs : Entrants[r] =
        IF r = 0 THEN Candidates \ Rejected
        ELSE Climbers(spec, r - 1, Level(r - 1), Entrants[r - 1])
  <2>. DEFINE g == Entrants
  <2>1. g = body(g)  BY <1>4
  <2>. HIDE DEF g
  <2>2. \A r \in Rungs : g[r] = IF r = 0 THEN Candidates \ Rejected
                                ELSE Climbers(spec, r - 1, Level(r - 1), g[r - 1])
    BY <2>1
  <2>. QED  BY <2>2 DEF g
<1>. DEFINE Bad == {q \in Rungs : Entrants[q] # E[q]}
<1>6. SUFFICES ASSUME Bad # {} PROVE FALSE  OBVIOUS
<1>7. PICK n \in Bad : \A p \in Bad : n <= p
  <2>1. Bad \in SUBSET Rungs  OBVIOUS
  <2>. HIDE DEF Bad
  <2>. QED  BY <1>6, <2>1, LowestRung
<1>8. n # 0  BY <1>5, <1>7 DEF Ladder
<1>9. n \in Nat /\ n - 1 \in Rungs /\ n - 1 < n  BY <1>7, <1>8, RungBelow
<1>10. Entrants[n - 1] = E[n - 1]  BY <1>7, <1>9
<1>11. E[n] = Climbers(spec, n - 1, Level(n - 1), E[n - 1])  BY <1>1, <1>7, <1>8 DEF Ladder
<1>12. Entrants[n] = Climbers(spec, n - 1, Level(n - 1), Entrants[n - 1])  BY <1>5, <1>7, <1>8
<1>. QED  BY <1>7, <1>10, <1>11, <1>12

-----------------------------------------------------------------------------
(* What a selection reads of the store.                                     *)

(* Two levels with the same evaluations of some candidates.                 *)
Agree(at, bt, S) == \A c \in S : at[c] = bt[c]

(* What a selection and a ranking depend on: the evaluations of the         *)
(* candidates they are about.                                               *)
LEMMA SelectedAgree ==
  ASSUME NEW policy, NEW S, NEW at, NEW bt, Agree(at, bt, S)
  PROVE  /\ Selected(policy, at, S) = Selected(policy, bt, S)
         /\ Front(at, S) = Front(bt, S) /\ Basis(at, S) = Basis(bt, S)
<1>1. \A c, d \in S : Dominates(at, c, d) <=> Dominates(bt, c, d)  BY DEF Agree, Dominates
<1>2. Front(at, S) = Front(bt, S)  BY <1>1 DEF Front
<1>3. {c \in S : Feasible(at[c])} = {c \in S : Feasible(bt[c])}  BY DEF Agree
<1>4. Basis(at, S) = Basis(bt, S)  BY <1>3 DEF Basis
<1>. QED  BY <1>2, <1>4 DEF Selected

(* The same candidates survive a rung.                                      *)
LEMMA SurvivorsAgree ==
  ASSUME NEW policy, NEW S, NEW at, NEW bt, Agree(at, bt, S)
  PROVE  Survivors(policy, at, S) = Survivors(policy, bt, S)
<1>. DEFINE k == SurviveCount(policy, Cardinality(S))
<1>1. \A c, d \in S : Before(at, c, d) <=> Before(bt, c, d)  BY DEF Agree, Before, Score
<1>2. \A c \in S : Ahead(policy, at, S, c) = Ahead(policy, bt, S, c)  BY <1>1 DEF Ahead
<1>3. Leaders(policy, at, S) = Leaders(policy, bt, S)  BY <1>2 DEF Leaders
<1>4. Picks(policy, at, S, k) = Picks(policy, bt, S, k)
  <2>. HIDE DEF k
  <2>. QED  BY <1>3 DEF Picks
<1>5. {c \in S : Cardinality(Ahead(policy, at, S, c)) < k}
        = {c \in S : Cardinality(Ahead(policy, bt, S, c)) < k}
  <2>. HIDE DEF k
  <2>. QED  BY <1>2
<1>6. Survivors(policy, at, S) =
        IF Diverse(policy, S) THEN UNION {{p[n] : n \in 1 .. k} : p \in Picks(policy, at, S, k)}
        ELSE {c \in S : Cardinality(Ahead(policy, at, S, c)) < k}
  BY DEF Survivors
<1>7. Survivors(policy, bt, S) =
        IF Diverse(policy, S) THEN UNION {{p[n] : n \in 1 .. k} : p \in Picks(policy, bt, S, k)}
        ELSE {c \in S : Cardinality(Ahead(policy, bt, S, c)) < k}
  BY DEF Survivors
<1>. HIDE DEF k
<1>. QED  BY <1>4, <1>5, <1>6, <1>7

(* The ladder is climbed by the survivors of the valid results that ask for *)
(* the next rung, whichever evaluations agree with them.                    *)
LEMMA ClimbersAgree ==
  ASSUME CampaignAssumption, NEW policy, NEW r, NEW S \in SUBSET Candidates, NEW at, NEW bt,
         NEW valid \in SUBSET S, \A c \in S : c \in valid <=> Valid(bt[c]), Agree(at, bt, valid)
  PROVE  Climbers(policy, r, bt, S) =
           {c \in Survivors(policy, at, Selected(policy, at, valid)) : Escalates(policy, r, at[c])}
<1>. DEFINE chosen == Selected(policy, at, valid)
<1>1. Selected(policy, bt, valid) = chosen  BY SelectedAgree
<1>2. chosen \subseteq valid /\ chosen \in SUBSET Candidates  BY SelectedIn
<1>. HIDE DEF chosen
<1>3. Agree(at, bt, chosen)  BY <1>2 DEF Agree
<1>4. Survivors(policy, bt, chosen) = Survivors(policy, at, chosen)  BY <1>3, SurvivorsAgree
<1>5. Survivors(policy, at, chosen) \subseteq chosen  BY <1>2, SurvivorsIn
<1>6. {c \in Survivors(policy, bt, chosen) : Escalates(policy, r, bt[c])} =
      {c \in Survivors(policy, at, chosen) : Escalates(policy, r, at[c])}
  <2>1. \A c \in chosen : at[c] = bt[c]  BY <1>3 DEF Agree
  <2>. QED  BY <1>4, <1>5, <2>1
<1>7. Climbers(policy, r, bt, S) =
        IF valid = {} THEN {}
        ELSE {c \in Survivors(policy, bt, Selected(policy, bt, valid)) : Escalates(policy, r, bt[c])}
  <2>1. valid = {c \in S : Valid(bt[c])}  OBVIOUS
  <2>. QED  BY <2>1 DEF Climbers
<1>8. valid = {} => Survivors(policy, at, chosen) = {}  BY <1>2, <1>5
<1>. QED  BY <1>1, <1>6, <1>7, <1>8 DEF chosen

-----------------------------------------------------------------------------
(* The invariant of a run on the ladder, and what a write changes.          *)

(* A highest rung among some.                                               *)
LEMMA HighestRung ==
  ASSUME CampaignAssumption, NEW F \in SUBSET Rungs, F # {}
  PROVE  \E q \in F : \A p \in F : p <= q
<1>. DEFINE G == {q \in Rungs : Top - q \in F}
<1>1. Top \in Nat /\ Rungs = 0 .. Top  BY CampaignAssumption DEF Rungs
<1>2. G # {}
  <2>1. PICK q \in F : TRUE  OBVIOUS
  <2>2. Top - q \in Rungs /\ Top - (Top - q) = q  BY <1>1, <2>1
  <2>. QED  BY <2>1, <2>2
<1>3. PICK q \in G : \A p \in G : q <= p
  <2>1. G \in SUBSET Rungs  OBVIOUS
  <2>. HIDE DEF G
  <2>. QED  BY <1>2, <2>1, LowestRung
<1>4. ASSUME NEW p \in F PROVE p <= Top - q
  <2>1. Top - p \in Rungs /\ Top - (Top - p) = p  BY <1>1, <1>4
  <2>2. q <= Top - p  BY <1>3, <2>1
  <2>. QED  BY <1>1, <1>3, <1>4, <2>2
<1>. QED  BY <1>3, <1>4

(* The ladder narrows: who enters a rung has entered all below it.          *)
LEMMA LadderNarrows ==
  ASSUME CampaignAssumption, NEW policy, NEW st, NEW E, Ladder(policy, st, E)
  PROVE  \A q, r \in Rungs : q <= r => E[r] \subseteq E[q]
<1>. DEFINE Bad == {r \in Rungs : \E q \in Rungs : q <= r /\ ~(E[r] \subseteq E[q])}
<1>1. SUFFICES ASSUME Bad # {} PROVE FALSE  OBVIOUS
<1>2. PICK n \in Bad : \A p \in Bad : n <= p
  <2>1. Bad \in SUBSET Rungs  OBVIOUS
  <2>. HIDE DEF Bad
  <2>. QED  BY <1>1, <2>1, LowestRung
<1>3. PICK q \in Rungs : q <= n /\ ~(E[n] \subseteq E[q])  BY <1>2
<1>4. q \in Nat /\ n \in Nat /\ q # n  BY <1>2, <1>3, CampaignAssumption DEF Rungs
<1>5. n \in Rungs \ {0}  BY <1>2, <1>3, <1>4
<1>6. n - 1 \in Rungs /\ n - 1 < n /\ q <= n - 1  BY <1>3, <1>4, <1>5, RungBelow
<1>7. E[n - 1] \subseteq E[q]
  <2>1. n - 1 \notin Bad  BY <1>2, <1>4, <1>6
  <2>. QED  BY <1>3, <1>6, <2>1
<1>8. E[n] \subseteq E[n - 1]
  <2>1. E[n - 1] \in SUBSET Candidates  BY <1>6 DEF Ladder
  <2>2. E[n] = Climbers(policy, n - 1, LevelOf(st, n - 1), E[n - 1])  BY <1>5 DEF Ladder
  <2>. QED  BY <2>1, <2>2, ClimbersIn
<1>. QED  BY <1>3, <1>7, <1>8

(* The invariant behind the reference: with E the ladder of the store,      *)
(* nothing is stored above a rung that is not complete;                     *)
Complete(st, E, q) == \A d \in E[q] : st[d][q] # None
Ripe(st, E) ==
    \A c \in Candidates, r \in Rungs :
        st[c][r] # None => c \in E[r] /\ \A q \in Rungs : q < r => Complete(st, E, q)

(* a run has completed the rungs below its own, the candidates it has not   *)
(* come to are entrants of its own, and what it has is theirs so far;       *)
References == {"completed", "promotion-halted", "no-valid-candidates"}
Open == loop.todo \cup loop.plan
Reached(E, c) ==
    {q \in Rungs : c \in E[q] /\ (q < loop.rank \/ (q = loop.rank /\ c \notin Open))}
Traced(E) ==
    \A c \in Candidates :
        /\ Reached(E, c) = {} => record.latest[c] = None
        /\ \A q \in Reached(E, c) :
              (\A p \in Reached(E, c) : p <= q) => record.latest[c] = store[c][q]
Surveyed(E) ==
    /\ \A c \in E[loop.rank] \ Open : store[c][loop.rank] # None
    /\ loop.evaluated = {c \in E[loop.rank] \ Open : Valid(store[c][loop.rank])}
    /\ Traced(E)
Progress(E) ==
    /\ \A q \in Rungs : q < loop.rank => Complete(store, E, q)
    /\ loop.plan \subseteq E[loop.rank] /\ loop.todo \subseteq E[loop.rank] \cup Rejected
    /\ loop.pc = "call" => loop.now \in E[loop.rank]
    /\ loop.pc = "promote" => loop.todo = {} /\ loop.halt = None
    /\ loop.halt \notin References
    /\ loop.halt = None => Surveyed(E)

(* and a record that names no budget is what the ladder says.               *)
EvidenceOf(st, E) ==
    [c \in Candidates |->
       IF c \in Rejected THEN None
       ELSE st[c][CHOOSE r \in Rungs : c \in E[r] /\ \A q \in Rungs : q > r => c \notin E[q]]]
Concluded(rec) ==
    LET valid == {c \in Candidates : Valid(rec.latest[c])}
        basis == Basis(rec.latest, valid)
    IN /\ rec.pareto = Front(rec.latest, basis)
       /\ IF valid = {} THEN rec.best = None
          ELSE \A d \in basis : d = rec.best \/ Before(rec.latest, rec.best, d)
Reported(E) ==
    record.stop \in References => record.latest = EvidenceOf(store, E) /\ Concluded(record)

Following(E) ==
    /\ Ladder(spec, store, E) /\ Ripe(store, E)
    /\ loop.pc # "rest" => Progress(E)
    /\ Reported(E)

(* What a write of the next result changes of the ladder.                   *)
LEMMA WriteClimbs ==
  ASSUME Inv, CampaignAssumption, NEW E, Ladder(spec, store, E), Ripe(store, E),
         NEW c \in Candidates, NEW o \in Outcomes, Write(c, o), c \in E[loop.rank],
         spec' = spec, \A q \in Rungs : q < loop.rank => Complete(store, E, q)
  PROVE  \E F : /\ Ladder(spec, store, F)' /\ Ripe(store, F)'
                /\ \A q \in Rungs : q <= loop.rank => F[q] = E[q]
<1>1. loop.rank \in Rungs /\ Rungs \subseteq Nat
  BY CampaignAssumption DEF Inv, TypeOK, Loops, Rungs
<1>2. /\ store'[c][loop.rank] = o /\ o # None /\ store[c][loop.rank] = None
      /\ \A d \in Candidates, q \in Rungs :
            d # c \/ q # loop.rank => store'[d][q] = store[d][q]
  BY WriteEffect, CampaignAssumption DEF Write
<1>3. PICK st : st = store'  OBVIOUS
<1>4. PICK p : p = spec  OBVIOUS
<1>5. PICK F : Ladder(p, st, F)  BY LadderExists
<1>6. PICK old : old = store  OBVIOUS
<1>7. PICK r : r = loop.rank  OBVIOUS
<1>8. \A q \in Rungs : q <= r => F[q] = E[q]
  <2>1. Ladder(p, old, E)  BY <1>4, <1>6
  <2>2. \A d \in Candidates, q \in Rungs : q < r => st[d][q] = old[d][q]
    BY <1>1, <1>2, <1>3, <1>6, <1>7
  <2>3. r \in Rungs  BY <1>1, <1>7
  <2>. QED  BY <1>5, <2>1, <2>2, <2>3, LadderPrefix
<1>9. \A d \in Candidates, s \in Rungs : s > r => store'[d][s] = None
  <2>1. TAKE d \in Candidates, s \in Rungs
  <2>2. HAVE s > r
  <2>3. ~Complete(store, E, r)  BY <1>2, <1>7 DEF Complete
  <2>4. store[d][s] = None  BY <1>1, <1>7, <2>2, <2>3 DEF Ripe
  <2>. QED  BY <1>1, <1>2, <1>7, <2>2, <2>4
<1>10. ASSUME NEW d \in Candidates, NEW s \in Rungs, store'[d][s] # None
       PROVE  d \in F[s] /\ \A q \in Rungs : q < s => Complete(store', F, q)
  <2>1. s \in Nat /\ r \in Nat /\ s <= r  BY <1>1, <1>7, <1>9, <1>10
  <2>2. d \in E[s]
    <3>1. CASE d = c /\ s = r  BY <1>7, <3>1
    <3>2. CASE ~(d = c /\ s = r)
      <4>1. store[d][s] # None  BY <1>2, <1>7, <1>10, <3>2
      <4>. QED  BY <4>1 DEF Ripe
    <3>. QED  BY <3>1, <3>2
  <2>3. ASSUME NEW q \in Rungs, q < s, NEW e \in F[q] PROVE store'[e][q] # None
    <3>1. q \in Nat /\ q <= r /\ q < r  BY <1>1, <2>1, <2>3
    <3>2. e \in E[q] /\ e \in Candidates  BY <1>8, <2>3, <3>1 DEF Ladder
    <3>3. store[e][q] # None  BY <1>7, <3>1, <3>2 DEF Complete
    <3>. QED  BY <1>2, <1>7, <2>3, <3>1, <3>2, <3>3
  <2>. QED  BY <1>8, <2>1, <2>2, <2>3 DEF Complete
<1>11. Ripe(store, F)'  BY <1>10 DEF Ripe
<1>12. Ladder(spec, store, F)'  BY <1>3, <1>4, <1>5
<1>. QED  BY <1>7, <1>8, <1>11, <1>12

-----------------------------------------------------------------------------
(* Accepting a result.                                                      *)

(* Accepting a result, whichever path it came on, follows the ladder.       *)
LEMMA AcceptFollowing ==
  ASSUME Inv, CampaignAssumption, NEW c \in Candidates, NEW o \in Outcomes, NEW rec,
         Accepting(rec, c, o), NEW E, Following(E), c \in E[loop.rank]
  PROVE  \E F : Following(F)'
<1>1. /\ loop.pc \in {"scan", "call", "batch"} /\ spec' = spec /\ loop \in Loops
      /\ record \in Records /\ record.stop = None /\ c \in Open /\ c \notin Rejected
  <2>1. c \in E[0]
    <3>1. 0 \in Rungs /\ loop.rank \in Rungs /\ 0 <= loop.rank
      BY CampaignAssumption DEF Inv, TypeOK, Loops, Rungs
    <3>2. Ladder(spec, store, E)  BY DEF Following
    <3>3. PICK p, st, r : p = spec /\ st = store /\ r = loop.rank  OBVIOUS
    <3>4. Ladder(p, st, E) /\ r \in Rungs /\ 0 <= r /\ c \in E[r]  BY <3>1, <3>2, <3>3
    <3>. QED  BY <3>1, <3>4, LadderNarrows
  <2>2. c \notin Rejected  BY <2>1 DEF Following, Ladder
  <2>. QED  BY <2>2 DEF Inv, TypeOK, Shape, Accepting, Open
<1>2. loop.rank \in Rungs /\ Rungs \subseteq Nat /\ None \notin References /\ None \notin Outcomes
  BY <1>1, CampaignAssumption DEF Loops, Rungs, Stops, References
<1>3. Progress(E)  BY <1>1 DEF Following
<1>4. /\ rec.latest = record.latest /\ rec.stop = record.stop /\ rec \in Records
      /\ store'[c][loop.rank] = o
      /\ \A d \in Candidates, q \in Rungs :
            d # c \/ q # loop.rank => store'[d][q] = store[d][q]
  BY AcceptStore
<1>5. PICK F : /\ Ladder(spec, store, F)' /\ Ripe(store, F)'
               /\ \A q \in Rungs : q <= loop.rank => F[q] = E[q]
  <2>1. CASE Known(rec, c, o)
    <3>1. store' = store  BY <2>1 DEF Known
    <3>2. Ladder(spec, store, E)' /\ Ripe(store, E)'  BY <1>1, <3>1 DEF Following
    <3>. QED  BY <3>2
  <2>2. CASE Bought(rec, c, o)
    <3>1. Write(c, o)  BY <2>2 DEF Bought
    <3>2. \A q \in Rungs : q < loop.rank => Complete(store, E, q)  BY <1>3 DEF Progress
    <3>. QED  BY <1>1, <3>1, <3>2, WriteClimbs DEF Following
  <2>. QED  BY <2>1, <2>2 DEF Accepting
<1>6. F[loop.rank] = E[loop.rank] /\ E \in [Rungs -> SUBSET Candidates]
  <2>1. loop.rank <= loop.rank  BY <1>2, NatOrder, Zenon
  <2>2. F[loop.rank] = E[loop.rank]  BY <1>2, <1>5, <2>1
  <2>3. E \in [Rungs -> SUBSET Candidates]  BY DEF Following, Ladder
  <2>. QED  BY <2>2, <2>3
<1>7. Accepted(rec, c, o)
  <2>1. Accept(rec, c, o)  BY DEF Accepting
  <2>. QED  BY <1>1, <1>4, <2>1, AcceptEffect
<1>8. CASE loop' = Resting /\ record'.stop = "failed"
  <2>1. loop'.pc = "rest" /\ record'.stop \notin References  BY <1>8 DEF Resting, References
  <2>2. Following(F)'  BY <1>5, <2>1 DEF Following, Reported
  <2>. QED  BY <2>2
<1>9. CASE /\ record'.latest = [rec.latest EXCEPT ![c] = o]
           /\ record'.stop = rec.stop
           /\ loop'.rank = loop.rank /\ loop'.halt = loop.halt
           /\ loop'.todo = loop.todo \ {c} /\ loop'.plan = loop.plan \ {c}
           /\ loop'.evaluated = IF Valid(o) THEN loop.evaluated \cup {c} ELSE loop.evaluated
           /\ loop'.pc = IF loop.pc = "call" THEN IF c \in loop.plan THEN "batch" ELSE "scan"
                         ELSE loop.pc
  <2>1. Open' = Open \ {c}  BY <1>9 DEF Open
  <2>2. loop'.pc \in {"scan", "batch"} /\ record'.stop \notin References
    BY <1>1, <1>2, <1>4, <1>9
  <2>3. ASSUME NEW q \in Rungs, q < loop.rank PROVE Complete(store, F, q)'
    <3>1. F[q] = E[q] /\ q # loop.rank  BY <1>2, <1>5, <2>3
    <3>2. Complete(store, E, q)  BY <1>3, <2>3 DEF Progress
    <3>3. \A d \in E[q] : store'[d][q] = store[d][q]  BY <1>4, <1>6, <2>3, <3>1
    <3>. QED  BY <3>1, <3>2, <3>3 DEF Complete
  <2>4. loop'.plan \subseteq F[loop.rank] /\ loop'.todo \subseteq F[loop.rank] \cup Rejected
    BY <1>3, <1>6, <1>9 DEF Progress
  <2>5. ASSUME loop.halt = None PROVE Surveyed(F)'
    <3>1. Surveyed(E)  BY <1>3, <2>5 DEF Progress
    <3>2. E[loop.rank] \ Open' = (E[loop.rank] \ Open) \cup {c} /\ E[loop.rank] \subseteq Candidates
      <4>1. E[loop.rank] \subseteq Candidates  BY <1>2, <1>6
      <4>2. c \in Open /\ c \in E[loop.rank]  BY <1>1
      <4>. QED  BY <2>1, <4>1, <4>2
    <3>3. \A d \in E[loop.rank] \ Open' : store'[d][loop.rank] # None
      <4>1. \A d \in E[loop.rank] \ Open : store[d][loop.rank] # None  BY <3>1 DEF Surveyed
      <4>2. o # None  BY <1>2
      <4>. QED  BY <1>2, <1>4, <3>2, <4>1, <4>2, ZenonT(60)
    <3>4. loop'.evaluated = {d \in E[loop.rank] \ Open' : Valid(store'[d][loop.rank])}
      <4>1. \A d \in E[loop.rank] \ Open : store'[d][loop.rank] = store[d][loop.rank]
        BY <1>1, <1>2, <1>4, <3>2, ZenonT(60)
      <4>2. loop.evaluated = {d \in E[loop.rank] \ Open : Valid(store'[d][loop.rank])}
        BY <3>1, <4>1 DEF Surveyed
      <4>. QED  BY <1>4, <1>9, <3>2, <4>2
    <3>5. ASSUME NEW d \in Candidates, d # c
          PROVE  Reached(F, d)' = Reached(E, d) /\ record'.latest[d] = record.latest[d]
      <4>1. \A q \in Rungs : q <= loop.rank => F[q] = E[q]  BY <1>5
      <4>2. d \in Open' <=> d \in Open  BY <2>1, <3>5
      <4>3. \A q \in Rungs : q < loop.rank \/ q = loop.rank => q <= loop.rank
        <5>1. Rungs \subseteq Nat /\ loop.rank \in Nat  BY <1>2
        <5>. QED  BY <5>1
      <4>. QED  BY <1>1, <1>4, <1>9, <3>5, <4>1, <4>2, <4>3 DEF Reached, Records, Results
    <3>6. loop.rank \in Reached(F, c)' /\ \A q \in Reached(F, c)' : q <= loop.rank
      <4>1. c \in F[loop.rank] /\ c \notin Open' /\ loop'.rank = loop.rank
        BY <1>6, <1>9, <2>1
      <4>2. loop.rank \in Reached(F, c)'  BY <1>2, <4>1 DEF Reached
      <4>3. Rungs \subseteq Nat /\ loop.rank \in Nat  BY <1>2
      <4>4. \A q \in Reached(F, c)' : q <= loop.rank  BY <4>1, <4>3 DEF Reached
      <4>. QED  BY <4>2, <4>4
    <3>7. record'.latest[c] = o  BY <1>1, <1>4, <1>9 DEF Records, Results
    <3>8. ASSUME NEW d \in Candidates
          PROVE  /\ Reached(F, d)' = {} => record'.latest[d] = None
                 /\ \A q \in Reached(F, d)' :
                       (\A p \in Reached(F, d)' : p <= q) => record'.latest[d] = store'[d][q]
      <4>1. CASE d = c
        <5>1. \A q \in Reached(F, c)' :
                 (\A p \in Reached(F, c)' : p <= q) => q = loop.rank
          <6>1. Reached(F, c)' \subseteq Nat /\ loop.rank \in Nat  BY <1>2 DEF Reached
          <6>. QED  BY <3>6, <6>1
        <5>. QED  BY <1>4, <3>6, <3>7, <4>1, <5>1
      <4>2. CASE d # c
        <5>1. \A q \in Reached(E, d) : q \in Rungs  BY DEF Reached
        <5>. QED  BY <1>4, <3>1, <3>5, <4>2, <5>1 DEF Surveyed, Traced
      <4>. QED  BY <4>1, <4>2
    <3>9. Traced(F)'  BY <3>8 DEF Traced
    <3>. QED  BY <1>6, <1>9, <3>3, <3>4, <3>9, ZenonT(60) DEF Surveyed
  <2>6. Progress(F)'
    <3>1. loop'.halt \notin References  BY <1>3, <1>9 DEF Progress
    <3>2. \A q \in Rungs : q < loop'.rank => Complete(store, F, q)'  BY <1>9, <2>3
    <3>3. loop'.plan \subseteq F[loop'.rank] /\ loop'.todo \subseteq F[loop'.rank] \cup Rejected
      BY <1>9, <2>4
    <3>4. loop'.halt = None => Surveyed(F)'  BY <1>9, <2>5
    <3>. QED  BY <2>2, <3>1, <3>2, <3>3, <3>4 DEF Progress
  <2>7. Following(F)'  BY <1>5, <2>2, <2>6 DEF Following, Reported
  <2>. QED  BY <2>7
<1>. QED  BY <1>7, <1>8, <1>9 DEF Accepted

-----------------------------------------------------------------------------
(* Moving on and stopping.                                                  *)

(* An untouched store keeps its ladder.                                     *)
LEMMA LadderKept ==
  ASSUME NEW E, Following(E), UNCHANGED <<spec, store>>
  PROVE  Ladder(spec, store, E)' /\ Ripe(store, E)'
BY DEF Following

(* A run that ends for another reason than the ladder's claims nothing.     *)
LEMMA EndFollowing ==
  ASSUME NEW E, Following(E), UNCHANGED <<spec, store>>, loop' = Resting,
         record'.stop \notin References
  PROVE  Following(E)'
<1>1. loop'.pc = "rest"  BY DEF Resting
<1>. QED  BY <1>1, LadderKept DEF Following, Reported

(* The entrants of a rung have a valid preflight.                           *)
LEMMA EntrantsAccepted ==
  ASSUME CampaignAssumption, NEW E, Following(E)
  PROVE  \A q \in Rungs : E[q] \subseteq Candidates \ Rejected
<1>1. PICK p, st : p = spec /\ st = store  OBVIOUS
<1>2. Ladder(p, st, E)  BY <1>1 DEF Following
<1>3. 0 \in Rungs /\ \A q \in Rungs : 0 <= q  BY CampaignAssumption DEF Rungs
<1>4. \A q \in Rungs : E[q] \subseteq E[0]  BY <1>2, <1>3, LadderNarrows
<1>. QED  BY <1>2, <1>4 DEF Ladder

(* The locals of the rung move, and none but rejected candidates are passed *)
(* over.                                                                    *)
LEMMA MoveFollowing ==
  ASSUME Inv, CampaignAssumption, NEW E, Following(E), UNCHANGED <<spec, store>>,
         loop.pc # "rest", record'.latest = record.latest, record'.stop = None,
         loop'.rank = loop.rank, loop'.evaluated = loop.evaluated, loop'.halt = loop.halt,
         loop'.todo \subseteq loop.todo, loop'.plan \subseteq loop.plan \cup (loop.todo \ Rejected),
         Open \ Rejected \subseteq Open', loop'.pc = "call" => loop'.now \in E[loop.rank],
         loop'.pc = "promote" => loop'.todo = {} /\ loop'.halt = None
  PROVE  Following(E)'
<1>1. Progress(E) /\ loop.rank \in Rungs  BY DEF Following, Inv, TypeOK, Loops
<1>2. E[loop.rank] \subseteq Candidates \ Rejected  BY <1>1, EntrantsAccepted
<1>3. \A c \in Candidates \ Rejected : c \in Open <=> c \in Open'  BY DEF Open
<1>4. \A c \in Candidates : Reached(E, c)' = Reached(E, c)
  <2>1. TAKE c \in Candidates
  <2>2. \A q \in Rungs : c \in E[q] => c \notin Rejected  BY EntrantsAccepted
  <2>. QED  BY <1>3, <2>2 DEF Reached
<1>5. E[loop.rank] \ Open' = E[loop.rank] \ Open  BY <1>2, <1>3
<1>6. loop.halt = None => Surveyed(E)'
  <2>1. SUFFICES ASSUME loop.halt = None PROVE Surveyed(E)'  OBVIOUS
  <2>2. Surveyed(E)  BY <1>1, <2>1 DEF Progress
  <2>3. Traced(E)'  BY <1>4, <2>2 DEF Surveyed, Traced
  <2>4. \A c \in E[loop.rank] \ Open : store[c][loop.rank] # None  BY <2>2 DEF Surveyed
  <2>5. loop.evaluated = {c \in E[loop.rank] \ Open : Valid(store[c][loop.rank])}
    BY <2>2 DEF Surveyed
  <2>. QED  BY <1>5, <2>3, <2>4, <2>5 DEF Surveyed
<1>7. Progress(E)'
  <2>1. \A q \in Rungs : q < loop'.rank => Complete(store, E, q)'  BY <1>1 DEF Progress, Complete
  <2>2. loop.plan \subseteq E[loop.rank] /\ loop.todo \subseteq E[loop.rank] \cup Rejected
        /\ loop.halt \notin References
    BY <1>1 DEF Progress
  <2>3. loop'.plan \subseteq E[loop.rank] /\ loop'.todo \subseteq E[loop.rank] \cup Rejected
    BY <2>2
  <2>. QED  BY <1>6, <2>1, <2>2, <2>3 DEF Progress
<1>8. record'.stop \notin References  BY CampaignAssumption DEF References, Stops
<1>. QED  BY <1>7, <1>8, LadderKept DEF Following, Reported

(* When a rung is surveyed and nobody enters a higher one, the evidence of  *)
(* the record is that of the ladder.                                        *)
LEMMA EvidenceSettled ==
  ASSUME Inv, CampaignAssumption, NEW E, Following(E), loop.pc # "rest",
         loop.todo = {}, loop.plan = {}, loop.halt = None,
         \A q \in Rungs : q > loop.rank => E[q] = {}
  PROVE  record.latest = EvidenceOf(store, E)
<1>1. Surveyed(E) /\ loop.rank \in Rungs /\ Rungs \subseteq Nat /\ 0 \in Rungs
  BY CampaignAssumption DEF Following, Progress, Inv, TypeOK, Loops, Rungs
<1>2. record.latest \in [Candidates -> Outcomes \cup {None}]
  BY DEF Inv, TypeOK, Records, Results
<1>3. ASSUME NEW c \in Candidates
      PROVE  record.latest[c] = EvidenceOf(store, E)[c]
  <2>. DEFINE rungs == {q \in Rungs : c \in E[q]}
  <2>1. Reached(E, c) = rungs
    <3>1. ASSUME NEW q \in Rungs, c \in E[q] PROVE q < loop.rank \/ q = loop.rank
      <4>1. ~(q > loop.rank)  BY <3>1
      <4>2. q \in Nat /\ loop.rank \in Nat  BY <1>1
      <4>. QED  BY <4>1, <4>2
    <3>2. c \notin Open  BY DEF Open
    <3>. QED  BY <3>1, <3>2 DEF Reached
  <2>2. CASE c \in Rejected
    <3>1. rungs = {}  BY <2>2, EntrantsAccepted
    <3>2. record.latest[c] = None  BY <1>1, <2>1, <3>1 DEF Surveyed, Traced
    <3>. QED  BY <2>2, <3>2 DEF EvidenceOf
  <2>3. CASE c \notin Rejected
    <3>1. rungs # {}  BY <1>1, <2>3 DEF Following, Ladder
    <3>2. \E r \in rungs : \A p \in rungs : p <= r
      <4>1. rungs \in SUBSET Rungs  OBVIOUS
      <4>. HIDE DEF rungs
      <4>. QED  BY <3>1, <4>1, HighestRung
    <3>. DEFINE last(r) == c \in E[r] /\ \A q \in Rungs : q > r => c \notin E[q]
                r == CHOOSE r \in Rungs : last(r)
    <3>3. \E q \in Rungs : last(q)
      <4>1. PICK q \in rungs : \A p \in rungs : p <= q  BY <3>2
      <4>2. ASSUME NEW p \in Rungs, p > q PROVE c \notin E[p]
        <5>1. ~(p <= q)  BY <1>1, <4>1, <4>2
        <5>. QED  BY <4>1, <5>1
      <4>. QED  BY <4>1, <4>2
    <3>4. r \in Rungs /\ last(r)
      <4>. HIDE DEF last
      <4>. QED  BY <3>3
    <3>5. r \in Reached(E, c)  BY <2>1, <3>4
    <3>6. \A p \in Reached(E, c) : p <= r
      <4>1. TAKE p \in Reached(E, c)
      <4>2. p \in Rungs /\ c \in E[p]  BY <4>1 DEF Reached
      <4>3. ~(p > r)  BY <3>4, <4>2
      <4>4. p \in Nat /\ r \in Nat  BY <1>1, <3>4, <4>2
      <4>. HIDE DEF r
      <4>. QED  BY <4>3, <4>4
    <3>7. record.latest[c] = store[c][r]
      <4>. HIDE DEF r
      <4>. QED  BY <1>1, <3>5, <3>6 DEF Surveyed, Traced
    <3>8. EvidenceOf(store, E)[c] = store[c][r]  BY <2>3 DEF EvidenceOf
    <3>. HIDE DEF r
    <3>. QED  BY <3>7, <3>8
  <2>. QED  BY <2>2, <2>3
<1>4. EvidenceOf(store, E) = [c \in Candidates |-> EvidenceOf(store, E)[c]]  BY DEF EvidenceOf
<1>. QED
  <2>. DEFINE e == EvidenceOf(store, E)
  <2>1. e = [c \in Candidates |-> e[c]] /\ \A c \in Candidates : record.latest[c] = e[c]
    BY <1>3, <1>4
  <2>. HIDE DEF e
  <2>2. record.latest = e  BY <1>2, <2>1
  <2>. QED  BY <2>2 DEF e

(* What _finalize makes of the evidence: the best and the front of its      *)
(* basis.                                                                   *)
LEMMA StopConcludes ==
  ASSUME CampaignAssumption, NEW rec \in Drafts, NEW reason \in Stops, Stop(rec, reason)
  PROVE  record'.latest = rec.latest /\ Concluded(record') /\ record'.stop = reason
<1>. DEFINE valid == {c \in Candidates : Valid(rec.latest[c])}
            basis == Basis(rec.latest, valid)
            front == Front(rec.latest, basis)
<1>1. PICK best \in Bests(rec.latest, basis) :
        record' = [rec EXCEPT
                     !.state = IF reason = "cancelled" THEN "CANCELLED" ELSE "COMPLETED",
                     !.stop = reason, !.best = best, !.pareto = front]
  BY DEF Stop
<1>2. /\ record'.latest = rec.latest /\ record'.stop = reason
      /\ record'.best = best /\ record'.pareto = front
  <2>. HIDE DEF front
  <2>. QED  BY <1>1 DEF Drafts
<1>3. valid # {} <=> basis # {}  BY DEF Basis
<1>4. IF valid = {} THEN best = None
      ELSE \A d \in basis : d = best \/ Before(rec.latest, best, d)
  <2>. HIDE DEF basis, valid
  <2>. QED  BY <1>1, <1>3 DEF Bests
<1>. QED  BY <1>2, <1>4, SMTT(30) DEF Concluded

-----------------------------------------------------------------------------
(* Scalar rungs and planning.                                               *)

(* A run that ends with its rung surveyed and nobody to go on reports what  *)
(* the ladder says.                                                         *)
LEMMA SettledFollowing ==
  ASSUME Inv, CampaignAssumption, NEW E, Following(E), UNCHANGED <<spec, store>>,
         loop.pc # "rest", loop.todo = {}, loop.plan = {}, loop.halt = None,
         \A q \in Rungs : q > loop.rank => E[q] = {},
         NEW rec \in Drafts, NEW reason \in Stops, Stop(rec, reason), rec.latest = record.latest
  PROVE  Following(E)'
<1>1. loop'.pc = "rest"  BY DEF Stop, Resting
<1>2. record'.latest = rec.latest /\ Concluded(record')  BY StopConcludes
<1>3. record'.latest = EvidenceOf(store, E)  BY <1>2, EvidenceSettled
<1>4. Reported(E)'  BY <1>2, <1>3 DEF Reported
<1>. QED  BY <1>1, <1>4, LadderKept DEF Following

(* The budget is no reason of the ladder.                                   *)
LEMMA BudgetReason ==
  ASSUME CampaignAssumption, Exhausted # None
  PROVE  Exhausted \in Stops \ References
BY DEF Exhausted, Stops, References

(* A stop for a reason that is not the ladder's.                            *)
LEMMA StopFollowing ==
  ASSUME CampaignAssumption, NEW E, Following(E), UNCHANGED <<spec, store>>,
         NEW rec \in Drafts, NEW reason \in Stops \ References, Stop(rec, reason)
  PROVE  Following(E)'
<1>1. loop' = Resting /\ record'.stop = reason  BY StopEffect
<1>. QED  BY <1>1, EndFollowing

(* The scalar loop.                                                         *)
LEMMA ConsiderFollowing ==
  ASSUME Inv, CampaignAssumption, NEW E, Following(E), Consider
  PROVE  \E F : Following(F)'
<1>1. PICK c \in First(loop.todo) :
        \/ cancel /\ Stop(record, "cancelled")
        \/ ~cancel /\ Exhausted # None /\ Stop(record, Exhausted)
        \/ /\ ~cancel /\ Exhausted = None
           /\ \/ /\ c \in Rejected
                 /\ Skip(c) /\ UNCHANGED record
              \/ /\ c \notin Rejected /\ Cached(c) # None
                 /\ Accept(record, c, Cached(c))
              \/ /\ c \notin Rejected /\ Cached(c) = None
                 /\ loop' = [loop EXCEPT !.pc = "call", !.now = c]
                 /\ UNCHANGED record
  BY DEF Consider
<1>2. loop.pc = "scan" /\ UNCHANGED <<spec, store, cancel, before, runs>>  BY DEF Consider
<1>3. c \in Candidates /\ c \in loop.todo /\ loop \in Loops /\ record \in Drafts
  BY RecordsAreDrafts DEF First, Inv, TypeOK, Loops
<1>4. loop.plan = {} /\ loop.due = {} /\ record.stop = None  BY <1>2 DEF Inv, Shape
<1>5. c \notin Rejected => c \in E[loop.rank]  BY <1>2, <1>3 DEF Following, Progress
<1>6. CASE Stop(record, "cancelled")
  <2>1. "cancelled" \in Stops \ References  BY DEF Stops, References
  <2>2. Following(E)'  BY <1>2, <1>3, <1>6, <2>1, StopFollowing
  <2>. QED  BY <2>2
<1>7. CASE Exhausted # None /\ Stop(record, Exhausted)
  <2>1. Exhausted \in Stops \ References  BY <1>7, BudgetReason
  <2>2. Following(E)'  BY <1>2, <1>3, <1>7, <2>1, StopFollowing
  <2>. QED  BY <2>2
<1>8. CASE c \in Rejected /\ Skip(c) /\ UNCHANGED record
  <2>1. /\ loop'.pc = "scan" /\ loop'.rank = loop.rank /\ loop'.halt = loop.halt
        /\ loop'.todo = loop.todo \ {c} /\ loop'.plan = loop.plan
        /\ loop'.evaluated = loop.evaluated
    BY <1>2, <1>3, <1>8 DEF Skip, Loops
  <2>2. Open \ Rejected \subseteq Open'  BY <1>8, <2>1 DEF Open
  <2>3. Following(E)'  BY <1>2, <1>4, <1>8, <2>1, <2>2, MoveFollowing
  <2>. QED  BY <2>3
<1>9. CASE Exhausted = None /\ c \notin Rejected /\ Cached(c) # None /\ Accept(record, c, Cached(c))
  <2>1. Cached(c) \in Outcomes /\ Cached(c) = store[c][loop.rank]
    BY <1>3, <1>9 DEF Cached, Inv, TypeOK, Stores, Loops
  <2>2. loop.rank > 0 /\ spec.high # None => record.high < spec.high  BY <1>9, BudgetLeft
  <2>3. Accepting(record, c, Cached(c))
    BY <1>2, <1>3, <1>4, <1>9, <2>1, <2>2 DEF Accepting, Known
  <2>. QED  BY <1>3, <1>5, <1>9, <2>1, <2>3, AcceptFollowing
<1>10. CASE /\ c \notin Rejected /\ UNCHANGED record
            /\ loop' = [loop EXCEPT !.pc = "call", !.now = c]
  <2>1. /\ loop'.now = c /\ loop'.rank = loop.rank /\ loop'.halt = loop.halt
        /\ loop'.todo = loop.todo /\ loop'.plan = loop.plan
        /\ loop'.evaluated = loop.evaluated
    BY <1>3, <1>10 DEF Loops
  <2>2. Open \ Rejected \subseteq Open'  BY <2>1 DEF Open
  <2>3. Following(E)'  BY <1>2, <1>4, <1>5, <1>10, <2>1, <2>2, MoveFollowing
  <2>. QED  BY <2>3
<1>. QED  BY <1>1, <1>6, <1>7, <1>8, <1>9, <1>10

(* The scalar evaluator has answered.                                       *)
LEMMA EvaluatedFollowing ==
  ASSUME Inv, CampaignAssumption, NEW E, Following(E), Evaluated
  PROVE  \E F : Following(F)'
<1>1. PICK o \in Outcomes : /\ store' = [store EXCEPT ![loop.now][loop.rank] = o]
                            /\ Accept(Spent(record, o.cost), loop.now, o)
  BY DEF Evaluated
<1>. DEFINE rec == Spent(record, o.cost)
<1>2. Accepting(rec, loop.now, o) /\ loop.now \in Candidates
  BY <1>1, EvaluatedAccepts
<1>3. loop.now \in E[loop.rank]  BY DEF Evaluated, Following, Progress
<1>. HIDE DEF rec
<1>. QED  BY <1>2, <1>3, AcceptFollowing

(* The batched path plans a rung.                                           *)
LEMMA PlanFollowing ==
  ASSUME Inv, CampaignAssumption, NEW E, Following(E), Plan
  PROVE  Following(E)'
<1>1. /\ loop.pc = "batch" /\ loop.todo # {} /\ loop \in Loops
      /\ UNCHANGED <<spec, store, record, cancel, before, runs>>
  BY DEF Plan, Inv, TypeOK
<1>2. PICK c \in First(loop.todo) :
        \/ cancel /\ loop' = [loop EXCEPT !.todo = {}, !.halt = "cancelled"]
        \/ ~cancel /\ Exhausted # None /\ loop' = [loop EXCEPT !.todo = {}, !.halt = Exhausted]
        \/ /\ ~cancel /\ Exhausted = None
           /\ IF c \in Rejected THEN Skip(c)
              ELSE loop' = [loop EXCEPT !.todo = @ \ {c}, !.plan = @ \cup {c},
                               !.due = IF Cached(c) = None THEN @ \cup {c} ELSE @]
  BY DEF Plan
<1>3. Progress(E) /\ c \in loop.todo /\ record.stop = None /\ None \notin Stops
  BY <1>1, CampaignAssumption DEF First, Inv, Shape, Following
<1>4. ASSUME NEW reason \in Stops \ References,
             loop' = [loop EXCEPT !.todo = {}, !.halt = reason]
      PROVE  Following(E)'
  <2>1. loop'.todo = {} /\ loop'.halt = reason /\ loop'.pc = "batch"
        /\ loop'.rank = loop.rank /\ loop'.plan = loop.plan
    BY <1>1, <1>4 DEF Loops
  <2>2. reason # None /\ reason \notin References  BY <1>3, <1>4
  <2>3. Progress(E)'  BY <1>1, <1>3, <2>1, <2>2 DEF Progress, Complete
  <2>. QED  BY <1>1, <1>3, <2>3, LadderKept DEF Following, Reported, References, Stops
<1>5. CASE loop' = [loop EXCEPT !.todo = {}, !.halt = "cancelled"]
  <2>1. "cancelled" \in Stops \ References  BY DEF Stops, References
  <2>. QED  BY <1>4, <1>5, <2>1
<1>6. CASE Exhausted # None /\ loop' = [loop EXCEPT !.todo = {}, !.halt = Exhausted]
  BY <1>4, <1>6, BudgetReason
<1>7. CASE c \in Rejected /\ Skip(c)
  <2>1. /\ loop'.pc = "batch" /\ loop'.rank = loop.rank /\ loop'.halt = loop.halt
        /\ loop'.todo = loop.todo \ {c} /\ loop'.plan = loop.plan
        /\ loop'.evaluated = loop.evaluated
    BY <1>1, <1>7 DEF Skip, Loops
  <2>2. Open \ Rejected \subseteq Open'  BY <1>7, <2>1 DEF Open
  <2>. QED  BY <1>1, <1>3, <2>1, <2>2, MoveFollowing
<1>8. CASE /\ c \notin Rejected
           /\ loop' = [loop EXCEPT !.todo = @ \ {c}, !.plan = @ \cup {c},
                            !.due = IF Cached(c) = None THEN @ \cup {c} ELSE @]
  <2>. DEFINE due == IF Cached(c) = None THEN loop.due \cup {c} ELSE loop.due
  <2>1. loop' = [loop EXCEPT !.todo = @ \ {c}, !.plan = @ \cup {c}, !.due = due]
    BY <1>1, <1>8 DEF Loops
  <2>. HIDE DEF due
  <2>2. /\ loop'.pc = "batch" /\ loop'.rank = loop.rank /\ loop'.halt = loop.halt
        /\ loop'.todo = loop.todo \ {c} /\ loop'.plan = loop.plan \cup {c}
        /\ loop'.evaluated = loop.evaluated
    BY <1>1, <2>1 DEF Loops
  <2>3. Open \ Rejected \subseteq Open'  BY <2>2 DEF Open
  <2>4. loop'.plan \subseteq loop.plan \cup (loop.todo \ Rejected)  BY <1>3, <1>8, <2>2
  <2>. QED  BY <1>1, <1>3, <2>2, <2>3, <2>4, MoveFollowing
<1>. QED  BY <1>2, <1>5, <1>6, <1>7, <1>8

-----------------------------------------------------------------------------
(* Batched rungs and selection.                                             *)

(* A chunk of a batch comes back.                                           *)
LEMMA ChunkFollowing ==
  ASSUME Inv, CampaignAssumption, NEW E, Following(E), Chunk
  PROVE  Following(E)'
<1>1. /\ loop.pc = "batch" /\ loop.todo = {} /\ loop \in Loops /\ record.stop = None
      /\ UNCHANGED <<spec, store, record, cancel, before, runs>>
  BY DEF Chunk, Inv, TypeOK, Shape
<1>2. /\ loop'.pc = loop.pc /\ loop'.rank = loop.rank /\ loop'.todo = loop.todo
      /\ loop'.plan = loop.plan /\ loop'.halt = loop.halt /\ loop'.evaluated = loop.evaluated
  <2>1. PICK chunk \in SUBSET Candidates, rows \in Results, cost \in Nat :
          loop' = [loop EXCEPT !.due = @ \ chunk, !.rows = rows, !.rowCost = cost]
    BY ChunkEffect
  <2>. QED  BY <1>1, <2>1 DEF Loops
<1>3. Open' = Open  BY <1>2 DEF Open
<1>. QED  BY <1>1, <1>2, <1>3, MoveFollowing, SMTT(30)

(* The operations of a batched rung.                                        *)
LEMMA OperateFollowing ==
  ASSUME Inv, CampaignAssumption, NEW E, Following(E), Operate
  PROVE  \E F : Following(F)'
<1>1. PICK c \in loop.plan :
        \/ \E rec : \E o \in Outcomes : Accepting(rec, c, o)
        \/ /\ Cached(c) = None /\ loop' = [loop EXCEPT !.pc = "call", !.now = c]
           /\ UNCHANGED <<store, record>>
  BY OperateAccepts
<1>2. loop.pc = "batch" /\ spec' = spec /\ loop \in Loops /\ record.stop = None
  BY DEF Operate, Inv, TypeOK, Shape
<1>3. c \in Candidates /\ c \in E[loop.rank]  BY <1>2 DEF Loops, Following, Progress
<1>4. CASE \E rec : \E o \in Outcomes : Accepting(rec, c, o)  BY <1>3, <1>4, AcceptFollowing
<1>5. CASE loop' = [loop EXCEPT !.pc = "call", !.now = c] /\ UNCHANGED <<store, record>>
  <2>1. /\ loop'.now = c /\ loop'.rank = loop.rank /\ loop'.halt = loop.halt
        /\ loop'.todo = loop.todo /\ loop'.plan = loop.plan
        /\ loop'.evaluated = loop.evaluated
    BY <1>2, <1>5 DEF Loops
  <2>2. Open' = Open  BY <2>1 DEF Open
  <2>3. Following(E)'  BY <1>2, <1>3, <1>5, <2>1, <2>2, MoveFollowing
  <2>. QED  BY <2>3
<1>. QED  BY <1>1, <1>4, <1>5

(* A planning that was cut short ends the run.                              *)
LEMMA HaltedFollowing ==
  ASSUME Inv, CampaignAssumption, NEW E, Following(E), Halted
  PROVE  Following(E)'
<1>1. /\ loop.pc = "batch" /\ loop.halt # None /\ Stop(record, loop.halt)
      /\ UNCHANGED <<spec, store, cancel, before, runs>>
  BY DEF Halted
<1>2. loop.halt \in Stops \ References /\ record \in Drafts
  BY <1>1, RecordsAreDrafts DEF Inv, TypeOK, Loops, Following, Progress
<1>. QED  BY <1>1, <1>2, StopFollowing

(* The rung is over.  Without a valid result nobody goes on, on the top     *)
(* rung nobody can; otherwise the survivors are asked.                      *)
LEMMA SelectFollowing ==
  ASSUME Inv, CampaignAssumption, NEW E, Following(E), Select
  PROVE  Following(E)'
<1>. DEFINE S == loop.evaluated
            at == record.latest
            chosen == Selected(spec, at, S)
            rec == [record EXCEPT !.state = "SELECTING"]
            status == [d \in Candidates |-> IF d \in chosen THEN "retained" ELSE rec.status[d]]
            kept == [rec EXCEPT !.status = status]
<1>1. /\ loop.pc \in {"scan", "batch"} /\ loop.todo = {} /\ loop.plan = {} /\ loop.halt = None
      /\ UNCHANGED <<spec, store, cancel, before, runs>>
  BY DEF Select
<1>2. record \in Records /\ loop \in Loops /\ record.stop = None
      /\ loop.rank \in Rungs /\ Rungs \subseteq Nat /\ Rungs = 0 .. Top /\ Top \in Nat
  BY <1>1, CampaignAssumption DEF Inv, TypeOK, Loops, Shape, Rungs
<1>3. rec \in Drafts /\ rec.latest = record.latest /\ rec.stop = None
  BY <1>2, ZenonT(60) DEF Records, Drafts
<1>4. kept \in Drafts /\ kept.latest = record.latest
  <2>1. status \in [Candidates -> {"pending", "preflight-invalid", "promoted", "retained"}
                                  \cup Verdicts]
    <3>. HIDE DEF rec, chosen
    <3>. QED  BY <1>3 DEF Drafts
  <2>. HIDE DEF status, rec
  <2>. QED  BY <1>3, <2>1 DEF Drafts
<1>5. \/ S = {} /\ Stop(rec, "no-valid-candidates")
      \/ Stop(rec, "target-feasibility")
      \/ Stop(rec, "no-improvement")
      \/ LastRung /\ Stop(kept, "completed")
      \/ /\ record' = rec /\ loop'.pc = "promote" /\ loop'.rank = loop.rank
         /\ loop'.todo = loop.todo /\ loop'.plan = loop.plan /\ loop'.halt = loop.halt
         /\ loop'.evaluated = loop.evaluated
  BY <1>2, ZenonT(60) DEF Select, Loops
<1>. HIDE DEF rec, kept
<1>6. CASE S = {} /\ Stop(rec, "no-valid-candidates")
  <2>1. loop.evaluated = {c \in E[loop.rank] \ Open : Valid(store[c][loop.rank])}
    BY <1>1 DEF Following, Progress, Surveyed
  <2>2. {c \in E[loop.rank] : Valid(store[c][loop.rank])} = {}
    BY <1>1, <1>6, <2>1 DEF Open
  <2>3. ASSUME NEW q \in Rungs, q > loop.rank PROVE E[q] = {}
    <3>1. loop.rank + 1 \in Rungs /\ loop.rank + 1 <= q /\ loop.rank + 1 - 1 = loop.rank
          /\ loop.rank + 1 # 0
      BY <1>2, <2>3
    <3>2. E[loop.rank + 1] = Climbers(spec, loop.rank, LevelOf(store, loop.rank), E[loop.rank])
      <4>1. PICK n : n = loop.rank + 1  OBVIOUS
      <4>2. n \in Rungs \ {0} /\ n - 1 = loop.rank  BY <1>2, <3>1, <4>1
      <4>3. E[n] = Climbers(spec, n - 1, LevelOf(store, n - 1), E[n - 1])
        BY <4>2 DEF Following, Ladder
      <4>. QED  BY <4>1, <4>2, <4>3
    <3>3. E[loop.rank] \in SUBSET Candidates  BY <1>2 DEF Following, Ladder
    <3>4. {c \in E[loop.rank] : Valid(LevelOf(store, loop.rank)[c])} = {}
      BY <2>2, <3>3 DEF LevelOf
    <3>5. E[loop.rank + 1] = {}  BY <3>2, <3>4 DEF Climbers
    <3>6. PICK p, st : p = spec /\ st = store  OBVIOUS
    <3>7. Ladder(p, st, E)  BY <3>6 DEF Following
    <3>. QED  BY <3>1, <3>5, <3>7, LadderNarrows
  <2>4. "no-valid-candidates" \in Stops  BY DEF Stops
  <2>. QED  BY <1>1, <1>3, <1>6, <2>3, <2>4, SettledFollowing
<1>7. CASE Stop(rec, "target-feasibility") \/ Stop(rec, "no-improvement")
  <2>1. {"target-feasibility", "no-improvement"} \subseteq Stops \ References
    BY DEF Stops, References
  <2>. QED  BY <1>1, <1>3, <1>7, <2>1, StopFollowing
<1>8. CASE LastRung /\ Stop(kept, "completed")
  <2>1. \A q \in Rungs : ~(q > loop.rank)  BY <1>2, <1>8 DEF LastRung
  <2>2. "completed" \in Stops  BY DEF Stops
  <2>. QED  BY <1>1, <1>4, <1>8, <2>1, <2>2, SettledFollowing
<1>9. CASE /\ record' = rec /\ loop'.pc = "promote" /\ loop'.rank = loop.rank
           /\ loop'.todo = loop.todo /\ loop'.plan = loop.plan /\ loop'.halt = loop.halt
           /\ loop'.evaluated = loop.evaluated
  <2>1. Open' = Open  BY <1>9 DEF Open
  <2>. QED  BY <1>1, <1>3, <1>9, <2>1, MoveFollowing
<1>. QED  BY <1>5, <1>6, <1>7, <1>8, <1>9

-----------------------------------------------------------------------------
(* Promotion, the start of a run, and the theorems.                         *)

(* The survivors that asked for it are the entrants of the next rung, or    *)
(* there are none and the run is over.                                      *)
LEMMA PromoteFollowing ==
  ASSUME Inv, CampaignAssumption, NEW E, Following(E), Promote
  PROVE  Following(E)'
<1>. DEFINE at == record.latest
            chosen == Selected(spec, at, loop.evaluated)
            survivors == Survivors(spec, at, chosen)
            advanced == {c \in survivors : Escalates(spec, loop.rank, at[c])}
            status == [c \in Candidates |-> IF c \in advanced THEN "promoted"
                                            ELSE IF c \in survivors THEN "retained"
                                            ELSE record.status[c]]
            marked == [record EXCEPT !.state = "PROMOTING", !.status = status]
<1>1. /\ loop.pc = "promote" /\ UNCHANGED <<spec, store, cancel, before, runs>>
      /\ record \in Records /\ record \in Drafts /\ loop \in Loops
      /\ record.stop = None /\ loop.plan = {} /\ loop.rank < Top
  BY RecordsAreDrafts DEF Promote, Inv, TypeOK, Shape
<1>2. PICK r : r = loop.rank  OBVIOUS
<1>3. r \in Nat /\ r \in Rungs /\ r + 1 \in Rungs /\ r + 1 # 0 /\ r + 1 - 1 = r /\ Rungs \subseteq Nat
  <2>1. Top \in Nat /\ Rungs = 0 .. Top /\ r \in Rungs
    BY <1>1, <1>2, CampaignAssumption DEF Loops, Rungs
  <2>. QED  BY <1>1, <1>2, <2>1
<1>4. \/ Fail(record)
      \/ advanced = {} /\ Stop(marked, "promotion-halted")
      \/ /\ record' = [marked EXCEPT !.state = "EVALUATING"]
            /\ loop' = [Resting EXCEPT !.pc = "scan", !.batch = loop.batch,
                          !.rank = r + 1, !.todo = advanced,
                          !.place = PlaceOf(spec, at, chosen),
                          !.bestScore = loop.bestScore, !.stale = loop.stale]
  BY <1>2 DEF Promote
<1>5. CASE Fail(record)
  <2>1. loop' = Resting /\ record'.stop = "failed"  BY <1>1, <1>5, FailEffect
  <2>2. record'.stop \notin References  BY <2>1 DEF References
  <2>. QED  BY <1>1, <2>1, <2>2, EndFollowing
<1>6. loop.todo = {} /\ loop.halt = None /\ Surveyed(E)
  BY <1>1 DEF Inv, Shape, Following, Progress
<1>7. /\ loop.evaluated = {c \in E[r] : Valid(store[c][r])}
      /\ Agree(at, LevelOf(store, r), loop.evaluated) /\ E[r] \in SUBSET Candidates
  <2>1. E[r] \in SUBSET Candidates  BY <1>3 DEF Following, Ladder
  <2>2. loop.evaluated = {c \in E[r] \ Open : Valid(store[c][r])} /\ Open = {}
    BY <1>1, <1>2, <1>6 DEF Surveyed, Open
  <2>3. \A c \in loop.evaluated : c \in Candidates /\ at[c] = store[c][r]
    BY <1>1, <1>2 DEF Inv, Evaluations, Loops
  <2>. QED  BY <2>1, <2>2, <2>3 DEF Agree, LevelOf
<1>8. E[r + 1] = advanced
  <2>1. PICK level, p, q, latest, valid, S :
          /\ level = LevelOf(store, r) /\ p = spec /\ q = r + 1
          /\ latest = at /\ valid = loop.evaluated /\ S = E[r]
    OBVIOUS
  <2>2. q \in Rungs \ {0} /\ q - 1 = r  BY <1>3, <2>1
  <2>3. E[q] = Climbers(p, r, level, S)
    <3>1. E[q] = Climbers(spec, q - 1, LevelOf(store, q - 1), E[q - 1])
      BY <2>2 DEF Following, Ladder
    <3>. QED  BY <2>1, <2>2, <3>1
  <2>4. /\ S \in SUBSET Candidates /\ valid \in SUBSET S
        /\ \A c \in S : c \in valid <=> Valid(level[c])
    BY <1>7, <2>1 DEF LevelOf
  <2>5. Agree(latest, level, valid)  BY <1>7, <2>1
  <2>6. Climbers(p, r, level, S) =
          {c \in Survivors(p, latest, Selected(p, latest, valid)) : Escalates(p, r, latest[c])}
    BY <2>4, <2>5, ClimbersAgree
  <2>7. advanced = {c \in Survivors(p, latest, Selected(p, latest, valid)) :
                      Escalates(p, r, latest[c])}
    BY <1>2, <2>1
  <2>. HIDE DEF advanced
  <2>. QED  BY <2>1, <2>3, <2>6, <2>7
<1>. HIDE DEF advanced
<1>9. CASE advanced = {} /\ Stop(marked, "promotion-halted")
  <2>1. marked \in Drafts /\ marked.latest = record.latest
    <3>1. status \in [Candidates -> {"pending", "preflight-invalid", "promoted", "retained"}
                                    \cup Verdicts]
      <4>. HIDE DEF survivors
      <4>. QED  BY <1>1 DEF Records
    <3>. HIDE DEF status
    <3>2. record \in Drafts  BY <1>1
    <3>3. marked \in Drafts  BY <3>1, <3>2 DEF Drafts
    <3>4. marked.latest = record.latest  BY <3>2 DEF Drafts
    <3>. QED  BY <3>3, <3>4
  <2>2. ASSUME NEW q \in Rungs, q > loop.rank PROVE E[q] = {}
    <3>1. q \in Nat /\ r + 1 <= q  BY <1>2, <1>3, <2>2
    <3>2. PICK p, st : p = spec /\ st = store  OBVIOUS
    <3>3. Ladder(p, st, E)  BY <3>2 DEF Following
    <3>. QED  BY <1>3, <1>8, <1>9, <3>1, <3>3, LadderNarrows
  <2>3. "promotion-halted" \in Stops  BY DEF Stops
  <2>. HIDE DEF marked
  <2>. QED  BY <1>1, <1>6, <1>9, <2>1, <2>2, <2>3, SettledFollowing
<1>10. CASE /\ record' = [marked EXCEPT !.state = "EVALUATING"]
            /\ loop' = [Resting EXCEPT !.pc = "scan", !.batch = loop.batch,
                          !.rank = r + 1, !.todo = advanced,
                          !.place = PlaceOf(spec, at, chosen),
                          !.bestScore = loop.bestScore, !.stale = loop.stale]
  <2>1. /\ loop'.pc = "scan" /\ loop'.rank = r + 1 /\ loop'.todo = advanced
        /\ loop'.plan = {} /\ loop'.halt = None /\ loop'.evaluated = {}
    <3>. HIDE DEF chosen
    <3>. QED  BY <1>10 DEF Resting
  <2>2. record'.latest = record.latest /\ record'.stop = None
    <3>. HIDE DEF status
    <3>. QED  BY <1>1, <1>10 DEF Records
  <2>3. Open = {} /\ Open' = E[r + 1]  BY <1>1, <1>6, <1>8, <2>1 DEF Open
  <2>4. ASSUME NEW q \in Rungs, q < r + 1 PROVE Complete(store, E, q)'
    <3>1. q \in Nat  BY <1>3
    <3>2. CASE q = r
      <4>1. \A c \in E[r] : store[c][r] # None  BY <1>2, <1>6, <2>3 DEF Surveyed
      <4>. QED  BY <1>1, <3>2, <4>1 DEF Complete
    <3>3. CASE q < r
      <4>1. Complete(store, E, q)  BY <1>1, <1>2, <3>3 DEF Following, Progress
      <4>. QED  BY <1>1, <4>1 DEF Complete
    <3>. QED  BY <1>3, <2>4, <3>1, <3>2, <3>3
  <2>5. ASSUME NEW c \in Candidates PROVE Reached(E, c)' = Reached(E, c)
    <3>1. \A q \in Rungs : q < r \/ q = r <=> q < r + 1
      <4>1. TAKE q \in Rungs
      <4>2. q \in Nat  BY <1>3
      <4>. QED  BY <1>3, <4>2
    <3>2. Reached(E, c)' = {q \in Rungs : c \in E[q] /\ q < r + 1}
      BY <2>1, <2>3 DEF Reached
    <3>3. Reached(E, c) = {q \in Rungs : c \in E[q] /\ (q < r \/ q = r)}
      BY <1>2, <2>3 DEF Reached
    <3>. QED  BY <3>1, <3>2, <3>3
  <2>6. Traced(E)'
    <3>1. Traced(E)  BY <1>6 DEF Surveyed
    <3>. QED  BY <1>1, <2>2, <2>5, <3>1 DEF Traced
  <2>7. Surveyed(E)'  BY <2>1, <2>3, <2>6 DEF Surveyed
  <2>8. None \notin References  BY CampaignAssumption DEF References, Stops
  <2>9. Progress(E)'  BY <1>8, <2>1, <2>4, <2>7, <2>8 DEF Progress
  <2>. QED  BY <1>1, <2>2, <2>8, <2>9, LadderKept DEF Following, Reported
<1>. QED  BY <1>4, <1>5, <1>9, <1>10

(* A run starts at the foot of the ladder its store has.                    *)
LEMMA StartFollowing ==
  ASSUME Inv, CampaignAssumption, NEW E, Following(E), Start
  PROVE  Following(E)'
<1>1. loop.pc = "rest" /\ UNCHANGED <<spec, store>>  BY DEF Start
<1>2. /\ 0 \in Rungs /\ Rungs \subseteq Nat /\ None \notin References
      /\ E[0] = Candidates \ Rejected /\ E \in [Rungs -> SUBSET Candidates]
  BY CampaignAssumption DEF Rungs, References, Stops, Following, Ladder
<1>3. CASE Fail(NewRecord)
  <2>1. loop' = Resting /\ record'.stop = "failed"  BY <1>3, NewRecordTyped, FailEffect
  <2>2. record'.stop \notin References  BY <2>1 DEF References
  <2>. QED  BY <1>1, <2>1, <2>2, EndFollowing
<1>4. ASSUME NEW batched \in BOOLEAN, record' = NewRecord,
             loop' = [Resting EXCEPT !.batch = batched, !.todo = Candidates,
                        !.pc = IF batched /\ spec.cost = None THEN "batch" ELSE "scan"]
      PROVE  Following(E)'
  <2>1. /\ loop'.pc \in {"batch", "scan"} /\ loop'.rank = 0 /\ loop'.todo = Candidates
        /\ loop'.plan = {} /\ loop'.halt = None /\ loop'.evaluated = {}
    BY <1>4 DEF Resting
  <2>2. Open' = Candidates  BY <2>1 DEF Open
  <2>3. record'.stop = None /\ \A c \in Candidates : record'.latest[c] = None
    BY <1>4 DEF NewRecord, Empty
  <2>4. \A c \in Candidates : Reached(E, c)' = {}
    <3>1. \A q \in Rungs : ~(q < 0)  BY <1>2, NatOrder, Zenon
    <3>. QED  BY <2>1, <2>2, <3>1 DEF Reached
  <2>5. Traced(E)'  BY <2>3, <2>4 DEF Traced
  <2>6. Surveyed(E)'  BY <1>2, <2>1, <2>2, <2>5 DEF Surveyed
  <2>7. Progress(E)'
    <3>1. \A q \in Rungs : ~(q < loop'.rank)
      <4>1. \A q \in Rungs : ~(q < 0)  BY <1>2, NatOrder, Zenon
      <4>. QED  BY <2>1, <4>1
    <3>. QED  BY <1>2, <2>1, <2>6, <3>1, ZenonT(60) DEF Progress
  <2>. QED  BY <1>1, <1>2, <2>3, <2>7, LadderKept DEF Following, Reported
<1>. QED  BY <1>3, <1>4 DEF Start

(* Every step follows the ladder.                                           *)
LEMMA FollowingStep ==
  ASSUME Inv, CampaignAssumption, NEW E, Following(E), [Next]_vars
  PROVE  \E F : Following(F)'
<1>1. ASSUME Interrupt PROVE Following(E)'
  <2>1. loop' = Resting /\ UNCHANGED <<spec, store>> /\ record'.stop = None
    BY <1>1 DEF Interrupt, NewRecord
  <2>2. record'.stop \notin References  BY <2>1, CampaignAssumption DEF References, Stops
  <2>. QED  BY <2>1, <2>2, EndFollowing
<1>2. ASSUME Cancel \/ Rest \/ UNCHANGED vars PROVE Following(E)'
  <2>1. UNCHANGED <<spec, store, record, loop>>  BY <1>2 DEF Cancel, Rest, vars
  <2>2. /\ Open' = Open
        /\ \A c : Reached(E, c)' = Reached(E, c)
    BY <2>1 DEF Open, Reached
  <2>3. Progress(E) => Progress(E)'
    BY <2>1, <2>2 DEF Progress, Surveyed, Traced, Complete
  <2>4. Reported(E)'  BY <2>1 DEF Following, Reported
  <2>. QED  BY <2>1, <2>3, <2>4, LadderKept DEF Following
<1>3. ASSUME Step PROVE \E F : Following(F)'
  BY <1>3, ConsiderFollowing, EvaluatedFollowing, PlanFollowing, ChunkFollowing,
     OperateFollowing, HaltedFollowing, SelectFollowing, PromoteFollowing DEF Step
<1>. QED  BY <1>1, <1>2, <1>3, StartFollowing DEF Next

(* It holds before the first run: nothing is stored.                        *)
LEMMA InitFollowing ==
  ASSUME CampaignAssumption, Init
  PROVE  \E E : Following(E)
<1>1. PICK p, st : p = spec /\ st = store  OBVIOUS
<1>2. PICK E : Ladder(p, st, E)  BY LadderExists
<1>3. \A c \in Candidates, r \in Rungs : store[c][r] = None  BY DEF Init
<1>4. Ladder(spec, store, E) /\ Ripe(store, E)  BY <1>1, <1>2, <1>3 DEF Ripe
<1>5. loop.pc = "rest" /\ record.stop = None  BY DEF Init, Resting, NewRecord
<1>6. Reported(E)  BY <1>5, CampaignAssumption DEF Reported, References, Stops
<1>7. Following(E)  BY <1>4, <1>5, <1>6 DEF Following
<1>. QED  BY <1>7

(* Every reachable state has a ladder it follows.                           *)
LEMMA FollowingAlways == Spec => [](\E E : Following(E))
<1>1. Init => \E E : Following(E)  BY CampaignAssumption, InitFollowing
<1>2. Inv /\ (\E E : Following(E)) /\ [Next]_vars => (\E E : Following(E))'
  BY CampaignAssumption, FollowingStep
<1>. QED  BY <1>1, <1>2, InvAlways, PTL DEF Spec

(* With weighted selection no rung is spent on a design that violates a     *)
(* constraint while one of the rung below satisfies them all: nothing is    *)
(* stored above a rung before it is complete, so that the comparison was    *)
(* with everybody, in whatever runs the results were obtained.              *)
THEOREM FeasiblePromotedFirst == Spec => []FeasibleFirst
<1>1. ASSUME NEW E, Following(E) PROVE FeasibleFirst
  <2>1. SUFFICES ASSUME NEW c \in Candidates, NEW d \in Candidates, NEW r \in Rungs \ {0},
                        ~spec.pareto, store[c][r] # None, Feasible(store[d][r - 1])
                 PROVE  Feasible(store[c][r - 1])
    BY DEF FeasibleFirst
  <2>2. PICK p, q, at : p = spec /\ q = r - 1 /\ at = LevelOf(store, r - 1)  OBVIOUS
  <2>3. q \in Rungs /\ at[c] = store[c][q] /\ at[d] = store[d][q]
    BY <2>2, CampaignAssumption, RungBelow DEF LevelOf
  <2>. DEFINE valid == {e \in E[q] : Valid(at[e])}
              feasible == {e \in valid : Feasible(at[e])}
              chosen == Selected(p, at, valid)
  <2>4. c \in Climbers(p, q, at, E[q]) /\ E[q] \in SUBSET Candidates
    BY <1>1, <2>1, <2>2, <2>3 DEF Following, Ripe, Ladder
  <2>5. d \in E[q]  BY <1>1, <2>1, <2>2, <2>3 DEF Following, Ripe, Feasible
  <2>6. d \in feasible  BY <2>1, <2>2, <2>3, <2>5 DEF Feasible, Valid
  <2>7. chosen = feasible  BY <2>1, <2>2, <2>6 DEF Selected, Basis
  <2>8. Survivors(p, at, chosen) \subseteq chosen
    <3>1. chosen \in SUBSET Candidates  BY <2>4, <2>7
    <3>. HIDE DEF chosen
    <3>. QED  BY <3>1, CampaignAssumption, SurvivorsIn
  <2>9. c \in Survivors(p, at, chosen)
    <3>. HIDE DEF chosen, valid
    <3>. QED  BY <2>4 DEF Climbers, chosen, valid
  <2>. QED  BY <2>2, <2>3, <2>7, <2>8, <2>9
<1>2. (\E E : Following(E)) => FeasibleFirst  BY <1>1
<1>. QED  BY <1>2, FollowingAlways, PTL

(* The record of a run that no budget stopped is a function of the results  *)
(* alone: of the store and the policy, not of how many runs it took, in     *)
(* which order the results came, or which of them failed on the way.        *)
THEOREM OutcomeDetermined == Spec => []OutcomeIsReference
<1>1. ASSUME NEW E, Following(E) PROVE OutcomeIsReference
  <2>1. \A r \in Rungs : Entrants[r] = E[r]
    BY <1>1, CampaignAssumption, EntrantsLadder DEF Following
  <2>2. [r \in Rungs |-> Entrants[r]] = E
    <3>1. E \in [Rungs -> SUBSET Candidates]  BY <1>1 DEF Following, Ladder
    <3>. QED  BY <2>1, <3>1
  <2>3. Evidence = EvidenceOf(store, E)
    <3>. DEFINE entrants == [r \in Rungs |-> Entrants[r]]
    <3>1. Evidence = EvidenceOf(store, entrants)  BY DEF Evidence, EvidenceOf
    <3>. HIDE DEF entrants
    <3>2. entrants = E  BY <2>2 DEF entrants
    <3>. QED  BY <3>1, <3>2
  <2>4. SUFFICES ASSUME record.stop \in References
                 PROVE  /\ record.latest = Evidence
                        /\ LET valid == {c \in Candidates : Valid(Evidence[c])}
                               basis == Basis(Evidence, valid)
                           IN /\ record.pareto = Front(Evidence, basis)
                              /\ IF valid = {} THEN record.best = None
                                 ELSE \A d \in basis :
                                        d = record.best \/ Before(Evidence, record.best, d)
    BY DEF OutcomeIsReference, References
  <2>5. record.latest = Evidence /\ Concluded(record)
    BY <1>1, <2>3, <2>4 DEF Following, Reported
  <2>. QED  BY <2>5 DEF Concluded
<1>2. (\E E : Following(E)) => OutcomeIsReference  BY <1>1
<1>. QED  BY <1>2, FollowingAlways, PTL
=============================================================================
