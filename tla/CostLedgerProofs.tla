--------------------------- MODULE CostLedgerProofs ---------------------------
(***************************************************************************)
(* What every call of the cost ledger preserves, whoever makes it.         *)
(***************************************************************************)
EXTENDS CostLedger, SumLemmas

LedgerInv == LedgerTypeOK /\ LedgerBalanced /\ BudgetHeld

(* A settled cost, or 0, is a natural for every job.                        *)
LEMMA ChargedType == LedgerTypeOK => Charged \in [Jobs -> Nat]
BY LedgerAssumption DEF LedgerTypeOK, Charged

(* A reservation that is held is counted in _reserved, so the max(0, _) of  *)
(* settle and release never bites.                                          *)
LEMMA ReservedCounts ==
  ASSUME LedgerTypeOK, LedgerBalanced, NEW j \in reservations
  PROVE  /\ Planned[j] \in Nat
         /\ AtLeastZero(reserved - Planned[j]) = reserved - Planned[j]
         /\ reserved - Planned[j] \in Nat
         /\ reserved - Planned[j] = SumFunctionOnSet(Planned, reservations \ {j})
<1>. USE LedgerAssumption
<1>1. /\ reservations \in SUBSET Jobs /\ IsFiniteSet(reservations)
      /\ reservations \ {j} \in SUBSET Jobs /\ IsFiniteSet(reservations \ {j})
  BY FS_Subset DEF LedgerTypeOK
<1>2. Planned \in [Jobs -> Int] /\ Planned[j] \in Nat  BY <1>1
<1>3. SumFunctionOnSet(Planned, reservations \ {j}) \in Nat  BY <1>1, SumNat
<1>4. SumFunctionOnSet(Planned, reservations)
        = Planned[j] + SumFunctionOnSet(Planned, reservations \ {j})
  BY <1>1, <1>2, SumRemove
<1>5. reserved = Planned[j] + SumFunctionOnSet(Planned, reservations \ {j})
  BY <1>4 DEF LedgerBalanced
<1>. QED  BY <1>2, <1>3, <1>5 DEF AtLeastZero

(* Charging a job that was not charged before adds its cost to the sum of   *)
(* the receipts.                                                            *)
LEMMA ChargedGrows ==
  ASSUME LedgerTypeOK, NEW j \in Jobs, settled[j] = None, NEW c \in Nat,
         settled' = [settled EXCEPT ![j] = c]
  PROVE  SumFunctionOnSet(Charged', Jobs) = c + SumFunctionOnSet(Charged, Jobs)
<1>. USE LedgerAssumption
<1>1. Charged \in [Jobs -> Int] /\ Charged[j] = 0
  BY ChargedType DEF Charged
<1>2. Charged' \in [Jobs -> Int] /\ Charged'[j] = c
      /\ \A i \in Jobs \ {j} : Charged'[i] = Charged[i]
  BY DEF LedgerTypeOK, Charged
<1>3. IsFiniteSet(Jobs \ {j}) /\ Jobs \in SUBSET Jobs /\ Jobs \ {j} \in SUBSET Jobs
  BY FS_Subset
<1>. HIDE DEF Charged
<1>4. SumFunctionOnSet(Charged, Jobs) = Charged[j] + SumFunctionOnSet(Charged, Jobs \ {j})
  BY <1>1, <1>3, SumRemove
<1>5. SumFunctionOnSet(Charged', Jobs) = Charged'[j] + SumFunctionOnSet(Charged', Jobs \ {j})
  BY <1>2, <1>3, SumRemove
<1>6. SumFunctionOnSet(Charged', Jobs \ {j}) = SumFunctionOnSet(Charged, Jobs \ {j})
  BY <1>2, <1>3, SumAgree
<1>7. SumFunctionOnSet(Charged, Jobs \ {j}) \in Int  BY <1>1, <1>3, SumInt
<1>. QED  BY <1>1, <1>2, <1>4, <1>5, <1>6, <1>7

(* A call that changes nothing.                                             *)
LEMMA LedgerKept == LedgerInv /\ UNCHANGED ledgerVars => LedgerInv'
BY DEF LedgerInv, LedgerTypeOK, LedgerBalanced, BudgetHeld, WithinPlan, Charged, ledgerVars

(* A new ledger has promised and charged nothing.                           *)
LEMMA LedgerStarts == LedgerInit => LedgerInv
<1>. SUFFICES ASSUME LedgerInit PROVE LedgerInv  OBVIOUS
<1>. USE LedgerAssumption DEF LedgerInit
<1>1. LedgerTypeOK  BY DEF LedgerTypeOK
<1>2. LedgerBalanced
  <2>1. SumFunctionOnSet(Planned, reservations) = 0  BY SumEmpty
  <2>2. Charged = [j \in Jobs |-> 0]  BY DEF Charged
  <2>3. SumFunctionOnSet(Charged, Jobs) = 0
    <3>1. [j \in Jobs |-> 0] \in [Jobs -> Nat]  OBVIOUS
    <3>. QED  BY <2>2, <3>1, SumZero
  <2>4. \A s \in Scopes : Opening[s] \in Nat  OBVIOUS
  <2>. QED  BY <2>1, <2>3, <2>4 DEF LedgerBalanced
<1>3. BudgetHeld  BY DEF BudgetHeld
<1>. QED  BY <1>1, <1>2, <1>3 DEF LedgerInv

(* reserve promises what the ceilings have left.                            *)
LEMMA LedgerReserves ==
  ASSUME LedgerInv, NEW j \in Jobs, j \notin reservations, ReserveCost(j)
  PROVE  LedgerInv'
<1>. USE LedgerAssumption
<1>1. Planned[j] \in Nat /\ reservations' = reservations \cup {j}
      /\ reserved' = reserved + Planned[j] /\ spent' = spent /\ settled' = settled
  BY DEF ReserveCost
<1>2. LedgerTypeOK'  BY <1>1 DEF LedgerInv, LedgerTypeOK
<1>3. LedgerBalanced'
  <2>1. reservations \in SUBSET Jobs /\ IsFiniteSet(reservations)
    BY FS_Subset DEF LedgerInv, LedgerTypeOK
  <2>2. Planned \in [Jobs -> Int] /\ j \in Jobs \ reservations  OBVIOUS
  <2>3. SumFunctionOnSet(Planned, reservations \cup {j})
          = Planned[j] + SumFunctionOnSet(Planned, reservations)
    BY <2>1, <2>2, SumAdd
  <2>4. SumFunctionOnSet(Planned, reservations) \in Int  BY <2>1, <2>2, SumInt
  <2>5. reserved' = SumFunctionOnSet(Planned, reservations')
    BY <1>1, <2>3, <2>4 DEF LedgerInv, LedgerBalanced
  <2>. QED  BY <1>1, <2>5 DEF LedgerInv, LedgerBalanced, Charged
<1>4. BudgetHeld'
  <2>1. \A s \in Scopes : spent'[s] + reserved' <= Limit[s]
    BY <1>1 DEF ReserveCost, Affordable, LedgerInv, LedgerTypeOK
  <2>. QED  BY <2>1 DEF BudgetHeld
<1>. QED  BY <1>2, <1>3, <1>4 DEF LedgerInv

(* release gives back exactly what reserve promised.                        *)
LEMMA LedgerDrops ==
  ASSUME LedgerInv, NEW j \in Jobs, DropReservation(j)
  PROVE  LedgerInv'
<1>. USE LedgerAssumption
<1>1. CASE j \notin reservations
  <2>1. UNCHANGED ledgerVars  BY <1>1 DEF DropReservation, ledgerVars
  <2>. QED  BY <2>1, LedgerKept
<1>2. CASE j \in reservations
  <2>1. /\ Planned[j] \in Nat /\ reserved - Planned[j] \in Nat
        /\ AtLeastZero(reserved - Planned[j]) = reserved - Planned[j]
        /\ reserved - Planned[j] = SumFunctionOnSet(Planned, reservations \ {j})
    BY <1>2, ReservedCounts DEF LedgerInv
  <2>2. reservations' = reservations \ {j} /\ reserved' = reserved - Planned[j]
        /\ spent' = spent /\ settled' = settled
    BY <1>2, <2>1 DEF DropReservation
  <2>3. LedgerTypeOK'  BY <2>1, <2>2 DEF LedgerInv, LedgerTypeOK
  <2>4. LedgerBalanced'  BY <2>1, <2>2 DEF LedgerInv, LedgerBalanced, Charged
  <2>5. BudgetHeld'
    <3>1. reserved \in Nat /\ \A s \in Scopes : spent[s] \in Nat /\ Limit[s] \in Nat
      BY DEF LedgerInv, LedgerTypeOK
    <3>. QED  BY <2>1, <2>2, <3>1 DEF LedgerInv, BudgetHeld, WithinPlan
  <2>. QED  BY <2>3, <2>4, <2>5 DEF LedgerInv
<1>. QED  BY <1>1, <1>2

(* settle turns a promise into a charge, once.                              *)
LEMMA LedgerSettles ==
  ASSUME LedgerInv, NEW j \in Jobs, settled[j] = None,
         NEW bill \in [metered : BOOLEAN, cost : Nat], SettleCost(j, bill)
  PROVE  LedgerInv'
<1>. USE LedgerAssumption
<1>. DEFINE c == Charge(j, bill)
<1>1. /\ Planned[j] \in Nat /\ reserved - Planned[j] \in Nat
      /\ AtLeastZero(reserved - Planned[j]) = reserved - Planned[j]
      /\ reserved - Planned[j] = SumFunctionOnSet(Planned, reservations \ {j})
  BY ReservedCounts DEF SettleCost, LedgerInv
<1>2. c \in Nat  BY <1>1 DEF Charge
<1>. HIDE DEF c
<1>3. /\ reservations' = reservations \ {j} /\ reserved' = reserved - Planned[j]
      /\ spent' = [s \in Scopes |-> spent[s] + c]
      /\ settled' = [settled EXCEPT ![j] = c]
  BY <1>1 DEF SettleCost, c
<1>4. reserved \in Nat /\ settled \in [Jobs -> Nat \cup {None}]
      /\ \A s \in Scopes : spent[s] \in Nat /\ Limit[s] \in Nat /\ Opening[s] \in Nat
  BY DEF LedgerInv, LedgerTypeOK
<1>5. LedgerTypeOK'  BY <1>1, <1>2, <1>3, <1>4 DEF LedgerInv, LedgerTypeOK
<1>6. LedgerBalanced'
  <2>1. SumFunctionOnSet(Charged', Jobs) = c + SumFunctionOnSet(Charged, Jobs)
    BY <1>2, <1>3, ChargedGrows DEF LedgerInv
  <2>2. SumFunctionOnSet(Charged, Jobs) \in Nat
    <3>1. Charged \in [Jobs -> Nat]  BY ChargedType DEF LedgerInv
    <3>2. Jobs \in SUBSET Jobs  OBVIOUS
    <3>. QED  BY <3>1, <3>2, SumNat
  <2>3. ASSUME NEW s \in Scopes
        PROVE  spent'[s] = Opening[s] + SumFunctionOnSet(Charged', Jobs)
    <3>1. spent[s] = Opening[s] + SumFunctionOnSet(Charged, Jobs)
      BY DEF LedgerInv, LedgerBalanced
    <3>. QED  BY <1>2, <1>3, <1>4, <2>1, <2>2, <3>1
  <2>4. reserved' = SumFunctionOnSet(Planned, reservations')  BY <1>1, <1>3
  <2>. QED  BY <2>3, <2>4 DEF LedgerBalanced
<1>7. BudgetHeld'
  <2>. SUFFICES ASSUME \A i \in Jobs : WithinPlan(i)',
                       NEW s \in Scopes
                PROVE  \/ spent'[s] + reserved' <= Limit[s]
                       \/ spent'[s] = Opening[s] /\ reserved' = 0
    BY DEF BudgetHeld
  <2>1. c <= Planned[j]
    <3>1. settled'[j] = c /\ c # None  BY <1>2, <1>3, <1>4
    <3>. QED  BY <3>1 DEF WithinPlan
  <2>2. \A i \in Jobs : WithinPlan(i)
    <3>. SUFFICES ASSUME NEW i \in Jobs PROVE WithinPlan(i)  OBVIOUS
    <3>1. CASE i = j  BY <3>1 DEF WithinPlan
    <3>2. CASE i # j
      <4>1. settled'[i] = settled[i]  BY <1>3, <1>4, <3>2
      <4>. QED  BY <4>1 DEF WithinPlan
    <3>. QED  BY <3>1, <3>2
  <2>3. spent[s] + reserved <= Limit[s] \/ (spent[s] = Opening[s] /\ reserved = 0)
    BY <2>2 DEF LedgerInv, BudgetHeld
  <2>4. spent'[s] = spent[s] + c  BY <1>3
  <2>. QED  BY <1>1, <1>2, <1>3, <1>4, <2>1, <2>3, <2>4
<1>. QED  BY <1>5, <1>6, <1>7 DEF LedgerInv
=============================================================================
