---- MODULE SumLemmas ----
(* Sums over finite sets of integers, in the form the proofs about the      *)
(* counters of the resource scheduler use them: a running sum that is       *)
(* updated when one member enters or leaves equals the sum over the set.    *)
EXTENDS Integers, FiniteSets, Functions, FiniteSetTheorems, WellFoundedInduction, TLAPS

Pick(s) == CHOOSE x \in s : TRUE
Unfolds(g, f, S) ==
  g = [s \in SUBSET S |-> IF s = {} THEN 0 ELSE f[Pick(s)] + g[s \ {Pick(s)}]]

(* SumFunctionOnSet is the value at S of a function unfolded over the       *)
(* subsets of S: the form the folds of the community modules expand to.     *)
LEMMA SumIter ==
  ASSUME NEW f, NEW S
  PROVE  SumFunctionOnSet(f, S) = (CHOOSE g : Unfolds(g, f, S))[S]
  BY DEF SumFunctionOnSet, FoldFunctionOnSet, MapThenFoldSet, Unfolds, Pick

(* A non-empty family of subsets of a finite set has a minimal member. It   *)
(* stands for induction over finite sets in every lemma below.              *)
LEMMA MinimalSubset ==
  ASSUME NEW S, IsFiniteSet(S), NEW F \in SUBSET (SUBSET S), F # {}
  PROVE  \E T \in F : \A U \in F : U \subseteq T => U = T
<1>1. IsWellFoundedOn(StrictSubsetOrdering(S), FiniteSubsetsOf(S))
  BY FS_StrictSubsetOrderingWellFounded
<1>2. F \subseteq FiniteSubsetsOf(S)  BY FS_Subset DEF FiniteSubsetsOf
<1>3. \E T \in F : \A U \in F : <<U, T>> \notin StrictSubsetOrdering(S)
  BY <1>1, <1>2, WFMin
<1>. QED  BY <1>3 DEF StrictSubsetOrdering

(* Two such functions agree wherever both are defined, so the sum over a set*)
(* does not depend on the set it is computed inside of.                     *)
LEMMA UnfoldUnique ==
  ASSUME NEW S, IsFiniteSet(S), NEW R, NEW f, NEW g, NEW h,
         Unfolds(g, f, S), Unfolds(h, f, R),
         NEW T \in SUBSET S, T \in SUBSET R
  PROVE  g[T] = h[T]
<1>. DEFINE Bad == {U \in SUBSET S : U \in SUBSET R /\ g[U] # h[U]}
<1>. SUFFICES ASSUME Bad # {} PROVE FALSE  OBVIOUS
<1>1. PICK U \in Bad : \A V \in Bad : V \subseteq U => V = U
  <2>1. Bad \in SUBSET (SUBSET S)  OBVIOUS
  <2>. HIDE DEF Bad
  <2>. QED  BY <2>1, MinimalSubset
<1>2. U # {}  BY DEF Unfolds
<1>3. Pick(U) \in U  BY <1>2 DEF Pick
<1>4. U \ {Pick(U)} \notin Bad  BY <1>1, <1>3
<1>5. g[U \ {Pick(U)}] = h[U \ {Pick(U)}]  BY <1>4
<1>6. g[U] = f[Pick(U)] + g[U \ {Pick(U)}]  BY <1>2 DEF Unfolds
<1>7. h[U] = f[Pick(U)] + h[U \ {Pick(U)}]  BY <1>2 DEF Unfolds
<1>. QED  BY <1>5, <1>6, <1>7

(* Such a function exists over every finite set.                            *)
LEMMA UnfoldExists ==
  ASSUME NEW S, IsFiniteSet(S), NEW f
  PROVE  \E g : Unfolds(g, f, S)
<1>. DEFINE Bad == {U \in SUBSET S : ~ \E g : Unfolds(g, f, U)}
            h(U) == CHOOSE g : Unfolds(g, f, U)
<1>. SUFFICES ASSUME Bad # {} PROVE FALSE  OBVIOUS
<1>1. PICK T \in Bad : \A V \in Bad : V \subseteq T => V = T
  <2>1. Bad \in SUBSET (SUBSET S)  OBVIOUS
  <2>. HIDE DEF Bad
  <2>. QED  BY <2>1, MinimalSubset
<1>. DEFINE g == [s \in SUBSET T |->
                    IF s = {} THEN 0 ELSE f[Pick(s)] + h(s \ {Pick(s)})[s \ {Pick(s)}]]
<1>2. ASSUME NEW U \in SUBSET T, U # T PROVE Unfolds(h(U), f, U)
  BY <1>1, <1>2
<1>3. ASSUME NEW s \in SUBSET T, s # {}
      PROVE  g[s \ {Pick(s)}] = h(s \ {Pick(s)})[s \ {Pick(s)}]
  <2>. DEFINE U == s \ {Pick(s)}
              W == U \ {Pick(U)}
  <2>1. Pick(s) \in s  BY <1>3 DEF Pick
  <2>2. U \in SUBSET T /\ U # T  BY <2>1
  <2>3. Unfolds(h(U), f, U)  BY <1>2, <2>2
  <2>4. CASE U = {}
    <3>1. h(U)[U] = 0  BY <2>3, <2>4 DEF Unfolds
    <3>. QED  BY <3>1, <2>4, <2>2
  <2>5. CASE U # {}
    <3>1. Pick(U) \in U  BY <2>5 DEF Pick
    <3>2. W \in SUBSET T /\ W # T  BY <2>2, <3>1
    <3>3. Unfolds(h(W), f, W)  BY <1>2, <3>2
    <3>4. h(U)[U] = f[Pick(U)] + h(U)[W]  BY <2>3, <2>5 DEF Unfolds
    <3>5. IsFiniteSet(U)  BY <2>2, <1>1, FS_Subset
    <3>. HIDE DEF U, h
    <3>6. W \in SUBSET U /\ W \in SUBSET W  OBVIOUS
    <3>7. h(U)[W] = h(W)[W]
      <4>. HIDE DEF W
      <4>. QED  BY <2>3, <3>3, <3>5, <3>6, UnfoldUnique
    <3>8. g[U] = f[Pick(U)] + h(W)[W]  BY <2>2, <2>5
    <3>. QED  BY <3>4, <3>7, <3>8 DEF U
  <2>. QED  BY <2>4, <2>5
<1>4. Unfolds(g, f, T)
  <2>. HIDE DEF h
  <2>. QED  BY <1>3 DEF Unfolds
<1>. QED  BY <1>1, <1>4

(* The sum over no element is 0.                                            *)
LEMMA SumEmpty == ASSUME NEW f PROVE SumFunctionOnSet(f, {}) = 0
<1>1. PICK g : Unfolds(g, f, {})  BY UnfoldExists, FS_EmptySet
<1>2. Unfolds(CHOOSE k : Unfolds(k, f, {}), f, {})  BY <1>1
<1>. QED  BY <1>2, SumIter DEF Unfolds

(* The sum over a non-empty finite set is one member's value and the sum    *)
(* over the rest.                                                           *)
LEMMA SumUnfold ==
  ASSUME NEW f, NEW S, IsFiniteSet(S), S # {}
  PROVE  /\ Pick(S) \in S
         /\ SumFunctionOnSet(f, S) = f[Pick(S)] + SumFunctionOnSet(f, S \ {Pick(S)})
<1>. DEFINE U == S \ {Pick(S)}
            h(T) == CHOOSE k : Unfolds(k, f, T)
<1>1. Pick(S) \in S  BY DEF Pick
<1>2. Unfolds(h(S), f, S)  BY UnfoldExists
<1>3. IsFiniteSet(U)  BY FS_Subset
<1>4. Unfolds(h(U), f, U)  BY UnfoldExists, <1>3
<1>5. h(S)[S] = f[Pick(S)] + h(S)[U]  BY <1>2 DEF Unfolds
<1>6. U \in SUBSET S /\ U \in SUBSET U  OBVIOUS
<1>7. h(S)[U] = h(U)[U]
  <2>. HIDE DEF h, U
  <2>. QED  BY <1>2, <1>4, <1>6, UnfoldUnique
<1>. QED  BY <1>1, <1>5, <1>7, SumIter

(* A finite sum of integers is an integer.                                  *)
LEMMA SumInt ==
  ASSUME NEW D, NEW f \in [D -> Int], NEW S \in SUBSET D, IsFiniteSet(S)
  PROVE  SumFunctionOnSet(f, S) \in Int
<1>. DEFINE Bad == {U \in SUBSET S : SumFunctionOnSet(f, U) \notin Int}
<1>. SUFFICES ASSUME Bad # {} PROVE FALSE  OBVIOUS
<1>1. PICK T \in Bad : \A V \in Bad : V \subseteq T => V = T
  <2>1. Bad \in SUBSET (SUBSET S)  OBVIOUS
  <2>. HIDE DEF Bad
  <2>. QED  BY <2>1, MinimalSubset
<1>2. T # {}  BY SumEmpty
<1>3. IsFiniteSet(T)  BY FS_Subset
<1>4. /\ Pick(T) \in T
      /\ SumFunctionOnSet(f, T) = f[Pick(T)] + SumFunctionOnSet(f, T \ {Pick(T)})
  BY <1>2, <1>3, SumUnfold
<1>5. SumFunctionOnSet(f, T \ {Pick(T)}) \in Int  BY <1>1, <1>4
<1>6. f[Pick(T)] \in Int  BY <1>4
<1>. QED  BY <1>4, <1>5, <1>6

(* Any member can be taken out of a finite sum, not only the one the        *)
(* unfolding chose: the order of summation does not matter.                 *)
LEMMA SumRemove ==
  ASSUME NEW D, NEW f \in [D -> Int], NEW S \in SUBSET D, IsFiniteSet(S), NEW x \in S
  PROVE  SumFunctionOnSet(f, S) = f[x] + SumFunctionOnSet(f, S \ {x})
<1>. DEFINE Bad == {U \in SUBSET S : \E y \in U :
                      SumFunctionOnSet(f, U) # f[y] + SumFunctionOnSet(f, U \ {y})}
<1>. SUFFICES ASSUME Bad # {} PROVE FALSE  OBVIOUS
<1>1. PICK T \in Bad : \A V \in Bad : V \subseteq T => V = T
  <2>1. Bad \in SUBSET (SUBSET S)  OBVIOUS
  <2>. HIDE DEF Bad
  <2>. QED  BY <2>1, MinimalSubset
<1>2. PICK y \in T : SumFunctionOnSet(f, T) # f[y] + SumFunctionOnSet(f, T \ {y})
  BY <1>1
<1>3. IsFiniteSet(T)  BY FS_Subset
<1>. DEFINE p == Pick(T)
<1>4. p \in T /\ SumFunctionOnSet(f, T) = f[p] + SumFunctionOnSet(f, T \ {p})
  BY <1>2, <1>3, SumUnfold
<1>. HIDE DEF p
<1>5. p # y  BY <1>2, <1>4
<1>6. SumFunctionOnSet(f, T \ {p}) = f[y] + SumFunctionOnSet(f, (T \ {p}) \ {y})
  <2>1. T \ {p} \notin Bad  BY <1>1, <1>4
  <2>2. T \ {p} \in SUBSET S /\ y \in T \ {p}  BY <1>5
  <2>. QED  BY <2>1, <2>2
<1>7. SumFunctionOnSet(f, T \ {y}) = f[p] + SumFunctionOnSet(f, (T \ {y}) \ {p})
  <2>1. T \ {y} \notin Bad  BY <1>1
  <2>2. T \ {y} \in SUBSET S /\ p \in T \ {y}  BY <1>4, <1>5
  <2>. QED  BY <2>1, <2>2
<1>. DEFINE r == SumFunctionOnSet(f, (T \ {y}) \ {p})
<1>8. (T \ {p}) \ {y} = (T \ {y}) \ {p}  OBVIOUS
<1>9. r \in Int /\ f[p] \in Int /\ f[y] \in Int
  <2>1. (T \ {y}) \ {p} \in SUBSET D /\ IsFiniteSet((T \ {y}) \ {p})  BY <1>3, FS_Subset
  <2>. QED  BY <2>1, <1>4, SumInt
<1>10. SumFunctionOnSet(f, T) = f[p] + (f[y] + r)  BY <1>4, <1>6, <1>8
<1>11. f[y] + SumFunctionOnSet(f, T \ {y}) = f[y] + (f[p] + r)  BY <1>7
<1>. HIDE DEF r
<1>. QED  BY <1>2, <1>9, <1>10, <1>11

(* A new member adds its own value to a finite sum.                         *)
LEMMA SumAdd ==
  ASSUME NEW D, NEW f \in [D -> Int], NEW S \in SUBSET D, IsFiniteSet(S), NEW x \in D \ S
  PROVE  SumFunctionOnSet(f, S \cup {x}) = f[x] + SumFunctionOnSet(f, S)
<1>1. IsFiniteSet(S \cup {x})  BY FS_AddElement
<1>2. (S \cup {x}) \ {x} = S  OBVIOUS
<1>3. S \cup {x} \in SUBSET D /\ x \in S \cup {x}  OBVIOUS
<1>. QED  BY <1>1, <1>2, <1>3, SumRemove

(* A finite sum of naturals is a natural.                                   *)
LEMMA SumNat ==
  ASSUME NEW D, NEW f \in [D -> Nat], NEW S \in SUBSET D, IsFiniteSet(S)
  PROVE  SumFunctionOnSet(f, S) \in Nat
<1>. DEFINE Bad == {U \in SUBSET S : SumFunctionOnSet(f, U) \notin Nat}
<1>. SUFFICES ASSUME Bad # {} PROVE FALSE  OBVIOUS
<1>1. PICK T \in Bad : \A V \in Bad : V \subseteq T => V = T
  <2>1. Bad \in SUBSET (SUBSET S)  OBVIOUS
  <2>. HIDE DEF Bad
  <2>. QED  BY <2>1, MinimalSubset
<1>2. T # {}
  <2>1. SumFunctionOnSet(f, {}) \in Nat  BY SumEmpty
  <2>. QED  BY <2>1
<1>3. IsFiniteSet(T)  BY FS_Subset
<1>4. /\ Pick(T) \in T
      /\ SumFunctionOnSet(f, T) = f[Pick(T)] + SumFunctionOnSet(f, T \ {Pick(T)})
  BY <1>2, <1>3, SumUnfold
<1>5. SumFunctionOnSet(f, T \ {Pick(T)}) \in Nat  BY <1>1, <1>4
<1>6. f[Pick(T)] \in Nat  BY <1>4
<1>. QED  BY <1>4, <1>5, <1>6

(* A sum of zeros is zero.                                                  *)
LEMMA SumZero ==
  ASSUME NEW S, IsFiniteSet(S)
  PROVE  SumFunctionOnSet([x \in S |-> 0], S) = 0
<1>. DEFINE f == [x \in S |-> 0]
            Bad == {U \in SUBSET S : SumFunctionOnSet(f, U) # 0}
<1>. SUFFICES ASSUME Bad # {} PROVE FALSE  OBVIOUS
<1>1. PICK T \in Bad : \A V \in Bad : V \subseteq T => V = T
  <2>1. Bad \in SUBSET (SUBSET S)  OBVIOUS
  <2>. HIDE DEF Bad
  <2>. QED  BY <2>1, MinimalSubset
<1>2. T # {}  BY SumEmpty
<1>3. IsFiniteSet(T)  BY FS_Subset
<1>4. /\ Pick(T) \in T
      /\ SumFunctionOnSet(f, T) = f[Pick(T)] + SumFunctionOnSet(f, T \ {Pick(T)})
  <2>. HIDE DEF f
  <2>. QED  BY <1>2, <1>3, SumUnfold
<1>5. SumFunctionOnSet(f, T \ {Pick(T)}) = 0  BY <1>1, <1>4
<1>6. f[Pick(T)] = 0  BY <1>4
<1>. QED  BY <1>4, <1>5, <1>6

(* Two functions that agree on a finite set have the same sum over it.      *)
LEMMA SumAgree ==
  ASSUME NEW f, NEW g, NEW S, IsFiniteSet(S), \A x \in S : f[x] = g[x]
  PROVE  SumFunctionOnSet(f, S) = SumFunctionOnSet(g, S)
<1>. DEFINE Bad == {U \in SUBSET S : SumFunctionOnSet(f, U) # SumFunctionOnSet(g, U)}
<1>. SUFFICES ASSUME Bad # {} PROVE FALSE  OBVIOUS
<1>1. PICK T \in Bad : \A V \in Bad : V \subseteq T => V = T
  <2>1. Bad \in SUBSET (SUBSET S)  OBVIOUS
  <2>. HIDE DEF Bad
  <2>. QED  BY <2>1, MinimalSubset
<1>2. T # {}  BY SumEmpty
<1>3. IsFiniteSet(T)  BY FS_Subset
<1>4. /\ Pick(T) \in T
      /\ SumFunctionOnSet(f, T) = f[Pick(T)] + SumFunctionOnSet(f, T \ {Pick(T)})
      /\ SumFunctionOnSet(g, T) = g[Pick(T)] + SumFunctionOnSet(g, T \ {Pick(T)})
  BY <1>2, <1>3, SumUnfold
<1>5. T \ {Pick(T)} \notin Bad  BY <1>1, <1>4
<1>6. SumFunctionOnSet(f, T \ {Pick(T)}) = SumFunctionOnSet(g, T \ {Pick(T)})  BY <1>5
<1>. QED  BY <1>4, <1>6

(* No member of a finite set of naturals exceeds the sum.                   *)
LEMMA SumMember ==
  ASSUME NEW D, NEW f \in [D -> Nat], NEW S \in SUBSET D, IsFiniteSet(S), NEW x \in S
  PROVE  f[x] \in 0..SumFunctionOnSet(f, S)
<1>1. IsFiniteSet(S \ {x}) /\ S \ {x} \in SUBSET D  BY FS_Subset
<1>2. SumFunctionOnSet(f, S \ {x}) \in Nat  BY <1>1, SumNat
<1>3. f \in [D -> Int] /\ f[x] \in Nat OBVIOUS
<1>4. SumFunctionOnSet(f, S) = f[x] + SumFunctionOnSet(f, S \ {x})  BY <1>3, SumRemove
<1>. QED  BY <1>2, <1>3, <1>4
====
