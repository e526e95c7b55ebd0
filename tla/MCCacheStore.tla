---------------------------- MODULE MCCacheStore ----------------------------
(***************************************************************************)
(* An instance of CacheStore for TLC: a chain of three entries.            *)
(***************************************************************************)
EXTENDS CacheStore, TLC

CONSTANTS up, mid, leaf, old, nodes, results

ChainUpstream == (up :> {}) @@ (mid :> {up}) @@ (leaf :> {mid})
ChainFamily   == (up :> nodes) @@ (mid :> results) @@ (leaf :> results)
(* The whole budget is used, with and without a pinned entry; the missing   *)
(* one may be computed from what is there.                                  *)
Populated ==
    {[store |-> (up :> old) @@ (mid :> old) @@ (leaf :> Absent), pinned |-> {mid}],
     [store |-> (up :> Absent) @@ (mid :> old) @@ (leaf :> old), pinned |-> {}]}

Symmetry == Permutations(Threads) \cup Permutations(Locks)
=============================================================================
