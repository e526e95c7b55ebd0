------------------------ MODULE MCResourceScheduler ------------------------
(***************************************************************************)
(* Instances of ResourceScheduler for TLC.                                 *)
(***************************************************************************)
EXTENDS ResourceScheduler, TLC

CONSTANTS heavy, huge, excl, cheap, mid, tiny, bigSolver, exclSolver, smallSolver

(* Each limit binds somewhere: memory keeps mid off heavy, threads keep     *)
(* cheap off heavy, the family cap keeps tiny off heavy, and the number of  *)
(* active jobs alone separates cheap, mid and tiny.                         *)
MixMemory   == (heavy :> 3) @@ (excl :> 1) @@ (cheap :> 1) @@ (mid :> 2) @@ (tiny :> 1)
MixThreads  == (heavy :> 3) @@ (excl :> 1) @@ (cheap :> 2) @@ (mid :> 1) @@ (tiny :> 1)
MixSolver   == (heavy :> bigSolver) @@ (excl :> exclSolver) @@ (cheap :> smallSolver)
                 @@ (mid :> smallSolver) @@ (tiny :> bigSolver)
MixPriority == (heavy :> 0) @@ (excl :> 0) @@ (cheap :> 0) @@ (mid :> 1) @@ (tiny :> 0)
MixCap      == (bigSolver :> 1) @@ (exclSolver :> 1) @@ (smallSolver :> 2)

(* A stream of two cheap jobs, of the same or the next tier, against a job  *)
(* that needs all the memory; huge can never be hosted.                     *)
StreamMemory   == (heavy :> 2) @@ (huge :> 3) @@ (cheap :> 1) @@ (mid :> 1)
StreamThreads  == (heavy :> 1) @@ (huge :> 1) @@ (cheap :> 1) @@ (mid :> 1)
StreamSolver   == (heavy :> bigSolver) @@ (huge :> bigSolver)
                    @@ (cheap :> smallSolver) @@ (mid :> smallSolver)
StreamPriority == (heavy :> 0) @@ (huge :> 0) @@ (cheap :> 0) @@ (mid :> 1)
StreamCap      == (bigSolver :> 1) @@ (smallSolver :> 2)

(* The same stream against a job that needs all the threads instead.        *)
WideMemory   == (heavy :> 1) @@ (cheap :> 1) @@ (mid :> 1)
WideThreads  == (heavy :> 2) @@ (cheap :> 1) @@ (mid :> 1)
WideSolver   == (heavy :> bigSolver) @@ (cheap :> smallSolver) @@ (mid :> smallSolver)
WidePriority == (heavy :> 1) @@ (cheap :> 0) @@ (mid :> 0)
=============================================================================
