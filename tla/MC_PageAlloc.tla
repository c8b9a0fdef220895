--------------------------- MODULE MC_PageAlloc ---------------------------
(* Model values for PageAlloc: threads are model values, pages numbers.   *)
EXTENDS PageAlloc, TLC

ThreadSymmetry == Permutations(Threads)
=============================================================================
