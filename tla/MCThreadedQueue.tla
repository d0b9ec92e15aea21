-------------------------- MODULE MCThreadedQueue --------------------------
(* ThreadedQueue with small sets of threads and items for TLC. *)
EXTENDS ThreadedQueue, TLC

\* Threads and items are only compared for equality.
Symmetry == Permutations(Threads) \cup Permutations(Items)
=============================================================================
