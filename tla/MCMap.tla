------------------------------- MODULE MCMap --------------------------------
(* Instances of Map for TLC: hashes that collide in small tables only, and   *)
(* hashes that always collide.                                               *)
EXTENDS Map, TLC

MCHash   == [k \in Keys |-> <<0, 2, 5, 0>>[k]]
Symmetry == Permutations(Objects) \cup Permutations(Maps)
=============================================================================
