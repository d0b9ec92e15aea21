------------------------------ MODULE MCRBTree ------------------------------
(***************************************************************************)
(* RBTree over seven keys: the trees have up to four levels, so that both  *)
(* fix-up loops take more than one turn.                                   *)
(***************************************************************************)
EXTENDS RBTree

MCKeys == 1..7

\* No filter, and one that keeps every other key.
MCFilters == {MCKeys, {k \in MCKeys : k % 2 = 0}}
=============================================================================
