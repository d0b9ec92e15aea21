------------------------------- MODULE MCList -------------------------------
(* Instances of List for TLC: one list long enough to be changed in the       *)
(* middle, two lists that copy each other, three users of one RefCount.       *)
EXTENDS List, TLC

\* Two equal elements.  A copy is at another address; the copy of a copy may be
\* at the first one again.
CONSTANTS a, b

MCValue     == (a :> a) @@ (b :> a)
MCDuplicate == (a :> b) @@ (b :> a)

Bound(n, len, removals, xs, compare, copy) ==
  [lists |-> n, len |-> len, removals |-> removals, payloads |-> xs,
   compare |-> compare, copy |-> copy]

MCBounds == {Bound(1, 3, 2, {a, b}, FALSE, FALSE), Bound(2, 2, 1, {a}, TRUE, TRUE),
             Bound(3, 1, 0, {a}, TRUE, TRUE)}

TwoShortLists == {Bound(2, 2, 1, {a}, TRUE, TRUE)}

Symmetry == Permutations(Lists)
=============================================================================
