------------------------------- MODULE RBTree -------------------------------
(***************************************************************************)
(* libutils/rb-tree.c: a red-black tree with a sentinel above the topmost  *)
(* node (tree->root, whose left child is the tree) and a sentinel below    *)
(* the leaves (tree->nil).                                                 *)
(*                                                                         *)
(* A node never changes its key and a key has at most one node, so the     *)
(* node of a key is that key.  Each turn of the loops of PutFix_ and       *)
(* RemoveFix_ is a step; the code for left and right is the same with the  *)
(* two exchanged, and is written once with the side as a parameter.        *)
(* Values, and who owns copies of keys and values, are left out.           *)
(***************************************************************************)
EXTENDS Integers, Sequences, FiniteSets, FiniteSetsExt, SequencesExt

CONSTANTS Keys,     \* what the tree can hold; KeyCompare is the order of numbers
          Filters,  \* the predicates RBTreeCopy is called with, as sets of keys
          NoCall

ASSUME KeysAssumption == /\ IsFiniteSet(Keys) /\ Keys \subseteq Nat \ {0}
                         /\ Filters \subseteq SUBSET Keys

Nil   == 0
Root  == -1
Nodes == Keys \cup {Nil, Root}
Sides == {"left", "right"}

\* The operation a caller asked for, the keys it is about, and what was there before.
Calls == [op : {"put", "remove", "clear", "copy"}, arg : SUBSET Keys, before : Seq(Keys)]

ASSUME NoCallAssumption == NoCall \notin Calls

VARIABLES tree,  \* the red nodes, parent and kid of every node, and size
          at,    \* where the running operation is; "put" is a turn of RBTreeCopy's loop
          cur,   \* z of PutFix_, x of RemoveFix_
          gone,  \* of a removal: z, y, and the root RemoveFix_ started with
          todo,  \* keys a copy still has to put
          call   \* the operation that runs, with what it was given

treeVars == <<tree, at, cur, gone, todo, call>>

Other(s) == IF s = "left" THEN "right" ELSE "left"

-----------------------------------------------------------------------------
(***************************************************************************)
(* The structure.                                                          *)
(***************************************************************************)
Blank == [n \in Nodes |-> Nil]

\* Reset_
NewTree == [red    |-> {},
            parent |-> Blank,
            kid    |-> [s \in Sides |-> Blank],
            size   |-> 0]

Left(u, n)   == u.kid["left"][n]
Right(u, n)  == u.kid["right"][n]
SideOf(u, n) == IF n = Left(u, u.parent[n]) THEN "left" ELSE "right"

\* n is made red, or black.
Paint(u, n, red) == [u EXCEPT !.red = IF red THEN @ \cup {n} ELSE @ \ {n}]

\* The path of Get_ and of RBTreePut from the top: the node of k, or the last
\* node before the search fell off the tree.
Descend(u, k) ==
  LET walk[n \in Nodes] ==
        LET next == IF n = Root \/ k < n THEN Left(u, n) ELSE Right(u, n)
        IN  IF n = k \/ next = Nil THEN n ELSE walk[next]
  IN  walk[Root]

Has(u, k) == Descend(u, k) = k

\* RotateLeft_ for s = "left": the child on the other side takes the place of x.
Rotate(u, s, x) ==
  LET o == Other(s)
      y == u.kid[o][x]
      b == u.kid[s][y]
      p == u.parent[x]
  IN  [u EXCEPT !.kid = [@ EXCEPT ![o][x] = b, ![SideOf(u, x)][p] = y, ![s][y] = x],
                !.parent = [@ EXCEPT ![b] = IF b = Nil THEN u.parent[b] ELSE x, ![y] = p, ![x] = y]]

Lowest(u, n) ==
  LET walk[m \in Nodes] == IF Left(u, m) = Nil THEN m ELSE walk[Left(u, m)]
  IN  walk[n]

\* Next_
NextNode(u, n) ==
  LET up[m \in Nodes \ {Nil}] == IF m = Right(u, u.parent[m]) THEN up[u.parent[m]]
                                                              ELSE u.parent[m]
      above == up[n]
  IN  IF Right(u, n) # Nil THEN Lowest(u, Right(u, n))
      ELSE IF above = Root THEN Nil ELSE above

\* The nodes that an iterator visits and the filter accepts: the loop of RBTreeCopy.
Collected(u, filter) ==
  LET from[i \in 0..Cardinality(Keys)] ==
        [n \in Nodes |->
           IF i = 0 \/ n = Nil THEN <<>>
           ELSE (IF n \in filter THEN <<n>> ELSE <<>>) \o from[i - 1][NextNode(u, n)]]
  IN  from[Cardinality(Keys)][Lowest(u, Root)]

\* What RBTreeIteratorNext yields until it returns false.
Iterated(u) == IF u.size = 0 THEN <<>> ELSE Collected(u, Keys)

-----------------------------------------------------------------------------
TreeInit ==
  /\ tree = NewTree
  /\ at = "idle" /\ cur = Nil /\ gone = NoCall /\ todo = <<>> /\ call = NoCall

Begin(op, arg) == call' = [op |-> op, arg |-> arg, before |-> Iterated(tree)]

Return ==
  /\ at = "return"
  /\ at' = "idle" /\ call' = NoCall
  /\ UNCHANGED <<tree, cur, gone, todo>>

(***************************************************************************)
(* RBTreePut: a new red node at the end of the path, and PutFix_; a key    *)
(* that is there gets the new value.                                       *)
(***************************************************************************)
Link(u, k) ==
  LET y == Descend(u, k)
      s == IF y = Root \/ k < y THEN "left" ELSE "right"
  IN  [u EXCEPT !.kid[s][y] = k, !.parent[k] = y, !.red = u.red \cup {k}]

PutKey(k) ==
  IF Has(tree, k)
    THEN /\ at' = IF todo' = <<>> THEN "return" ELSE "put"
         /\ UNCHANGED <<tree, cur>>
    ELSE tree' = Link(tree, k) /\ cur' = k /\ at' = "putfix"

RBTreePut(k) ==
  /\ at = "idle"
  /\ Begin("put", {k})
  /\ UNCHANGED <<gone, todo>>
  /\ PutKey(k)

\* Case 1 of PutFix_.
Recolour(u, p, y, g) == Paint(Paint(Paint(u, p, FALSE), y, FALSE), g, TRUE)

\* Case 2: z is made the outer child of its parent.
Straighten(u, s, z) ==
  IF z = u.kid[Other(s)][u.parent[z]]
    THEN [u |-> Rotate(u, s, u.parent[z]), z |-> u.parent[z]]
    ELSE [u |-> u, z |-> z]

\* Case 3.
Raise(u, s, z) ==
  LET p == u.parent[z]
      g == u.parent[p]
  IN  Rotate(Paint(Paint(u, p, FALSE), g, TRUE), Other(s), g)

PutFix ==
  /\ at = "putfix" /\ tree.parent[cur] \in tree.red
  /\ LET p == tree.parent[cur]
         g == tree.parent[p]
         s == SideOf(tree, p)
         y == tree.kid[Other(s)][g]
     IN  \/ /\ y \in tree.red
            /\ tree' = Recolour(tree, p, y, g)
            /\ cur' = g
         \/ /\ y \notin tree.red
            /\ LET r == Straighten(tree, s, cur)
               IN  tree' = Raise(r.u, s, r.z) /\ cur' = r.z
  /\ UNCHANGED <<at, gone, todo, call>>

PutEnd ==
  /\ at = "putfix" /\ tree.parent[cur] \notin tree.red
  /\ tree' = [Paint(tree, Left(tree, Root), FALSE) EXCEPT !.size = @ + 1]
  /\ at' = IF todo = <<>> THEN "return" ELSE "put"
  /\ cur' = Nil
  /\ UNCHANGED <<gone, todo, call>>

-----------------------------------------------------------------------------
(***************************************************************************)
(* RBTreeRemove: y, the node of k or its successor, is taken out of its    *)
(* place; RemoveFix_ repairs the paths that lost a black node; then y      *)
(* takes the place of the node of k, which is destroyed.                   *)
(***************************************************************************)
Replace(u, y, x) ==
  [u EXCEPT !.parent[x] = u.parent[y],
            !.kid[IF u.parent[y] = Root THEN "left" ELSE SideOf(u, y)][u.parent[y]] = x]

RBTreeRemove(k) ==
  /\ at = "idle"
  /\ Begin("remove", {k})
  /\ UNCHANGED todo
  /\ IF ~Has(tree, k)
       THEN at' = "return" /\ UNCHANGED <<tree, cur, gone>>
       ELSE LET y == IF Left(tree, k) = Nil \/ Right(tree, k) = Nil THEN k ELSE NextNode(tree, k)
                x == IF Left(tree, y) = Nil THEN Right(tree, y) ELSE Left(tree, y)
                u == Replace(tree, y, x)
            IN  /\ tree' = u
                /\ cur' = x
                /\ gone' = [z |-> k, y |-> y, root |-> Left(u, Root)]
                /\ at' = IF y \in tree.red THEN "unlink" ELSE "removefix"

\* A red sibling w goes up, so that x has a black one.
\* Mutant: the sibling keeps its colour.
BlackSiblingUnpainted(u, s, x) ==
  LET p == u.parent[x]
      w == u.kid[Other(s)][p]
  IN  IF w \in u.red THEN Rotate(Paint(u, p, TRUE), s, p) ELSE u

BlackSibling(u, s, x) ==
  LET p == u.parent[x]
      w == u.kid[Other(s)][p]
  IN  IF w \in u.red THEN Rotate(Paint(Paint(u, w, FALSE), p, TRUE), s, p) ELSE u

\* The far child of the sibling is made red.
RedFarChild(u, s, x) ==
  LET o == Other(s)
      w == u.kid[o][u.parent[x]]
  IN  IF u.kid[o][w] \in u.red THEN u
      ELSE Rotate(Paint(Paint(u, u.kid[s][w], FALSE), w, TRUE), o, w)

\* The sibling takes the place and the colour of the parent.
Restore(u, s, x) ==
  LET o == Other(s)
      p == u.parent[x]
      w == u.kid[o][p]
  IN  Rotate(Paint(Paint(Paint(u, w, p \in u.red), p, FALSE), u.kid[o][w], FALSE), s, p)

RemoveFix ==
  /\ at = "removefix" /\ cur # gone.root /\ cur \notin tree.red
  /\ LET s == SideOf(tree, cur)
         u == BlackSibling(tree, s, cur)
         w == u.kid[Other(s)][u.parent[cur]]
         both == Left(u, w) \notin u.red /\ Right(u, w) \notin u.red
     IN  \/ both  /\ tree' = Paint(u, w, TRUE) /\ cur' = u.parent[cur]
         \/ ~both /\ tree' = Restore(RedFarChild(u, s, cur), s, cur) /\ cur' = gone.root
  /\ UNCHANGED <<at, gone, todo, call>>

RemoveFixEnd ==
  /\ at = "removefix" /\ ~(cur # gone.root /\ cur \notin tree.red)
  /\ tree' = Paint(tree, cur, FALSE)
  /\ at' = "unlink"
  /\ UNCHANGED <<cur, gone, todo, call>>

\* Mutant: y does not take over the right subtree of z.
TakePlaceHalf(u, y, z) ==
  LET v == [u EXCEPT !.kid["left"][y] = Left(u, z),
                     !.red = IF z \in u.red THEN u.red \cup {y} ELSE u.red \ {y},
                     !.parent = [u.parent EXCEPT ![y] = u.parent[z],
                                                 ![Left(u, z)] = y, ![Right(u, z)] = y]]
  IN  [v EXCEPT !.kid[SideOf(v, z)][v.parent[z]] = y]

\* y in the place of z.
TakePlace(u, y, z) ==
  LET v == [u EXCEPT !.kid = [s \in Sides |-> [u.kid[s] EXCEPT ![y] = u.kid[s][z]]],
                     !.red = IF z \in u.red THEN u.red \cup {y} ELSE u.red \ {y},
                     !.parent = [u.parent EXCEPT ![y] = u.parent[z],
                                                 ![Left(u, z)] = y, ![Right(u, z)] = y]]
  IN  [v EXCEPT !.kid[SideOf(v, z)][v.parent[z]] = y]

\* NodeDestroy_ and tree->size--.
Free(u, z) == [u EXCEPT !.red = u.red \ {z}, !.parent[z] = Nil,
                        !.kid = [s \in Sides |-> [u.kid[s] EXCEPT ![z] = Nil]],
                        !.size = @ - 1]

RemoveEnd ==
  /\ at = "unlink"
  /\ tree' = Free(IF gone.y # gone.z THEN TakePlace(tree, gone.y, gone.z) ELSE tree, gone.z)
  /\ at' = "return" /\ cur' = Nil /\ gone' = NoCall
  /\ UNCHANGED <<todo, call>>

RBTreeClear ==
  /\ at = "idle"
  /\ Begin("clear", {})
  /\ tree' = NewTree /\ at' = "return"
  /\ UNCHANGED <<cur, gone, todo>>

-----------------------------------------------------------------------------
(***************************************************************************)
(* RBTreeCopy: the nodes the filter accepts are put into a new tree,       *)
(* starting in the middle; the model goes on with the copy.  An empty tree *)
(* is not copied: the iteration would start at the sentinel.               *)
(***************************************************************************)
CopyOrder(nodes) ==
  LET n    == Len(nodes)
      half == n \div 2
      odd  == n % 2
  IN  [j \in 1..n |->
         LET turn == (j - odd + 1) \div 2
         IN  nodes[IF j <= odd THEN half + 1
                   ELSE IF (j - odd) % 2 = 1 THEN half + turn ELSE half - turn + 1]]

RBTreeCopy(filter) ==
  /\ at = "idle" /\ tree.size > 0
  /\ Begin("copy", filter)
  /\ tree' = NewTree
  /\ todo' = CopyOrder(Collected(tree, filter))
  /\ at' = IF todo' = <<>> THEN "return" ELSE "put"
  /\ UNCHANGED <<cur, gone>>

\* Mutant: the loop counter is advanced only when a node was added.
PutNextStuck ==
  /\ at = "put"
  /\ todo' = IF Has(tree, Head(todo)) THEN todo ELSE Tail(todo)
  /\ UNCHANGED <<gone, call>>
  /\ PutKey(Head(todo))

PutNext ==
  /\ at = "put"
  /\ todo' = Tail(todo)
  /\ UNCHANGED <<gone, call>>
  /\ PutKey(Head(todo))

TreeNext ==
  \/ \E k \in Keys : RBTreePut(k) \/ RBTreeRemove(k)
  \/ \E filter \in Filters : RBTreeCopy(filter)
  \/ RBTreeClear
  \/ PutFix \/ PutEnd \/ PutNext \/ RemoveFix \/ RemoveFixEnd \/ RemoveEnd \/ Return

Internal == PutFix \/ PutEnd \/ PutNext \/ RemoveFix \/ RemoveFixEnd \/ RemoveEnd \/ Return

\* A caller may never call again, but an operation that was called runs on.
TreeSpec == TreeInit /\ [][TreeNext]_treeVars /\ WF_treeVars(Internal)

-----------------------------------------------------------------------------
TreeTypeOK ==
  /\ tree.red \subseteq Nodes /\ tree.parent \in [Nodes -> Nodes]
  /\ tree.kid \in [Sides -> [Nodes -> Nodes]]
  /\ tree.size \in 0..Cardinality(Keys)
  /\ at \in {"idle", "put", "putfix", "removefix", "unlink", "return"}
  /\ cur \in Nodes /\ todo \in Seq(Keys)
  /\ gone = NoCall \/ gone \in [z : Keys, y : Keys, root : Nodes]
  /\ (call = NoCall) <=> (at = "idle")

\* The counts of black nodes on the paths from n down to the sentinel.
BlackCounts(u, n) ==
  LET count[m \in Nodes] ==
        IF m = Nil THEN {1}
        ELSE {c + (IF m \in u.red THEN 0 ELSE 1) : c \in count[Left(u, m)] \cup count[Right(u, m)]}
  IN  count[n]

\* The assertions of VerifyNode_ and VerifyTree_.
VerifyTree(u) ==
  /\ Root \notin u.red /\ Nil \notin u.red
  /\ \A k \in Range(Iterated(u)) : k \in u.red => Left(u, k) \notin u.red /\ Right(u, k) \notin u.red
  /\ Cardinality(BlackCounts(u, Left(u, Root))) = 1

\* VerifyTree_ would pass after every operation, whatever sequence of puts,
\* removals, clears and copies led there: no red node has a red child and every
\* path down has the same number of black nodes.  The code only asks it of copies.
\* The two sentinels are black also in the middle of PutFix_ and RemoveFix_, which
\* paint parents, grandparents, siblings and nephews without asking which of them
\* is a sentinel: what the assertions throughout rb-tree.c say.
Balanced ==
  /\ TreeTypeOK
  /\ at \in {"idle", "return"} => VerifyTree(tree)
  /\ Nil \notin tree.red /\ Root \notin tree.red

\* What an operation leaves in the tree is what it promises: no rotation or
\* splice drops, or brings back, the node of another key.  The iterator, which
\* follows parent pointers, yields exactly the keys that RBTreeGet, which descends
\* from the top, finds, in increasing order, and RBTreeSize is their number.
OperationsExact ==
  at = "return" =>
    LET before == Range(call.before)
        seen   == Iterated(tree)
        after  == Range(seen)
    IN  /\ after = {k \in Keys : Has(tree, k)}
        /\ \A i \in 1..Len(seen) - 1 : seen[i] < seen[i + 1]
        /\ tree.size = Len(seen)
        /\ CASE call.op = "put"    -> after = before \cup call.arg
             [] call.op = "remove" -> after = before \ call.arg
             [] call.op = "clear"  -> after = {}
             [] call.op = "copy"   -> after \subseteq before \cap call.arg

\* The loops of PutFix_, RemoveFix_ and RBTreeCopy end: every call returns.
OperationsEnd == (at # "idle") ~> (at = "idle")

\* "assert_true(RBTreeEqual(a, b));" after RBTree *b = RBTreeCopy(a, NULL, NULL)
\* (tests/unit/rb-tree-test.c:219): the copy holds every key the filter accepts.
CopyEqual ==
  at = "return" /\ call.op = "copy" =>
    Iterated(tree) = SelectSeq(call.before, LAMBDA n : n \in call.arg)
=============================================================================
