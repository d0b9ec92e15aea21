-------------------------------- MODULE List --------------------------------
(***************************************************************************)
(* libutils/list.c and refcount.c: doubly linked lists that share their    *)
(* nodes after ListCopy and are detached, by copying every node, before    *)
(* one of them is changed; and their two kinds of iterators.               *)
(*                                                                         *)
(* The nodes live in a heap.  The fields list and first of struct List are *)
(* always assigned together and are one field here.  Queries (ListCount,   *)
(* ...Data, ...HasNext, ...HasPrevious) change nothing and are not steps;  *)
(* what they read is the subject of the invariants.                        *)
(***************************************************************************)
EXTENDS Naturals, Sequences, FiniteSets, FiniteSetsExt, SequencesExt

CONSTANTS Lists,             \* the List objects
          Payloads,          \* pointers to elements; may contain NULL
          Value,             \* a pointer to an element that is equal to this one, the
                             \* same for all that compare takes for equal
          Duplicate,         \* what the copy function makes of this pointer
          NULL,              \* no node, and the NULL payload
          Garbage,           \* a payload field nobody initialized
          Absent,            \* no list, no iterator
          Bounds,            \* how far a behaviour may go: numbers of lists, of
                             \* nodes of a list and of removals, payloads, and
                             \* whether the lists have a compare and a copy function
          IteratorsOnShared  \* may callers iterate over a list that is shared?

ASSUME ListAssumption ==
  /\ IsFiniteSet(Lists)
  /\ Bounds # {} /\ IsFiniteSet(Bounds)
  /\ Bounds \subseteq [lists : 1..Cardinality(Lists), len : Nat, removals : Nat,
                      payloads : SUBSET Payloads, compare : BOOLEAN, copy : BOOLEAN]
  /\ Value \in [Payloads -> Payloads] /\ Duplicate \in [Payloads -> Payloads]
  /\ \A x \in Payloads \ {NULL} :
       /\ Duplicate[x] \notin {NULL, x}
       /\ Value[x] # NULL /\ Value[Duplicate[x]] = Value[x]
  /\ NULL \in Payloads => Value[NULL] = NULL
  /\ IteratorsOnShared \in BOOLEAN
  /\ NULL \notin Nat /\ Absent \notin Nat
  /\ Absent \notin [current : Nat, valid : BOOLEAN]
  /\ Absent \notin [origin : Lists, current : Nat, state : Nat]
  /\ Absent \notin [list : Lists, pos : Nat]
  /\ Absent \notin Seq(Payloads \cup {Garbage})

MaxLen   == Max({b.len : b \in Bounds})
MaxState == Max({b.removals : b \in Bounds})

Nodes == 1..Max({b.len * b.lists : b \in Bounds})
Refs  == 1..Cardinality(Lists)

VARIABLES heap,       \* payload, next and previous of every ListNode
          allocated,  \* the nodes that are not free
          lists,      \* first, last, node_count, state and ref_count of a List
          refs,       \* user_count and users of every RefCount
          miter,      \* current and valid of a list's ListMutableIterator
          liter,      \* current, origin and state of a ListIterator
          bound       \* the bound of this behaviour, a member of Bounds

vars == <<heap, allocated, lists, refs, miter, liter, bound>>

Blank == [payload |-> Garbage, next |-> NULL, previous |-> NULL]

-----------------------------------------------------------------------------
(***************************************************************************)
(* The heap.  malloc returns a free node; which one makes no difference.   *)
(***************************************************************************)
Live(l)   == lists[l] # Absent
Malloc(a) == Min(Nodes \ a)

\* The nodes from p on, following next, in as many turns as there are nodes.
Chain(h, p) ==
  LET walk[k \in 0..Cardinality(Nodes)] ==
        [n \in Nodes \cup {NULL} |->
           IF k = 0 \/ n = NULL THEN <<>> ELSE <<n>> \o walk[k - 1][h[n].next]]
  IN  walk[Cardinality(Nodes)][p]

NodesOf(l) == Chain(heap, lists[l].first)

\* A list's part of the heap, as the operations below change it.
View(l) == [heap |-> heap, allocated |-> allocated,
            first |-> lists[l].first, last |-> lists[l].last]

RefCountIsShared(l) == refs[lists[l].ref].user_count > 1

(***************************************************************************)
(* ListDetach: a shared list gets nodes of its own, and a RefCount of its  *)
(* own.  The copy of a NULL payload is left uninitialized.                 *)
(***************************************************************************)
\* Mutant: the pointer the copy function returns is not stored.
CopyUnset(payload) == Garbage

CopyOf(payload) == IF payload \in {NULL, Garbage} THEN Garbage ELSE Duplicate[payload]

\* Mutant: the nodes stay shared.
DetachedInPlace(l) == View(l)

Detached(l) ==
  IF ~RefCountIsShared(l) THEN View(l)
  ELSE LET old   == NodesOf(l)
           n     == Len(old)
           fresh == CHOOSE f \in [1..n -> Nodes \ allocated] : IsInjective(f)
           index == [p \in Range(fresh) |-> CHOOSE i \in 1..n : fresh[i] = p]
       IN  [heap |-> [p \in Nodes |->
                        IF p \notin Range(fresh) THEN heap[p]
                        ELSE [payload  |-> CopyOf(heap[old[index[p]]].payload),
                              next     |-> IF index[p] = n THEN NULL
                                           ELSE fresh[index[p] + 1],
                              previous |-> IF index[p] = 1 THEN NULL
                                           ELSE fresh[index[p] - 1]]],
            allocated |-> allocated \cup Range(fresh),
            first |-> IF n = 0 THEN NULL ELSE fresh[1],
            last  |-> IF n = 0 THEN NULL ELSE fresh[n]]

RefCountNew == [user_count |-> 0, users |-> {}]
FreeRef == Min({r \in Refs : refs[r] = RefCountNew})
NewRef(l) == IF RefCountIsShared(l) THEN FreeRef ELSE lists[l].ref

RefCountAttach(rs, r, l) ==
  [rs EXCEPT ![r] = [user_count |-> @.user_count + 1, users |-> @.users \cup {l}]]

\* Mutant: the count is not decreased.
RefCountDetachUncounted(rs, r, l) ==
  IF rs[r].user_count <= 1 THEN rs ELSE [rs EXCEPT ![r].users = @ \ {l}]

\* A RefCount keeps its last user.
RefCountDetach(rs, r, l) ==
  IF rs[r].user_count <= 1 THEN rs
  ELSE [rs EXCEPT ![r] = [user_count |-> @.user_count - 1, users |-> @.users \ {l}]]

DetachedRefs(l) ==
  IF RefCountIsShared(l)
    THEN RefCountAttach(RefCountDetach(refs, lists[l].ref, l), FreeRef, l)
    ELSE refs

-----------------------------------------------------------------------------
(***************************************************************************)
(* Linking and unlinking nodes in a view v.                                *)
(***************************************************************************)
SetNext(h, p, n)     == IF p = NULL THEN h ELSE [h EXCEPT ![p].next = n]
SetPrevious(h, p, n) == IF p = NULL THEN h ELSE [h EXCEPT ![p].previous = n]

\* A new node with this payload between two neighbours of the list.
Link(v, x, before, after) ==
  LET n == Malloc(v.allocated)
      h == [v.heap EXCEPT ![n] = [payload |-> x, next |-> after, previous |-> before]]
  IN  [heap |-> SetPrevious(SetNext(h, before, n), after, n),
       allocated |-> v.allocated \cup {n},
       first |-> IF before = NULL THEN n ELSE v.first,
       last  |-> IF after = NULL THEN n ELSE v.last]

\* Takes node n out and frees it.
Unlink(v, n) ==
  LET prev == v.heap[n].previous
      next == v.heap[n].next
      h    == SetPrevious(SetNext(v.heap, prev, next), next, prev)
  IN  [heap |-> [h EXCEPT ![n] = Blank],
       allocated |-> v.allocated \ {n},
       first |-> IF prev = NULL THEN next ELSE v.first,
       last  |-> IF next = NULL THEN prev ELSE v.last]

\* The list after a change that went through ListDetach.
Update(l, v, count, state) ==
  /\ heap' = v.heap
  /\ allocated' = v.allocated
  /\ lists' = [lists EXCEPT ![l] = [first |-> v.first, last |-> v.last,
                                    node_count |-> count, state |-> state,
                                    ref |-> NewRef(l)]]
  /\ refs' = DetachedRefs(l)

Added(l, v)   == Update(l, v, lists[l].node_count + 1, lists[l].state)
\* ListUpdateListState
Removed(l, v) == Update(l, v, lists[l].node_count - 1, lists[l].state + 1)

\* Bounds.
MayCreate    == Cardinality({l \in Lists : Live(l)}) < bound.lists
MayGrow(l)   == Live(l) /\ lists[l].node_count < bound.len
MayShrink(l) == Live(l) /\ lists[l].state < bound.removals

-----------------------------------------------------------------------------
Init ==
  /\ heap = [n \in Nodes |-> Blank]
  /\ allocated = {}
  /\ lists = [l \in Lists |-> Absent]
  /\ refs = [r \in Refs |-> RefCountNew]
  /\ miter = [l \in Lists |-> Absent]
  /\ liter = Absent
  /\ bound \in Bounds

ListNew(l) ==
  /\ ~Live(l) /\ MayCreate
  /\ lists' = [lists EXCEPT ![l] = [first |-> NULL, last |-> NULL, node_count |-> 0,
                                    state |-> 0, ref |-> FreeRef]]
  /\ refs' = RefCountAttach(refs, FreeRef, l)
  /\ UNCHANGED <<heap, allocated, miter, liter, bound>>

Iterated(l) == miter[l] # Absent \/ (liter # Absent /\ liter.origin = l)

\* The caller releases its iterators first ("This function has to be called
\* for mutable iterators").
ListDestroy(l) ==
  /\ Live(l) /\ ~Iterated(l)
  /\ lists' = [lists EXCEPT ![l] = Absent]
  /\ IF RefCountIsShared(l)
       THEN /\ refs' = RefCountDetach(refs, lists[l].ref, l)
            /\ UNCHANGED <<heap, allocated>>
       ELSE /\ refs' = [refs EXCEPT ![lists[l].ref] = RefCountNew]
            /\ allocated' = allocated \ Range(NodesOf(l))
            /\ heap' = [n \in Nodes |-> IF n \in Range(NodesOf(l)) THEN Blank
                                                                   ELSE heap[n]]
  /\ UNCHANGED <<miter, liter, bound>>

\* With a copy function, without which the call is refused.
ListCopy(o, d) ==
  /\ bound.copy
  /\ Live(o) /\ ~Live(d) /\ MayCreate
  /\ IteratorsOnShared \/ \A l \in refs[lists[o].ref].users : ~Iterated(l)
  /\ lists' = [lists EXCEPT ![d] = lists[o]]
  /\ refs' = RefCountAttach(refs, lists[o].ref, d)
  /\ UNCHANGED <<heap, allocated, miter, liter, bound>>

ListPrepend(l, x) ==
  /\ MayGrow(l)
  /\ Added(l, Link(Detached(l), x, NULL, Detached(l).first))
  /\ UNCHANGED <<miter, liter, bound>>

ListAppend(l, x) ==
  /\ MayGrow(l)
  /\ Added(l, Link(Detached(l), x, Detached(l).last, NULL))
  /\ UNCHANGED <<miter, liter, bound>>

StepAside(h, it, n) ==
  IF it = Absent \/ it.current # n THEN it
  ELSE IF h[n].next # NULL THEN [it EXCEPT !.current = h[n].next]
  ELSE IF h[n].previous # NULL THEN [it EXCEPT !.current = h[n].previous]
  ELSE [it EXCEPT !.valid = FALSE]

\* What a search sees of an element: its value with a compare function, the
\* pointer without one.
Seen(x) == IF bound.compare /\ x \in Payloads THEN Value[x] ELSE x

\* What a search can find in a view of a list.
Sights(v) == {Seen(v.heap[p].payload) : p \in Range(Chain(v.heap, v.first))}

ListFindNode(v, x) == Seen(x) \in Sights(v)

(***************************************************************************)
(* ListRemove(l, x), x not NULL: the first match, searched for before the  *)
(* list is detached and again after it.  The assertion that it is there in *)
(* the second search too is FoundAgain below; where it fails the process   *)
(* ends.                                                                   *)
(***************************************************************************)
ListRemove(l, x) ==
  /\ MayShrink(l)
  /\ ListFindNode(View(l), x)
  /\ LET v == Detached(l)
         s == Chain(v.heap, v.first)
         i == SelectInSeq(s, LAMBDA p : Seen(v.heap[p].payload) = Seen(x))
     IN  /\ ListFindNode(v, x)
         /\ miter' = [miter EXCEPT ![l] = StepAside(v.heap, @, s[i])]
         /\ Removed(l, Unlink(v, s[i]))
  /\ UNCHANGED <<liter, bound>>

-----------------------------------------------------------------------------
(***************************************************************************)
(* Light iterators.                                                        *)
(***************************************************************************)
ListIteratorGet(l) ==
  /\ Live(l) /\ liter = Absent /\ lists[l].first # NULL
  /\ IteratorsOnShared \/ ~RefCountIsShared(l)
  /\ liter' = [origin |-> l, current |-> lists[l].first, state |-> lists[l].state]
  /\ UNCHANGED <<heap, allocated, lists, refs, miter, bound>>

ListIteratorDestroy ==
  /\ liter # Absent
  /\ liter' = Absent
  /\ UNCHANGED <<heap, allocated, lists, refs, miter, bound>>

\* "The list has moved forward, the iterator is invalid now".
\* Mutant: the state is not compared.
LightAlways(it) == it # Absent

LightValid(it) == it # Absent /\ it.state = lists[it.origin].state

\* First, Last, Next and Previous, when there is somewhere to move to.
MoveLight ==
  /\ LightValid(liter)
  /\ \E p \in {lists[liter.origin].first, lists[liter.origin].last,
               heap[liter.current].next, heap[liter.current].previous} \ {NULL} :
       liter' = [liter EXCEPT !.current = p]
  /\ UNCHANGED <<heap, allocated, lists, refs, miter, bound>>

-----------------------------------------------------------------------------
(***************************************************************************)
(* The mutable iterator of a list.                                         *)
(***************************************************************************)
ListMutableIteratorGet(l) ==
  /\ Live(l) /\ miter[l] = Absent /\ lists[l].first # NULL
  /\ IteratorsOnShared \/ ~RefCountIsShared(l)
  /\ miter' = [miter EXCEPT ![l] = [current |-> lists[l].first, valid |-> TRUE]]
  /\ UNCHANGED <<heap, allocated, lists, refs, liter, bound>>

ListMutableIteratorRelease(l) ==
  /\ miter[l] # Absent
  /\ miter' = [miter EXCEPT ![l] = Absent]
  /\ UNCHANGED <<heap, allocated, lists, refs, liter, bound>>

MutableValid(l) == miter[l] # Absent /\ miter[l].valid
Current(l)      == miter[l].current

MoveMutable(l) ==
  /\ MutableValid(l)
  /\ \E p \in {lists[l].first, lists[l].last,
               heap[Current(l)].next, heap[Current(l)].previous} \ {NULL} :
       miter' = [miter EXCEPT ![l].current = p]
  /\ UNCHANGED <<heap, allocated, lists, refs, liter, bound>>

(***************************************************************************)
(* The iterator's changes detach the list first, and go on with the node   *)
(* the iterator is at.                                                     *)
(***************************************************************************)
\* The only element stays, but the list has been detached by then.
ListMutableIteratorRemove(l) ==
  /\ MutableValid(l) /\ MayShrink(l)
  /\ LET v    == Detached(l)
         n    == Current(l)
         next == v.heap[n].next
         prev == v.heap[n].previous
     IN  \/ /\ next # NULL \/ prev # NULL
            /\ miter' = [miter EXCEPT ![l].current = IF next # NULL THEN next ELSE prev]
            /\ Removed(l, Unlink(v, n))
         \/ /\ next = NULL /\ prev = NULL
            /\ Update(l, v, lists[l].node_count, lists[l].state)
            /\ UNCHANGED miter
  /\ UNCHANGED <<liter, bound>>

ListMutableIteratorPrepend(l, x) ==
  /\ MutableValid(l) /\ MayGrow(l)
  /\ LET v == Detached(l)
     IN  Added(l, Link(v, x, v.heap[Current(l)].previous, Current(l)))
  /\ UNCHANGED <<miter, liter, bound>>

\* Mutant: appending after the last element forgets to move last.
AppendKeepsLast(l, x) ==
  /\ MutableValid(l) /\ MayGrow(l)
  /\ LET v == Detached(l)
         w == Link(v, x, Current(l), v.heap[Current(l)].next)
     IN  Added(l, [w EXCEPT !.last = v.last])
  /\ UNCHANGED <<miter, liter, bound>>

ListMutableIteratorAppend(l, x) ==
  /\ MutableValid(l) /\ MayGrow(l)
  /\ LET v == Detached(l)
     IN  Added(l, Link(v, x, Current(l), v.heap[Current(l)].next))
  /\ UNCHANGED <<miter, liter, bound>>

Next ==
  \/ \E l \in Lists :
       \/ ListNew(l) \/ ListDestroy(l) \/ \E d \in Lists : ListCopy(l, d)
       \/ \E x \in bound.payloads : \/ ListPrepend(l, x) \/ ListAppend(l, x)
                                    \/ ListMutableIteratorPrepend(l, x)
                                    \/ ListMutableIteratorAppend(l, x)
       \/ \E x \in Payloads \ {NULL} : ListRemove(l, x)
       \/ ListIteratorGet(l)
       \/ ListMutableIteratorGet(l) \/ ListMutableIteratorRelease(l)
       \/ MoveMutable(l) \/ ListMutableIteratorRemove(l)
  \/ ListIteratorDestroy \/ MoveLight

Spec == Init /\ [][Next]_vars

-----------------------------------------------------------------------------
(***************************************************************************)
(* Properties.                                                             *)
(***************************************************************************)

\* Every field holds a value of its type (struct ListNode, List, RefCount,
\* ListMutableIterator, ListIterator).
TypeOK ==
  /\ heap \in [Nodes -> [payload  : Payloads \cup {Garbage},
                        next     : Nodes \cup {NULL},
                        previous : Nodes \cup {NULL}]]
  /\ allocated \subseteq Nodes
  /\ lists \in [Lists -> [first : Nodes \cup {NULL}, last : Nodes \cup {NULL},
                          node_count : 0..MaxLen, state : 0..MaxState, ref : Refs]
                         \cup {Absent}]
  /\ refs \in [Refs -> [user_count : 0..Cardinality(Lists), users : SUBSET Lists]]
  /\ miter \in [Lists -> [current : Nodes, valid : BOOLEAN] \cup {Absent}]
  /\ liter \in [origin : Lists, current : Nodes, state : 0..MaxState] \cup {Absent}
  /\ bound \in Bounds

\* The nodes of a list form a doubly linked chain of node_count allocated
\* nodes from first to last, after any mix of additions and removals at the
\* ends, by value and through the mutable iterator.  The variables have their
\* types.
WellLinked ==
  TypeOK /\ \A l \in Lists : Live(l) =>
    LET s == NodesOf(l)
        n == Len(s)
    IN  /\ n = lists[l].node_count
        /\ Range(s) \subseteq allocated
        /\ lists[l].last = IF n = 0 THEN NULL ELSE s[n]
        /\ \A i \in 1..n :
             heap[s[i]].previous = IF i = 1 THEN NULL ELSE s[i - 1]

\* The users a RefCount records are the lists that refer to it, and it counts them.
RefsExact ==
  \A r \in Refs : /\ refs[r].users = {l \in Lists : Live(l) /\ lists[l].ref = r}
                  /\ refs[r].user_count = Cardinality(refs[r].users)

\* Copy on write never confuses owners: two lists have a node in common only
\* if they are users of the same RefCount, a RefCount's users are exactly the
\* lists that refer to it, and no node outlives the last list that uses it.
SharingIsCounted ==
  /\ \A l, k \in Lists :
       Live(l) /\ Live(k) /\ Range(NodesOf(l)) \cap Range(NodesOf(k)) # {} =>
         lists[l].ref = lists[k].ref
  /\ RefsExact
  /\ allocated = UNION {Range(NodesOf(l)) : l \in {k \in Lists : Live(k)}}

\* An iterator that its accessors accept is at a node of its list: ListRemove
\* moves the mutable iterator aside, additions leave both kinds alone and
\* removals invalidate the light ones.
IteratorsStayInList ==
  /\ \A l \in Lists : MutableValid(l) => Current(l) \in Range(NodesOf(l))
  /\ LightValid(liter) => liter.current \in Range(NodesOf(liter.origin))

\* list.c, ListRemove: "In theory we don't have to worry about the existence of
\* the node, since the list has not changed, it might have been copied but it is
\* still the same as before": what the first search finds is found again after
\* ListDetach, whatever was copied, changed and shared before.
FoundAgain ==
  \A l \in Lists : Live(l) =>
    LET before == Sights(View(l))
        after  == Sights(Detached(l))
    IN  \A x \in Payloads \ {NULL} : Seen(x) \in before => Seen(x) \in after

\* The lists behave as sequences of their own, with cursors that follow their
\* elements, although copies share nodes until one of them is changed.
Contents(l) == LET s == NodesOf(l) IN [i \in DOMAIN s |-> Seen(heap[s[i]].payload)]
Position(l, p) ==
  LET s == NodesOf(l) IN CHOOSE i \in 0..Len(s) : IF i = 0 THEN p \notin Range(s)
                                                           ELSE s[i] = p

Abstract == INSTANCE IndependentLists WITH
  seqs   <- [l \in Lists |-> IF Live(l) THEN Contents(l) ELSE Absent],
  cursor <- [l \in Lists |-> IF miter[l] = Absent THEN Absent
                             ELSE IF miter[l].valid THEN Position(l, Current(l))
                             ELSE 0],
  light  <- IF liter = Absent THEN Absent
            ELSE [list |-> liter.origin,
                  pos  |-> IF LightValid(liter)
                             THEN Position(liter.origin, liter.current) ELSE 0]

IndependentSpec == Abstract!Spec

\* list.h: a change of a list that was copied triggers a deep copy, so it
\* leaves the contents of every other list as they were.
ChangesStayLocal ==
  [][\A l, k \in Lists :
       (/\ l # k /\ Live(l) /\ Live(k) /\ Live(l)' /\ Live(k)'
        /\ Contents(l)' # Contents(l)) => Contents(k)' = Contents(k)]_vars

=============================================================================
