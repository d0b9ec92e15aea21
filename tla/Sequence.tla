------------------------------ MODULE Sequence ------------------------------
(***************************************************************************)
(* libutils/sequence.c: a growing array of pointers.  struct Seq_ is a     *)
(* record: data holds the first length slots, numbered from 1 here and     *)
(* from 0 in the code, capacity the number allocated.  A caller has one    *)
(* sequence and the tail it split off, both with the same ItemDestroy, or  *)
(* without one; it hands over items, pointers that it has, and has those   *)
(* again that are given back to it, or given up without an ItemDestroy.    *)
(***************************************************************************)
EXTENDS Integers, Sequences, SequencesExt

CONSTANTS SeqItems,          \* pointers: positive integers
          SEQ_CAPACITY       \* argument of SeqNew

VARIABLES sq,                \* the sequence
          tail,              \* what SeqSplit returned
          ItemDestroy,       \* of both: "set", "NULL", or NULL and "called" all the same
          caller,            \* the items the caller has
          gone               \* how often ItemDestroy was called for an item

seqVars == <<sq, tail, ItemDestroy, caller, gone>>

SEQ_EXPAND_FACTOR == 2

\* What comparators look at: some items are equal.
Rank == [i \in SeqItems |-> i \div 2]

SeqNew(initialCapacity) ==
  [data |-> <<>>, capacity |-> IF initialCapacity <= 0 THEN 1 ELSE initialCapacity]

SeqAppend(q, item) ==
  [data     |-> Append(q.data, item),
   capacity |-> IF Len(q.data) = q.capacity THEN q.capacity * SEQ_EXPAND_FACTOR
                ELSE q.capacity]

SeqAppendSeq(q, items) == FoldLeft(SeqAppend, q, items)

\* start and end count from 0 and are both removed.
SeqSoftRemoveRange(q, start, end) ==
  [q EXCEPT !.data = SubSeq(@, 1, start) \o SubSeq(@, end + 2, Len(@))]

\* SeqGetRange, which returns NULL for a range that is not inside.
SeqGetRange(q, start, end) ==
  IF start > end \/ start >= Len(q.data) \/ end >= Len(q.data) THEN SeqNew(0)
  ELSE SeqAppendSeq(SeqNew(end - start + 1), SubSeq(q.data, start + 1, end + 1))

SwapSlots(data, l, r) == [data EXCEPT ![l] = data[r], ![r] = data[l]]

SeqReverse(q) ==
  [q EXCEPT !.data = FoldLeft(LAMBDA d, i : SwapSlots(d, i, Len(d) + 1 - i), @,
                              [i \in 1..(Len(@) \div 2) |-> i])]

-----------------------------------------------------------------------------
\* The partition loop of QuickSortRecursive: the inner loops skip what is on
\* its side already, then one pair is exchanged.  The inner loops do not compare
\* l with r and need not: what l meets behind r is not below the pivot, what r
\* meets before l is not above it.
RECURSIVE Partition(_, _, _, _, _)
Partition(data, rk, pivot, l, r) ==
  IF l > r THEN <<data, l, r>>
  ELSE IF rk[data[l]] < pivot THEN Partition(data, rk, pivot, l + 1, r)
  ELSE IF rk[data[r]] > pivot THEN Partition(data, rk, pivot, l, r - 1)
  ELSE Partition(SwapSlots(data, l, r), rk, pivot, l + 1, r - 1)

\* QuickSortRecursive on the n slots from first; rk gives what Compare orders.
RECURSIVE QuickSort(_, _, _, _)
QuickSort(data, rk, first, n) ==
  IF n < 2 THEN data
  ELSE LET p == Partition(data, rk, rk[data[first + (n \div 2)]], first, first + n - 1)
           left == QuickSort(p[1], rk, first, p[3] - first + 1)
       IN  QuickSort(left, rk, p[2], first + n - p[2])

\* SeqSort with the order of rk.
SortBy(data, rk) == QuickSort(data, rk, 1, Len(data))

\* First index, from 0, of an item that compares equal, or -1.
SeqIndexOf(q, key, rk) ==
  LET found == {i \in 1..Len(q.data) : rk[q.data[i]] = key}
  IN  IF found = {} THEN -1 ELSE (CHOOSE i \in found : \A j \in found : i <= j) - 1

RECURSIVE BinarySearch(_, _, _, _, _)
BinarySearch(q, key, rk, low, high) ==
  LET middle == low + ((high - low) \div 2)
  IN  IF low >= high THEN -1
      ELSE IF key = rk[q.data[middle + 1]] THEN middle
      ELSE IF key > rk[q.data[middle + 1]] THEN BinarySearch(q, key, rk, middle + 1, high)
      ELSE BinarySearch(q, key, rk, low, middle)

SeqBinaryIndexOf(q, key, rk) == BinarySearch(q, key, rk, 0, Len(q.data))

-----------------------------------------------------------------------------
SeqInit ==
  /\ sq = SeqNew(SEQ_CAPACITY) /\ tail = SeqNew(1) /\ ItemDestroy \in {"set", "NULL"}
  /\ caller = SeqItems /\ gone = [i \in SeqItems |-> 0]

\* The caller hands over items and gets others back; others are given up, to
\* ItemDestroy if there is one.
Hand(handed, back, given_up) ==
  /\ caller' = (caller \ handed) \cup back \cup (IF ItemDestroy = "set" THEN {} ELSE Range(given_up))
  /\ gone' = IF ItemDestroy # "set" THEN gone
             ELSE [i \in SeqItems |-> gone[i] + Cardinality({j \in DOMAIN given_up : given_up[j] = i})]
  /\ UNCHANGED ItemDestroy

AppendItem(x) == sq' = SeqAppend(sq, x) /\ Hand({x}, {}, <<>>) /\ UNCHANGED tail

\* The item is swallowed when an equal one is there.
SeqAppendOnce(x) ==
  IF SeqIndexOf(sq, Rank[x], Rank) = -1 THEN AppendItem(x)
  ELSE Hand({x}, {}, <<x>>) /\ UNCHANGED <<sq, tail>>

SeqSet(i, x) ==
  /\ Hand({x}, {}, <<sq.data[i + 1]>>)
  /\ sq' = [sq EXCEPT !.data[i + 1] = x]
  /\ UNCHANGED tail

\* The caller keeps the item that was there.
SeqSoftSet(i, x) ==
  /\ Hand({x}, {sq.data[i + 1]}, <<>>)
  /\ sq' = [sq EXCEPT !.data[i + 1] = x]
  /\ UNCHANGED tail

SeqRemoveRange(start, end) ==
  /\ Hand({}, {}, SubSeq(sq.data, start + 1, end + 1))
  /\ sq' = SeqSoftRemoveRange(sq, start, end)
  /\ UNCHANGED tail

SoftRemove(start, end) ==
  /\ Hand({}, Range(SubSeq(sq.data, start + 1, end + 1)), <<>>)
  /\ sq' = SeqSoftRemoveRange(sq, start, end)
  /\ UNCHANGED tail

SameItems == UNCHANGED <<ItemDestroy, caller, gone>>

SeqSort == sq' = [sq EXCEPT !.data = SortBy(@, Rank)] /\ UNCHANGED tail /\ SameItems

ReverseIt == sq' = SeqReverse(sq) /\ UNCHANGED tail /\ SameItems

\* Any exchange the random numbers ask for, from the last slot down.
SeqShuffle ==
  /\ sq.data # <<>>
  /\ \E pick \in [2..Len(sq.data) -> 1..Len(sq.data)] :
        /\ \A i \in DOMAIN pick : pick[i] <= i
        /\ sq' = [sq EXCEPT !.data = FoldRight(LAMBDA i, d : SwapSlots(d, i, pick[i]),
                                               [i \in 1..(Len(@) - 1) |-> i + 1], @)]
  /\ UNCHANGED tail /\ SameItems

\* The tail may be empty; only one is kept.
SeqSplit(index) ==
  /\ tail.data = <<>>
  /\ IF index >= Len(sq.data) THEN tail' = SeqNew(1) /\ UNCHANGED sq
     ELSE /\ tail' = SeqGetRange(sq, index, Len(sq.data) - 1)
          /\ sq' = SeqSoftRemoveRange(sq, index, Len(sq.data) - 1)
  /\ SameItems

\* SeqAppendSeq, after which the caller gives the other up with SeqSoftDestroy.
AppendTail == sq' = SeqAppendSeq(sq, tail.data) /\ tail' = SeqNew(1) /\ SameItems

\* Mutant: an item to drop is passed over with the one behind it.
FilterStepSkips(r, from, drop) ==
  IF r.data[from] \in drop THEN [r EXCEPT !.dropped = Append(@, r.data[from])]
  ELSE IF from > 1 /\ r.data[from - 1] \in drop THEN r
  ELSE [r EXCEPT !.data[r.to + 1] = r.data[from], !.to = @ + 1]

\* One round of the loop: what stays goes to the next slot at the front.
FilterStep(r, from, drop) ==
  IF r.data[from] \in drop THEN [r EXCEPT !.dropped = Append(@, r.data[from])]
  ELSE [r EXCEPT !.data[r.to + 1] = r.data[from], !.to = @ + 1]

\* ItemDestroy is called without being looked at: that of NULL ends the program.
SeqFilter(drop) ==
  LET r == FoldLeft(LAMBDA a, from : FilterStep(a, from, drop),
                    [data |-> sq.data, to |-> 0, dropped |-> <<>>],
                    [i \in 1..Len(sq.data) |-> i])
  IN  IF ItemDestroy = "NULL" /\ r.dropped # <<>>
      THEN ItemDestroy' = "called" /\ UNCHANGED <<sq, tail, caller, gone>>
      ELSE /\ sq' = [sq EXCEPT !.data = SubSeq(r.data, 1, r.to)]
           /\ Hand({}, {}, r.dropped)
           /\ UNCHANGED tail

\* SeqDestroy, and a new sequence.
SeqDestroy ==
  /\ Hand({}, {}, sq.data)
  /\ sq' = SeqNew(SEQ_CAPACITY)
  /\ UNCHANGED tail

SeqSteps ==
  \/ \E x \in caller : AppendItem(x) \/ SeqAppendOnce(x)
  \/ \E x \in caller, i \in 0..(Len(sq.data) - 1) : SeqSet(i, x) \/ SeqSoftSet(i, x)
  \/ \E end \in 0..(Len(sq.data) - 1) : \E start \in 0..end :
        SeqRemoveRange(start, end) \/ SoftRemove(start, end)
  \/ SeqSort \/ ReverseIt \/ SeqShuffle \/ AppendTail \/ SeqDestroy
  \/ \E index \in 0..Len(sq.data) : SeqSplit(index)
  \/ \E drop \in {{i \in SeqItems : Rank[i] = 1}} : SeqFilter(drop)

SeqNext == ItemDestroy # "called" /\ SeqSteps

-----------------------------------------------------------------------------
\* An item is the caller's, or in one place of one sequence, or was destroyed
\* once: removals, replacements, splits and filters neither lose nor keep a
\* pointer they gave up, and the array is never shorter than its contents.  The
\* quicksort orders any contents and keeps every item, and in a sorted sequence
\* the binary search finds what the linear search finds.
SeqExact ==
  LET sorted == [sq EXCEPT !.data = SortBy(@, Rank)]
  IN  /\ \A i \in SeqItems :
           gone[i] + Cardinality({j \in DOMAIN sq.data : sq.data[j] = i})
                   + Cardinality({j \in DOMAIN tail.data : tail.data[j] = i})
                   + (IF i \in caller THEN 1 ELSE 0) = 1
      /\ Len(sq.data) <= sq.capacity /\ Len(tail.data) <= tail.capacity
      /\ \A j \in 2..Len(sorted.data) : Rank[sorted.data[j - 1]] <= Rank[sorted.data[j]]
      /\ Range(sorted.data) = Range(sq.data) /\ Len(sorted.data) = Len(sq.data)
      /\ \A key \in Range(Rank) :
           LET i == SeqBinaryIndexOf(sorted, key, Rank)
           IN  IF SeqIndexOf(sq, key, Rank) = -1 THEN i = -1
               ELSE i \in 0..(Len(sorted.data) - 1) /\ Rank[sorted.data[i + 1]] = key
=============================================================================
