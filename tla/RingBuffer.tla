----------------------------- MODULE RingBuffer -----------------------------
(***************************************************************************)
(* libutils/ring_buffer.c: a buffer that keeps the last items appended.    *)
(* Items are numbered in the order they are handed over; the buffer may    *)
(* own them (destroy is given) or not, and one iterator may be open on it. *)
(***************************************************************************)
EXTENDS Integers, Sequences, FiniteSets

CONSTANTS RING_CAPACITY,     \* argument of RingBufferNew
          MAX_APPENDS        \* bound: items handed over

NIL == 0

VARIABLES buf,               \* struct RingBuffer_
          iter,              \* num_read of the iterator, -1 when there is none
          reads,             \* what the iterator returned so far
          quiet,             \* no append since the iterator was made
          count,             \* items handed over so far
          freed              \* how often the buffer destroyed each item

ringVars == <<buf, iter, reads, quiet, count, freed>>

ASSUME RingAssumption == RING_CAPACITY \in Nat \ {0} /\ MAX_APPENDS \in Nat

-----------------------------------------------------------------------------
RingBufferNew(owns) ==
  [data |-> [i \in 0..(RING_CAPACITY - 1) |-> NIL], len |-> 0, end |-> 0, destroy |-> owns]

RingInit ==
  /\ \E owns \in BOOLEAN : buf = RingBufferNew(owns)
  /\ iter = -1 /\ reads = <<>> /\ quiet = TRUE
  /\ count = 0 /\ freed = [x \in 1..MAX_APPENDS |-> 0]

RingBufferAppend ==
  /\ buf' = [buf EXCEPT !.data[buf.end] = count + 1, !.end = (@ + 1) % RING_CAPACITY,
                        !.len = IF @ < RING_CAPACITY THEN @ + 1 ELSE @]
  /\ freed' = IF buf.data[buf.end] # NIL /\ buf.destroy THEN [freed EXCEPT ![buf.data[buf.end]] = @ + 1]
              ELSE freed
  /\ count' = count + 1 /\ quiet' = FALSE
  /\ UNCHANGED <<iter, reads>>

\* Without destroy the old pointers stay in the slots.  len - num_read is
\* unsigned in the iterator: one that read more than a cleared buffer holds
\* would go on, so a caller ends its iterator before it clears.
RingBufferClear ==
  /\ iter = -1
  /\ buf' = [buf EXCEPT !.data = IF buf.destroy THEN [i \in DOMAIN @ |-> NIL] ELSE @,
                        !.len = 0, !.end = 0]
  /\ freed' = IF ~buf.destroy THEN freed
              ELSE [x \in DOMAIN freed |-> freed[x] + Cardinality({i \in DOMAIN buf.data : buf.data[i] = x})]
  /\ UNCHANGED <<iter, reads, quiet, count>>

RingBufferHead ==
  IF buf.len = 0 THEN NIL
  ELSE IF buf.end = 0 THEN buf.data[RING_CAPACITY - 1] ELSE buf.data[buf.end - 1]

RingBufferIteratorNew ==
  /\ iter = -1
  /\ iter' = 0 /\ reads' = <<>> /\ quiet' = TRUE
  /\ UNCHANGED <<buf, count, freed>>

RingBufferIteratorDestroy ==
  /\ iter # -1
  /\ iter' = -1 /\ reads' = <<>>
  /\ UNCHANGED <<buf, quiet, count, freed>>

\* Mutant: a full buffer is read from its first slot.
OffsetUnwrapped(b, num_read) == num_read % RING_CAPACITY

\* The slot an iterator reads next.
Offset(b, num_read) ==
  IF b.len = RING_CAPACITY THEN (b.end + num_read) % RING_CAPACITY ELSE num_read

RingBufferIteratorNext ==
  /\ iter # -1 /\ buf.len # iter
  /\ reads' = Append(reads, buf.data[Offset(buf, iter)])
  /\ iter' = iter + 1
  /\ UNCHANGED <<buf, quiet, count, freed>>

RingNext ==
  \/ count < MAX_APPENDS /\ RingBufferAppend
  \/ RingBufferClear \/ RingBufferIteratorNew
  \/ RingBufferIteratorNext \/ RingBufferIteratorDestroy

-----------------------------------------------------------------------------
RingContents == [i \in 1..buf.len |-> buf.data[Offset(buf, i - 1)]]

Increasing(s) == \A i \in 2..Len(s) : s[i - 1] < s[i]

\* Through wraps and clears the buffer holds the newest items in their order
\* and the head is the newest; an owning buffer has destroyed every other item
\* once; an iterator never goes back in time, appends in between or not, and
\* without them it returns what the buffer holds.
RingExact ==
  LET held == {RingContents[i] : i \in 1..buf.len}
  IN  /\ \A i \in 1..buf.len : RingContents[i] = count - buf.len + i
      /\ RingBufferHead = (IF buf.len = 0 THEN NIL ELSE count)
      /\ buf.destroy => \A x \in 1..count : freed[x] = IF x \in held THEN 0 ELSE 1
      /\ Increasing(reads)
      /\ quiet /\ iter # -1 => reads = SubSeq(RingContents, 1, iter)
=============================================================================
