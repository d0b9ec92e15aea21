-------------------------- MODULE ContainersProofs --------------------------
(***************************************************************************)
(* Proofs about the ring buffer and the linked queue of Fifos, for any     *)
(* capacity and any number of items, about ThreadedStack, for any number   *)
(* of threads and items and any initial capacities, and about RBTree, for  *)
(* any finite set of keys and any filters.                                 *)
(***************************************************************************)
EXTENDS ThreadedStack, Fifos, RBTree, MonitorProofs, NumberProofs

C == RING_CAPACITY

-----------------------------------------------------------------------------
(***************************************************************************)
(* The ring buffer.                                                        *)
(***************************************************************************)
Rings == [data : [0..(C - 1) -> 0..MAX_APPENDS], len : 0..C, end : 0..(C - 1),
          destroy : BOOLEAN]

\* Types of the variables.  The iterator has not read past what is stored, and
\* no more is stored than was handed over.
RingTypeOK ==
  /\ buf \in Rings /\ buf.len <= count
  /\ count \in 0..MAX_APPENDS
  /\ freed \in [1..MAX_APPENDS -> Nat]
  /\ iter \in Int /\ -1 <= iter /\ iter <= buf.len
  /\ reads \in Seq(Nat) /\ Len(reads) = (IF iter = -1 THEN 0 ELSE iter)
  /\ quiet \in BOOLEAN

\* What every slot of the array holds.  Below end are the items appended since
\* the last wrap or clear; from end on, those of the round before when the
\* buffer is full, and nothing that an owning buffer would destroy otherwise.
RingSlots ==
  /\ buf.len < C => buf.end = buf.len
  /\ \A i \in 0..(C - 1) :
       /\ i < buf.end => buf.data[i] = count - buf.end + i + 1
       /\ i >= buf.end /\ buf.len = C => buf.data[i] = count - buf.end - C + i + 1
       /\ i >= buf.end /\ buf.len < C /\ buf.destroy => buf.data[i] = NIL

\* The items before the stored ones are destroyed, once.
RingFreed ==
  buf.destroy => \A x \in 1..MAX_APPENDS : freed[x] = IF x <= count - buf.len THEN 1 ELSE 0

\* What the iterator read last is not newer than the stored item it stands at.
RingIterator ==
  /\ Increasing(reads)
  /\ iter > 0 => reads[iter] <= count - buf.len + iter
  /\ quiet => \A i \in 1..Len(reads) : reads[i] = count - buf.len + i

RingInv == RingTypeOK /\ RingSlots /\ RingFreed /\ RingIterator

\* The fields in plain numbers.
LEMMA RingNumbers ==
  ASSUME RingTypeOK
  PROVE  /\ C \in Nat \ {0} /\ MAX_APPENDS \in Nat
         /\ buf.len \in Nat /\ buf.len <= C /\ buf.end \in Nat /\ buf.end < C
         /\ count \in Nat /\ count <= MAX_APPENDS /\ buf.len <= count
         /\ buf.data \in [0..(C - 1) -> 0..MAX_APPENDS]
         /\ DOMAIN buf = {"data", "len", "end", "destroy"}
<1>1. buf \in Rings /\ count \in 0..MAX_APPENDS /\ buf.len <= count
  BY DEF RingTypeOK
<1>2. /\ buf.len \in 0..C /\ buf.end \in 0..(C - 1)
      /\ buf.data \in [0..(C - 1) -> 0..MAX_APPENDS]
      /\ DOMAIN buf = {"data", "len", "end", "destroy"}
  BY <1>1 DEF Rings, C
<1>3. C \in Nat \ {0} /\ MAX_APPENDS \in Nat
  BY RingAssumption DEF C
<1> QED BY <1>1, <1>2, <1>3

\* The k-th slot an iterator visits holds the k-th of the newest items.
LEMMA RingItem ==
  ASSUME RingTypeOK, RingSlots, NEW k \in 1..buf.len
  PROVE  /\ Offset(buf, k - 1) \in 0..(C - 1)
         /\ buf.data[Offset(buf, k - 1)] = count - buf.len + k
<1>1. /\ C \in Nat \ {0} /\ buf.len \in Nat /\ buf.len <= C
      /\ buf.end \in Nat /\ buf.end < C /\ count \in Nat
  BY RingNumbers
<1>2. CASE buf.len = C
  <2>1. Offset(buf, k - 1) = (buf.end + (k - 1)) % C
    BY <1>2 DEF Offset, C
  <2>2. k - 1 \in 0..C
    BY <1>1
  <2>3. Offset(buf, k - 1) = IF buf.end + (k - 1) < C THEN buf.end + (k - 1)
                                                      ELSE buf.end + (k - 1) - C
    BY <1>1, <2>1, <2>2, RingAdvance, Zenon
  <2>4. CASE buf.end + (k - 1) < C
    <3>1. /\ Offset(buf, k - 1) = buf.end + (k - 1)
          /\ buf.end + (k - 1) \in 0..(C - 1) /\ buf.end + (k - 1) >= buf.end
      BY <1>1, <2>3, <2>4
    <3>2. buf.data[buf.end + (k - 1)] = count - buf.end - C + (buf.end + (k - 1)) + 1
      BY <1>2, <3>1 DEF RingSlots
    <3> QED BY <1>1, <1>2, <3>1, <3>2
  <2>5. CASE ~(buf.end + (k - 1) < C)
    <3>1. /\ Offset(buf, k - 1) = buf.end + (k - 1) - C
          /\ buf.end + (k - 1) - C \in 0..(C - 1) /\ buf.end + (k - 1) - C < buf.end
      BY <1>1, <2>3, <2>5
    <3>2. buf.data[buf.end + (k - 1) - C] = count - buf.end + (buf.end + (k - 1) - C) + 1
      BY <3>1 DEF RingSlots
    <3> QED BY <1>1, <1>2, <3>1, <3>2
  <2> QED BY <2>4, <2>5
<1>3. CASE buf.len # C
  <2>1. Offset(buf, k - 1) = k - 1
    BY <1>3 DEF Offset, C
  <2>2. buf.end = buf.len /\ k - 1 \in 0..(C - 1) /\ k - 1 < buf.end
    BY <1>1, <1>3 DEF RingSlots
  <2>3. buf.data[k - 1] = count - buf.end + (k - 1) + 1
    BY <2>2 DEF RingSlots
  <2> QED BY <1>1, <2>1, <2>2, <2>3
<1> QED BY <1>2, <1>3

LEMMA RingInitOK == RingInit => RingInv
<1> SUFFICES ASSUME RingInit PROVE RingInv
  OBVIOUS
<1>0. C \in Nat \ {0} /\ MAX_APPENDS \in Nat
  BY RingAssumption DEF C
<1>1. PICK owns \in BOOLEAN : buf = RingBufferNew(owns)
  BY DEF RingInit
<1>2. /\ buf \in Rings /\ buf.len = 0 /\ buf.end = 0
      /\ \A i \in 0..(C - 1) : buf.data[i] = NIL
  BY <1>0, <1>1 DEF RingBufferNew, Rings, NIL, C
<1>3. iter = -1 /\ reads = <<>> /\ quiet = TRUE /\ count = 0
      /\ freed = [x \in 1..MAX_APPENDS |-> 0]
  BY DEF RingInit
<1>4. quiet \in BOOLEAN
  BY <1>3, Zenon
<1>5. RingTypeOK
  BY <1>0, <1>2, <1>3, <1>4 DEF RingTypeOK
<1>6. RingSlots /\ RingFreed
  BY <1>0, <1>2, <1>3 DEF RingSlots, RingFreed
<1>7. RingIterator
  BY <1>3 DEF RingIterator, Increasing
<1> QED BY <1>5, <1>6, <1>7 DEF RingInv

\* RingBufferAppend overwrites the oldest item of a full buffer, and only then
\* destroys one.
LEMMA AppendKeeps ==
  ASSUME RingInv, count < MAX_APPENDS, RingBufferAppend
  PROVE  RingInv'
<1>0. RingTypeOK /\ RingSlots /\ RingFreed /\ RingIterator
  BY DEF RingInv
<1>1. /\ C \in Nat \ {0} /\ MAX_APPENDS \in Nat
      /\ buf.len \in Nat /\ buf.len <= C /\ buf.end \in Nat /\ buf.end < C
      /\ count \in Nat /\ count <= MAX_APPENDS /\ buf.len <= count
      /\ buf.data \in [0..(C - 1) -> 0..MAX_APPENDS]
      /\ DOMAIN buf = {"data", "len", "end", "destroy"}
  BY <1>0, RingNumbers
<1>n. /\ C \in Nat \ {0} /\ buf.len \in Nat /\ buf.len <= C /\ buf.end \in Nat /\ buf.end < C
      /\ count \in Nat /\ buf.len <= count /\ (buf.len < C => buf.end = buf.len)
  BY <1>0, <1>1 DEF RingSlots
<1> DEFINE old == buf.data[buf.end]
           e   == IF buf.end + 1 < C THEN buf.end + 1 ELSE 0
           l   == IF buf.len < C THEN buf.len + 1 ELSE buf.len
<1>2. (buf.end + 1) % C = e
  <2>1. 1 \in 0..C
    BY <1>1
  <2>2. (buf.end + 1) % C = IF buf.end + 1 < C THEN buf.end + 1 ELSE buf.end + 1 - C
    BY <1>1, <2>1, RingAdvance, Zenon
  <2> QED BY <1>1, <2>2
<1>3. /\ buf'.data = [buf.data EXCEPT ![buf.end] = count + 1]
      /\ buf'.end = e /\ buf'.len = l /\ buf'.destroy = buf.destroy
      /\ buf' = [buf EXCEPT !.data = [buf.data EXCEPT ![buf.end] = count + 1],
                            !.end = e, !.len = l]
  <2> HIDE DEF e
  <2>1. buf' = [buf EXCEPT !.data = [buf.data EXCEPT ![buf.end] = count + 1],
                            !.end = (buf.end + 1) % C, !.len = l]
    BY DEF RingBufferAppend, C
  <2> QED BY <1>1, <1>2, <2>1
<1>4. /\ count' = count + 1 /\ quiet' = FALSE /\ iter' = iter /\ reads' = reads
      /\ freed' = IF old # NIL /\ buf.destroy THEN [freed EXCEPT ![old] = @ + 1] ELSE freed
  BY DEF RingBufferAppend
<1>5. /\ l \in 0..C /\ e \in 0..(C - 1) /\ l <= count + 1 /\ buf.len <= l
      /\ count - buf.len <= (count + 1) - l
  BY <1>n
<1>6. RingTypeOK'
  <2>1. buf' \in Rings
    <3>1. [buf.data EXCEPT ![buf.end] = count + 1] \in [0..(C - 1) -> 0..MAX_APPENDS]
      BY <1>1
    <3>2. buf \in Rings
      BY <1>0 DEF RingTypeOK
    <3> HIDE DEF e, l
    <3> QED BY <1>3, <1>5, <3>1, <3>2 DEF Rings
  <2>2. freed' \in [1..MAX_APPENDS -> Nat]
    <3>1. freed \in [1..MAX_APPENDS -> Nat] /\ old \in 0..MAX_APPENDS
      BY <1>0, <1>1, SMTT(20) DEF RingTypeOK
    <3> HIDE DEF old
    <3> QED BY <1>4, <3>1 DEF NIL
  <2>3. quiet' \in BOOLEAN
    BY <1>4, Zenon
  <2>4. count' \in 0..MAX_APPENDS /\ buf'.len <= count'
    <3>1. buf'.len = l /\ count' = count + 1 /\ l <= count + 1
      BY <1>3, <1>4, <1>5
    <3> HIDE DEF e, l, old
    <3>2. count' \in 0..MAX_APPENDS
      BY <1>1, <3>1
    <3> QED BY <3>1, <3>2
  <2>5. /\ iter' \in Int /\ -1 <= iter' /\ iter' <= buf'.len
        /\ reads' \in Seq(Nat) /\ Len(reads') = (IF iter' = -1 THEN 0 ELSE iter')
    BY <1>0, <1>1, <1>3, <1>4, <1>5, SMTT(20) DEF RingTypeOK
  <2> QED BY <2>1, <2>2, <2>3, <2>4, <2>5 DEF RingTypeOK
<1>7. RingSlots'
  <2>1. buf'.len < C => buf'.end = buf'.len
    BY <1>0, <1>1, <1>3 DEF RingSlots
  <2>2. ASSUME NEW i \in 0..(C - 1)
        PROVE  /\ i < e => buf'.data[i] = (count + 1) - e + i + 1
               /\ i >= e /\ l = C => buf'.data[i] = (count + 1) - e - C + i + 1
               /\ i >= e /\ l < C /\ buf.destroy => buf'.data[i] = NIL
    <3>1. CASE i = buf.end
      <4>1. buf'.data[i] = count + 1
        BY <1>1, <1>3, <3>1, Zenon
      <4>2. i < e \/ (e = 0 /\ i = C - 1)
        BY <1>1, <3>1
      <4>3. e = 0 => l = C
        BY <1>n
      <4> QED BY <1>1, <3>1, <4>1, <4>2, <4>3, SMTT(20)
    <3>2. CASE i # buf.end
      <4>1. buf'.data[i] = buf.data[i]
        BY <1>1, <1>3, <3>2
      <4>2. /\ i < buf.end => buf.data[i] = count - buf.end + i + 1
            /\ i >= buf.end /\ buf.len = C => buf.data[i] = count - buf.end - C + i + 1
            /\ i >= buf.end /\ buf.len < C /\ buf.destroy => buf.data[i] = NIL
            /\ buf.len < C => buf.end = buf.len
        BY <1>0 DEF RingSlots
      <4>3. CASE buf.end + 1 < C
        <5>1. e = buf.end + 1
          BY <4>3
        <5>2. /\ (i < e) <=> (i < buf.end)
              /\ l = C => buf.len = C
              /\ l < C => buf.len < C
              /\ i >= e => i >= buf.end
          BY <1>n, <3>2, <4>3, <5>1
        <5>3. (count + 1) - e = count - buf.end
          BY <1>n, <5>1
        <5> HIDE DEF e, l
        <5> QED BY <4>1, <4>2, <5>2, <5>3
      <4>4. CASE ~(buf.end + 1 < C)
        <5>1. e = 0 /\ buf.end = C - 1 /\ i < buf.end /\ l = C
          BY <1>n, <3>2, <4>4
        <5> QED BY <1>n, <4>1, <4>2, <5>1
      <4> QED BY <4>3, <4>4
    <3> QED BY <3>1, <3>2
  <2> HIDE DEF e, l
  <2> QED BY <1>3, <1>4, <2>1, <2>2 DEF RingSlots, C
<1>8. RingFreed'
  <2> SUFFICES ASSUME buf.destroy, NEW x \in 1..MAX_APPENDS
               PROVE  freed'[x] = IF x <= (count + 1) - l THEN 1 ELSE 0
    BY <1>3, <1>4 DEF RingFreed
  <2>1. freed[x] = (IF x <= count - buf.len THEN 1 ELSE 0) /\ DOMAIN freed = 1..MAX_APPENDS
    BY <1>0 DEF RingFreed, RingTypeOK
  <2>2. CASE buf.len = C
    <3>1. old = count - C + 1 /\ old # NIL /\ l = C
      BY <1>0, <1>1, <2>2 DEF RingSlots, NIL
    <3>2. freed' = [freed EXCEPT ![count - C + 1] = @ + 1]
      BY <1>4, <3>1
    <3> QED BY <1>1, <2>1, <2>2, <3>1, <3>2
  <2>3. CASE buf.len # C
    <3>1. old = NIL /\ l = buf.len + 1
      BY <1>0, <1>1, <2>3 DEF RingSlots
    <3>2. freed' = freed
      BY <1>4, <3>1, Zenon
    <3> QED BY <1>1, <2>1, <3>1, <3>2, SMTT(30)
  <2> QED BY <2>2, <2>3
<1>9. RingIterator'
  <2>1. Increasing(reads')
    BY <1>0, <1>4 DEF RingIterator, Increasing
  <2>2. ASSUME iter' > 0 PROVE reads'[iter'] <= count' - buf'.len + iter'
    <3>1. iter \in Nat /\ iter \in 1..Len(reads) /\ reads \in Seq(Nat)
      BY <1>0, <1>4, <2>2 DEF RingTypeOK
    <3>2. reads[iter] \in Nat /\ reads[iter] <= count - buf.len + iter
      BY <1>0, <1>4, <2>2, <3>1 DEF RingIterator
    <3>3. buf'.len = l /\ count' = count + 1 /\ iter' = iter /\ reads' = reads
      BY <1>3, <1>4
    <3>4. l \in Nat /\ count - buf.len <= (count + 1) - l
      BY <1>5
    <3> HIDE DEF l
    <3>5. reads[iter] <= (count + 1) - l + iter
      BY <1>n, <3>1, <3>2, <3>4
    <3> QED BY <3>3, <3>5
  <2> QED BY <1>4, <2>1, <2>2 DEF RingIterator
<1> QED BY <1>6, <1>7, <1>8, <1>9 DEF RingInv

\* Every stored item of an owning buffer is in exactly one slot, and no slot
\* holds anything else that was handed over.
LEMMA OneSlot ==
  ASSUME RingInv, buf.destroy, NEW x \in 1..MAX_APPENDS
  PROVE  Cardinality({i \in DOMAIN buf.data : buf.data[i] = x})
           = IF x > count - buf.len /\ x <= count THEN 1 ELSE 0
<1>0. RingTypeOK /\ RingSlots
  BY DEF RingInv
<1>1. /\ C \in Nat \ {0} /\ buf.len \in Nat /\ buf.len <= C /\ buf.end \in Nat /\ buf.end < C
      /\ count \in Nat /\ buf.len <= count
  BY <1>0, RingNumbers
<1>2. DOMAIN buf.data = 0..(C - 1)
  BY <1>0, RingNumbers
<1> DEFINE slots == {i \in DOMAIN buf.data : buf.data[i] = x}
<1>3. ASSUME NEW i \in 0..(C - 1)
      PROVE  /\ i < buf.end => buf.data[i] = count - buf.end + i + 1
             /\ i >= buf.end /\ buf.len = C => buf.data[i] = count - buf.end - C + i + 1
             /\ i >= buf.end /\ buf.len < C => buf.data[i] = 0
             /\ buf.len < C => buf.end = buf.len
  BY <1>0 DEF RingSlots, NIL
<1>4. CASE x > count - buf.len /\ x <= count
  <2> DEFINE k == IF buf.len < C \/ x > count - buf.end THEN x - count + buf.end - 1
                                                        ELSE x - count + buf.end + C - 1
  <2>1. k \in 0..(C - 1) /\ buf.data[k] = x
    <3>1. CASE buf.len < C \/ x > count - buf.end
      <4>1. k = x - count + buf.end - 1
        BY <3>1
      <4>2. k \in 0..(C - 1) /\ k < buf.end
        BY <1>1, <1>3, <1>4, <3>1, <4>1
      <4> HIDE DEF k
      <4> QED BY <1>1, <1>3, <4>1, <4>2
    <3>2. CASE ~(buf.len < C \/ x > count - buf.end)
      <4>1. k = x - count + buf.end + C - 1
        BY <3>2
      <4>2. k \in 0..(C - 1) /\ k >= buf.end /\ buf.len = C
        BY <1>1, <1>4, <3>2, <4>1
      <4> HIDE DEF k
      <4> QED BY <1>1, <1>3, <4>1, <4>2
    <3> QED BY <3>1, <3>2
  <2>2. ASSUME NEW i \in 0..(C - 1), buf.data[i] = x PROVE i = k
    <3>1. \/ i < buf.end /\ x = count - buf.end + i + 1
          \/ i >= buf.end /\ buf.len = C /\ x = count - buf.end - C + i + 1
      BY <1>1, <1>3, <2>2
    <3>2. buf.len < C => buf.end = buf.len
      BY <1>3
    <3> QED BY <1>1, <1>4, <3>1, <3>2
  <2>3. slots = {k}
    <3> HIDE DEF k
    <3> QED BY <1>2, <2>1, <2>2
  <2>4. Cardinality(slots) = 1
    <3> HIDE DEF k, slots
    <3> QED BY <2>3, FS_Singleton
  <2> QED BY <1>4, <2>4
<1>5. CASE ~(x > count - buf.len /\ x <= count)
  <2>1. ASSUME NEW i \in 0..(C - 1), buf.data[i] = x PROVE FALSE
    <3>1. \/ i < buf.end /\ x = count - buf.end + i + 1
          \/ i >= buf.end /\ buf.len = C /\ x = count - buf.end - C + i + 1
      BY <1>1, <1>3, <2>1
    <3>2. buf.len < C => buf.end = buf.len
      BY <1>3
    <3> QED BY <1>1, <1>5, <3>1, <3>2
  <2>2. slots = {}
    BY <1>2, <2>1
  <2>3. Cardinality(slots) = 0
    BY <2>2, FS_EmptySet
  <2> QED BY <1>5, <2>3
<1> QED BY <1>4, <1>5

\* RingBufferClear destroys what is stored.
LEMMA ClearKeeps ==
  ASSUME RingInv, RingBufferClear
  PROVE  RingInv'
<1>0. RingTypeOK /\ RingSlots /\ RingFreed /\ RingIterator
  BY DEF RingInv
<1>1. /\ C \in Nat \ {0} /\ MAX_APPENDS \in Nat
      /\ buf.len \in Nat /\ buf.len <= C /\ buf.end \in Nat /\ buf.end < C
      /\ count \in Nat /\ count <= MAX_APPENDS /\ buf.len <= count
      /\ buf.data \in [0..(C - 1) -> 0..MAX_APPENDS]
      /\ DOMAIN buf = {"data", "len", "end", "destroy"}
  BY <1>0, RingNumbers
<1> DEFINE cleared == IF buf.destroy THEN [i \in DOMAIN buf.data |-> NIL] ELSE buf.data
<1>2. /\ buf' = [buf EXCEPT !.data = cleared, !.len = 0, !.end = 0]
      /\ iter = -1 /\ iter' = iter /\ reads' = reads /\ quiet' = quiet /\ count' = count
      /\ ~buf.destroy => freed' = freed
      /\ buf.destroy => freed' = [x \in DOMAIN freed |->
           freed[x] + Cardinality({i \in DOMAIN buf.data : buf.data[i] = x})]
  BY DEF RingBufferClear
<1>3. /\ buf'.data = cleared /\ buf'.len = 0 /\ buf'.end = 0 /\ buf'.destroy = buf.destroy
      /\ cleared \in [0..(C - 1) -> 0..MAX_APPENDS]
      /\ buf.destroy => \A i \in 0..(C - 1) : cleared[i] = NIL
  BY <1>1, <1>2 DEF NIL
<1> HIDE DEF cleared
<1>4. ASSUME buf.destroy, NEW x \in 1..MAX_APPENDS
      PROVE  freed'[x] = IF x <= count THEN 1 ELSE 0
  <2>1. freed[x] = (IF x <= count - buf.len THEN 1 ELSE 0) /\ DOMAIN freed = 1..MAX_APPENDS
    BY <1>0, <1>4 DEF RingFreed, RingTypeOK
  <2>2. freed'[x] = freed[x] + (IF x > count - buf.len /\ x <= count THEN 1 ELSE 0)
    BY <1>2, <1>4, <2>1, OneSlot
  <2> QED BY <1>1, <2>1, <2>2
<1>5. reads = <<>> /\ reads \in Seq(Nat) /\ Len(reads) = 0
  BY <1>0, <1>2 DEF RingTypeOK
<1>6. RingTypeOK'
  <2>1. buf' \in Rings
    <3>1. buf \in Rings
      BY <1>0 DEF RingTypeOK
    <3>2. 0 \in 0..C /\ 0 \in 0..(C - 1)
      BY <1>1
    <3>3. buf' = [buf EXCEPT !.data = cleared, !.len = 0, !.end = 0]
      BY <1>2
    <3> QED BY <1>3, <3>1, <3>2, <3>3 DEF Rings
  <2>2. freed' \in [1..MAX_APPENDS -> Nat]
    <3>1. freed \in [1..MAX_APPENDS -> Nat]
      BY <1>0 DEF RingTypeOK
    <3>2. CASE buf.destroy
      <4>1. DOMAIN freed' = 1..MAX_APPENDS /\ freed' = [x \in 1..MAX_APPENDS |-> freed'[x]]
        BY <1>2, <3>1, <3>2
      <4>2. \A x \in 1..MAX_APPENDS : freed'[x] \in Nat
        BY <1>4, <3>2
      <4> QED BY <4>1, <4>2
    <3>3. CASE ~buf.destroy
      BY <1>2, <3>1, <3>3
    <3> QED BY <3>2, <3>3
  <2>3. quiet' \in BOOLEAN
    BY <1>0, <1>2 DEF RingTypeOK
  <2> QED BY <1>0, <1>1, <1>2, <1>3, <1>5, <2>1, <2>2, <2>3 DEF RingTypeOK
<1>7. RingSlots'
  BY <1>1, <1>2, <1>3 DEF RingSlots
<1>8. RingFreed'
  BY <1>1, <1>2, <1>3, <1>4 DEF RingFreed
<1>9. RingIterator'
  BY <1>2, <1>5 DEF RingIterator, Increasing
<1> QED BY <1>6, <1>7, <1>8, <1>9 DEF RingInv

\* The steps of an iterator leave the buffer alone.
LEMMA BufferLeftAlone ==
  ASSUME RingInv, UNCHANGED <<buf, count, freed>>
  PROVE  RingSlots' /\ RingFreed'
BY DEF RingInv, RingSlots, RingFreed

LEMMA IteratorNewKeeps ==
  ASSUME RingInv, RingBufferIteratorNew
  PROVE  RingInv'
<1>1. /\ buf' = buf /\ count' = count /\ freed' = freed
      /\ iter' = 0 /\ reads' = <<>> /\ quiet' = TRUE
  BY DEF RingBufferIteratorNew
<1>2. quiet' \in BOOLEAN
  BY <1>1, Zenon
<1>3. RingTypeOK'
  BY <1>1, <1>2, RingNumbers DEF RingInv, RingTypeOK
<1>4. RingIterator'
  BY <1>1 DEF RingIterator, Increasing
<1> QED BY <1>1, <1>3, <1>4, BufferLeftAlone DEF RingInv

LEMMA IteratorDestroyKeeps ==
  ASSUME RingInv, RingBufferIteratorDestroy
  PROVE  RingInv'
<1>1. /\ buf' = buf /\ count' = count /\ freed' = freed /\ quiet' = quiet
      /\ iter' = -1 /\ reads' = <<>>
  BY DEF RingBufferIteratorDestroy
<1>2. RingTypeOK'
  BY <1>1, RingNumbers DEF RingInv, RingTypeOK
<1>3. RingIterator'
  BY <1>1 DEF RingIterator, Increasing
<1> QED BY <1>1, <1>2, <1>3, BufferLeftAlone DEF RingInv

\* An iterator reads the item it stands at, which is newer than the one before
\* however much was appended in between.
LEMMA IteratorNextKeeps ==
  ASSUME RingInv, RingBufferIteratorNext
  PROVE  RingInv'
<1>0. RingTypeOK /\ RingSlots /\ RingIterator
  BY DEF RingInv
<1>1. /\ buf' = buf /\ count' = count /\ freed' = freed /\ quiet' = quiet
      /\ iter' = iter + 1 /\ iter # -1 /\ buf.len # iter
      /\ reads' = Append(reads, buf.data[Offset(buf, iter)])
  BY DEF RingBufferIteratorNext
<1>2. /\ iter \in Nat /\ buf.len \in Nat /\ iter < buf.len /\ reads \in Seq(Nat)
      /\ Len(reads) = iter /\ count \in Nat /\ buf.len <= count
  BY <1>0, <1>1, RingNumbers DEF RingTypeOK
<1>3. buf.data[Offset(buf, iter)] = count - buf.len + (iter + 1)
  <2>1. iter + 1 \in 1..buf.len /\ (iter + 1) - 1 = iter
    BY <1>2
  <2>2. buf.data[Offset(buf, (iter + 1) - 1)] = count - buf.len + (iter + 1)
    BY <1>0, <2>1, RingItem
  <2> QED BY <2>1, <2>2
<1>4. PICK x \in Nat : x = count - buf.len + (iter + 1)
  BY <1>2
<1>5. /\ reads' \in Seq(Nat) /\ Len(reads') = iter + 1 /\ reads'[iter + 1] = x
      /\ \A i \in 1..iter : reads'[i] = reads[i]
  BY <1>1, <1>2, <1>3, <1>4, AppendProperties
<1>6. RingTypeOK'
  BY <1>0, <1>1, <1>2, <1>5 DEF RingTypeOK
<1>7. Increasing(reads')
  <2> SUFFICES ASSUME NEW i \in 2..(iter + 1) PROVE reads'[i - 1] < reads'[i]
    BY <1>5 DEF Increasing
  <2>1. CASE i = iter + 1
    <3>1. iter > 0 /\ i - 1 = iter /\ iter \in 1..iter /\ reads[iter] \in Nat
      BY <1>2, <2>1
    <3>2. reads[iter] <= count - buf.len + iter
      BY <1>0, <3>1 DEF RingIterator
    <3>3. reads'[i - 1] = reads[iter] /\ reads'[i] = x
      BY <1>5, <2>1, <3>1
    <3> QED BY <1>2, <1>4, <3>1, <3>2, <3>3
  <2>2. CASE i # iter + 1
    <3>1. i \in 1..iter /\ i - 1 \in 1..iter /\ i \in 2..Len(reads)
      BY <1>2, <2>2
    <3>2. reads[i - 1] < reads[i]
      BY <1>0, <3>1 DEF RingIterator, Increasing
    <3> QED BY <1>5, <3>1, <3>2
  <2> QED BY <2>1, <2>2
<1>8. RingIterator'
  <2>1. reads'[iter'] <= count' - buf'.len + iter'
    BY <1>1, <1>2, <1>4, <1>5
  <2>2. ASSUME quiet, NEW i \in 1..(iter + 1) PROVE reads'[i] = count - buf.len + i
    <3>1. CASE i = iter + 1
      BY <1>4, <1>5, <3>1
    <3>2. CASE i # iter + 1
      <4>1. i \in 1..iter
        BY <1>2, <3>2
      <4>2. reads[i] = count - buf.len + i
        BY <1>0, <1>2, <2>2, <4>1 DEF RingIterator
      <4> QED BY <1>5, <4>1, <4>2
    <3> QED BY <3>1, <3>2
  <2> QED BY <1>1, <1>5, <1>7, <2>1, <2>2 DEF RingIterator
<1> QED BY <1>1, <1>6, <1>8, BufferLeftAlone, Zenon DEF RingInv

LEMMA RingStep == RingInv /\ [RingNext]_ringVars => RingInv'
<1> SUFFICES ASSUME RingInv, [RingNext]_ringVars PROVE RingInv'
  OBVIOUS
<1>1. CASE UNCHANGED ringVars
  BY <1>1 DEF ringVars, RingInv, RingTypeOK, RingSlots, RingFreed, RingIterator
<1> QED BY <1>1, AppendKeeps, ClearKeeps, IteratorNewKeeps, IteratorNextKeeps,
           IteratorDestroyKeeps DEF RingNext

\* What the slots hold, read in the order of an iterator, is what RingExact
\* asks for.
LEMMA RingInvExact == RingInv => RingExact
<1> SUFFICES ASSUME RingInv PROVE RingExact
  OBVIOUS
<1>0. RingTypeOK /\ RingSlots /\ RingFreed /\ RingIterator
  BY DEF RingInv
<1>1. /\ C \in Nat \ {0} /\ MAX_APPENDS \in Nat
      /\ buf.len \in Nat /\ buf.len <= C /\ buf.end \in Nat /\ buf.end < C
      /\ count \in Nat /\ count <= MAX_APPENDS /\ buf.len <= count
  BY <1>0, RingNumbers
<1>2. \A i \in 1..buf.len : RingContents[i] = count - buf.len + i
  BY <1>0, RingItem DEF RingContents
<1>3. RingBufferHead = IF buf.len = 0 THEN NIL ELSE count
  <2>1. CASE buf.len = 0
    BY <2>1 DEF RingBufferHead
  <2>2. CASE buf.len # 0 /\ buf.end = 0
    <3>1. buf.len = C /\ C - 1 \in 0..(C - 1) /\ C - 1 >= buf.end
      BY <1>0, <1>1, <2>2 DEF RingSlots
    <3>2. buf.data[C - 1] = count - buf.end - C + (C - 1) + 1
      BY <1>0, <3>1 DEF RingSlots
    <3> QED BY <1>1, <2>2, <3>2 DEF RingBufferHead, C
  <2>3. CASE buf.len # 0 /\ buf.end # 0
    <3>1. buf.end - 1 \in 0..(C - 1) /\ buf.end - 1 < buf.end
      BY <1>1, <2>3
    <3>2. buf.data[buf.end - 1] = count - buf.end + (buf.end - 1) + 1
      BY <1>0, <3>1 DEF RingSlots
    <3> QED BY <1>1, <2>3, <3>2 DEF RingBufferHead
  <2> QED BY <2>1, <2>2, <2>3
<1> DEFINE held == {RingContents[i] : i \in 1..buf.len}
<1>4. ASSUME buf.destroy, NEW x \in 1..count
      PROVE  freed[x] = IF x \in held THEN 0 ELSE 1
  <2>1. x \in held <=> x > count - buf.len
    <3>1. ASSUME x > count - buf.len PROVE x \in held
      <4>1. x - (count - buf.len) \in 1..buf.len
        BY <1>1, <3>1
      <4>2. RingContents[x - (count - buf.len)] = x
        BY <1>1, <1>2, <4>1
      <4> QED BY <4>1, <4>2
    <3>2. ASSUME x \in held PROVE x > count - buf.len
      BY <1>1, <1>2, <3>2
    <3> QED BY <3>1, <3>2
  <2>2. freed[x] = IF x <= count - buf.len THEN 1 ELSE 0
    BY <1>0, <1>1, <1>4 DEF RingFreed
  <2> HIDE DEF held
  <2>3. x <= count - buf.len <=> ~(x > count - buf.len)
    BY <1>1
  <2> QED BY <2>1, <2>2, <2>3
<1>5. ASSUME quiet, iter # -1 PROVE reads = SubSeq(RingContents, 1, iter)
  <2>1. /\ iter \in Nat /\ iter <= buf.len /\ reads \in Seq(Nat) /\ Len(reads) = iter
        /\ \A i \in 1..iter : reads[i] = count - buf.len + i
    BY <1>0, <1>1, <1>5 DEF RingTypeOK, RingIterator
  <2>2. RingContents \in Seq(Nat) /\ Len(RingContents) = buf.len
    <3>1. \A i \in 1..buf.len : buf.data[Offset(buf, i - 1)] \in Nat
      BY <1>0, <1>1, RingItem
    <3> QED BY <1>1, <3>1 DEF RingContents
  <2>3. iter \in 0..Len(RingContents) /\ \A i \in 1..iter : reads[i] = RingContents[i]
    <3>1. \A i \in 1..iter : i \in 1..buf.len
      BY <1>1, <2>1
    <3>2. \A i \in 1..iter : reads[i] = RingContents[i]
      BY <1>2, <2>1, <3>1
    <3> QED BY <1>1, <2>1, <2>2, <3>2
  <2> QED BY <2>1, <2>2, <2>3, KeepFirst
<1>6. Increasing(reads)
  BY <1>0 DEF RingIterator
<1> QED BY <1>2, <1>3, <1>4, <1>5, <1>6 DEF RingExact

-----------------------------------------------------------------------------
(***************************************************************************)
(* The linked queue.                                                       *)
(***************************************************************************)

\* No node, and neither head nor tail.
NoNodes ==
  /\ q.node_count = 0 /\ q.head = NoNode /\ q.tail = NoNode
  /\ DOMAIN q.next = {} /\ DOMAIN q.previous = {}

\* The nodes are those from the head to the one enqueued last, each linked to
\* its neighbours.
LinkedNodes ==
  /\ q.head \in 1..enqueued /\ q.tail = enqueued
  /\ q.node_count = enqueued - q.head + 1
  /\ DOMAIN q.next = q.head..enqueued /\ DOMAIN q.previous = q.head..enqueued
  /\ \A n \in q.head..enqueued :
       /\ q.next[n] = IF n = enqueued THEN NoNode ELSE n + 1
       /\ q.previous[n] = IF n = q.head THEN NoNode ELSE n - 1

QueueInv == enqueued \in Nat /\ (NoNodes \/ LinkedNodes)

\* A new queue is empty.
LEMMA NewIsEmpty == q' = QueueNew => NoNodes'
BY DEF QueueNew, NoNodes, NoNode

\* QueueEnqueue links the new node after the tail, or makes it the head.
LEMMA EnqueueKeeps ==
  ASSUME QueueInv, QueueEnqueue
  PROVE  QueueInv'
<1> DEFINE node == enqueued + 1
           nodes == DOMAIN q.next \cup {node}
<1>1. /\ q'.node_count = q.node_count + 1 /\ q'.tail = node
      /\ q'.head = IF q.tail # NoNode THEN q.head ELSE node
      /\ q'.next = [n \in nodes |-> IF n = node THEN NoNode
                                    ELSE IF n = q.tail THEN node ELSE q.next[n]]
      /\ q'.previous = [n \in nodes |-> IF n = node THEN q.tail ELSE q.previous[n]]
      /\ enqueued' = node /\ enqueued \in Nat
  BY DEF QueueEnqueue, QueueInv
<1>2. CASE NoNodes
  <2>1. nodes = node..node /\ q'.head = node /\ q.tail = NoNode /\ q.node_count = 0
    BY <1>1, <1>2 DEF NoNodes
  <2>2. LinkedNodes'
    BY <1>1, <2>1 DEF LinkedNodes, NoNode
  <2> QED BY <1>1, <2>2 DEF QueueInv
<1>3. CASE LinkedNodes
  <2>1. /\ q.head \in 1..enqueued /\ q.tail = enqueued
        /\ q.node_count = enqueued - q.head + 1 /\ DOMAIN q.next = q.head..enqueued
    BY <1>3 DEF LinkedNodes
  <2>2. nodes = q.head..node /\ q'.head = q.head
    BY <1>1, <2>1 DEF NoNode
  <2>3. ASSUME NEW n \in q.head..node
        PROVE  /\ q'.next[n] = IF n = node THEN NoNode ELSE n + 1
               /\ q'.previous[n] = IF n = q.head THEN NoNode ELSE n - 1
    <3>1. CASE n = node
      BY <1>1, <2>1, <2>2, <3>1
    <3>2. CASE n # node
      <4>1. n \in q.head..enqueued
        BY <1>1, <2>1, <3>2
      <4>2. /\ q.next[n] = IF n = enqueued THEN NoNode ELSE n + 1
            /\ q.previous[n] = IF n = q.head THEN NoNode ELSE n - 1
        BY <1>3, <4>1 DEF LinkedNodes
      <4> QED BY <1>1, <2>1, <2>2, <3>2, <4>2
    <3> QED BY <3>1, <3>2
  <2>4. /\ q'.head \in 1..node /\ q'.tail = node /\ q'.node_count = node - q'.head + 1
        /\ DOMAIN q'.next = q'.head..node /\ DOMAIN q'.previous = q'.head..node
    BY <1>1, <2>1, <2>2
  <2>5. LinkedNodes'
    <3> HIDE DEF node
    <3> QED BY <1>1, <2>2, <2>3, <2>4 DEF LinkedNodes
  <2> QED BY <1>1, <2>5 DEF QueueInv
<1> QED BY <1>2, <1>3 DEF QueueInv

\* QueueDequeue takes the head out; the last one leaves neither head nor tail.
LEMMA DequeueKeeps ==
  ASSUME QueueInv, QueueDequeue
  PROVE  QueueInv'
<1> DEFINE rest == DOMAIN q.next \ {q.head}
           head == q.next[q.head]
<1>1. /\ q.node_count # 0 /\ enqueued' = enqueued /\ enqueued \in Nat
      /\ q'.node_count = q.node_count - 1 /\ q'.head = head
      /\ q'.tail = IF head # NoNode THEN q.tail ELSE NoNode
      /\ q'.next = [n \in rest |-> q.next[n]]
      /\ q'.previous = [n \in rest |-> IF n = head THEN NoNode ELSE q.previous[n]]
  BY DEF QueueDequeue, QueueInv
<1>2. LinkedNodes
  BY <1>1 DEF QueueInv, NoNodes
<1>3. /\ q.head \in 1..enqueued /\ q.tail = enqueued
      /\ q.node_count = enqueued - q.head + 1 /\ DOMAIN q.next = q.head..enqueued
  BY <1>2 DEF LinkedNodes
<1>4. head = IF q.head = enqueued THEN NoNode ELSE q.head + 1
  <2>1. q.head \in q.head..enqueued
    BY <1>3
  <2> QED BY <1>2, <2>1 DEF LinkedNodes
<1> HIDE DEF head
<1>5. CASE q.head = enqueued
  <2>1. rest = {} /\ head = NoNode
    BY <1>3, <1>4, <1>5
  <2>2. NoNodes'
    BY <1>1, <1>3, <1>5, <2>1 DEF NoNodes
  <2> QED BY <1>1, <2>2 DEF QueueInv
<1>6. CASE q.head # enqueued
  <2>1. rest = (q.head + 1)..enqueued /\ head = q.head + 1 /\ head # NoNode
    BY <1>3, <1>4, <1>6 DEF NoNode
  <2>2. ASSUME NEW n \in head..enqueued
        PROVE  /\ q'.next[n] = IF n = enqueued THEN NoNode ELSE n + 1
               /\ q'.previous[n] = IF n = head THEN NoNode ELSE n - 1
    <3>1. n \in q.head..enqueued /\ n \in rest /\ n # q.head
      BY <1>3, <2>1
    <3>2. /\ q.next[n] = IF n = enqueued THEN NoNode ELSE n + 1
          /\ q.previous[n] = IF n = q.head THEN NoNode ELSE n - 1
      BY <1>2, <3>1 DEF LinkedNodes
    <3> HIDE DEF rest
    <3> QED BY <1>1, <3>1, <3>2
  <2>3. /\ q'.head \in 1..enqueued /\ q'.tail = enqueued
        /\ q'.node_count = enqueued - q'.head + 1
    BY <1>1, <1>3, <1>6, <2>1
  <2>4. DOMAIN q'.next = q'.head..enqueued /\ DOMAIN q'.previous = q'.head..enqueued
    BY <1>1, <2>1
  <2>5. LinkedNodes'
    BY <1>1, <2>2, <2>3, <2>4 DEF LinkedNodes
  <2> QED BY <1>1, <2>5 DEF QueueInv
<1> QED BY <1>5, <1>6

LEMMA QueueStep == QueueInv /\ [QueueNext]_queueVars => QueueInv'
<1> SUFFICES ASSUME QueueInv, [QueueNext]_queueVars PROVE QueueInv'
  OBVIOUS
<1>1. CASE UNCHANGED queueVars
  BY <1>1 DEF queueVars, QueueInv, NoNodes, LinkedNodes
<1>2. CASE QueueDestroy
  BY <1>2, NewIsEmpty DEF QueueDestroy, QueueInv
<1> QED BY <1>1, <1>2, EnqueueKeeps, DequeueKeeps DEF QueueNext

LEMMA QueueInvLinked == QueueInv => QueueLinked
<1> SUFFICES ASSUME QueueInv PROVE QueueLinked
  OBVIOUS
<1>1. CASE NoNodes
  <2>1. Cardinality(DOMAIN q.next) = 0
    BY <1>1, FS_EmptySet DEF NoNodes
  <2> QED BY <1>1, <2>1 DEF NoNodes, QueueLinked
<1>2. CASE LinkedNodes
  <2>1. /\ enqueued \in Nat /\ q.head \in 1..enqueued /\ q.tail = enqueued
        /\ q.node_count = enqueued - q.head + 1 /\ DOMAIN q.next = q.head..enqueued
    BY <1>2 DEF LinkedNodes, QueueInv
  <2>2. Cardinality(q.head..enqueued) = enqueued - q.head + 1
    BY <2>1, FS_Interval
  <2>3. (q.head = NoNode) = (q.node_count = 0) /\ (q.tail = NoNode) = (q.node_count = 0)
    BY <2>1 DEF NoNode
  <2>4. q.previous[q.head] = NoNode /\ q.next[q.tail] = NoNode
    BY <1>2, <2>1 DEF LinkedNodes
  <2>5. ASSUME NEW n \in DOMAIN q.next, n # q.tail
        PROVE  q.next[n] = n + 1 /\ q.previous[n + 1] = n
    <3>1. n \in q.head..enqueued /\ n + 1 \in q.head..enqueued /\ n + 1 # q.head /\ (n + 1) - 1 = n
      BY <2>1, <2>5
    <3> QED BY <1>2, <2>1, <2>5, <3>1 DEF LinkedNodes
  <2> QED BY <2>1, <2>2, <2>3, <2>4, <2>5 DEF QueueLinked
<1> QED BY <1>1, <1>2 DEF QueueInv

-----------------------------------------------------------------------------
\* The slots of the ring and the links of the queue keep the form that
\* RingBufferAppend, RingBufferClear, QueueEnqueue and QueueDequeue rely on.
THEOREM FifosInvariant == FifosSpec => [](RingInv /\ QueueInv)
<1>1. FifosInit => RingInv /\ QueueInv
  <2>1. QueueInit => QueueInv
    BY DEF QueueInit, QueueInv, QueueNew, NoNodes, NoNode
  <2> QED BY <2>1, RingInitOK DEF FifosInit
<1>2. RingInv /\ QueueInv /\ [FifosNext]_<<ringVars, queueVars>> => RingInv' /\ QueueInv'
  BY RingStep, QueueStep DEF FifosNext
<1> QED BY <1>1, <1>2, PTL DEF FifosSpec

\* For any capacity and any number of items, a ring buffer holds the newest
\* items in order and destroys every other one once, its iterators never go
\* back in time, and a linked queue holds the same nodes from either end.
THEOREM FifosAreExact == FifosSpec => []FifosExact
<1>1. RingInv /\ QueueInv => FifosExact
  BY RingInvExact, QueueInvLinked DEF FifosExact
<1> QED BY <1>1, FifosInvariant, PTL

-----------------------------------------------------------------------------
(***************************************************************************)
(* The array of a stack.                                                   *)
(***************************************************************************)
StackValues == Items \cup {NULL, Garbage}

\* The fields of a stack agree, and every slot below size holds an item.
GoodStack(k) ==
  /\ DOMAIN k = {"data", "size", "capacity"}
  /\ k.capacity \in Nat \ {0} /\ k.size \in Nat /\ k.size <= k.capacity
  /\ k.data \in [0..(k.capacity - 1) -> StackValues]
  /\ \A i \in 0..(k.size - 1) : k.data[i] \in Items

\* The items of a good stack, from the bottom.
LEMMA BottomIsSeq ==
  ASSUME NEW k, GoodStack(k)
  PROVE  /\ Bottom(k) \in Seq(Items) /\ Len(Bottom(k)) = k.size /\ k.size \in Nat
         /\ \A i \in 1..k.size : Bottom(k)[i] = k.data[i - 1]
<1>1. k.size \in Nat
  BY DEF GoodStack
<1>2. ASSUME NEW i \in 1..k.size PROVE k.data[i - 1] \in Items
  BY <1>1, <1>2 DEF GoodStack
<1> QED BY <1>1, <1>2 DEF Bottom

\* A stack from StackNew is empty.
LEMMA NewStackGood ==
  ASSUME NEW c \in Nat
  PROVE  GoodStack(StackInit(c)) /\ StackInit(c).size = 0
<1> DEFINE n == IF c = 0 THEN DEFAULT_CAPACITY ELSE c
<1>1. n \in Nat \ {0}
  BY StackAssumption
<1>2. StackInit(c) = [data |-> [i \in 0..(n - 1) |-> NULL], size |-> 0, capacity |-> n]
  BY DEF StackInit
<1> HIDE DEF n
<1> QED BY <1>1, <1>2 DEF GoodStack, StackValues

\* A push, doubled array or not, puts its item above the others.
LEMMA StackPushGood ==
  ASSUME NEW k, GoodStack(k), NEW x \in Items
  PROVE  /\ GoodStack(StackPush(k, x))
         /\ StackPush(k, x).size = k.size + 1
         /\ Bottom(StackPush(k, x)) = Bottom(k) \o <<x>>
<1> DEFINE c == IF k.size = k.capacity THEN k.capacity * EXPAND_FACTOR ELSE k.capacity
           moved == [i \in 0..(c - 1) |-> IF i < k.capacity THEN k.data[i] ELSE Garbage]
           e == ExpandIfNecessary(k)
           p == StackPush(k, x)
<1>1. /\ DOMAIN k = {"data", "size", "capacity"}
      /\ k.capacity \in Nat \ {0} /\ k.size \in Nat /\ k.size <= k.capacity
      /\ k.data \in [0..(k.capacity - 1) -> StackValues]
      /\ \A i \in 0..(k.size - 1) : k.data[i] \in Items
  BY DEF GoodStack
<1>2. c \in Nat \ {0} /\ k.size < c /\ k.capacity <= c
  BY <1>1 DEF EXPAND_FACTOR
<1>3. e = [k EXCEPT !.data = moved, !.capacity = c]
  BY DEF ExpandIfNecessary
<1> HIDE DEF c
<1>4. /\ moved \in [0..(c - 1) -> StackValues]
      /\ \A i \in 0..(k.size - 1) : moved[i] = k.data[i]
  BY <1>1, <1>2, SMTT(20) DEF StackValues
<1> HIDE DEF moved, e
<1>5. /\ DOMAIN e = {"data", "size", "capacity"}
      /\ e.data = moved /\ e.size = k.size /\ e.capacity = c
  BY <1>1, <1>3
<1>6. p = [e EXCEPT !.data = [e.data EXCEPT ![e.size] = x], !.size = e.size + 1]
  BY DEF StackPush, e
<1>7. /\ DOMAIN p = {"data", "size", "capacity"}
      /\ p.data = [moved EXCEPT ![k.size] = x] /\ p.size = k.size + 1 /\ p.capacity = c
  BY <1>5, <1>6
<1> HIDE DEF p
<1>8. /\ p.data \in [0..(c - 1) -> StackValues] /\ p.data[k.size] = x
      /\ \A i \in 0..(k.size - 1) : p.data[i] = k.data[i]
  BY <1>1, <1>2, <1>4, <1>7 DEF StackValues
<1>9. GoodStack(p)
  <2>1. ASSUME NEW i \in 0..(p.size - 1) PROVE p.data[i] \in Items
    <3>1. i = k.size \/ i \in 0..(k.size - 1)
      BY <1>1, <1>7
    <3> QED BY <1>1, <1>8, <3>1
  <2> QED BY <1>1, <1>2, <1>7, <1>8, <2>1 DEF GoodStack
<1>10. Bottom(p) = Bottom(k) \o <<x>>
  <2>1. /\ Bottom(k) \in Seq(Items) /\ Len(Bottom(k)) = k.size
        /\ Bottom(p) \in Seq(Items) /\ Len(Bottom(p)) = k.size + 1
    BY <1>7, <1>9, BottomIsSeq
  <2>2. ASSUME NEW i \in 1..k.size PROVE Bottom(p)[i] = Bottom(k)[i]
    <3>1. i \in 1..p.size /\ i - 1 \in 0..(k.size - 1)
      BY <1>1, <1>7
    <3> QED BY <1>8, <1>9, <3>1, BottomIsSeq, Zenon
  <2>3. Bottom(p)[k.size + 1] = x
    <3>1. k.size + 1 \in 1..p.size /\ (k.size + 1) - 1 = k.size
      BY <1>1, <1>7
    <3> QED BY <1>8, <1>9, <3>1, BottomIsSeq
  <2> QED BY <2>1, <2>2, <2>3, AppendOne
<1> QED BY <1>7, <1>9, <1>10 DEF p

\* A pop takes the top off a stack that has one.
LEMMA StackPopGood ==
  ASSUME NEW k, GoodStack(k), k.size # 0
  PROVE  /\ GoodStack(StackPop(k))
         /\ Bottom(StackPop(k)) = SubSeq(Bottom(k), 1, Len(Bottom(k)) - 1)
         /\ StackTop(k) = Bottom(k)[Len(Bottom(k))] /\ StackTop(k) \in Items
<1> DEFINE p == StackPop(k)
<1>1. /\ DOMAIN k = {"data", "size", "capacity"}
      /\ k.capacity \in Nat \ {0} /\ k.size \in Nat /\ k.size <= k.capacity
      /\ k.data \in [0..(k.capacity - 1) -> StackValues]
      /\ \A i \in 0..(k.size - 1) : k.data[i] \in Items
  BY DEF GoodStack
<1>2. /\ DOMAIN p = {"data", "size", "capacity"}
      /\ p.data = [k.data EXCEPT ![k.size - 1] = NULL]
      /\ p.size = k.size - 1 /\ p.capacity = k.capacity
  BY <1>1 DEF StackPop
<1> HIDE DEF p
<1>3. /\ p.data \in [0..(k.capacity - 1) -> StackValues]
      /\ \A i \in 0..(k.size - 2) : p.data[i] = k.data[i]
  BY <1>1, <1>2 DEF StackValues
<1>4. GoodStack(p)
  <2>1. ASSUME NEW i \in 0..(p.size - 1) PROVE p.data[i] \in Items
    <3>1. i \in 0..(k.size - 2) /\ i \in 0..(k.size - 1)
      BY <1>1, <1>2
    <3> QED BY <1>1, <1>3, <3>1
  <2>2. p.size \in Nat /\ p.size <= p.capacity
    BY <1>1, <1>2
  <2> QED BY <1>1, <1>2, <1>3, <2>1, <2>2 DEF GoodStack
<1>5. /\ Bottom(k) \in Seq(Items) /\ Len(Bottom(k)) = k.size
      /\ Bottom(p) \in Seq(Items) /\ Len(Bottom(p)) = k.size - 1
  BY <1>2, <1>4, BottomIsSeq
<1>6. ASSUME NEW i \in 1..(k.size - 1) PROVE Bottom(p)[i] = Bottom(k)[i]
  <2>1. i \in 1..p.size /\ i \in 1..k.size /\ i - 1 \in 0..(k.size - 2)
    BY <1>1, <1>2
  <2> QED BY <1>3, <1>4, <2>1, BottomIsSeq
<1>7. k.size - 1 \in 0..Len(Bottom(k))
  BY <1>1, <1>5
<1>8. Bottom(p) = SubSeq(Bottom(k), 1, Len(Bottom(k)) - 1)
  <2>1. Bottom(p) = SubSeq(Bottom(k), 1, k.size - 1)
    BY <1>5, <1>6, <1>7, KeepFirst
  <2> QED BY <1>5, <2>1
<1>9. StackTop(k) = Bottom(k)[k.size] /\ StackTop(k) \in Items
  <2>1. k.size \in 1..k.size /\ k.size - 1 \in 0..(k.size - 1)
    BY <1>1
  <2> QED BY <1>1, <2>1, BottomIsSeq DEF StackTop
<1> QED BY <1>4, <1>5, <1>8, <1>9 DEF p

\* What a copy of the stack holds.
LEMMA StackCopyBottom ==
  ASSUME NEW k, GoodStack(k)
  PROVE  Bottom(StackCopy(k)) = Bottom(k)
<1>1. /\ k.size \in Nat /\ k.size <= k.capacity /\ k.capacity \in Nat
      /\ DOMAIN k.data = 0..(k.capacity - 1) /\ DOMAIN k = {"data", "size", "capacity"}
  BY DEF GoodStack
<1>2. /\ StackCopy(k).size = k.size
      /\ StackCopy(k).data = [i \in DOMAIN k.data |-> IF i < k.size THEN k.data[i] ELSE Garbage]
  BY <1>1 DEF StackCopy
<1>3. ASSUME NEW i \in 1..k.size PROVE StackCopy(k).data[i - 1] = k.data[i - 1]
  <2>1. i - 1 \in DOMAIN k.data /\ i - 1 < k.size
    BY <1>1
  <2> QED BY <1>2, <2>1
<1> QED BY <1>2, <1>3 DEF Bottom

-----------------------------------------------------------------------------
(***************************************************************************)
(* The threads that share a stack.                                         *)
(***************************************************************************)

\* A thread inside a call has made one, on a stack that exists.
CallsKnown ==
  \A t \in Threads : pc[t] \notin {"idle", "unlock"} => op[t] \in Requests /\ alive

StackInv ==
  /\ MonitorInv /\ GoodStack(s) /\ alive \in BOOLEAN
  /\ op \in [Threads -> Requests \cup {NONE}] /\ DOMAIN ret = Threads
  /\ CallsKnown

LEMMA StackParts ==
  StackInv => /\ MonitorInv /\ MonitorTypeOK /\ GoodStack(s) /\ CallsKnown
              /\ DOMAIN op = Threads /\ DOMAIN ret = Threads
BY DEF StackInv, MonitorInv

\* What a thread in the critical section of a call has.
LEMMA InCall ==
  ASSUME StackInv, NEW t \in Threads, NEW k, In(t, k)
  PROVE  /\ pc[t] \in Holding \ {"unlock"} /\ op[t] \in Requests /\ op[t].kind = k /\ alive
BY DEF StackInv, CallsKnown, In, Holding

\* The fields of a call.
LEMMA RequestFields ==
  ASSUME NEW r \in Requests
  PROVE  /\ r.side = "right" /\ r.timeout = "none"
         /\ r.kind = "push" => \E x \in Items : r.items = <<x>>
         /\ r.kind = "pop" => r.num = 1
BY DEF Requests, Pushes, Others, Request

\* The invariant holds of the initial state.
LEMMA StackInitOK == Init => StackInv
<1> SUFFICES ASSUME Init PROVE StackInv
  OBVIOUS
<1>1. MonitorInv
  BY MonitorInitOK DEF Init
<1>2. GoodStack(s) /\ alive = FALSE
  BY NewStackGood DEF Init
<1>3. pc = [t \in Threads |-> "idle"] /\ op = [t \in Threads |-> NONE] /\ DOMAIN ret = Threads
  BY DEF Init, MonitorInit
<1>4. alive \in BOOLEAN
  BY <1>2, Zenon
<1>5. op \in [Threads -> Requests \cup {NONE}] /\ CallsKnown
  BY <1>3 DEF CallsKnown
<1> QED BY <1>1, <1>2, <1>3, <1>4, <1>5 DEF StackInv

\* ThreadLock and ThreadUnlock.
LEMMA LockingKeeps ==
  ASSUME StackInv, NEW t \in Threads, ThreadLock(t) \/ ThreadUnlock(t), UNCHANGED stackVars
  PROVE  StackInv'
<1>1. MonitorInv'
  BY ThreadLockOK, ThreadUnlockOK, StackParts
<1>2. s' = s /\ alive' = alive
  BY DEF stackVars
<1>3. op' \in [Threads -> Requests \cup {NONE}] /\ DOMAIN ret' = Threads
  BY DEF StackInv, ThreadLock, ThreadUnlock
<1>4. CallsKnown'
  BY <1>2 DEF StackInv, MonitorInv, MonitorTypeOK, CallsKnown, ThreadLock, ThreadUnlock
<1> QED BY <1>1, <1>2, <1>3, <1>4 DEF StackInv

\* A critical section that leaves a good stack behind.
LEMMA FinishKeeps ==
  ASSUME StackInv, NEW t \in Threads, NEW k, In(t, k), NEW result, Finish(t, result, {}),
         GoodStack(s'), alive' = alive
  PROVE  /\ StackInv'
         /\ Phase[t] = "pending" /\ Phase' = [Phase EXCEPT ![t] = "done"]
         /\ ret' = [ret EXCEPT ![t] = result] /\ op' = op
<1>1. pc[t] \in Holding \ {"unlock"} /\ {} \subseteq Waiters("empty")
  BY InCall
<1>2. MonitorInv'
  BY <1>1, FinishOK, StackParts
<1>3. ret' = [ret EXCEPT ![t] = result] /\ op' = op
  BY DEF Finish
<1>4. CallsKnown'
  BY <1>3 DEF StackInv, CallsKnown, Finish
<1>5. StackInv'
  BY <1>2, <1>3, <1>4 DEF StackInv
<1>6. Phase[t] = "pending" /\ Phase' = [Phase EXCEPT ![t] = "done"]
  BY <1>1, PhaseFinish, StackParts
<1> QED BY <1>3, <1>5, <1>6

LEMMA StackNewKeeps ==
  ASSUME StackInv, NEW c \in InitialCapacities, ThreadedStackNew(c)
  PROVE  StackInv' /\ s'.size = 0
<1>1. GoodStack(s') /\ s'.size = 0
  BY NewStackGood, StackAssumption DEF ThreadedStackNew
<1>2. MonitorInv' /\ op' = op /\ ret' = ret /\ pc' = pc
  BY MonitorStutterOK, StackParts DEF ThreadedStackNew, monitorVars
<1>3. alive' \in BOOLEAN
  BY Zenon DEF ThreadedStackNew
<1>4. CallsKnown'
  BY <1>2 DEF ThreadedStackNew, CallsKnown, AllIdle
<1> QED BY <1>1, <1>2, <1>3, <1>4 DEF StackInv

LEMMA CallKeeps ==
  ASSUME StackInv, NEW t \in Threads, NEW r \in Requests, Call(t, r)
  PROVE  StackInv'
<1>1. MonitorInv'
  BY EnterOK, StackParts DEF Call
<1>2. s' = s /\ alive' = alive /\ alive /\ ret' = ret
  BY DEF Call, Enter, stackVars
<1>3. op' = [op EXCEPT ![t] = r] /\ pc' = [pc EXCEPT ![t] = "lock"]
  BY DEF Call, Enter
<1>4. op' \in [Threads -> Requests \cup {NONE}]
  BY <1>3 DEF StackInv
<1>5. CallsKnown'
  BY <1>2, <1>3 DEF StackInv, MonitorInv, MonitorTypeOK, CallsKnown
<1> QED BY <1>1, <1>2, <1>4, <1>5 DEF StackInv

LEMMA StackDestroyKeeps ==
  ASSUME StackInv, NEW t \in Threads, ThreadedStackDestroy(t)
  PROVE  StackInv'
<1>1. MonitorInv'
  BY DestroyOK, StackParts DEF ThreadedStackDestroy
<1>2. /\ s' = s /\ op' = op /\ pc' = [pc EXCEPT ![t] = "unlock"] /\ AllIdle
      /\ DOMAIN ret' = Threads
  BY StackParts DEF ThreadedStackDestroy
<1>3. alive' \in BOOLEAN
  BY Zenon DEF ThreadedStackDestroy
<1>4. CallsKnown'
  BY <1>2 DEF StackInv, MonitorInv, MonitorTypeOK, CallsKnown, AllIdle
<1> QED BY <1>1, <1>2, <1>3, <1>4 DEF StackInv

-----------------------------------------------------------------------------
(***************************************************************************)
(* The steps of the stack are steps of BlockingDeque.                      *)
(***************************************************************************)
LEMMA ContentsBottom ==
  ASSUME StackInv, alive
  PROVE  /\ StackContents = Bottom(s) /\ Len(StackContents) = s.size /\ s.size \in Nat
         /\ StackContents \in Seq(Items) /\ (StackContents = <<>>) = (s.size = 0)
<1>1. /\ Bottom(s) \in Seq(Items) /\ Len(Bottom(s)) = s.size /\ s.size \in Nat
      /\ StackContents = Bottom(s)
  BY BottomIsSeq, StackParts DEF StackContents
<1>2. (StackContents = <<>>) = (s.size = 0)
  BY <1>1, EmptySeq
<1> QED BY <1>1, <1>2

LEMMA PushImplements ==
  ASSUME StackInv, NEW t \in Threads, ThreadedStackPush(t)
  PROVE  StackInv' /\ Abstract!Push(t)
<1>1. In(t, "push") /\ alive' = alive
  BY DEF ThreadedStackPush
<1>2. alive /\ op[t] \in Requests /\ op[t].kind = "push"
  BY <1>1, InCall
<1>3. PICK x \in Items : op[t].items = <<x>>
  BY <1>2, RequestFields
<1>4. op[t].items[1] = x
  BY <1>3
<1>5. s' = StackPush(s, x)
  BY <1>4 DEF ThreadedStackPush
<1>6. GoodStack(s') /\ s'.size = s.size + 1 /\ Bottom(s') = Bottom(s) \o <<x>>
  BY <1>5, StackPushGood, StackParts
<1> DEFINE result == Result(TRUE, s'.size, <<>>)
<1>7. Finish(t, result, {})
  BY DEF ThreadedStackPush
<1>8. /\ StackInv'
      /\ Phase[t] = "pending" /\ Phase' = [Phase EXCEPT ![t] = "done"]
      /\ ret' = [ret EXCEPT ![t] = result] /\ op' = op
  <2> HIDE DEF result
  <2> QED BY <1>1, <1>6, <1>7, FinishKeeps
<1>9. StackContents' = StackContents \o op[t].items /\ Len(StackContents') = s'.size
  <2>1. StackContents = Bottom(s) /\ StackContents' = Bottom(s')
    BY <1>1, <1>2 DEF StackContents, Bottom
  <2>2. Len(Bottom(s')) = s'.size
    BY <1>6, BottomIsSeq
  <2> QED BY <1>3, <1>6, <2>1, <2>2
<1>10. op[t].side = "right"
  BY <1>2, RequestFields
<1> QED BY <1>1, <1>2, <1>8, <1>9, <1>10
        DEF Abstract!Push, Abstract!Pending, Abstract!Effect, Abstract!Result, Result

LEMMA PopImplements ==
  ASSUME StackInv, NEW t \in Threads, ThreadedStackPop(t)
  PROVE  StackInv' /\ Abstract!Pop(t)
<1>1. In(t, "pop") /\ alive' = alive /\ s' = StackPop(s)
  BY DEF ThreadedStackPop
<1>2. /\ alive /\ op[t].kind = "pop" /\ op[t].num = 1 /\ op[t].side = "right"
      /\ op[t].timeout = "none"
  BY <1>1, InCall, RequestFields
<1>3. /\ StackContents = Bottom(s) /\ Len(StackContents) = s.size /\ s.size \in Nat
      /\ StackContents \in Seq(Items) /\ (StackContents = <<>>) = (s.size = 0)
  BY <1>2, ContentsBottom
<1>4. StackContents' = Bottom(s')
  BY <1>1, <1>2 DEF StackContents, Bottom
<1>5. CASE s.size = 0
  <2> DEFINE result == Result(FALSE, 0, <<>>)
  <2>1. s' = s /\ Finish(t, result, {})
    BY <1>1, <1>5 DEF ThreadedStackPop, StackPop, StackTop
  <2>2. /\ StackInv'
        /\ Phase[t] = "pending" /\ Phase' = [Phase EXCEPT ![t] = "done"]
        /\ ret' = [ret EXCEPT ![t] = result] /\ op' = op
    <3> HIDE DEF result
    <3>1. GoodStack(s')
      BY <2>1, StackParts
    <3> QED BY <1>1, <2>1, <3>1, FinishKeeps
  <2>3. StackContents = <<>> /\ Len(StackContents) = 0 /\ StackContents' = <<>>
    BY <1>3, <1>4, <1>5, <2>1
  <2>4. /\ Abstract!Lesser(op[t].num, Len(StackContents)) = 0
        /\ Abstract!Rightmost(0) = <<>> /\ SubSeq(StackContents, 1, Len(StackContents) - 0) = <<>>
    BY <1>2, <2>3 DEF Abstract!Lesser, Abstract!Rightmost
  <2>5. (StackContents # <<>>) = FALSE
    BY <2>3
  <2>6. ret' = [ret EXCEPT ![t] = Abstract!Result(StackContents # <<>>, 0, Abstract!Rightmost(0))]
    <3>1. Abstract!Result(StackContents # <<>>, 0, Abstract!Rightmost(0)) = result
      BY <2>4, <2>5 DEF Result, Abstract!Result
    <3> HIDE DEF result
    <3> QED BY <2>2, <3>1
  <2> QED BY <1>1, <1>2, <2>2, <2>3, <2>4, <2>6
          DEF Abstract!Pop, Abstract!Pending, Abstract!Effect
<1>6. CASE s.size # 0
  <2>1. /\ GoodStack(s') /\ StackTop(s) \in Items
        /\ StackTop(s) = StackContents[Len(StackContents)]
        /\ StackContents' = SubSeq(StackContents, 1, Len(StackContents) - 1)
    BY <1>1, <1>3, <1>4, <1>6, StackPopGood, StackParts
  <2> DEFINE result == Result(TRUE, 1, <<StackTop(s)>>)
  <2>2. Finish(t, result, {})
    BY <2>1, StackAssumption DEF ThreadedStackPop
  <2>3. /\ StackInv'
        /\ Phase[t] = "pending" /\ Phase' = [Phase EXCEPT ![t] = "done"]
        /\ ret' = [ret EXCEPT ![t] = result] /\ op' = op
    <3> HIDE DEF result
    <3> QED BY <1>1, <2>1, <2>2, FinishKeeps, Zenon
  <2>4. Abstract!Lesser(op[t].num, Len(StackContents)) = 1
    BY <1>2, <1>3, <1>6 DEF Abstract!Lesser
  <2>5. Abstract!Rightmost(1) = <<StackTop(s)>>
    <3>1. Len(StackContents) - 1 + 1 = Len(StackContents)
      BY <1>3
    <3> QED BY <2>1, <3>1 DEF Abstract!Rightmost
  <2>6. (StackContents # <<>>) = TRUE
    BY <1>3, <1>6
  <2>7. ret' = [ret EXCEPT ![t] = Abstract!Result(StackContents # <<>>, 1, Abstract!Rightmost(1))]
    BY <2>3, <2>5, <2>6 DEF Result, Abstract!Result
  <2> QED BY <1>1, <1>2, <2>1, <2>3, <2>4, <2>7
          DEF Abstract!Pop, Abstract!Pending, Abstract!Effect
<1> QED BY <1>5, <1>6

\* Count, Capacity and Copy.
LEMMA LookImplements ==
  ASSUME StackInv, NEW t \in Threads,
         ThreadedStackCount(t) \/ ThreadedStackCapacity(t) \/ ThreadedStackCopy(t)
  PROVE  StackInv' /\ (Abstract!Count(t) \/ Abstract!Capacity(t) \/ Abstract!Copy(t))
<1>0. s' = s /\ alive' = alive
  BY DEF ThreadedStackCount, ThreadedStackCapacity, ThreadedStackCopy, stackVars
<1>1. s' = s /\ alive' = alive /\ StackContents' = StackContents /\ GoodStack(s')
  BY <1>0, StackParts DEF StackContents
<1>2. ASSUME NEW k, In(t, k)
      PROVE  /\ op[t].kind = k /\ StackContents = Bottom(s) /\ Len(StackContents) = s.size
             /\ (StackContents = <<>>) = (s.size = 0)
  BY <1>2, InCall, ContentsBottom
<1>3. ASSUME NEW k, In(t, k), NEW result, Finish(t, result, {})
      PROVE  /\ StackInv'
             /\ Phase[t] = "pending" /\ Phase' = [Phase EXCEPT ![t] = "done"]
             /\ ret' = [ret EXCEPT ![t] = result] /\ op' = op
  BY <1>1, <1>3, FinishKeeps
<1>4. CASE ThreadedStackCount(t)
  <2> DEFINE result == Result(s.size = 0, s.size, <<>>)
  <2>1. In(t, "count") /\ Finish(t, result, {})
    BY <1>4 DEF ThreadedStackCount
  <2>2. result = Result(StackContents = <<>>, Len(StackContents), <<>>)
    BY <1>2, <2>1
  <2>3. /\ StackInv'
        /\ Phase[t] = "pending" /\ Phase' = [Phase EXCEPT ![t] = "done"]
        /\ ret' = [ret EXCEPT ![t] = result] /\ op' = op
    <3> HIDE DEF result
    <3> QED BY <1>3, <2>1
  <2> QED BY <1>1, <1>2, <2>1, <2>2, <2>3
          DEF Abstract!Count, Abstract!Pending, Abstract!Effect, Abstract!Result, Result
<1>5. CASE ThreadedStackCapacity(t)
  <2> DEFINE result == Result(TRUE, s.capacity, <<>>)
  <2>1. In(t, "capacity") /\ Finish(t, result, {})
    BY <1>5 DEF ThreadedStackCapacity
  <2>2. /\ StackInv'
        /\ Phase[t] = "pending" /\ Phase' = [Phase EXCEPT ![t] = "done"]
        /\ ret' = [ret EXCEPT ![t] = result] /\ op' = op
    <3> HIDE DEF result
    <3> QED BY <1>3, <2>1
  <2>3. ret'[t] = result
    <3> HIDE DEF result
    <3> QED BY <2>2, StackParts
  <2>4. ret'[t] = Result(TRUE, ret'[t].n, <<>>) /\ ret'[t].n = s.capacity
    BY <2>3 DEF Result
  <2>5. s.capacity >= Len(StackContents)
    BY <1>2, <2>1, StackParts DEF GoodStack
  <2>6. Abstract!Effect(t, ret'[t], StackContents)
    BY <1>1, <2>2, <2>3 DEF Abstract!Effect
  <2> QED BY <1>2, <2>1, <2>2, <2>4, <2>5, <2>6
          DEF Abstract!Capacity, Abstract!Pending, Abstract!Result, Result
<1>6. CASE ThreadedStackCopy(t)
  <2>1. In(t, "copy")
    BY <1>6 DEF ThreadedStackCopy
  <2>2. Bottom(StackCopy(s)) = StackContents
    BY <1>2, <2>1, StackCopyBottom, StackParts
  <2>3. PICK result \in {Result(TRUE, 0, StackContents), Result(FALSE, 0, <<>>)} :
          Finish(t, result, {})
    BY <1>6, <2>2 DEF ThreadedStackCopy
  <2>4. /\ StackInv'
        /\ Phase[t] = "pending" /\ Phase' = [Phase EXCEPT ![t] = "done"]
        /\ ret' = [ret EXCEPT ![t] = result] /\ op' = op
    BY <1>3, <2>1, <2>3
  <2> QED BY <1>1, <1>2, <2>1, <2>3, <2>4
          DEF Abstract!Copy, Abstract!Pending, Abstract!Effect, Abstract!Result, Result
<1> QED BY <1>4, <1>5, <1>6

\* Creating, calling, returning and destroying.
LEMMA CreateImplements ==
  ASSUME StackInv, NEW c \in InitialCapacities, ThreadedStackNew(c)
  PROVE  StackInv' /\ Abstract!Create
<1>1. StackInv' /\ s'.size = 0
  BY StackNewKeeps
<1>2. ~alive /\ alive' = TRUE /\ op' = op /\ ret' = ret /\ Phase' = Phase
  BY DEF ThreadedStackNew, monitorVars, Phase
<1>3. StackContents' = <<>>
  BY <1>1, <1>2 DEF StackContents, Bottom
<1> QED BY <1>1, <1>2, <1>3 DEF Abstract!Create

LEMMA CallImplements ==
  ASSUME StackInv, NEW t \in Threads, NEW r \in Requests, Call(t, r)
  PROVE  Abstract!Invoke(t, r)
<1>1. Phase[t] = "idle" /\ Phase' = [Phase EXCEPT ![t] = "pending"]
  BY PhaseEnter, StackParts DEF Call
<1>2. /\ alive /\ alive' = alive /\ op' = [op EXCEPT ![t] = r] /\ ret' = ret
      /\ StackContents' = StackContents
  BY DEF Call, Enter, stackVars, StackContents
<1> QED BY <1>1, <1>2 DEF Abstract!Invoke

LEMMA LockingImplements ==
  ASSUME StackInv, NEW t \in Threads, ThreadLock(t) \/ ThreadUnlock(t), UNCHANGED stackVars
  PROVE  Abstract!Return(t) \/ UNCHANGED Abstract!vars
<1>1. alive' = alive /\ StackContents' = StackContents
  BY DEF stackVars, StackContents
<1>2. CASE ThreadLock(t)
  <2>1. Phase' = Phase
    BY <1>2, PhaseKept, StackParts
  <2> QED BY <1>1, <1>2, <2>1 DEF ThreadLock, Abstract!vars
<1>3. CASE ThreadUnlock(t)
  <2>1. Phase[t] = "done" /\ Phase' = [Phase EXCEPT ![t] = "idle"]
    BY <1>3, PhaseReturn, StackParts
  <2>2. op' = [op EXCEPT ![t] = NONE] /\ ret' = [ret EXCEPT ![t] = NONE]
    BY <1>3 DEF ThreadUnlock
  <2> QED BY <1>1, <2>1, <2>2 DEF Abstract!Return
<1> QED BY <1>2, <1>3

LEMMA DestroyImplements ==
  ASSUME StackInv, NEW t \in Threads, ThreadedStackDestroy(t)
  PROVE  Abstract!Destroy(t)
<1>1. /\ alive /\ AllIdle /\ pc' = [pc EXCEPT ![t] = "unlock"] /\ op' = op
      /\ \E xs \in {Bottom(s), <<>>} : ret' = [ret EXCEPT ![t] = Result(TRUE, 0, xs)]
  BY DEF ThreadedStackDestroy
<1>2. alive' = FALSE
  BY DEF ThreadedStackDestroy
<1>3. StackContents' = <<>> /\ Bottom(s) = StackContents
  BY <1>1, <1>2 DEF StackContents
<1>4. \A u \in Threads : Phase[u] = "idle"
  BY <1>1, PhaseValue DEF AllIdle
<1>5. Phase' = [Phase EXCEPT ![t] = "done"]
  <2>1. pc'[t] = "unlock" /\ \A u \in Threads : u # t => pc'[u] = pc[u]
    BY <1>1, StackParts DEF MonitorTypeOK
  <2> QED BY <2>1, PhaseMoves
<1> QED BY <1>1, <1>2, <1>3, <1>4, <1>5 DEF Abstract!Destroy, Abstract!Result, Result

\* Every step keeps the invariant and is a step of BlockingDeque, or not seen.
LEMMA StackStep ==
  StackInv /\ [Next]_vars => StackInv' /\ [Abstract!Next]_(Abstract!vars)
<1> SUFFICES ASSUME StackInv, [Next]_vars
             PROVE  StackInv' /\ (Abstract!Next \/ UNCHANGED Abstract!vars)
  OBVIOUS
<1>1. CASE UNCHANGED vars
  <2>1. StackInv'
    <3>1. MonitorInv'
      BY <1>1, MonitorStutterOK, StackParts DEF vars
    <3> QED BY <1>1, <3>1 DEF vars, monitorVars, stackVars, StackInv, CallsKnown
  <2>2. UNCHANGED Abstract!vars
    BY <1>1 DEF vars, monitorVars, stackVars, Abstract!vars, StackContents, Phase
  <2> QED BY <2>1, <2>2
<1>2. ASSUME NEW c \in InitialCapacities, ThreadedStackNew(c) PROVE StackInv' /\ Abstract!Next
  BY <1>2, CreateImplements DEF Abstract!Next
<1>3. ASSUME NEW t \in Threads, NEW r \in Requests, Call(t, r) PROVE StackInv' /\ Abstract!Next
  BY <1>3, CallKeeps, CallImplements DEF Abstract!Next
<1>4. ASSUME NEW t \in Threads, ThreadLock(t) \/ ThreadUnlock(t), UNCHANGED stackVars
      PROVE  StackInv' /\ (Abstract!Next \/ UNCHANGED Abstract!vars)
  BY <1>4, LockingKeeps, LockingImplements DEF Abstract!Next
<1>5. ASSUME NEW t \in Threads, ThreadedStackPush(t) PROVE StackInv' /\ Abstract!Next
  BY <1>5, PushImplements DEF Abstract!Next
<1>6. ASSUME NEW t \in Threads, ThreadedStackPop(t) PROVE StackInv' /\ Abstract!Next
  BY <1>6, PopImplements DEF Abstract!Next
<1>7. ASSUME NEW t \in Threads,
             ThreadedStackCount(t) \/ ThreadedStackCapacity(t) \/ ThreadedStackCopy(t)
      PROVE  StackInv' /\ Abstract!Next
  BY <1>7, LookImplements DEF Abstract!Next
<1>8. ASSUME NEW t \in Threads, ThreadedStackDestroy(t) PROVE StackInv' /\ Abstract!Next
  BY <1>8, StackDestroyKeeps, DestroyImplements DEF Abstract!Next
<1>9. CASE Next
  BY <1>2, <1>3, <1>4, <1>5, <1>6, <1>7, <1>8, <1>9 DEF Next, Step
<1> QED BY <1>1, <1>9

\* The array, its bound and the calls stay consistent, doubled or not: every
\* slot below size holds an item and no slot beyond the capacity is written.
THEOREM StackInvariant == Spec => []StackInv
<1>1. StackInv /\ [Next]_vars => StackInv'
  BY StackStep
<1> QED BY <1>1, StackInitOK, PTL DEF Spec

\* The stack implements BlockingDeque for any number of threads and items: a
\* pop returns the last item pushed and not yet popped, and fails only on an
\* empty stack.
THEOREM StackImplements == Spec => ImplementsBlockingDeque
<1>1. Init => Abstract!Init
  <2> SUFFICES ASSUME Init PROVE Abstract!Init
    OBVIOUS
  <2>1. alive = FALSE /\ StackContents = <<>>
    BY DEF Init, StackContents
  <2>2. Phase = [t \in Threads |-> "idle"] /\ op = [t \in Threads |-> NONE]
        /\ ret = [t \in Threads |-> NONE]
    BY DEF Init, MonitorInit, Phase
  <2> QED BY <2>1, <2>2 DEF Abstract!Init
<1>2. StackInv /\ [Next]_vars => [Abstract!Next]_(Abstract!vars)
  BY StackStep
<1> QED BY <1>1, <1>2, StackInvariant, PTL DEF Spec, ImplementsBlockingDeque, Abstract!Spec

-----------------------------------------------------------------------------
(***************************************************************************)
(* The red-black tree.  The proof has three layers: what the pointer       *)
(* operations (rotate, paint, link, replace, take the place) do to a tree, *)
(* with the heights and the sets below every node given by functions that  *)
(* are asserted to exist; what the walks over it (search, first, next)     *)
(* find, from a rank that falls along every walk; and the steps of the     *)
(* operations.                                                             *)
(***************************************************************************)
\* The order of two keys, seen from one side or from the other.
Before(side, a, b) == IF side = "left" THEN a < b ELSE b < a

TreeRecords == [red : SUBSET Nodes, parent : [Nodes -> Nodes],
                kid : [Sides -> [Nodes -> Nodes]], size : Int]

\* The nodes of S hang together: a child that is not the sentinel is in S and
\* points back, and a node of S is a child of its parent.
Linked(u, S) ==
  /\ \A n \in S \cup {Root}, side \in Sides :
       u.kid[side][n] # Nil => u.kid[side][n] \in S /\ u.parent[u.kid[side][n]] = n
  /\ \A k \in S : /\ u.parent[k] \in S \cup {Root}
                  /\ k = Left(u, u.parent[k]) \/ k = Right(u, u.parent[k])
  /\ Right(u, Root) = Nil /\ Left(u, Nil) = Nil /\ Right(u, Nil) = Nil
  /\ u.parent[Root] = Nil

\* sub[n] is what is at n and below: smaller keys to the left, greater ones to
\* the right, and all of S below the sentinel.
Searchable(u, S, sub) ==
  /\ sub \in [Nodes -> SUBSET S]
  /\ sub[Nil] = {} /\ sub[Root] = S /\ sub[Left(u, Root)] = S
  /\ \A k \in S : sub[k] = {k} \cup sub[Left(u, k)] \cup sub[Right(u, k)]
  /\ \A k \in S, side \in Sides : \A a \in sub[u.kid[side][k]] : Before(side, a, k)

\* bh[n] is the number of black nodes on every way down from n.  On side ds of
\* dn one is missing.
Level(u, bh, n, side, dn, ds) ==
  bh[n] = bh[u.kid[side][n]] + (IF n \in u.red THEN 0 ELSE 1) + (IF n = dn /\ side = ds THEN 1 ELSE 0)

Heights(u, S, bh, dn, ds) ==
  /\ bh \in [Nodes -> Nat \ {0}] /\ bh[Nil] = 1
  /\ \A k \in S, side \in Sides : Level(u, bh, k, side, dn, ds)

\* No red node but c is on top or has a red parent.
Coloured(u, S, c) ==
  /\ Nil \notin u.red /\ Root \notin u.red
  /\ \A k \in S : k \in u.red /\ k # c => u.parent[k] # Root /\ u.parent[k] \notin u.red

Grown(u, S) == u \in TreeRecords /\ S \subseteq Keys /\ Linked(u, S) /\ \E sub : Searchable(u, S, sub)

\* A red-black tree in which only c may be red below a red node.
RedBlack(u, S, c) ==
  Grown(u, S) /\ Coloured(u, S, c) /\ \E bh : Heights(u, S, bh, Nil, "left")

Short(u, S, x) ==
  /\ Grown(u, S) /\ Coloured(u, S, Nil) /\ x \notin u.red
  /\ u.parent[x] \in S /\ x = u.kid[SideOf(u, x)][u.parent[x]]
  /\ \E bh : Heights(u, S, bh, u.parent[x], SideOf(u, x))

-----------------------------------------------------------------------------
LEMMA NodeFacts ==
  /\ Nil \notin Keys /\ Root \notin Keys /\ Nil # Root /\ Nil \in Nodes /\ Root \in Nodes
  /\ Keys \subseteq Nodes /\ Keys \subseteq Int /\ Nodes \subseteq Int
  /\ \A k \in Keys : Nil < k /\ Root < k
  /\ \A side \in Sides : Other(side) \in Sides /\ Other(side) # side /\ Other(Other(side)) = side
  /\ \A side \in Sides, way \in Sides : way = side \/ way = Other(side)
  /\ "left" \in Sides /\ "right" \in Sides
<1>1. /\ Nil \notin Keys /\ Root \notin Keys /\ Nil # Root /\ Nil \in Nodes /\ Root \in Nodes
      /\ Keys \subseteq Nodes /\ Keys \subseteq Int
      /\ \A k \in Keys : Nil < k /\ Root < k
  BY KeysAssumption DEF Nil, Root, Nodes
<1>2. Nodes \subseteq Int
  BY <1>1 DEF Nodes, Nil, Root
<1>3. /\ \A side \in Sides : Other(side) \in Sides /\ Other(side) # side /\ Other(Other(side)) = side
      /\ \A side \in Sides, way \in Sides : way = side \/ way = Other(side)
      /\ "left" \in Sides /\ "right" \in Sides
  BY DEF Sides, Other
<1> QED BY <1>1, <1>2, <1>3

LEMMA BeforeFacts ==
  ASSUME NEW side \in Sides
  PROVE  /\ \A a \in Int, b \in Int : Before(Other(side), a, b) <=> Before(side, b, a)
         /\ \A a \in Int, b \in Int, c \in Int : Before(side, a, b) /\ Before(side, b, c) => Before(side, a, c)
         /\ \A a \in Int : ~Before(side, a, a)
<1>1. CASE side = "left"
  BY <1>1 DEF Before, Other
<1>2. CASE side = "right"
  BY <1>2 DEF Before, Other
<1> QED BY <1>1, <1>2 DEF Sides

KidsMoved(N, K, side, o, d, x, y, p, b) ==
  \A way \in Sides, n \in Nodes :
    N[way][n] = IF n = y /\ way = side THEN x
                ELSE IF n = x /\ way = o THEN b
                ELSE IF n = p /\ way = d THEN y
                ELSE K[way][n]

MovedKids(K, side, o, d, x, y, p, b) == [K EXCEPT ![o][x] = b, ![d][p] = y, ![side][y] = x]

LEMMA KidUpdates ==
  ASSUME NEW K \in [Sides -> [Nodes -> Nodes]], NEW side \in Sides, NEW o \in Sides, NEW d \in Sides,
         NEW x \in Nodes, NEW y \in Nodes, NEW p \in Nodes, NEW b \in Nodes,
         o # side, x # y, x # p, y # p,
         NEW N, N = MovedKids(K, side, o, d, x, y, p, b)
  PROVE  N \in [Sides -> [Nodes -> Nodes]] /\ KidsMoved(N, K, side, o, d, x, y, p, b)
<1> DEFINE K1 == [K EXCEPT ![o][x] = b]
           K2 == [K1 EXCEPT ![d][p] = y]
           K3 == [K2 EXCEPT ![side][y] = x]
<1>0. N = K3
  <2>1. N = [K EXCEPT ![o][x] = b, ![d][p] = y, ![side][y] = x]
    BY Zenon DEF MovedKids
  <2> QED BY <2>1
<1>1. K1 \in [Sides -> [Nodes -> Nodes]] /\ \A way \in Sides, n \in Nodes :
        K1[way][n] = IF way = o /\ n = x THEN b ELSE K[way][n]
  OBVIOUS
<1> HIDE DEF K1
<1>2. K2 \in [Sides -> [Nodes -> Nodes]] /\ \A way \in Sides, n \in Nodes :
        K2[way][n] = IF way = d /\ n = p THEN y ELSE K1[way][n]
  BY <1>1, Zenon
<1> HIDE DEF K2
<1>3. K3 \in [Sides -> [Nodes -> Nodes]] /\ \A way \in Sides, n \in Nodes :
        K3[way][n] = IF way = side /\ n = y THEN x ELSE K2[way][n]
  BY <1>2, Zenon
<1> HIDE DEF K3
<1>4. ASSUME NEW way \in Sides, NEW n \in Nodes
      PROVE  K3[way][n] = IF n = y /\ way = side THEN x
                          ELSE IF n = x /\ way = o THEN b
                          ELSE IF n = p /\ way = d THEN y
                          ELSE K[way][n]
  <2>1. PICK e, e1, e2, e3 : e = K[way][n] /\ e1 = K1[way][n] /\ e2 = K2[way][n] /\ e3 = K3[way][n]
    OBVIOUS
  <2>2. e1 = IF way = o /\ n = x THEN b ELSE e
    BY <2>1, <1>1
  <2>3. e2 = IF way = d /\ n = p THEN y ELSE e1
    BY <2>1, <1>2
  <2>4. e3 = IF way = side /\ n = y THEN x ELSE e2
    BY <2>1, <1>3
  <2>5. e3 = IF n = y /\ way = side THEN x
             ELSE IF n = x /\ way = o THEN b
             ELSE IF n = p /\ way = d THEN y
             ELSE e
    BY <2>2, <2>3, <2>4
  <2> QED BY <2>1, <2>5
<1>5. KidsMoved(K3, K, side, o, d, x, y, p, b)
  BY <1>4, Zenon DEF KidsMoved
<1> QED BY <1>0, <1>3, <1>5

\* A rotation, field by field.
LEMMA RotateFields ==
  ASSUME NEW u \in TreeRecords, NEW side \in Sides, NEW x \in Nodes, NEW y \in Nodes,
         NEW p \in Nodes, NEW b \in Nodes,
         y = u.kid[Other(side)][x], b = u.kid[side][y], p = u.parent[x],
         x # y, x # p, y # p, b # x, b # y
  PROVE  LET v == Rotate(u, side, x)
         IN  /\ v \in TreeRecords /\ v.red = u.red /\ v.size = u.size
             /\ \A n \in Nodes : v.parent[n] = IF n = x THEN y ELSE IF n = y THEN p
                                               ELSE IF n = b /\ b # Nil THEN x ELSE u.parent[n]
             /\ KidsMoved(v.kid, u.kid, side, Other(side), SideOf(u, x), x, y, p, b)
<1> DEFINE o == Other(side)
           d == SideOf(u, x)
           kid == [u.kid EXCEPT ![o][x] = b, ![d][p] = y, ![side][y] = x]
           par == [u.parent EXCEPT ![b] = IF b = Nil THEN u.parent[b] ELSE x, ![y] = p, ![x] = y]
           v == [red |-> u.red, parent |-> par, kid |-> kid, size |-> u.size]
<1>1. /\ u.red \in SUBSET Nodes /\ u.parent \in [Nodes -> Nodes]
      /\ u.kid \in [Sides -> [Nodes -> Nodes]] /\ u.size \in Int
  BY DEF TreeRecords
<1>2. o \in Sides /\ o # side /\ d \in Sides
  BY NodeFacts DEF SideOf, Sides
<1>3. Rotate(u, side, x) = v
  <2>1. u = [red |-> u.red, parent |-> u.parent, kid |-> u.kid, size |-> u.size]
    BY DEF TreeRecords
  <2>2. Rotate(u, side, x) = [u EXCEPT !.kid = kid, !.parent = par]
    BY Zenon DEF Rotate
  <2> HIDE DEF kid, par
  <2> QED BY <2>1, <2>2
<1>4. kid \in [Sides -> [Nodes -> Nodes]] /\ KidsMoved(kid, u.kid, side, o, d, x, y, p, b)
  <2> HIDE DEF o, d
  <2>1. kid = MovedKids(u.kid, side, o, d, x, y, p, b)
    BY Zenon DEF MovedKids
  <2> HIDE DEF kid
  <2>2. u.kid \in [Sides -> [Nodes -> Nodes]] /\ o \in Sides /\ o # side /\ d \in Sides
    BY <1>1, <1>2, SMTT(30)
  <2> QED BY <2>1, <2>2, KidUpdates, Zenon
<1>5. par \in [Nodes -> Nodes] /\ \A n \in Nodes :
        par[n] = IF n = x THEN y ELSE IF n = y THEN p
                 ELSE IF n = b /\ b # Nil THEN x ELSE u.parent[n]
  BY <1>1, ZenonT(40)
<1> HIDE DEF par, kid, o, d
<1>6. v \in TreeRecords /\ v.red = u.red /\ v.size = u.size /\ v.parent = par /\ v.kid = kid
  BY <1>1, <1>4, <1>5, Zenon DEF TreeRecords
<1> HIDE DEF v
<1> QED BY <1>3, <1>4, <1>5, <1>6 DEF o, d

\* A node and a child of it.
LEMMA KidFacts ==
  ASSUME NEW u \in TreeRecords, NEW S \in SUBSET Keys, Linked(u, S),
         NEW sub, Searchable(u, S, sub),
         NEW n \in S, NEW side \in Sides, NEW c, c = u.kid[side][n], c # Nil
  PROVE  /\ c \in S /\ c \in Nodes /\ u.parent[c] = n
         /\ c \in sub[c] /\ c \in sub[n] /\ n \notin sub[c] /\ sub[c] \subseteq sub[n]
         /\ c # n /\ c # Root /\ c # u.kid[Other(side)][n] /\ Before(side, c, n)
<1>1. c \in S /\ u.parent[c] = n /\ c \in Nodes
  BY NodeFacts DEF Linked
<1>2. c \in sub[c]
  BY <1>1 DEF Searchable
<1>3. \A a \in sub[c] : a \in Int /\ Before(side, a, n)
  BY NodeFacts, <1>1 DEF Searchable
<1>4. n \notin sub[c]
  BY <1>3, BeforeFacts
<1>5. sub[c] \subseteq sub[n]
  BY DEF Searchable, Left, Right, Sides
<1>6. c # u.kid[Other(side)][n]
  <2> SUFFICES ASSUME c = u.kid[Other(side)][n] PROVE FALSE
    OBVIOUS
  <2>1. Other(side) \in Sides /\ n \in Int /\ c \in Int
    BY NodeFacts, <1>1
  <2>2. Before(Other(side), c, n)
    BY <2>1, <1>2 DEF Searchable
  <2>3. Before(side, n, c) /\ Before(side, c, n)
    BY <2>1, <2>2, <1>2, <1>3, BeforeFacts
  <2> QED BY <2>1, <2>3, BeforeFacts
<1> QED BY <1>1, <1>2, <1>3, <1>4, <1>5, <1>6, NodeFacts

\* A node and its parent.
LEMMA UpFacts ==
  ASSUME NEW u \in TreeRecords, NEW S \in SUBSET Keys, Linked(u, S),
         NEW sub, Searchable(u, S, sub),
         NEW x \in S, NEW p, p = u.parent[x]
  PROVE  /\ p \in S \cup {Root} /\ p \in Nodes /\ p # Nil /\ SideOf(u, x) \in Sides
         /\ x = u.kid[SideOf(u, x)][p] /\ x # Nil /\ x # Root /\ x \in Nodes
         /\ x \in sub[x] /\ p \notin sub[x] /\ p # x /\ sub[x] \subseteq sub[p]
         /\ p = Root => SideOf(u, x) = "left" /\ sub[x] = S
         /\ p \in S => p \in sub[p] /\ Before(SideOf(u, x), x, p)
<1>1. /\ p \in S \cup {Root} /\ p \in Nodes /\ p # Nil /\ SideOf(u, x) \in Sides
      /\ x # Nil /\ x # Root /\ x \in Nodes
  BY NodeFacts, ZenonT(30) DEF Linked, SideOf, Sides
<1>2. x = u.kid[SideOf(u, x)][p]
  BY Zenon DEF Linked, SideOf, Left, Right
<1>3. x \in sub[x]
  BY DEF Searchable
<1>4. CASE p = Root
  <2>1. SideOf(u, x) = "left"
    BY <1>4, <1>1, <1>2 DEF Linked, Right, SideOf
  <2>2. sub[x] = S /\ sub[p] = S
    BY <1>4, <1>2, <2>1 DEF Searchable, Left
  <2> QED BY <2>1, <2>2, <1>1, <1>2, <1>3, <1>4, NodeFacts
<1>5. CASE p \in S
  <2>1. /\ x \in sub[p] /\ p \notin sub[x] /\ sub[x] \subseteq sub[p] /\ x # p /\ Before(SideOf(u, x), x, p)
    BY <1>1, <1>2, <1>5, KidFacts
  <2>2. p \in sub[p] /\ p # Root
    BY <1>5, NodeFacts DEF Searchable
  <2> QED BY <2>1, <2>2, <1>1, <1>2, <1>3, <1>5
<1> QED BY <1>1, <1>4, <1>5

\* The same, to be cited of nodes that have no name.
UpNode(u, S, sub, x, p) ==
  /\ p \in S \cup {Root} /\ p \in Nodes /\ p # Nil /\ SideOf(u, x) \in Sides
  /\ x = u.kid[SideOf(u, x)][p] /\ x # Nil /\ x # Root /\ x \in Nodes
  /\ x \in sub[x] /\ p \notin sub[x] /\ p # x /\ sub[x] \subseteq sub[p]
  /\ p = Root => SideOf(u, x) = "left" /\ sub[x] = S
  /\ p \in S => p \in sub[p] /\ Before(SideOf(u, x), x, p)

KidNode(u, S, sub, n, side, c) ==
  /\ c \in S /\ c \in Nodes /\ u.parent[c] = n
  /\ c \in sub[c] /\ c \in sub[n] /\ n \notin sub[c] /\ sub[c] \subseteq sub[n]
  /\ c # n /\ c # Root /\ c # u.kid[Other(side)][n] /\ Before(side, c, n)

LEMMA UpNodes ==
  ASSUME NEW u \in TreeRecords, NEW S \in SUBSET Keys, Linked(u, S),
         NEW sub, Searchable(u, S, sub), NEW x \in S
  PROVE  UpNode(u, S, sub, x, u.parent[x])
<1>1. PICK p : p = u.parent[x]
  OBVIOUS
<1>2. UpNode(u, S, sub, x, p)
  BY <1>1, UpFacts DEF UpNode
<1> QED BY <1>1, <1>2

LEMMA KidNodes ==
  ASSUME NEW u \in TreeRecords, NEW S \in SUBSET Keys, Linked(u, S),
         NEW sub, Searchable(u, S, sub), NEW n \in S, NEW side \in Sides, u.kid[side][n] # Nil
  PROVE  KidNode(u, S, sub, n, side, u.kid[side][n])
<1>1. PICK c : c = u.kid[side][n]
  OBVIOUS
<1>2. KidNode(u, S, sub, n, side, c)
  BY <1>1, KidFacts, SMTT(20) DEF KidNode
<1> QED BY <1>1, <1>2

\* v is u with y, the child of x on the other side, in the place of x.
Turned(u, v, side, x, y, p, b) ==
  /\ v \in TreeRecords /\ v.red = u.red /\ v.size = u.size
  /\ \A n \in Nodes : v.parent[n] = IF n = x THEN y ELSE IF n = y THEN p
                                    ELSE IF n = b /\ b # Nil THEN x ELSE u.parent[n]
  /\ KidsMoved(v.kid, u.kid, side, Other(side), SideOf(u, x), x, y, p, b)

\* The nodes around a rotation are different ones.
Around(u, S, side, x, y, p, b) ==
  /\ x \in S /\ y \in S /\ p \in S \cup {Root} /\ b \in S \cup {Nil}
  /\ y = u.kid[Other(side)][x] /\ b = u.kid[side][y] /\ p = u.parent[x] /\ u.parent[y] = x
  /\ x # y /\ x # p /\ y # p /\ b # x /\ b # y /\ b # p
  /\ u.kid[SideOf(u, x)][p] = x /\ u.kid[Other(SideOf(u, x))][p] # x /\ u.kid[side][x] # y
  /\ b # Nil => u.parent[b] = y /\ u.kid[Other(side)][y] # b

LEMMA RotateTurns ==
  ASSUME NEW u \in TreeRecords, NEW S \in SUBSET Keys, Linked(u, S),
         NEW sub, Searchable(u, S, sub), NEW side \in Sides, NEW x \in S,
         NEW y, NEW p, NEW b, y = u.kid[Other(side)][x], y # Nil, p = u.parent[x], b = u.kid[side][y]
  PROVE  Turned(u, Rotate(u, side, x), side, x, y, p, b) /\ Around(u, S, side, x, y, p, b)
<1>0. Other(side) \in Sides /\ side \in Sides /\ x \in Nodes /\ Other(Other(side)) = side /\ S \subseteq Nodes
  BY NodeFacts, Zenon
<1>1. /\ y \in S /\ y \in Nodes /\ u.parent[y] = x /\ y \in sub[x] /\ x \notin sub[y] /\ y # x
      /\ sub[y] \subseteq sub[x] /\ y \in sub[y]
  BY <1>0, KidFacts
<1>2. /\ p \in S \cup {Root} /\ p \in Nodes /\ p # Nil /\ p # x /\ p \notin sub[x]
      /\ SideOf(u, x) \in Sides /\ u.kid[SideOf(u, x)][p] = x /\ x # Nil
      /\ p = Root => SideOf(u, x) = "left"
  BY UpFacts
<1>3. b # Nil => /\ b \in S /\ b \in Nodes /\ u.parent[b] = y /\ b \in sub[y] /\ b # y
                 /\ u.kid[Other(side)][y] # b
  BY <1>1, KidFacts
<1>4. b # x /\ b # p
  <2>1. CASE b = Nil
    BY <2>1, <1>2, Zenon
  <2>2. CASE b # Nil
    BY <2>2, <1>1, <1>2, <1>3, Zenon
  <2> QED BY <2>1, <2>2, Zenon
<1>5. y # p /\ b # y /\ b \in S \cup {Nil} /\ b \in Nodes
  BY <1>1, <1>2, <1>3, NodeFacts
<1>6. u.kid[side][x] # y
  BY <1>0, KidFacts
<1>7. u.kid[Other(SideOf(u, x))][p] # x
  <2>1. CASE p = Root
    BY <2>1, <1>2 DEF Linked, Other, Right
  <2>2. CASE p \in S
    BY <2>2, <1>2, KidFacts, SMTT(20)
  <2> QED BY <1>2, <2>1, <2>2, Zenon
<1>8. Turned(u, Rotate(u, side, x), side, x, y, p, b)
  BY <1>0, <1>1, <1>2, <1>4, <1>5, RotateFields DEF Turned
<1> QED BY <1>1, <1>2, <1>3, <1>4, <1>5, <1>6, <1>7, <1>8 DEF Around

LEMMA TurnedLinked ==
  ASSUME NEW u \in TreeRecords, NEW S \in SUBSET Keys, Linked(u, S),
         NEW v, NEW side \in Sides, NEW x, NEW y, NEW p, NEW b,
         Turned(u, v, side, x, y, p, b), Around(u, S, side, x, y, p, b)
  PROVE  Linked(v, S)
<1> DEFINE o == Other(side)
           d == SideOf(u, x)
           e == Other(d)
<1>0. /\ o \in Sides /\ o # side /\ d \in Sides /\ S \subseteq Nodes
      /\ Nil \notin S /\ Root \notin S /\ Nil # Root /\ \A way \in Sides : (way = side \/ way = o) /\ (way = d \/ way = e)
      /\ Nil \in Nodes /\ Root \in Nodes
  BY NodeFacts, Zenon DEF SideOf, Sides
<1> HIDE DEF o, d, e
<1>2. /\ x \in S /\ y \in S /\ p \in S \cup {Root} /\ b \in S \cup {Nil}
      /\ x \in Nodes /\ y \in Nodes /\ p \in Nodes /\ b \in Nodes /\ x # Nil /\ y # Nil /\ p # Nil
      /\ y = u.kid[o][x] /\ b = u.kid[side][y] /\ p = u.parent[x] /\ u.parent[y] = x
      /\ x # y /\ x # p /\ y # p /\ b # x /\ b # y /\ b # p
      /\ u.kid[d][p] = x /\ u.kid[e][p] # x /\ u.kid[side][x] # y
      /\ b # Nil => u.parent[b] = y /\ u.kid[o][y] # b
  BY <1>0 DEF Around, o, d, e
<1>3. \A n \in Nodes : v.parent[n] = IF n = x THEN y ELSE IF n = y THEN p
                                     ELSE IF n = b /\ b # Nil THEN x ELSE u.parent[n]
  BY DEF Turned
<1>4. \A way \in Sides, n \in Nodes : v.kid[way][n] = IF n = y /\ way = side THEN x
                ELSE IF n = x /\ way = o THEN b
                ELSE IF n = p /\ way = d THEN y
                ELSE u.kid[way][n]
  BY DEF Turned, KidsMoved, o, d
<1>5. \A n \in S \cup {Root}, way \in Sides :
        u.kid[way][n] # Nil => u.kid[way][n] \in S /\ u.parent[u.kid[way][n]] = n
  BY Zenon DEF Linked
<1>a. v.parent[x] = y /\ v.parent[y] = p /\ (b # Nil => v.parent[b] = x)
  BY <1>2, <1>3, Zenon
<1>b. v.kid[side][y] = x /\ v.kid[o][x] = b /\ v.kid[d][p] = y
  BY <1>0, <1>2, <1>4, Zenon
<1>6. ASSUME NEW n \in S \cup {Root}, NEW way \in Sides, v.kid[way][n] # Nil
      PROVE  v.kid[way][n] \in S /\ v.parent[v.kid[way][n]] = n
  <2>1. CASE n = y /\ way = side
    BY <2>1, <1>2, <1>a, <1>b, Zenon
  <2>2. CASE n = x /\ way = o
    BY <2>2, <1>2, <1>a, <1>b, <1>6, ZenonT(40)
  <2>3. CASE n = p /\ way = d
    BY <2>3, <1>2, <1>a, <1>b
  <2>4. CASE ~(n = y /\ way = side) /\ ~(n = x /\ way = o) /\ ~(n = p /\ way = d)
    <3>1. v.kid[way][n] = u.kid[way][n]
      BY <2>4, <1>0, <1>4
    <3> DEFINE c == u.kid[way][n]
    <3>2. c \in S /\ u.parent[c] = n /\ c \in Nodes /\ c # Nil
      BY <3>1, <1>0, <1>5, <1>6, Zenon
    <3>3. c # x
      BY <2>4, <3>2, <1>0, <1>2, Zenon
    <3>4. c # y
      BY <2>4, <3>2, <1>0, <1>2, Zenon
    <3>5. c # b
      BY <2>4, <3>2, <1>0, <1>2
    <3> HIDE DEF c
    <3>6. v.parent[c] = u.parent[c]
      BY <3>2, <3>3, <3>4, <3>5, <1>3
    <3> QED BY <3>1, <3>2, <3>6 DEF c
  <2> QED BY <2>1, <2>2, <2>3, <2>4, Zenon
<1>7. ASSUME NEW k \in S
      PROVE  v.parent[k] \in S \cup {Root} /\ \E way \in Sides : k = v.kid[way][v.parent[k]]
  <2>1. CASE k = x
    BY <2>1, <1>2, <1>a, <1>b, ZenonT(40)
  <2>2. CASE k = y
    BY <2>2, <1>0, <1>2, <1>a, <1>b
  <2>3. CASE k = b
    BY <2>3, <1>0, <1>2, <1>a, <1>b, Zenon
  <2>4. CASE k # x /\ k # y /\ k # b
    <3>1. v.parent[k] = u.parent[k]
      BY <2>4, <1>0, <1>3
    <3>2. u.parent[k] \in S \cup {Root} /\ \E way \in Sides : k = u.kid[way][u.parent[k]]
      BY NodeFacts DEF Linked, Left, Right
    <3>3. PICK way \in Sides : k = u.kid[way][u.parent[k]]
      BY <3>2, Zenon
    <3> DEFINE n == u.parent[k]
    <3>4. n \in Nodes /\ ~(n = y /\ way = side) /\ ~(n = x /\ way = o) /\ ~(n = p /\ way = d)
      BY <2>4, <3>2, <3>3, <1>0, <1>2
    <3>5. v.kid[way][n] = u.kid[way][n]
      BY <3>4, <1>4
    <3> QED BY <3>1, <3>2, <3>3, <3>5
  <2> QED BY <2>1, <2>2, <2>3, <2>4, Zenon
<1>8. ASSUME NEW k \in S PROVE k = Left(v, v.parent[k]) \/ k = Right(v, v.parent[k])
  BY <1>7 DEF Left, Right, Sides
<1>9. v.kid["right"][Root] = Nil /\ v.kid["left"][Nil] = Nil /\ v.kid["right"][Nil] = Nil /\ v.parent[Root] = Nil
  <2>1. /\ u.kid["right"][Root] = Nil /\ u.kid["left"][Nil] = Nil /\ u.kid["right"][Nil] = Nil
        /\ u.parent[Root] = Nil /\ "left" \in Sides /\ "right" \in Sides
    BY Zenon DEF Linked, Left, Right, Sides
  <2>2. ~("right" = d /\ Root = p)
    BY <2>1, <1>2, Zenon
  <2>3. v.kid["right"][Root] = Nil
    BY <2>1, <2>2, <1>0, <1>2, <1>4, ZenonT(40)
  <2>4. v.kid["left"][Nil] = Nil /\ v.kid["right"][Nil] = Nil
    BY <2>1, <1>0, <1>2, <1>4, ZenonT(40)
  <2>5. v.parent[Root] = Nil
    BY <2>1, <1>0, <1>2, <1>3
  <2> QED BY <2>3, <2>4, <2>5
<1> QED BY <1>6, <1>7, <1>8, <1>9 DEF Linked, Left, Right

\* Searchable, with the sides named by one of them.
SearchableFrom(u, S, sub, side, o) ==
  /\ sub \in [Nodes -> SUBSET S]
  /\ sub[Nil] = {} /\ sub[Root] = S /\ sub[u.kid["left"][Root]] = S
  /\ \A k \in S : sub[k] = {k} \cup sub[u.kid[side][k]] \cup sub[u.kid[o][k]]
  /\ \A k \in S, way \in Sides : \A a \in sub[u.kid[way][k]] : Before(way, a, k)

LEMMA SideWise ==
  ASSUME NEW u, NEW S, NEW sub, NEW side \in Sides
  PROVE  Searchable(u, S, sub) <=> SearchableFrom(u, S, sub, side, Other(side))
<1>1. CASE side = "left"
  BY <1>1 DEF Searchable, SearchableFrom, Left, Right, Other
<1>2. CASE side = "right"
  BY <1>2 DEF Searchable, SearchableFrom, Left, Right, Other
<1> QED BY <1>1, <1>2 DEF Sides

LEMMA TurnedSearchable ==
  ASSUME NEW u \in TreeRecords, NEW S \in SUBSET Keys, Linked(u, S),
         NEW sub, Searchable(u, S, sub),
         NEW v, NEW side \in Sides, NEW x, NEW y, NEW p, NEW b,
         Turned(u, v, side, x, y, p, b), Around(u, S, side, x, y, p, b)
  PROVE  \E sb : Searchable(v, S, sb)
<1> DEFINE o == Other(side)
           d == SideOf(u, x)
           e == Other(d)
<1>0. /\ o \in Sides /\ o # side /\ d \in Sides /\ S \subseteq Nodes /\ Other(o) = side
      /\ Nil \notin S /\ Root \notin S /\ Nil # Root /\ \A way \in Sides : (way = side \/ way = o) /\ (way = d \/ way = e)
      /\ Nil \in Nodes /\ Root \in Nodes /\ v \in TreeRecords /\ S \subseteq Int
  BY NodeFacts, Zenon DEF SideOf, Sides, Turned
<1> HIDE DEF o, d, e
<1>2. /\ x \in S /\ y \in S /\ p \in S \cup {Root} /\ b \in S \cup {Nil}
      /\ x \in Nodes /\ y \in Nodes /\ p \in Nodes /\ b \in Nodes /\ x # Nil /\ y # Nil /\ p # Nil
      /\ y = u.kid[o][x] /\ b = u.kid[side][y] /\ p = u.parent[x] /\ u.parent[y] = x
      /\ x # y /\ x # p /\ y # p /\ b # x /\ b # y /\ b # p
      /\ u.kid[d][p] = x /\ u.kid[e][p] # x /\ u.kid[side][x] # y
      /\ b # Nil => u.parent[b] = y /\ u.kid[o][y] # b
  BY <1>0 DEF Around, o, d, e
<1>4. \A way \in Sides, n \in Nodes : v.kid[way][n] = IF n = y /\ way = side THEN x
                ELSE IF n = x /\ way = o THEN b
                ELSE IF n = p /\ way = d THEN y
                ELSE u.kid[way][n]
  BY DEF Turned, KidsMoved, o, d
<1>5. \A n \in S \cup {Root}, way \in Sides :
        u.kid[way][n] # Nil => u.kid[way][n] \in S /\ u.parent[u.kid[way][n]] = n
  BY DEF Linked
<1>6. /\ sub \in [Nodes -> SUBSET S]
      /\ sub[Nil] = {} /\ sub[Root] = S /\ sub[u.kid["left"][Root]] = S
      /\ \A k \in S : sub[k] = {k} \cup sub[u.kid[side][k]] \cup sub[u.kid[o][k]]
      /\ \A k \in S, way \in Sides : \A a \in sub[u.kid[way][k]] : Before(way, a, k)
  <2>1. SearchableFrom(u, S, sub, side, o)
    BY SideWise, ZenonT(40) DEF o
  <2> QED BY <2>1 DEF SearchableFrom
<1> DEFINE a == u.kid[side][x]
           c == u.kid[o][y]
           low == {x} \cup sub[a] \cup sub[b]
           sb == [sub EXCEPT ![y] = sub[x], ![x] = low]
<1>7. v.kid[side][x] = a /\ v.kid[o][x] = b /\ v.kid[side][y] = x /\ v.kid[o][y] = c
  BY <1>0, <1>2, <1>4
<1>8. /\ sub[x] = {x} \cup sub[a] \cup sub[y] /\ sub[y] = {y} \cup sub[b] \cup sub[c]
      /\ low \in SUBSET S /\ sub[x] \in SUBSET S
  BY <1>0, <1>2, <1>6, ZenonT(30)
<1>9. a \in Nodes /\ c \in Nodes /\ a # x /\ a # y /\ c # x /\ c # y
  <2>1. a \in Nodes /\ c \in Nodes
    BY <1>0, <1>2 DEF TreeRecords
  <2> QED BY <2>1, <1>2, <1>5, KidFacts, <1>0, SMTT(20)
<1>10. sb \in [Nodes -> SUBSET S] /\ sb[x] = low /\ sb[y] = sub[x] /\ \A n \in Nodes : n # x /\ n # y => sb[n] = sub[n]
  BY <1>2, <1>6, <1>8, Zenon
<1> HIDE DEF sb
<1>11. sb[a] = sub[a] /\ sb[b] = sub[b] /\ sb[c] = sub[c] /\ sb[Nil] = {} /\ sb[Root] = S
  BY <1>0, <1>2, <1>6, <1>9, <1>10, ZenonT(30)
<1>12. ASSUME NEW n \in S \cup {Root}, n # x, n # y, NEW way \in Sides PROVE sb[v.kid[way][n]] = sub[u.kid[way][n]]
  <2>1. CASE n = p /\ way = d
    BY <2>1, <1>2, <1>0, <1>4, <1>10, <1>12, Zenon
  <2>2. CASE ~(n = p /\ way = d)
    <3>1. v.kid[way][n] = u.kid[way][n] /\ n \in Nodes
      BY <2>2, <1>0, <1>4, <1>12
    <3>2. u.kid[way][n] # x
      <4> SUFFICES ASSUME u.kid[way][n] = x PROVE FALSE
        BY Zenon
      <4>1. n = p
        BY <1>2, <1>5
      <4> QED BY <4>1, <2>2, <1>0, <1>2
    <3>4. u.kid[way][n] # y
      <4> SUFFICES ASSUME u.kid[way][n] = y PROVE FALSE
        BY Zenon
      <4>1. n = x
        BY <1>2, <1>5
      <4> QED BY <4>1, <1>12
    <3>3. u.kid[way][n] \in Nodes
      BY <3>1 DEF TreeRecords
    <3> QED BY <3>1, <3>2, <3>3, <3>4, <1>10
  <2> QED BY <2>1, <2>2
<1>13. sb[v.kid["left"][Root]] = S
  <2>1. Root # x /\ Root # y /\ "left" \in Sides
    BY <1>0, <1>2 DEF Sides
  <2> QED BY <2>1, <1>12, <1>6, Zenon
<1>14. ASSUME NEW k \in S PROVE sb[k] = {k} \cup sb[v.kid[side][k]] \cup sb[v.kid[o][k]]
  <2>1. CASE k = x
    BY <2>1, <1>7, <1>10, <1>11, ZenonT(40)
  <2>2. CASE k = y
    BY <2>2, <1>7, <1>8, <1>10, <1>11
  <2>3. CASE k # x /\ k # y
    BY <2>3, <1>0, <1>6, <1>10, <1>12
  <2> QED BY <2>1, <2>2, <2>3
<1>15. /\ \A z \in sub[a] : z \in Int /\ Before(side, z, x)
       /\ \A z \in sub[y] : z \in Int /\ Before(o, z, x)
       /\ \A z \in sub[b] : z \in Int /\ Before(side, z, y)
       /\ \A z \in sub[c] : z \in Int /\ Before(o, z, y)
  BY <1>0, <1>2, <1>6, <1>9, Zenon
<1>16. x \in Int /\ y \in Int /\ Before(side, x, y)
  <2>1. x \in Int /\ y \in Int /\ y \in sub[y]
    BY <1>0, <1>2, <1>8, Zenon
  <2>2. Before(o, y, x)
    BY <2>1, <1>15
  <2> QED BY <2>1, <2>2, BeforeFacts DEF o
<1>17. ASSUME NEW k \in S, NEW way \in Sides, NEW z \in sb[v.kid[way][k]] PROVE Before(way, z, k)
  <2>1. CASE k = x /\ way = side
    BY <2>1, <1>7, <1>11, <1>15, <1>17, Zenon
  <2>2. CASE k = x /\ way = o
    BY <2>2, <1>7, <1>8, <1>11, <1>15, <1>17, Zenon
  <2>3. CASE k = y /\ way = o
    BY <2>3, <1>7, <1>11, <1>15, <1>17
  <2>4. CASE k = y /\ way = side
    <3>1. z \in low
      BY <2>4, <1>7, <1>10, <1>17
    <3>2. z = x \/ z \in sub[a] \/ z \in sub[b]
      BY <3>1
    <3>3. z \in sub[a] => Before(side, z, y)
      BY <1>15, <1>16, BeforeFacts
    <3> QED BY <2>4, <3>2, <3>3, <1>15, <1>16
  <2>5. CASE k # x /\ k # y
    BY <2>5, <1>6, <1>12, <1>17
  <2> QED BY <2>1, <2>2, <2>3, <2>4, <2>5, <1>0, Zenon
<1>18. Searchable(v, S, sb)
  <2>1. SearchableFrom(v, S, sb, side, o)
    BY <1>10, <1>11, <1>13, <1>14, <1>17 DEF SearchableFrom
  <2> QED BY <2>1, SideWise, Zenon DEF o
<1> QED BY <1>18

\* The children of the nodes at the rotation, and of all others.
KidsAround(u, v, S, side, x, y, p, b) ==
  /\ v.kid[side][x] = u.kid[side][x] /\ v.kid[Other(side)][x] = b
  /\ v.kid[side][y] = x /\ v.kid[Other(side)][y] = u.kid[Other(side)][y]
  /\ v.kid[SideOf(u, x)][p] = y
  /\ \A k \in S \cup {Root}, way \in Sides : k # x /\ k # y =>
       \/ k = p /\ way = SideOf(u, x) /\ v.kid[way][k] = y /\ u.kid[way][k] = x
       \/ /\ ~(k = p /\ way = SideOf(u, x)) /\ v.kid[way][k] = u.kid[way][k]
          /\ u.kid[way][k] # x /\ u.kid[way][k] # y

LEMMA TurnedKids ==
  ASSUME NEW u \in TreeRecords, NEW S \in SUBSET Keys, Linked(u, S),
         NEW v, NEW side \in Sides, NEW x, NEW y, NEW p, NEW b,
         Turned(u, v, side, x, y, p, b), Around(u, S, side, x, y, p, b)
  PROVE  KidsAround(u, v, S, side, x, y, p, b)
<1> DEFINE o == Other(side)
           d == SideOf(u, x)
           e == Other(d)
<1>0. /\ o \in Sides /\ o # side /\ d \in Sides /\ S \subseteq Nodes /\ Root \in Nodes
      /\ \A way \in Sides : (way = side \/ way = o) /\ (way = d \/ way = e)
  BY NodeFacts, Zenon DEF SideOf, Sides, Turned
<1> HIDE DEF o, d, e
<1>1. /\ x \in S /\ y \in S /\ p \in S \cup {Root}
      /\ y = u.kid[o][x] /\ p = u.parent[x] /\ u.parent[y] = x
      /\ x # y /\ x # p /\ y # p /\ u.kid[d][p] = x /\ u.kid[e][p] # x
  BY Zenon DEF Around, o, d, e
<1>2. \A way \in Sides, n \in Nodes : v.kid[way][n] = IF n = y /\ way = side THEN x
                ELSE IF n = x /\ way = o THEN b
                ELSE IF n = p /\ way = d THEN y
                ELSE u.kid[way][n]
  BY DEF Turned, KidsMoved, o, d
<1>3. \A n \in S \cup {Root}, way \in Sides :
        u.kid[way][n] # Nil => u.kid[way][n] \in S /\ u.parent[u.kid[way][n]] = n
  BY DEF Linked
<1>4. /\ v.kid[side][x] = u.kid[side][x] /\ v.kid[o][x] = b /\ v.kid[side][y] = x /\ v.kid[o][y] = u.kid[o][y]
      /\ v.kid[d][p] = y
  BY <1>0, <1>1, <1>2
<1>5. ASSUME NEW k \in S \cup {Root}, NEW way \in Sides, k # x, k # y
      PROVE  \/ k = p /\ way = d /\ v.kid[way][k] = y /\ u.kid[way][k] = x
             \/ /\ ~(k = p /\ way = d) /\ v.kid[way][k] = u.kid[way][k]
                /\ u.kid[way][k] # x /\ u.kid[way][k] # y
  <2>1. CASE k = p /\ way = d
    BY <2>1, <1>1, <1>4
  <2>2. CASE ~(k = p /\ way = d)
    <3>1. v.kid[way][k] = u.kid[way][k]
      BY <2>2, <1>0, <1>2, <1>5
    <3>2. u.kid[way][k] # x
      <4> SUFFICES ASSUME u.kid[way][k] = x PROVE FALSE
        OBVIOUS
      <4>1. k = p
        BY <1>1, <1>3, NodeFacts, Zenon
      <4> QED BY <4>1, <2>2, <1>0, <1>1
    <3>3. u.kid[way][k] # y
      BY <1>1, <1>3, <1>5, NodeFacts, SMTT(30)
    <3> QED BY <3>1, <3>2, <3>3, <2>2
  <2> QED BY <2>1, <2>2, Zenon
<1> QED BY <1>4, <1>5 DEF o, d, KidsAround

\* Nodes that are not in the tree keep their children.
KidFrame(u, v, S) == \A k \in Keys \ S, way \in Sides : v.kid[way][k] = u.kid[way][k]

LEMMA TurnedFrame ==
  ASSUME NEW u, NEW t, NEW S, t.kid = u.kid, NEW v, NEW side, NEW x, NEW y, NEW p, NEW b,
         Turned(t, v, side, x, y, p, b), Around(t, S, side, x, y, p, b)
  PROVE  KidFrame(u, v, S)
<1>1. x \in S /\ y \in S /\ p \in S \cup {Root}
  BY DEF Around
<1>2. ASSUME NEW k \in Keys \ S, NEW way \in Sides PROVE v.kid[way][k] = u.kid[way][k]
  <2>1. k # x /\ k # y /\ k # p /\ k \in Nodes
    BY <1>1, NodeFacts
  <2>2. v.kid[way][k] = t.kid[way][k]
    BY <2>1, Zenon DEF Turned, KidsMoved
  <2> QED BY <2>2
<1> QED BY <1>2, Zenon DEF KidFrame

LEMMA RotateGrown ==
  ASSUME NEW u, NEW S, Grown(u, S), NEW side \in Sides, NEW x \in S,
         NEW y, NEW p, NEW b, y = u.kid[Other(side)][x], y # Nil, p = u.parent[x], b = u.kid[side][y]
  PROVE  /\ Turned(u, Rotate(u, side, x), side, x, y, p, b) /\ Around(u, S, side, x, y, p, b)
         /\ Grown(Rotate(u, side, x), S)
<1>1. /\ u \in TreeRecords /\ S \in SUBSET Keys /\ Linked(u, S)
      /\ \E sub : Searchable(u, S, sub)
  BY DEF Grown
<1>2. PICK sub : Searchable(u, S, sub)
  BY <1>1
<1> DEFINE v == Rotate(u, side, x)
<1>3. Turned(u, v, side, x, y, p, b) /\ Around(u, S, side, x, y, p, b)
  BY <1>1, <1>2, RotateTurns, Zenon
<1> HIDE DEF v
<1>4. Linked(v, S)
  BY <1>1, <1>3, TurnedLinked, Zenon
<1>5. \E sb : Searchable(v, S, sb)
  BY <1>1, <1>2, <1>3, TurnedSearchable, Zenon
<1>6. v \in TreeRecords
  BY <1>3 DEF Turned
<1> QED BY <1>1, <1>3, <1>4, <1>5, <1>6 DEF Grown, v

\* Colours and the size do not matter to the search.
LEMMA SameGrown ==
  ASSUME NEW u, NEW S, Grown(u, S), NEW v \in TreeRecords, v.kid = u.kid, v.parent = u.parent
  PROVE  Grown(v, S)
<1>1. Linked(v, S)
  BY DEF Grown, Linked, Left, Right
<1>2. \A sub : Searchable(u, S, sub) => Searchable(v, S, sub)
  BY DEF Searchable, Left, Right
<1> QED BY <1>1, <1>2 DEF Grown

\* v is u in other colours.
Painted(u, v, red) ==
  v \in TreeRecords /\ v.parent = u.parent /\ v.kid = u.kid /\ v.size = u.size /\ v.red = red

LEMMA RedField ==
  ASSUME NEW u \in TreeRecords, NEW r \in SUBSET Nodes, NEW v, v = [u EXCEPT !.red = r]
  PROVE  Painted(u, v, r)
<1>1. /\ u.red \in SUBSET Nodes /\ u.parent \in [Nodes -> Nodes]
      /\ u.kid \in [Sides -> [Nodes -> Nodes]] /\ u.size \in Int
      /\ u = [red |-> u.red, parent |-> u.parent, kid |-> u.kid, size |-> u.size]
  BY DEF TreeRecords
<1>2. v = [red |-> r, parent |-> u.parent, kid |-> u.kid, size |-> u.size]
  BY <1>1
<1>3. v \in TreeRecords /\ v.parent = u.parent /\ v.kid = u.kid /\ v.size = u.size /\ v.red = r
  BY <1>1, <1>2 DEF TreeRecords
<1> QED BY <1>3 DEF Painted

LEMMA PaintRed ==
  ASSUME NEW u \in TreeRecords, NEW n \in Nodes, NEW v, v = Paint(u, n, TRUE)
  PROVE  Painted(u, v, u.red \cup {n})
<1>1. u.red \cup {n} \in SUBSET Nodes
  BY DEF TreeRecords
<1>2. v = [u EXCEPT !.red = u.red \cup {n}]
  BY Zenon DEF Paint
<1> QED BY <1>1, <1>2, RedField, Zenon

LEMMA PaintBlack ==
  ASSUME NEW u \in TreeRecords, NEW n \in Nodes, NEW v, v = Paint(u, n, FALSE)
  PROVE  Painted(u, v, u.red \ {n})
<1>1. u.red \ {n} \in SUBSET Nodes
  BY DEF TreeRecords
<1>2. v = [u EXCEPT !.red = u.red \ {n}]
  BY Zenon DEF Paint
<1> QED BY <1>1, <1>2, RedField, Zenon

\* n takes the colour of m.
LEMMA PaintLike ==
  ASSUME NEW u \in TreeRecords, NEW n \in Nodes, NEW m, NEW v, v = Paint(u, n, m \in u.red)
  PROVE  Painted(u, v, IF m \in u.red THEN u.red \cup {n} ELSE u.red \ {n})
<1> DEFINE r == IF m \in u.red THEN u.red \cup {n} ELSE u.red \ {n}
<1>1. r \in SUBSET Nodes
  BY DEF TreeRecords
<1>2. v = [u EXCEPT !.red = r]
  BY Zenon DEF Paint
<1> HIDE DEF r
<1>3. Painted(u, v, r)
  BY <1>1, <1>2, RedField, Zenon
<1> QED BY <1>3, Zenon DEF r

LEMMA PaintedTwice ==
  ASSUME NEW u, NEW v, NEW w, NEW r, NEW t, Painted(u, v, r), Painted(v, w, t)
  PROVE  Painted(u, w, t)
BY DEF Painted

LEMMA PaintedGrown ==
  ASSUME NEW u, NEW S, Grown(u, S), NEW v, NEW r, Painted(u, v, r)
  PROVE  Grown(v, S) /\ v.red = r /\ v.kid = u.kid /\ v.parent = u.parent /\ v.size = u.size
BY SameGrown DEF Painted

\* Heights in numbers.
LevelNumbers(u, bh, k, way, dn, ds) ==
  /\ k \in u.red /\ ~(k = dn /\ way = ds) => bh[k] = bh[u.kid[way][k]]
  /\ k \notin u.red /\ ~(k = dn /\ way = ds) => bh[k] = bh[u.kid[way][k]] + 1
  /\ k \in u.red /\ k = dn /\ way = ds => bh[k] = bh[u.kid[way][k]] + 1
  /\ k \notin u.red /\ k = dn /\ way = ds => bh[k] = bh[u.kid[way][k]] + 2

ShortNumbers(u, S, bh, dn, ds) ==
  /\ bh \in [Nodes -> Nat \ {0}] /\ bh[Nil] = 1
  /\ \A k \in S, way \in Sides : bh[u.kid[way][k]] \in Int /\ u.kid[way][k] \in Nodes /\ LevelNumbers(u, bh, k, way, dn, ds)

WholeNumbers(u, S, bh) ==
  /\ bh \in [Nodes -> Nat \ {0}] /\ bh[Nil] = 1
  /\ \A k \in S, way \in Sides : /\ bh[u.kid[way][k]] \in Int /\ u.kid[way][k] \in Nodes
                                 /\ k \in u.red => bh[k] = bh[u.kid[way][k]]
                                 /\ k \notin u.red => bh[k] = bh[u.kid[way][k]] + 1

LEMMA ShortHeights ==
  ASSUME NEW u \in TreeRecords, NEW S \in SUBSET Keys, NEW bh, NEW dn, NEW ds
  PROVE  Heights(u, S, bh, dn, ds) <=> ShortNumbers(u, S, bh, dn, ds)
<1> SUFFICES ASSUME bh \in [Nodes -> Nat \ {0}] PROVE Heights(u, S, bh, dn, ds) <=> ShortNumbers(u, S, bh, dn, ds)
  BY DEF Heights, ShortNumbers
<1>2. ASSUME NEW k \in S, NEW way \in Sides
      PROVE  /\ bh[u.kid[way][k]] \in Int /\ u.kid[way][k] \in Nodes
             /\ Level(u, bh, k, way, dn, ds) <=> LevelNumbers(u, bh, k, way, dn, ds)
  <2> DEFINE c == u.kid[way][k]
  <2>1. k \in Nodes
    BY NodeFacts
  <2>2. c \in Nodes
    BY <2>1 DEF TreeRecords
  <2>3. bh[c] \in Int /\ bh[k] \in Int
    BY <2>1, <2>2
  <2>4. Level(u, bh, k, way, dn, ds) <=>
          bh[k] = bh[c] + (IF k \in u.red THEN 0 ELSE 1) + (IF k = dn /\ way = ds THEN 1 ELSE 0)
    BY DEF Level
  <2>5. LevelNumbers(u, bh, k, way, dn, ds) <=>
          /\ k \in u.red /\ ~(k = dn /\ way = ds) => bh[k] = bh[c]
          /\ k \notin u.red /\ ~(k = dn /\ way = ds) => bh[k] = bh[c] + 1
          /\ k \in u.red /\ k = dn /\ way = ds => bh[k] = bh[c] + 1
          /\ k \notin u.red /\ k = dn /\ way = ds => bh[k] = bh[c] + 2
    BY DEF LevelNumbers
  <2> HIDE DEF c
  <2>6. Level(u, bh, k, way, dn, ds) <=> LevelNumbers(u, bh, k, way, dn, ds)
    BY <2>3, <2>4, <2>5
  <2> QED BY <2>2, <2>3, <2>6 DEF c
<1> QED BY <1>2 DEF Heights, ShortNumbers

LEMMA SameNumbers ==
  ASSUME NEW u, NEW v, NEW S, NEW bh, v.red = u.red, v.kid = u.kid, WholeNumbers(u, S, bh)
  PROVE  WholeNumbers(v, S, bh)
BY DEF WholeNumbers

LEMMA WholeHeights ==
  ASSUME NEW u \in TreeRecords, NEW S \in SUBSET Keys, NEW bh, NEW ds
  PROVE  Heights(u, S, bh, Nil, ds) <=> WholeNumbers(u, S, bh)
<1>1. Heights(u, S, bh, Nil, ds) <=> ShortNumbers(u, S, bh, Nil, ds)
  BY ShortHeights, Zenon
<1>2. \A k \in S : k # Nil
  BY NodeFacts
<1>3. \A k \in S, way \in Sides : u.kid[way][k] \in Nodes
  BY NodeFacts DEF TreeRecords
<1>4. ASSUME NEW k \in S, NEW way \in Sides
      PROVE  LevelNumbers(u, bh, k, way, Nil, ds) <=>
               /\ k \in u.red => bh[k] = bh[u.kid[way][k]]
               /\ k \notin u.red => bh[k] = bh[u.kid[way][k]] + 1
  BY <1>2 DEF LevelNumbers
<1>5. ShortNumbers(u, S, bh, Nil, ds) <=> WholeNumbers(u, S, bh)
  BY <1>4, Zenon DEF ShortNumbers, WholeNumbers
<1> QED BY <1>1, <1>5

\* Heights after a rotation: y has the height of x, and x the height h.
TurnedHeight(bh, x, y, h) == [n \in Nodes |-> IF n = y THEN bh[x] ELSE IF n = x THEN h ELSE bh[n]]

\* The heights of the nodes at the rotation and of their children.
HeightsAround(u, v, side, o, x, y, b, bh, bg, h) ==
  /\ bg \in [Nodes -> Nat \ {0}] /\ bg[Nil] = 1
  /\ v.kid[side][x] = u.kid[side][x] /\ v.kid[o][x] = b /\ v.kid[side][y] = x /\ v.kid[o][y] = u.kid[o][y]
  /\ bg[x] = h /\ bg[y] = bh[x] /\ bg[b] = bh[b]
  /\ bg[u.kid[side][x]] = bh[u.kid[side][x]] /\ bg[u.kid[o][y]] = bh[u.kid[o][y]]
  /\ \A n \in Nodes : n # x /\ n # y => bg[n] = bh[n]

LevelsAround(v, bg, side, o, x, y, dn, ds) ==
  /\ LevelNumbers(v, bg, x, side, dn, ds) /\ LevelNumbers(v, bg, x, o, dn, ds)
  /\ LevelNumbers(v, bg, y, side, dn, ds) /\ LevelNumbers(v, bg, y, o, dn, ds)

LevelsElsewhere(u, S, bh, x, y, dn, ds) ==
  \A k \in S, way \in Sides : k # x /\ k # y => LevelNumbers(u, bh, k, way, dn, ds)

LEMMA TurnedValues ==
  ASSUME NEW u, NEW S, Grown(u, S), NEW v, NEW side \in Sides, NEW o, o = Other(side),
         NEW x, NEW y, NEW p, NEW b, Turned(u, v, side, x, y, p, b), Around(u, S, side, x, y, p, b),
         NEW bh \in [Nodes -> Nat \ {0}], bh[Nil] = 1, NEW h \in Nat \ {0},
         NEW bg, bg = TurnedHeight(bh, x, y, h)
  PROVE  HeightsAround(u, v, side, o, x, y, b, bh, bg, h)
<1>1. u \in TreeRecords /\ S \in SUBSET Keys /\ Linked(u, S) /\ \E sub : Searchable(u, S, sub)
  BY DEF Grown
<1>2. PICK sub : Searchable(u, S, sub)
  BY <1>1, Zenon
<1>3. x \in S /\ y \in S /\ b \in S \cup {Nil} /\ x # y /\ b # x /\ b # y /\ y = u.kid[o][x] /\ u.kid[side][x] # y
  BY DEF Around
<1>4. /\ S \subseteq Nodes /\ Nil \in Nodes /\ Nil \notin S /\ o \in Sides
      /\ u.kid[side][x] \in Nodes /\ u.kid[o][y] \in Nodes
  BY <1>1, <1>3, NodeFacts DEF TreeRecords
<1>5. /\ bg \in [Nodes -> Nat \ {0}] /\ bg[x] = h /\ bg[y] = bh[x]
      /\ \A n \in Nodes : n # x /\ n # y => bg[n] = bh[n]
  BY <1>3, <1>4 DEF TurnedHeight
<1>6. v.kid[side][x] = u.kid[side][x] /\ v.kid[o][x] = b /\ v.kid[side][y] = x /\ v.kid[o][y] = u.kid[o][y]
  BY <1>1, TurnedKids DEF KidsAround
<1>7. u.kid[side][x] # x /\ u.kid[o][y] # y /\ u.kid[o][y] # x
  <2>1. u.kid[side][x] # x
    <3>1. u.kid[side][x] # Nil => KidNode(u, S, sub, x, side, u.kid[side][x])
      BY <1>1, <1>2, <1>3, KidNodes, Zenon
    <3> QED BY <3>1, <1>3, <1>4 DEF KidNode
  <2>2. u.kid[o][y] # Nil => KidNode(u, S, sub, y, o, u.kid[o][y])
    BY <1>1, <1>2, <1>3, <1>4, KidNodes, Zenon
  <2>3. KidNode(u, S, sub, x, o, u.kid[o][x])
    BY <1>1, <1>2, <1>3, <1>4, KidNodes, Zenon
  <2>4. y # Nil /\ x # Nil /\ x \notin sub[y]
    BY <1>3, <1>4, <2>3 DEF KidNode
  <2>5. u.kid[o][y] # Nil => u.kid[o][y] # y /\ u.kid[o][y] \in sub[y]
    BY <2>2 DEF KidNode
  <2> QED BY <2>1, <2>4, <2>5
<1> QED BY <1>3, <1>4, <1>5, <1>6, <1>7 DEF HeightsAround

\* Away from the rotation nothing changes.
LEMMA TurnedHeights ==
  ASSUME NEW u, NEW S, Grown(u, S), NEW v, NEW side \in Sides, NEW o, o = Other(side),
         NEW x, NEW y, NEW p, NEW b, Turned(u, v, side, x, y, p, b), Around(u, S, side, x, y, p, b),
         NEW bh, NEW bg, NEW h, HeightsAround(u, v, side, o, x, y, b, bh, bg, h),
         NEW dn, NEW ds,
         LevelsElsewhere(u, S, bh, x, y, dn, ds), LevelsAround(v, bg, side, o, x, y, dn, ds)
  PROVE  Heights(v, S, bg, dn, ds)
<1>0. /\ \A k \in S, way \in Sides : k # x /\ k # y => LevelNumbers(u, bh, k, way, dn, ds)
      /\ LevelNumbers(v, bg, x, side, dn, ds) /\ LevelNumbers(v, bg, x, o, dn, ds)
      /\ LevelNumbers(v, bg, y, side, dn, ds) /\ LevelNumbers(v, bg, y, o, dn, ds)
  BY Zenon DEF LevelsElsewhere, LevelsAround
<1>1. u \in TreeRecords /\ v \in TreeRecords /\ S \in SUBSET Keys /\ Linked(u, S) /\ v.red = u.red
  BY DEF Grown, Turned
<1>2. S \subseteq Nodes /\ \A way \in Sides : way = side \/ way = o
  BY <1>1, NodeFacts
<1>3. bg \in [Nodes -> Nat \ {0}] /\ bg[Nil] = 1 /\ bg[y] = bh[x] /\ \A n \in Nodes : n # x /\ n # y => bg[n] = bh[n]
  BY Zenon DEF HeightsAround
<1>4. ASSUME NEW k \in S, NEW way \in Sides, k # x, k # y PROVE LevelNumbers(v, bg, k, way, dn, ds)
  <2>1. bg[k] = bh[k]
    BY <1>2, <1>3, <1>4
  <2>2. bg[v.kid[way][k]] = bh[u.kid[way][k]]
    <3>1. \/ v.kid[way][k] = y /\ u.kid[way][k] = x
          \/ v.kid[way][k] = u.kid[way][k] /\ u.kid[way][k] # x /\ u.kid[way][k] # y
      BY <1>1, <1>4, TurnedKids DEF KidsAround
    <3>2. u.kid[way][k] \in Nodes
      BY <1>1, <1>2 DEF TreeRecords
    <3> QED BY <3>1, <3>2, <1>3, Zenon
  <2>3. LevelNumbers(u, bh, k, way, dn, ds)
    BY <1>0, <1>4
  <2> QED BY <1>1, <2>1, <2>2, <2>3 DEF LevelNumbers
<1>5. \A k \in S, way \in Sides : LevelNumbers(v, bg, k, way, dn, ds)
  BY <1>0, <1>2, <1>4
<1>6. \A k \in S, way \in Sides : v.kid[way][k] \in Nodes
  BY <1>1, <1>2 DEF TreeRecords
<1>7. \A k \in S, way \in Sides : bg[v.kid[way][k]] \in Int
  BY <1>3, <1>6
<1>8. ShortNumbers(v, S, bg, dn, ds)
  BY <1>3, <1>5, <1>6, <1>7 DEF ShortNumbers
<1> QED BY <1>1, <1>8, ShortHeights, Zenon

-----------------------------------------------------------------------------
(***************************************************************************)
(* PutFix_.                                                                *)
(***************************************************************************)
\* What a tree is made of.
LEMMA RedBlackParts ==
  ASSUME NEW u, NEW S, NEW c, RedBlack(u, S, c)
  PROVE  /\ u \in TreeRecords /\ S \in SUBSET Keys /\ Linked(u, S) /\ Grown(u, S)
         /\ \E sub : Searchable(u, S, sub)
         /\ \E bh : Heights(u, S, bh, Nil, "left")
         /\ Nil \notin u.red /\ Root \notin u.red
         /\ \A k \in S : k \in u.red /\ k # c => u.parent[k] # Root /\ u.parent[k] \notin u.red
BY DEF RedBlack, Grown, Coloured

\* The children of a node are all that have it as their parent.
LEMMA KidsOf ==
  ASSUME NEW u \in TreeRecords, NEW S \in SUBSET Keys, Linked(u, S), NEW side \in Sides,
         NEW k \in S
  PROVE  k = u.kid[side][u.parent[k]] \/ k = u.kid[Other(side)][u.parent[k]]
BY DEF Linked, Left, Right, Sides, Other

\* The parent and the grandparent of a red node with a red parent.
LEMMA PutFacts ==
  ASSUME NEW u, NEW S, NEW z \in S, RedBlack(u, S, z), z \in u.red,
         NEW p, p = u.parent[z], p \in u.red, NEW g, g = u.parent[p], NEW side, side = SideOf(u, p)
  PROVE  /\ p \in S /\ g \in S /\ g \notin u.red /\ side \in Sides /\ p = u.kid[side][g]
         /\ p # z /\ g # p /\ g # z /\ p # u.kid[Other(side)][g]
<1>1. /\ u \in TreeRecords /\ S \in SUBSET Keys /\ Linked(u, S)
      /\ Nil \notin u.red /\ Root \notin u.red
      /\ \A k \in S : k \in u.red /\ k # z => u.parent[k] # Root /\ u.parent[k] \notin u.red
  BY RedBlackParts
<1>2. PICK sub : Searchable(u, S, sub)
  BY RedBlackParts
<1>3. p \in S \cup {Root} /\ p # z /\ z \in sub[z] /\ p \notin sub[z] /\ sub[z] \subseteq sub[p]
  BY <1>1, <1>2, UpFacts
<1>4. p \in S
  BY <1>1, <1>3
<1>5. g # Root /\ g \notin u.red
  BY <1>1, <1>3, <1>4
<1>6. /\ g \in S \cup {Root} /\ side \in Sides /\ p = u.kid[side][g] /\ g # p /\ g \notin sub[p] /\ p # Nil
  BY <1>1, <1>2, <1>4, UpFacts
<1>7. g \in S /\ g # z
  BY <1>3, <1>5, <1>6, Zenon
<1>8. p # u.kid[Other(side)][g]
  <2>1. ASSUME NEW c, NEW way \in Sides, NEW n \in S, c = u.kid[way][n], c # Nil PROVE c # u.kid[Other(way)][n]
    BY <1>1, <1>2, <2>1, KidFacts
  <2> QED BY <2>1, <1>6, <1>7, Zenon
<1> QED BY <1>3, <1>4, <1>5, <1>6, <1>7, <1>8, Zenon

\* What PutFix_ finds around a red node with a red parent.
Family(u, S, z, p, g, side, o, y) ==
  /\ z \in S /\ z \in u.red /\ p = u.parent[z] /\ p \in u.red /\ g = u.parent[p]
  /\ side \in Sides /\ o \in Sides /\ o # side /\ o = Other(side) /\ side = Other(o) /\ (\A way \in Sides : way = side \/ way = o)
  /\ p \in S /\ g \in S /\ g \notin u.red /\ p = u.kid[side][g] /\ y = u.kid[o][g]
  /\ p # z /\ g # p /\ g # z /\ p # y /\ g # y /\ (y # Nil => y \in S /\ u.parent[y] = g)

LEMMA PutFamily ==
  ASSUME NEW u, NEW S, NEW z \in S, RedBlack(u, S, z), z \in u.red,
         NEW p, p = u.parent[z], p \in u.red, NEW g, g = u.parent[p], NEW side, side = SideOf(u, p),
         NEW o, o = Other(side), NEW y, y = u.kid[o][g]
  PROVE  Family(u, S, z, p, g, side, o, y)
<1>1. /\ p \in S /\ g \in S /\ g \notin u.red /\ side \in Sides /\ p = u.kid[side][g]
      /\ p # z /\ g # p /\ g # z /\ p # y
  BY PutFacts
<1>0. u \in TreeRecords /\ S \in SUBSET Keys /\ Linked(u, S)
  BY RedBlackParts
<1>2. o \in Sides /\ o # side /\ side = Other(o) /\ (\A way \in Sides : way = side \/ way = o) /\ g # Nil
  BY <1>0, <1>1, NodeFacts, Zenon
<1>3. y # Nil => y \in S /\ u.parent[y] = g
  BY <1>0, <1>1, <1>2, ZenonT(30) DEF Linked
<1>4. g # y
  <2>1. g # Nil /\ u.parent[g] # g
    <3>1. PICK sub : Searchable(u, S, sub)
      BY RedBlackParts
    <3>2. UpNode(u, S, sub, g, u.parent[g])
      BY <3>1, <1>0, <1>1, UpNodes, Zenon
    <3> QED BY <3>2, <1>2 DEF UpNode
  <2> QED BY <2>1, <1>3, Zenon
<1> QED BY <1>1, <1>2, <1>3, <1>4, Zenon DEF Family

\* Case 1.
LEMMA RecolourKeeps ==
  ASSUME NEW u, NEW S, NEW z, RedBlack(u, S, z), NEW p, NEW g, NEW side, NEW o, NEW y,
         Family(u, S, z, p, g, side, o, y), y \in u.red, NEW v, v = Recolour(u, p, y, g)
  PROVE  RedBlack(v, S, g) /\ g \in S /\ g \in v.red /\ Painted(u, v, (u.red \ {p, y}) \cup {g})
<1>1. /\ z \in S /\ p \in S /\ g \in S /\ g \notin u.red /\ side \in Sides /\ o \in Sides /\ p = u.kid[side][g] /\ y = u.kid[o][g]
      /\ p # z /\ g # p /\ g # z /\ p # y /\ g # y /\ p \in u.red /\ (\A way \in Sides : way = side \/ way = o)
      /\ o = Other(side) /\ u.parent[z] = p /\ u.parent[p] = g
  BY Zenon DEF Family
<1>2. /\ u \in TreeRecords /\ S \in SUBSET Keys /\ Linked(u, S) /\ Grown(u, S)
      /\ Nil \notin u.red /\ Root \notin u.red
      /\ \A k \in S : k \in u.red /\ k # z => u.parent[k] # Root /\ u.parent[k] \notin u.red
  BY RedBlackParts
<1>3. PICK bh : Heights(u, S, bh, Nil, "left")
  BY RedBlackParts
<1>4. S \subseteq Nodes /\ Nil \notin S /\ Root \notin S /\ Nil \in Nodes /\ Root \in Nodes
  BY <1>2, NodeFacts
<1>5. y \in S /\ u.parent[y] = g /\ y # Nil
  BY <1>2, Zenon DEF Family
<1>6. Painted(u, v, (u.red \ {p, y}) \cup {g})
  <2> DEFINE a == Paint(u, p, FALSE)
             b == Paint(a, y, FALSE)
  <2>1. Painted(u, a, u.red \ {p})
    BY <1>1, <1>2, <1>4, PaintBlack
  <2> HIDE DEF a
  <2>2. a \in TreeRecords /\ a.red = u.red \ {p}
    BY <2>1 DEF Painted
  <2>3. Painted(a, b, a.red \ {y})
    BY <1>5, <1>4, <2>2, PaintBlack
  <2> HIDE DEF b
  <2>4. b \in TreeRecords /\ b.red = a.red \ {y}
    BY <2>3 DEF Painted
  <2>5. v = Paint(b, g, TRUE)
    BY Zenon DEF Recolour, a, b
  <2>6. Painted(b, v, b.red \cup {g})
    BY <1>1, <1>4, <2>4, <2>5, PaintRed
  <2>7. b.red \cup {g} = (u.red \ {p, y}) \cup {g}
    BY <2>2, <2>4
  <2>8. Painted(u, v, b.red \cup {g})
    BY <2>1, <2>3, <2>6, PaintedTwice
  <2> QED BY <2>7, <2>8, Zenon
<1>7. /\ Grown(v, S) /\ v.red = (u.red \ {p, y}) \cup {g}
      /\ v.kid = u.kid /\ v.parent = u.parent
  BY <1>2, <1>6, PaintedGrown
<1>8. \A k \in S, way \in Sides : u.kid[way][k] # Nil => u.parent[u.kid[way][k]] = k
  BY <1>2 DEF Linked
<1>9. Coloured(v, S, g)
  <2>1. Nil \notin v.red /\ Root \notin v.red
    BY <1>1, <1>2, <1>4, <1>7
  <2>2. ASSUME NEW k \in S, k \in v.red, k # g PROVE v.parent[k] # Root /\ v.parent[k] \notin v.red
    <3>1. k # p /\ k # y /\ k \in u.red /\ v.parent[k] = u.parent[k]
      BY <2>2, <1>7, Zenon
    <3>2. CASE k = z
      BY <3>1, <3>2, <1>1, <1>4, <1>7
    <3>3. CASE k # z
      <4>1. u.parent[k] # Root /\ u.parent[k] \notin u.red
        BY <3>1, <3>3, <1>2, Zenon
      <4>2. u.parent[k] # g
        <5>1. k = u.kid[side][u.parent[k]] \/ k = u.kid[o][u.parent[k]]
          BY <1>1, <1>2, KidsOf
        <5> QED BY <5>1, <3>1, <1>1, Zenon
      <4> QED BY <3>1, <4>1, <4>2, <1>7
    <3> QED BY <3>2, <3>3
  <2> QED BY <2>1, <2>2, Zenon DEF Coloured
<1> DEFINE bg == [n \in Nodes |-> IF n = p \/ n = y THEN bh[n] + 1 ELSE bh[n]]
<1>10. /\ bh \in [Nodes -> Nat \ {0}] /\ bh[Nil] = 1
       /\ \A k \in S, way \in Sides :
              /\ bh[u.kid[way][k]] \in Int /\ u.kid[way][k] \in Nodes
              /\ k \in u.red => bh[k] = bh[u.kid[way][k]]
              /\ k \notin u.red => bh[k] = bh[u.kid[way][k]] + 1
  <2>1. WholeNumbers(u, S, bh)
    BY <1>2, <1>3, WholeHeights, Zenon
  <2> QED BY <2>1 DEF WholeNumbers
<1>11. /\ bg \in [Nodes -> Nat \ {0}] /\ bg[p] = bh[p] + 1 /\ bg[y] = bh[y] + 1
       /\ \A n \in Nodes : n # p /\ n # y => bg[n] = bh[n]
  BY <1>1, <1>4, <1>5, <1>10
<1> HIDE DEF bg
<1>12. ASSUME NEW k \in S, NEW way \in Sides 
       PROVE  /\ k \in v.red => bg[k] = bg[v.kid[way][k]]
              /\ k \notin v.red => bg[k] = bg[v.kid[way][k]] + 1
  <2> DEFINE c == u.kid[way][k]
  <2>0. /\ v.kid[way][k] = c /\ c \in Nodes /\ k \in Nodes /\ bh[c] \in Int
        /\ k \in u.red => bh[k] = bh[c]
        /\ k \notin u.red => bh[k] = bh[c] + 1
    BY <1>4, <1>7, <1>10
  <2>1. CASE k = g
    <3>1. c = p \/ c = y
      BY <2>1, <1>1, Zenon
    <3>2. bh[g] = bh[c] + 1
      BY <2>0, <2>1, <1>1, Zenon
    <3>3. bg[c] = bh[c] + 1 /\ bg[g] = bh[g] /\ g \in v.red
      BY <3>1, <1>1, <1>4, <1>7, <1>11
    <3> HIDE DEF c
    <3> QED BY <2>0, <2>1, <3>2, <3>3, Zenon
  <2>2. CASE k # g
    <3>1. c # p /\ c # y
      BY <2>2, <1>1, <1>4, <1>5, <1>8
    <3>2. bg[c] = bh[c]
      BY <2>0, <3>1, <1>11, Zenon
    <3> HIDE DEF c
    <3>4. CASE k = p \/ k = y
      BY <3>4, <2>0, <2>2, <3>2, <1>1, <1>7, <1>11
    <3>5. CASE k # p /\ k # y
      BY <3>5, <2>0, <2>2, <3>2, <1>7, <1>11
    <3> QED BY <3>4, <3>5, Zenon
  <2> QED BY <2>1, <2>2, Zenon
<1>13. Heights(v, S, bg, Nil, "left")
  <2>1. bg[Nil] = 1 /\ v \in TreeRecords
    BY <1>1, <1>4, <1>5, <1>6, <1>10, <1>11 DEF Painted
  <2>2. \A k \in S, way \in Sides : v.kid[way][k] \in Nodes
    BY <1>7, <1>10
  <2>3. \A k \in S, way \in Sides : bg[v.kid[way][k]] \in Int
    BY <1>11, <2>2
  <2>4. WholeNumbers(v, S, bg)
    BY <1>11, <1>12, <2>1, <2>2, <2>3 DEF WholeNumbers
  <2> QED BY <1>2, <2>1, <2>4, WholeHeights, ZenonT(30)
<1> QED BY <1>1, <1>6, <1>7, <1>9, <1>13 DEF RedBlack

\* Case 2: an inner child and its parent change places.
LEMMA StraightenKeeps ==
  ASSUME NEW u, NEW S, NEW z, RedBlack(u, S, z), NEW p, NEW g, NEW side, NEW o, NEW y,
         Family(u, S, z, p, g, side, o, y), side = SideOf(u, p), z = u.kid[o][p], NEW v, v = Rotate(u, side, p)
  PROVE  /\ RedBlack(v, S, p) /\ Family(v, S, p, z, g, side, o, y) /\ p = v.kid[side][z]
         /\ v.red = u.red /\ v.size = u.size /\ KidFrame(u, v, S)
<1>1. /\ z \in S /\ p \in S /\ g \in S /\ g \notin u.red /\ side \in Sides /\ o \in Sides /\ p = u.kid[side][g] /\ y = u.kid[o][g]
      /\ p # z /\ g # p /\ g # z /\ p # y /\ g # y /\ p \in u.red /\ z \in u.red /\ (\A way \in Sides : way = side \/ way = o)
      /\ o = Other(side) /\ side = Other(o) /\ o # side /\ u.parent[z] = p /\ u.parent[p] = g
      /\ (y # Nil => y \in S /\ u.parent[y] = g)
  BY Zenon DEF Family
<1>2. /\ u \in TreeRecords /\ S \in SUBSET Keys /\ Linked(u, S) /\ Grown(u, S)
      /\ Nil \notin u.red /\ Root \notin u.red
      /\ \A k \in S : k \in u.red /\ k # z => u.parent[k] # Root /\ u.parent[k] \notin u.red
  BY RedBlackParts
<1>3. PICK bh : Heights(u, S, bh, Nil, "left")
  BY RedBlackParts
<1>4. S \subseteq Nodes /\ Nil \notin S /\ Root \notin S /\ Nil \in Nodes /\ Root \in Nodes
  BY <1>2, NodeFacts
<1>5. PICK b : b = u.kid[side][z]
  OBVIOUS
<1>6. Turned(u, v, side, p, z, g, b) /\ Around(u, S, side, p, z, g, b) /\ Grown(v, S)
  BY <1>1, <1>2, <1>4, <1>5, RotateGrown, ZenonT(30)
<1>7. /\ v \in TreeRecords /\ v.red = u.red /\ v.size = u.size
      /\ \A n \in Nodes : v.parent[n] = IF n = p THEN z ELSE IF n = z THEN g
                                        ELSE IF n = b /\ b # Nil THEN p ELSE u.parent[n]
  BY <1>6, Zenon DEF Turned
<1>8. b \in S \cup {Nil} /\ b # p /\ b # z /\ (b # Nil => u.parent[b] = z)
  BY <1>6 DEF Around
<1>9. Coloured(v, S, p)
  <2>1. ASSUME NEW k \in S, k \in v.red, k # p PROVE v.parent[k] # Root /\ v.parent[k] \notin v.red
    <3>1. k \in Nodes /\ k # Nil /\ k \in u.red
      BY <2>1, <1>4, <1>7
    <3>2. CASE k = z
      BY <3>1, <3>2, <1>1, <1>4, <1>7, ZenonT(40)
    <3>3. CASE k # z
      <4>1. u.parent[k] # Root /\ u.parent[k] \notin u.red
        BY <3>1, <3>3, <1>2
      <4>2. k # b
        BY <4>1, <3>1, <1>1, <1>8, Zenon
      <4>3. v.parent[k] = u.parent[k]
        BY <2>1, <3>1, <3>3, <4>2, <1>7
      <4> QED BY <4>1, <4>3, <1>7
    <3> QED BY <3>2, <3>3
  <2> QED BY <2>1, <1>2, <1>7 DEF Coloured
<1>10. WholeNumbers(u, S, bh)
  BY <1>2, <1>3, WholeHeights, Zenon
<1>11. /\ bh \in [Nodes -> Nat \ {0}] /\ bh[Nil] = 1
       /\ \A k \in S, way \in Sides :
              /\ bh[u.kid[way][k]] \in Int /\ u.kid[way][k] \in Nodes
              /\ k \in u.red => bh[k] = bh[u.kid[way][k]]
              /\ k \notin u.red => bh[k] = bh[u.kid[way][k]] + 1
  BY <1>10, Zenon DEF WholeNumbers
<1> DEFINE h == bh[p]
           bg == TurnedHeight(bh, p, z, h)
<1>12. h \in Nat \ {0}
  BY <1>1, <1>4, <1>11, Zenon
<1> HIDE DEF h, bg
<1>13. HeightsAround(u, v, side, o, p, z, b, bh, bg, h)
  BY <1>1, <1>2, <1>6, <1>11, <1>12, TurnedValues, Zenon DEF bg
<1>14. bh[p] = bh[u.kid[side][p]] /\ bh[p] = bh[z] /\ bh[z] = bh[b] /\ bh[z] = bh[u.kid[o][z]]
  BY <1>1, <1>5, <1>11, ZenonT(40)
<1>15. LevelsAround(v, bg, side, o, p, z, Nil, "left")
  <2>1. p # Nil /\ z # Nil /\ p \in v.red /\ z \in v.red
    BY <1>1, <1>4, <1>7, Zenon
  <2>2. /\ v.kid[side][p] = u.kid[side][p] /\ v.kid[o][p] = b /\ v.kid[side][z] = p /\ v.kid[o][z] = u.kid[o][z]
        /\ bg[p] = h /\ bg[z] = bh[p] /\ bg[b] = bh[b]
        /\ bg[u.kid[side][p]] = bh[u.kid[side][p]] /\ bg[u.kid[o][z]] = bh[u.kid[o][z]]
    BY <1>13, Zenon DEF HeightsAround
  <2>3. LevelNumbers(v, bg, p, side, Nil, "left") /\ LevelNumbers(v, bg, p, o, Nil, "left")
    BY <2>1, <2>2, <1>14, SMTT(30) DEF LevelNumbers, h
  <2>4. LevelNumbers(v, bg, z, side, Nil, "left") /\ LevelNumbers(v, bg, z, o, Nil, "left")
    BY <2>1, <2>2, <1>14 DEF LevelNumbers, h
  <2> QED BY <2>3, <2>4 DEF LevelsAround
<1>16. LevelsElsewhere(u, S, bh, p, z, Nil, "left")
  BY <1>4, <1>11 DEF LevelNumbers, LevelsElsewhere
<1>17. Heights(v, S, bg, Nil, "left")
  BY <1>1, <1>2, <1>6, <1>13, <1>15, <1>16, TurnedHeights, Zenon
<1>18. RedBlack(v, S, p)
  BY <1>6, <1>9, <1>17 DEF RedBlack
<1>19. Family(v, S, p, z, g, side, o, y) /\ p = v.kid[side][z]
  <2>0. KidsAround(u, v, S, side, p, z, g, b)
    BY <1>1, <1>2, <1>6, TurnedKids, Zenon
  <2>1. v.kid[side][z] = p /\ v.kid[side][g] = z
    BY <1>1, <2>0, Zenon DEF KidsAround
  <2>2. v.kid[o][g] = u.kid[o][g]
    BY <1>1, <2>0, Zenon DEF KidsAround
  <2>3. v.parent[p] = z /\ v.parent[z] = g
    BY <1>1, <1>4, <1>7, Zenon
  <2>4. y # z /\ (y # Nil => v.parent[y] = g)
    <3>1. y # Nil => y # z /\ y # b
      BY <1>1, <1>8, Zenon
    <3> QED BY <3>1, <1>1, <1>4, <1>7, Zenon
  <2> QED BY <2>1, <2>2, <2>3, <2>4, <1>1, <1>7, Zenon DEF Family
<1>20. KidFrame(u, v, S)
  BY <1>6, TurnedFrame
<1> QED BY <1>7, <1>18, <1>19, <1>20, Zenon

\* Case 3: the parent, made black, takes the place of the grandparent.
LEMMA RaiseKeeps ==
  ASSUME NEW u, NEW S, NEW z, RedBlack(u, S, z), NEW p, NEW g, NEW side, NEW o, NEW y,
         Family(u, S, z, p, g, side, o, y), y \notin u.red, z = u.kid[side][p], NEW v, v = Raise(u, side, z)
  PROVE  RedBlack(v, S, Nil) /\ z \in v.red /\ v.size = u.size /\ KidFrame(u, v, S)
<1>1. /\ z \in S /\ p \in S /\ g \in S /\ g \notin u.red /\ side \in Sides /\ o \in Sides /\ p = u.kid[side][g] /\ y = u.kid[o][g]
      /\ p # z /\ g # p /\ g # z /\ p # y /\ g # y /\ p \in u.red /\ z \in u.red /\ (\A way \in Sides : way = side \/ way = o)
      /\ o = Other(side) /\ side = Other(o) /\ o # side /\ u.parent[z] = p /\ u.parent[p] = g
      /\ (y # Nil => y \in S /\ u.parent[y] = g)
  BY Zenon DEF Family
<1>2. /\ u \in TreeRecords /\ S \in SUBSET Keys /\ Linked(u, S) /\ Grown(u, S)
      /\ Nil \notin u.red /\ Root \notin u.red
      /\ \A k \in S : k \in u.red /\ k # z => u.parent[k] # Root /\ u.parent[k] \notin u.red
  BY RedBlackParts
<1>3. PICK bh : Heights(u, S, bh, Nil, "left")
  BY RedBlackParts
<1>4. S \subseteq Nodes /\ Nil \notin S /\ Root \notin S /\ Nil \in Nodes /\ Root \in Nodes
  BY <1>2, NodeFacts
<1> DEFINE w1 == Paint(u, p, FALSE)
           w == Paint(w1, g, TRUE)
<1>5. Painted(u, w, (u.red \ {p}) \cup {g})
  <2>1. Painted(u, w1, u.red \ {p})
    BY <1>1, <1>2, <1>4, PaintBlack, ZenonT(30)
  <2> HIDE DEF w1
  <2>2. w1 \in TreeRecords /\ w1.red = u.red \ {p}
    BY <2>1, SMTT(30) DEF Painted
  <2>3. Painted(w1, w, w1.red \cup {g})
    BY <1>1, <1>4, <2>2, PaintRed
  <2> HIDE DEF w
  <2>4. Painted(u, w, w1.red \cup {g})
    BY <2>1, <2>3, PaintedTwice
  <2> QED BY <2>2, <2>4, Zenon
<1>6. v = Rotate(w, o, g)
  BY <1>1, Zenon DEF Raise
<1> HIDE DEF w
<1>7. Grown(w, S) /\ w.red = (u.red \ {p}) \cup {g} /\ w.kid = u.kid /\ w.parent = u.parent /\ w.size = u.size
  BY <1>2, <1>5, PaintedGrown
<1>8. PICK b, gg : b = u.kid[o][p] /\ gg = u.parent[g]
  BY ZenonT(40)
<1>9. Turned(w, v, o, g, p, gg, b) /\ Around(w, S, o, g, p, gg, b) /\ Grown(v, S)
  <2>1. p = w.kid[Other(o)][g] /\ p # Nil /\ b = w.kid[o][p] /\ gg = w.parent[g]
    BY <1>1, <1>4, <1>7, <1>8
  <2> QED BY <2>1, <1>1, <1>6, <1>7, RotateGrown, SMTT(20)
<1>10. /\ v \in TreeRecords /\ v.red = w.red /\ v.size = u.size
       /\ \A n \in Nodes : v.parent[n] = IF n = g THEN p ELSE IF n = p THEN gg
                                         ELSE IF n = b /\ b # Nil THEN g ELSE u.parent[n]
  BY <1>7, <1>9, Zenon DEF Turned
<1>11. /\ b \in S \cup {Nil} /\ b # g /\ b # p /\ (b # Nil => u.parent[b] = p)
       /\ (b # Nil => u.kid[side][p] # b)
  BY <1>7, <1>9, <1>1, Zenon DEF Around
<1>12. Coloured(v, S, Nil)
  <2>1. ASSUME NEW k \in S, k \in v.red PROVE v.parent[k] # Root /\ v.parent[k] \notin v.red
    <3>1. k \in Nodes /\ k # Nil /\ k # p
      BY <2>1, <1>1, <1>4, <1>7, <1>10, ZenonT(30)
    <3>2. CASE k = g \/ k = z
      <4>1. v.parent[k] = p
        <5>1. z # b
          BY <1>1, <1>4, <1>11, Zenon
        <5> QED BY <5>1, <3>1, <3>2, <1>1, <1>10, ZenonT(30)
      <4> QED BY <4>1, <1>1, <1>4, <1>7, <1>10, ZenonT(40)
    <3>3. CASE k # g /\ k # z
      <4>1. k \in u.red /\ u.parent[k] # Root /\ u.parent[k] \notin u.red
        BY <2>1, <3>1, <3>3, <1>2, <1>7, <1>10, Zenon
      <4>2. k # b
        BY <4>1, <3>1, <1>1, <1>11, Zenon
      <4>3. v.parent[k] = u.parent[k]
        BY <3>1, <3>3, <4>2, <1>10, Zenon
      <4>4. u.parent[k] # g
        <5>1. k = u.kid[side][u.parent[k]] \/ k = u.kid[o][u.parent[k]]
          BY <1>1, <1>2, KidsOf
        <5> QED BY <5>1, <3>1, <4>1, <1>1, ZenonT(40)
      <4> QED BY <4>1, <4>3, <4>4, <1>7, <1>10, Zenon
    <3> QED BY <3>2, <3>3
  <2>2. Nil \notin v.red /\ Root \notin v.red
    BY <1>1, <1>2, <1>4, <1>7, <1>10, ZenonT(40)
  <2> QED BY <2>1, <2>2, Zenon DEF Coloured
<1>13. WholeNumbers(u, S, bh)
  BY <1>2, <1>3, WholeHeights, Zenon
<1>14. /\ bh \in [Nodes -> Nat \ {0}] /\ bh[Nil] = 1
       /\ \A k \in S, way \in Sides :
              /\ bh[u.kid[way][k]] \in Int /\ u.kid[way][k] \in Nodes
              /\ k \in u.red => bh[k] = bh[u.kid[way][k]]
              /\ k \notin u.red => bh[k] = bh[u.kid[way][k]] + 1
  BY <1>13, Zenon DEF WholeNumbers
<1> DEFINE h == bh[p]
           bg == TurnedHeight(bh, g, p, h)
<1>15. h \in Nat \ {0}
  BY <1>1, <1>4, <1>14
<1> HIDE DEF h, bg
<1>16. HeightsAround(w, v, o, side, g, p, b, bh, bg, h)
  BY <1>1, <1>7, <1>9, <1>14, <1>15, TurnedValues, Zenon DEF bg
<1>17. bh[p] = bh[b] /\ bh[p] = bh[z] /\ bh[g] = bh[p] + 1 /\ bh[g] = bh[y] + 1 /\ bh[y] \in Int /\ bh[p] \in Int
  BY <1>1, <1>8, <1>14, ZenonT(30)
<1>18. LevelsAround(v, bg, o, side, g, p, Nil, "left")
  <2>1. p # Nil /\ g # Nil /\ p \notin v.red /\ g \in v.red
    BY <1>1, <1>4, <1>7, <1>10, ZenonT(30)
  <2>2. /\ v.kid[o][g] = y /\ v.kid[side][g] = b /\ v.kid[o][p] = g /\ v.kid[side][p] = z
        /\ bg[g] = h /\ bg[p] = bh[g] /\ bg[b] = bh[b] /\ bg[y] = bh[y] /\ bg[z] = bh[z]
    BY <1>1, <1>7, <1>16, Zenon DEF HeightsAround
  <2>3. bh[p] = bh[y]
    BY <1>17
  <2>4. LevelNumbers(v, bg, g, o, Nil, "left") /\ LevelNumbers(v, bg, g, side, Nil, "left")
    BY <2>1, <2>2, <2>3, <1>17, Zenon DEF LevelNumbers, h
  <2>5. LevelNumbers(v, bg, p, o, Nil, "left") /\ LevelNumbers(v, bg, p, side, Nil, "left")
    BY <2>1, <2>2, <1>17 DEF LevelNumbers, h
  <2> QED BY <2>4, <2>5, Zenon DEF LevelsAround
<1>19. LevelsElsewhere(w, S, bh, g, p, Nil, "left")
  <2>1. ASSUME NEW k \in S, NEW way \in Sides, k # g, k # p PROVE LevelNumbers(w, bh, k, way, Nil, "left")
    <3>1. (k \in w.red <=> k \in u.red) /\ k # Nil
      BY <2>1, <1>4, <1>7
    <3> QED BY <3>1, <1>7, <1>14 DEF LevelNumbers
  <2> QED BY <2>1, Zenon DEF LevelsElsewhere
<1>20. Heights(v, S, bg, Nil, "left")
  BY <1>1, <1>7, <1>9, <1>16, <1>18, <1>19, TurnedHeights, Zenon
<1>21. KidFrame(u, v, S)
  BY <1>7, <1>9, TurnedFrame
<1> QED BY <1>1, <1>7, <1>9, <1>10, <1>12, <1>20, <1>21, Zenon DEF RedBlack

\* The node on top can always be made black.
LEMMA BlackTop ==
  ASSUME NEW u, NEW S, NEW c, RedBlack(u, S, c), c \in S /\ c \in u.red => u.parent[c] \notin u.red,
         NEW v, v = Paint(u, Left(u, Root), FALSE)
  PROVE  RedBlack(v, S, Nil) /\ Painted(u, v, u.red \ {Left(u, Root)})
<1>2. /\ u \in TreeRecords /\ S \in SUBSET Keys /\ Linked(u, S) /\ Grown(u, S)
      /\ Nil \notin u.red /\ Root \notin u.red
      /\ \A k \in S : k \in u.red /\ k # c => u.parent[k] # Root /\ u.parent[k] \notin u.red
  BY RedBlackParts
<1>3. PICK bh : Heights(u, S, bh, Nil, "left")
  BY RedBlackParts
<1>4. S \subseteq Nodes /\ Nil \notin S /\ Root \notin S /\ Nil \in Nodes /\ Root \in Nodes
  BY <1>2, NodeFacts
<1>5. PICK t : t = Left(u, Root)
  BY Zenon
<1>6. t \in Nodes /\ (t # Nil => t \in S /\ u.parent[t] = Root)
  BY <1>2, <1>4, <1>5, NodeFacts DEF Linked, Left, TreeRecords
<1>7. Painted(u, v, u.red \ {t})
  BY <1>2, <1>5, <1>6, PaintBlack
<1>8. Grown(v, S) /\ v.red = u.red \ {t} /\ v.kid = u.kid /\ v.parent = u.parent /\ v \in TreeRecords
  BY <1>2, <1>7, PaintedGrown DEF Painted
<1>9. Coloured(v, S, Nil)
  <2>1. ASSUME NEW k \in S, k \in v.red PROVE v.parent[k] # Root /\ v.parent[k] \notin v.red
    <3>1. k \in u.red /\ k # t /\ v.parent[k] = u.parent[k]
      BY <2>1, <1>8
    <3>2. u.parent[k] # Root
      <4> SUFFICES ASSUME u.parent[k] = Root PROVE FALSE
        BY Zenon
      <4>1. k = Left(u, Root) \/ k = Right(u, Root)
        BY <1>2 DEF Linked
      <4>2. Right(u, Root) = Nil
        BY <1>2 DEF Linked
      <4> QED BY <4>1, <4>2, <3>1, <1>4, <1>5
    <3>3. u.parent[k] \notin u.red
      BY <3>1, <1>2
    <3> QED BY <3>1, <3>2, <3>3, <1>8
  <2> QED BY <2>1, <1>2, <1>8 DEF Coloured
<1>10. WholeNumbers(u, S, bh)
  BY <1>2, <1>3, WholeHeights, Zenon
<1>11. /\ bh \in [Nodes -> Nat \ {0}] /\ bh[Nil] = 1
       /\ \A k \in S, way \in Sides :
              /\ bh[u.kid[way][k]] \in Int /\ u.kid[way][k] \in Nodes
              /\ k \in u.red => bh[k] = bh[u.kid[way][k]]
              /\ k \notin u.red => bh[k] = bh[u.kid[way][k]] + 1
  BY <1>10 DEF WholeNumbers
<1>12. \E bg : WholeNumbers(v, S, bg)
  <2>1. CASE t \notin u.red
    <3>1. v.red = u.red
      BY <2>1, <1>8
    <3>2. WholeNumbers(v, S, bh)
      BY <3>1, <1>8, <1>10, SameNumbers
    <3> QED BY <3>2
  <2>2. CASE t \in u.red
    <3> DEFINE bg == [n \in Nodes |-> IF n = t THEN bh[n] + 1 ELSE bh[n]]
    <3>1. t \in S /\ t # Nil /\ u.parent[t] = Root
      BY <2>2, <1>2, <1>6
    <3>2. bg \in [Nodes -> Nat \ {0}] /\ bg[t] = bh[t] + 1 /\ bg[Nil] = 1 /\ \A n \in Nodes : n # t => bg[n] = bh[n]
      BY <1>4, <1>6, <1>11, <3>1
    <3> HIDE DEF bg
    <3>3. ASSUME NEW k \in S, NEW way \in Sides
          PROVE  /\ bg[v.kid[way][k]] \in Int /\ v.kid[way][k] \in Nodes
                 /\ k \in v.red => bg[k] = bg[v.kid[way][k]]
                 /\ k \notin v.red => bg[k] = bg[v.kid[way][k]] + 1
      <4> DEFINE d == u.kid[way][k]
      <4>1. /\ bh[d] \in Int /\ d \in Nodes /\ v.kid[way][k] = d
            /\ k \in u.red => bh[k] = bh[d]
            /\ k \notin u.red => bh[k] = bh[d] + 1
        BY <1>8, <1>11
      <4>2. d # t
        <5>1. d # Nil => u.parent[d] = k
          BY <1>2 DEF Linked
        <5> QED BY <5>1, <3>1, <1>4
      <4> HIDE DEF d
      <4>3. bg[d] = bh[d]
        BY <4>1, <4>2, <3>2
      <4>4. CASE k = t
        BY <4>1, <4>3, <4>4, <3>2, <2>2, <1>8
      <4>5. CASE k # t
        BY <4>1, <4>3, <4>5, <3>2, <1>8, <1>4
      <4> QED BY <4>4, <4>5
    <3>4. WholeNumbers(v, S, bg)
      BY <3>2, <3>3 DEF WholeNumbers
    <3> QED BY <3>4
  <2> QED BY <2>1, <2>2
<1>13. \E bg : Heights(v, S, bg, Nil, "left")
  <2>1. PICK bg : WholeNumbers(v, S, bg)
    BY <1>12
  <2>2. Heights(v, S, bg, Nil, "left")
    BY <1>2, <1>8, <2>1, WholeHeights, Zenon
  <2> QED BY <2>2
<1> QED BY <1>5, <1>7, <1>8, <1>9, <1>13 DEF RedBlack

\* The size is a field of its own.
Resized(u, v, z) ==
  /\ v \in TreeRecords /\ v.red = u.red /\ v.parent = u.parent /\ v.kid = u.kid /\ v.size = z

LEMMA SizeField ==
  ASSUME NEW u \in TreeRecords, NEW z \in Int, NEW v, v = [u EXCEPT !.size = z]
  PROVE  Resized(u, v, z)
<1>1. /\ u.red \in SUBSET Nodes /\ u.parent \in [Nodes -> Nodes]
      /\ u.kid \in [Sides -> [Nodes -> Nodes]] /\ u.size \in Int
      /\ u = [red |-> u.red, parent |-> u.parent, kid |-> u.kid, size |-> u.size]
  BY DEF TreeRecords
<1>2. v = [red |-> u.red, parent |-> u.parent, kid |-> u.kid, size |-> z]
  BY <1>1
<1> QED BY <1>1, <1>2 DEF TreeRecords, Resized

LEMMA ResizedRedBlack ==
  ASSUME NEW u, NEW S, NEW c, RedBlack(u, S, c), NEW z, NEW v, Resized(u, v, z)
  PROVE  RedBlack(v, S, c)
<1>1. v \in TreeRecords /\ v.red = u.red /\ v.parent = u.parent /\ v.kid = u.kid
  BY DEF Resized
<1>2. Grown(u, S) /\ Coloured(u, S, c) /\ \E bh : Heights(u, S, bh, Nil, "left")
  BY DEF RedBlack
<1>3. Grown(v, S)
  BY <1>1, <1>2, SameGrown
<1>4. Coloured(v, S, c)
  BY <1>1, <1>2 DEF Coloured
<1>5. \A bh : Heights(u, S, bh, Nil, "left") => Heights(v, S, bh, Nil, "left")
  BY <1>1 DEF Heights, Level
<1> QED BY <1>2, <1>3, <1>4, <1>5 DEF RedBlack

\* What PutFix_ keeps: only c may be red below a red node.
Fixing(u, v, S, c) ==
  RedBlack(v, S, c) /\ c \in S /\ c \in v.red /\ v.size = u.size /\ KidFrame(u, v, S)

LEMMA RecolourFixing ==
  ASSUME NEW u, NEW S, NEW z, RedBlack(u, S, z), NEW p, NEW g, NEW side, NEW o, NEW y,
         Family(u, S, z, p, g, side, o, y), y \in u.red
  PROVE  Fixing(u, Recolour(u, p, y, g), S, g)
<1>1. PICK v : v = Recolour(u, p, y, g)
  OBVIOUS
<1>2. RedBlack(v, S, g) /\ g \in S /\ g \in v.red /\ Painted(u, v, (u.red \ {p, y}) \cup {g})
  BY <1>1, RecolourKeeps
<1> QED BY <1>1, <1>2 DEF Fixing, Painted, KidFrame

LEMMA RaiseFixing ==
  ASSUME NEW u, NEW S, NEW z, RedBlack(u, S, z), NEW p, NEW g, NEW side, NEW o, NEW y,
         Family(u, S, z, p, g, side, o, y), y \notin u.red, z = u.kid[side][p]
  PROVE  Fixing(u, Raise(u, side, z), S, z)
<1>1. PICK v : v = Raise(u, side, z)
  OBVIOUS
<1>2. RedBlack(v, S, Nil) /\ z \in v.red /\ v.size = u.size /\ KidFrame(u, v, S)
  BY <1>1, RaiseKeeps
<1>3. z \in S
  BY Zenon DEF Family
<1>4. RedBlack(v, S, z)
  BY <1>2 DEF RedBlack, Coloured
<1> QED BY <1>1, <1>2, <1>3, <1>4 DEF Fixing

LEMMA StraightenFixing ==
  ASSUME NEW u, NEW S, NEW z, RedBlack(u, S, z), NEW p, NEW g, NEW side, NEW o, NEW y,
         Family(u, S, z, p, g, side, o, y), y \notin u.red, side = SideOf(u, p), NEW r, r = Straighten(u, side, z)
  PROVE  Fixing(u, Raise(r.u, side, r.z), S, r.z)
<1>1. z \in S /\ o = Other(side) /\ u.parent[z] = p /\ side \in Sides
  BY Zenon DEF Family
<1>2. CASE z = u.kid[o][p]
  <2>1. PICK w : w = Rotate(u, side, p)
    OBVIOUS
  <2>2. r = [u |-> w, z |-> p]
    BY <1>1, <1>2, <2>1, Zenon DEF Straighten
  <2>3. r.u = w /\ r.z = p
    BY <2>2
  <2>4. /\ RedBlack(w, S, p) /\ Family(w, S, p, z, g, side, o, y) /\ p = w.kid[side][z]
        /\ w.red = u.red /\ w.size = u.size /\ KidFrame(u, w, S)
    BY <1>2, <2>1, StraightenKeeps
  <2>5. Fixing(w, Raise(w, side, p), S, p)
    BY <2>4, RaiseFixing, ZenonT(40)
  <2>6. Fixing(u, Raise(w, side, p), S, p)
    BY <2>4, <2>5, ZenonT(40) DEF Fixing, KidFrame
  <2> QED BY <2>3, <2>6
<1>3. CASE z # u.kid[o][p]
  <2>1. r = [u |-> u, z |-> z]
    BY <1>1, <1>3, Zenon DEF Straighten
  <2>2. r.u = u /\ r.z = z
    BY <2>1
  <2>3. z = u.kid[side][p]
    <3>1. u \in TreeRecords /\ S \in SUBSET Keys /\ Linked(u, S)
      BY RedBlackParts
    <3>2. z = u.kid[side][u.parent[z]] \/ z = u.kid[Other(side)][u.parent[z]]
      BY <3>1, <1>1, KidsOf
    <3> QED BY <3>2, <1>1, <1>3
  <2>4. Fixing(u, Raise(u, side, z), S, z)
    BY <2>3, RaiseFixing
  <2> QED BY <2>2, <2>4
<1> QED BY <1>2, <1>3

\* One turn of the loop of PutFix_.
LEMMA PutFixKeeps ==
  ASSUME NEW u, NEW S, NEW z \in S, RedBlack(u, S, z), z \in u.red, u.parent[z] \in u.red
  PROVE  LET p == u.parent[z]
             g == u.parent[p]
             side == SideOf(u, p)
             y == u.kid[Other(side)][g]
             r == Straighten(u, side, z)
         IN  /\ y \in u.red => Fixing(u, Recolour(u, p, y, g), S, g)
             /\ y \notin u.red => Fixing(u, Raise(r.u, side, r.z), S, r.z)
<1>1. PICK p : p = u.parent[z]
  OBVIOUS
<1>2. PICK g, side : g = u.parent[p] /\ side = SideOf(u, p)
  OBVIOUS
<1>3. PICK o : o = Other(side)
  OBVIOUS
<1>4. PICK y, r : y = u.kid[o][g] /\ r = Straighten(u, side, z)
  BY Zenon
<1>5. Family(u, S, z, p, g, side, o, y)
  BY <1>1, <1>2, <1>3, <1>4, PutFamily
<1>6. y \in u.red => Fixing(u, Recolour(u, p, y, g), S, g)
  BY <1>5, RecolourFixing, Zenon
<1>7. y \notin u.red => Fixing(u, Raise(r.u, side, r.z), S, r.z)
  BY <1>2, <1>4, <1>5, StraightenFixing
<1> QED BY <1>1, <1>2, <1>3, <1>4, <1>6, <1>7, Zenon

-----------------------------------------------------------------------------
(***************************************************************************)
(* RemoveFix_.                                                             *)
(***************************************************************************)
\* x, below which a black node is missing, and its sibling w.
Pair(u, S, x, p, side, o, w) ==
  /\ p = u.parent[x] /\ side \in Sides /\ o \in Sides /\ o = Other(side) /\ side = Other(o) /\ o # side
  /\ (\A way \in Sides : way = side \/ way = o)
  /\ x \in S \cup {Nil} /\ x \in Nodes /\ x \notin u.red /\ p \in S /\ x = u.kid[side][p] /\ x # p
  /\ w = u.kid[o][p] /\ w \in S /\ w # p /\ w # x /\ u.parent[w] = p

Lacking(u, S, p, side) ==
  Grown(u, S) /\ Coloured(u, S, Nil) /\ \E bh : ShortNumbers(u, S, bh, p, side)

\* The sibling is higher.
LEMMA LackingNumbers ==
  ASSUME NEW u, NEW S, Grown(u, S), NEW x, NEW p, NEW side, NEW o, NEW w, Pair(u, S, x, p, side, o, w),
         NEW bh, ShortNumbers(u, S, bh, p, side)
  PROVE  /\ bh \in [Nodes -> Nat \ {0}] /\ bh[Nil] = 1 /\ bh[x] \in Nat \ {0} /\ bh[w] = bh[x] + 1
         /\ p \in u.red => bh[p] = bh[x] + 1
         /\ p \notin u.red => bh[p] = bh[x] + 2
         /\ \A k \in S, way \in Sides :
              k # p => /\ bh[u.kid[way][k]] \in Nat \ {0} /\ u.kid[way][k] \in Nodes
                       /\ k \in u.red => bh[k] = bh[u.kid[way][k]]
                       /\ k \notin u.red => bh[k] = bh[u.kid[way][k]] + 1
<1>1. /\ bh \in [Nodes -> Nat \ {0}] /\ bh[Nil] = 1
      /\ \A k \in S, way \in Sides : u.kid[way][k] \in Nodes /\ LevelNumbers(u, bh, k, way, p, side)
  BY DEF ShortNumbers
<1>2. p \in S /\ side \in Sides /\ o \in Sides /\ o # side /\ x = u.kid[side][p] /\ w = u.kid[o][p] /\ x \in Nodes /\ w \in Nodes
  BY NodeFacts, Zenon DEF Pair, Grown
<1>3. bh[x] \in Nat \ {0} /\ bh[w] \in Nat \ {0}
  BY <1>1, <1>2
<1>4. (p \in u.red => bh[p] = bh[x] + 1) /\ (p \notin u.red => bh[p] = bh[x] + 2)
  <2>1. LevelNumbers(u, bh, p, side, p, side)
    BY <1>1, <1>2
  <2> QED BY <2>1, <1>2 DEF LevelNumbers
<1>5. (p \in u.red => bh[p] = bh[w]) /\ (p \notin u.red => bh[p] = bh[w] + 1)
  <2>1. LevelNumbers(u, bh, p, o, p, side)
    BY <1>1, <1>2
  <2> QED BY <2>1, <1>2 DEF LevelNumbers
<1>6. bh[w] = bh[x] + 1
  BY <1>3, <1>4, <1>5
<1>7. ASSUME NEW k \in S, NEW way \in Sides, k # p
      PROVE  /\ bh[u.kid[way][k]] \in Nat \ {0} /\ u.kid[way][k] \in Nodes
             /\ k \in u.red => bh[k] = bh[u.kid[way][k]]
             /\ k \notin u.red => bh[k] = bh[u.kid[way][k]] + 1
  <2>1. LevelNumbers(u, bh, k, way, p, side) /\ u.kid[way][k] \in Nodes
    BY <1>1
  <2>2. bh[u.kid[way][k]] \in Nat \ {0}
    BY <1>1, <2>1
  <2> QED BY <2>1, <2>2, <1>7 DEF LevelNumbers
<1> QED BY <1>1, <1>3, <1>4, <1>6, <1>7

\* What Short says of x and its sibling.
LEMMA ShortPair ==
  ASSUME NEW u, NEW S, NEW x, Short(u, S, x), NEW p, NEW side, NEW o, NEW w,
         p = u.parent[x], side = SideOf(u, x), o = Other(side), w = u.kid[o][p]
  PROVE  Pair(u, S, x, p, side, o, w) /\ Lacking(u, S, p, side)
<1>1. /\ Grown(u, S) /\ Coloured(u, S, Nil) /\ x \notin u.red
      /\ p \in S /\ x = u.kid[side][p] /\ \E bh : Heights(u, S, bh, p, side)
  BY DEF Short
<1>2. u \in TreeRecords /\ S \in SUBSET Keys /\ Linked(u, S) /\ \E sub : Searchable(u, S, sub)
  BY <1>1, Zenon DEF Grown
<1>3. PICK bh : Heights(u, S, bh, p, side)
  BY <1>1, Zenon
<1>4. PICK sub : Searchable(u, S, sub)
  BY <1>2
<1>5. /\ side \in Sides /\ o \in Sides /\ side = Other(o) /\ o # side /\ (\A way \in Sides : way = side \/ way = o)
      /\ S \subseteq Nodes /\ Nil \in Nodes /\ Nil \notin S
  BY <1>2, NodeFacts DEF SideOf, Sides
<1>6. ShortNumbers(u, S, bh, p, side)
  BY <1>2, <1>3, ShortHeights, Zenon
<1>7. x # Nil => KidNode(u, S, sub, p, side, x)
  BY <1>1, <1>2, <1>4, <1>5, KidNodes, Zenon
<1>8. w # Nil => KidNode(u, S, sub, p, o, w)
  BY <1>1, <1>2, <1>4, <1>5, KidNodes, Zenon
<1>9. x \in S \cup {Nil} /\ x \in Nodes /\ x # p
  BY <1>1, <1>5, <1>7, Zenon DEF KidNode
<1>10. w # Nil
  <2>1. bh \in [Nodes -> Nat \ {0}] /\ bh[Nil] = 1 /\ LevelNumbers(u, bh, p, side, p, side) /\ LevelNumbers(u, bh, p, o, p, side)
    BY <1>1, <1>5, <1>6, Zenon DEF ShortNumbers
  <2>2. bh[x] \in Nat \ {0}
    BY <2>1, <1>9
  <2>3. (p \in u.red => bh[p] = bh[x] + 1) /\ (p \notin u.red => bh[p] = bh[x] + 2)
    BY <2>1, <1>1, Zenon DEF LevelNumbers
  <2>4. (p \in u.red => bh[p] = bh[w]) /\ (p \notin u.red => bh[p] = bh[w] + 1)
    BY <2>1, <1>5, Zenon DEF LevelNumbers
  <2>5. ASSUME w = Nil PROVE FALSE
    <3>1. bh[w] = 1
      BY <2>1, <2>5
    <3> QED BY <3>1, <2>2, <2>3, <2>4
  <2> QED BY <2>5
<1>11. w \in S /\ w # p /\ w # x /\ u.parent[w] = p
  BY <1>1, <1>5, <1>8, <1>10, Zenon DEF KidNode
<1>12. Pair(u, S, x, p, side, o, w)
  BY <1>1, <1>5, <1>9, <1>11, Zenon DEF Pair
<1> QED BY <1>1, <1>6, <1>12, Zenon DEF Lacking

\* And back.
LEMMA PairShort ==
  ASSUME NEW u, NEW S, NEW x, NEW p, NEW side, NEW o, NEW w, Pair(u, S, x, p, side, o, w), Lacking(u, S, p, side)
  PROVE  Short(u, S, x) /\ SideOf(u, x) = side
<1>1. /\ Grown(u, S) /\ Coloured(u, S, Nil) /\ \E bh : ShortNumbers(u, S, bh, p, side)
      /\ u \in TreeRecords /\ S \in SUBSET Keys
  BY DEF Lacking, Grown
<1>2. PICK bh : ShortNumbers(u, S, bh, p, side)
  BY <1>1
<1>3. Heights(u, S, bh, p, side)
  BY <1>1, <1>2, ShortHeights, Zenon
<1>4. /\ p = u.parent[x] /\ side \in Sides /\ o = Other(side) /\ x \notin u.red /\ p \in S
      /\ x = u.kid[side][p] /\ w = u.kid[o][p] /\ w # x
  BY Zenon DEF Pair
<1>5. SideOf(u, x) = side
  BY <1>4, Zenon DEF SideOf, Left, Sides, Other
<1> QED BY <1>1, <1>3, <1>4, <1>5, Zenon DEF Short

\* A rotation at p leaves the topmost node alone, or p was that node.
TopKept(u, v, p) == Left(u, Root) = p \/ Left(v, Root) = Left(u, Root)

LEMMA TurnedTop ==
  ASSUME NEW u, NEW S, Grown(u, S), NEW v, NEW side \in Sides, NEW x, NEW y, NEW p, NEW b,
         Turned(u, v, side, x, y, p, b), Around(u, S, side, x, y, p, b)
  PROVE  TopKept(u, v, x)
<1>1. u \in TreeRecords /\ S \in SUBSET Keys /\ Linked(u, S)
  BY DEF Grown
<1>2. KidsAround(u, v, S, side, x, y, p, b)
  BY <1>1, TurnedKids, Zenon
<1>3. Root # x /\ Root # y /\ "left" \in Sides
  BY <1>1, NodeFacts DEF Around
<1>4. u.kid["left"][Root] = x \/ v.kid["left"][Root] = u.kid["left"][Root]
  BY <1>2, <1>3, Zenon DEF KidsAround
<1> QED BY <1>4 DEF TopKept, Left

SiblingUp(u, v, S, x, p, side, o, w, b) ==
  /\ Pair(v, S, x, p, side, o, b) /\ Lacking(v, S, p, side) /\ b \notin v.red /\ p \in v.red
  /\ v.red = (u.red \ {w}) \cup {p} /\ v.size = u.size /\ TopKept(u, v, p) /\ KidFrame(u, v, S)

LEMMA RedSiblingGoesUp ==
  ASSUME NEW u, NEW S, NEW x, NEW p, NEW side, NEW o, NEW w, Pair(u, S, x, p, side, o, w), Lacking(u, S, p, side),
         w \in u.red, NEW t, Painted(u, t, (u.red \ {w}) \cup {p}),
         NEW v, v = Rotate(t, side, p), NEW b, b = u.kid[side][w]
  PROVE  SiblingUp(u, v, S, x, p, side, o, w, b)
<1>1. /\ p = u.parent[x] /\ side \in Sides /\ o \in Sides /\ o = Other(side) /\ side = Other(o) /\ o # side
      /\ (\A way \in Sides : way = side \/ way = o)
      /\ x \in S \cup {Nil} /\ x \in Nodes /\ x \notin u.red /\ p \in S /\ x = u.kid[side][p] /\ x # p
      /\ w = u.kid[o][p] /\ w \in S /\ w # p /\ w # x /\ u.parent[w] = p
  BY Zenon DEF Pair
<1>2. /\ Grown(u, S) /\ Coloured(u, S, Nil) /\ \E bh : ShortNumbers(u, S, bh, p, side)
  BY DEF Lacking
<1>3. u \in TreeRecords /\ S \in SUBSET Keys /\ Linked(u, S)
  BY <1>2 DEF Grown
<1>4. S \subseteq Nodes /\ Nil \notin S /\ Root \notin S /\ Nil \in Nodes /\ Root \in Nodes
  BY <1>3, NodeFacts, Zenon
<1>5. /\ Nil \notin u.red /\ Root \notin u.red
      /\ \A k \in S : k \in u.red => u.parent[k] # Root /\ u.parent[k] \notin u.red
  BY <1>2, <1>4 DEF Coloured
<1>6. p \notin u.red
  BY <1>1, <1>5, Zenon
<1>7. PICK bh : ShortNumbers(u, S, bh, p, side)
  BY <1>2, Zenon
<1>8. /\ bh \in [Nodes -> Nat \ {0}] /\ bh[Nil] = 1 /\ bh[x] \in Nat \ {0} /\ bh[w] = bh[x] + 1
      /\ bh[p] = bh[x] + 2
      /\ \A k \in S, way \in Sides :
           k # p => /\ bh[u.kid[way][k]] \in Nat \ {0} /\ u.kid[way][k] \in Nodes
                    /\ k \in u.red => bh[k] = bh[u.kid[way][k]]
                    /\ k \notin u.red => bh[k] = bh[u.kid[way][k]] + 1
  BY <1>2, <1>6, <1>7, LackingNumbers
<1>11. Grown(t, S) /\ t.red = (u.red \ {w}) \cup {p} /\ t.kid = u.kid /\ t.parent = u.parent /\ t.size = u.size
  BY <1>2, PaintedGrown
<1>12. PICK pp : pp = u.parent[p]
  OBVIOUS
<1>13. Turned(t, v, side, p, w, pp, b) /\ Around(t, S, side, p, w, pp, b) /\ Grown(v, S)
  <2>1. w = t.kid[Other(side)][p] /\ w # Nil /\ b = t.kid[side][w] /\ pp = t.parent[p]
    BY <1>1, <1>4, <1>11, <1>12, Zenon
  <2> QED BY <2>1, <1>1, <1>11, RotateGrown, Zenon
<1>14. /\ v \in TreeRecords /\ v.red = t.red /\ v.size = u.size
       /\ \A n \in Nodes : v.parent[n] = IF n = p THEN w ELSE IF n = w THEN pp
                                         ELSE IF n = b /\ b # Nil THEN p ELSE u.parent[n]
  BY <1>11, <1>13 DEF Turned
<1>15. b # Nil /\ b \in S /\ b # p /\ b # w /\ u.parent[b] = w /\ b \notin u.red /\ b # x
  <2>1. bh[b] = bh[w]
    BY <1>1, <1>8, ZenonT(30)
  <2>2. b # Nil
    BY <2>1, <1>8
  <2>3. b \in S /\ b # p /\ b # w /\ u.parent[b] = w
    BY <1>11, <1>13, <2>2 DEF Around
  <2> QED BY <2>2, <2>3, <1>1, <1>5, Zenon
<1>30. v.red = (u.red \ {w}) \cup {p} /\ side \in Sides /\ o = Other(side) /\ w # p /\ b # p /\ b \notin u.red
  BY <1>1, <1>11, <1>14, <1>15, Zenon
<1>16. Coloured(v, S, Nil)
  <2>1. ASSUME NEW k \in S, k \in v.red PROVE v.parent[k] # Root /\ v.parent[k] \notin v.red
    <3>1. k \in Nodes /\ k # Nil /\ k # w /\ k # b
      BY <2>1, <1>4, <1>30
    <3>2. CASE k = p
      BY <3>1, <3>2, <1>1, <1>4, <1>11, <1>14, ZenonT(30)
    <3>3. CASE k # p
      <4>1. k \in u.red /\ u.parent[k] # Root /\ u.parent[k] \notin u.red /\ v.parent[k] = u.parent[k]
        BY <2>1, <3>1, <3>3, <1>5, <1>11, <1>14
      <4>2. u.parent[k] # p
        <5>1. k = u.kid[side][u.parent[k]] \/ k = u.kid[o][u.parent[k]]
          BY <1>30, <1>3, KidsOf
        <5> QED BY <5>1, <3>1, <4>1, <1>1, Zenon
      <4> QED BY <4>1, <4>2, <1>11, <1>14
    <3> QED BY <3>2, <3>3
  <2>2. Nil \notin v.red /\ Root \notin v.red
    BY <1>1, <1>4, <1>5, <1>30, Zenon
  <2> QED BY <2>1, <2>2 DEF Coloured
<1> DEFINE h == bh[x] + 1
           bg == TurnedHeight(bh, p, w, h)
<1>17. h \in Nat \ {0}
  BY <1>8
<1> HIDE DEF h, bg
<1>18. HeightsAround(t, v, side, o, p, w, b, bh, bg, h)
  BY <1>1, <1>8, <1>11, <1>13, <1>17, TurnedValues, Zenon DEF bg
<1>19. /\ v.kid[side][p] = x /\ v.kid[o][p] = b /\ v.kid[side][w] = p /\ v.kid[o][w] = u.kid[o][w]
       /\ bg[p] = h /\ bg[w] = bh[p] /\ bg[b] = bh[b]
       /\ bg[x] = bh[x] /\ bg[u.kid[o][w]] = bh[u.kid[o][w]]
  BY <1>1, <1>11, <1>18, ZenonT(40) DEF HeightsAround
<1>20. LevelsAround(v, bg, side, o, p, w, p, side)
  <2>1. p \in v.red /\ w \notin v.red /\ w # p /\ o # side
    BY <1>1, <1>11, <1>14, ZenonT(40)
  <2>2. bh[b] = bh[x] + 1 /\ bh[u.kid[o][w]] = bh[x] + 1
    BY <1>1, <1>8, Zenon
  <2>3. LevelNumbers(v, bg, p, side, p, side) /\ LevelNumbers(v, bg, p, o, p, side)
    BY <2>1, <2>2, <1>19 DEF LevelNumbers, h
  <2>4. bh[p] = bh[x] + 1 + 1
    BY <1>8
  <2>5. LevelNumbers(v, bg, w, side, p, side) /\ LevelNumbers(v, bg, w, o, p, side)
    BY <2>1, <2>2, <2>4, <1>19 DEF LevelNumbers, h
  <2> QED BY <2>3, <2>5 DEF LevelsAround
<1>21. LevelsElsewhere(t, S, bh, p, w, p, side)
  <2>1. ASSUME NEW k \in S, NEW way \in Sides, k # p, k # w PROVE LevelNumbers(t, bh, k, way, p, side)
    <3>1. (k \in t.red <=> k \in u.red)
      BY <2>1, <1>11
    <3> QED BY <2>1, <3>1, <1>8, <1>11 DEF LevelNumbers
  <2> QED BY <2>1, Zenon DEF LevelsElsewhere
<1>22. Heights(v, S, bg, p, side)
  BY <1>1, <1>11, <1>13, <1>18, <1>20, <1>21, TurnedHeights, Zenon
<1>23. ShortNumbers(v, S, bg, p, side)
  BY <1>3, <1>14, <1>22, ShortHeights, Zenon
<1>24. Lacking(v, S, p, side)
  BY <1>13, <1>16, <1>23 DEF Lacking
<1>25. Pair(v, S, x, p, side, o, b)
  <2>1. v.parent[x] = p /\ v.parent[b] = p
    BY <1>1, <1>4, <1>14, <1>15, Zenon
  <2>2. x \notin v.red
    BY <1>1, <1>11, <1>14, Zenon
  <2> QED BY <2>1, <2>2, <1>1, <1>15, <1>19, Zenon DEF Pair
<1>26. TopKept(u, v, p)
  <2>1. TopKept(t, v, p)
    BY <1>1, <1>11, <1>13, TurnedTop, Zenon
  <2> QED BY <2>1, <1>11 DEF TopKept, Left
<1>27. KidFrame(u, v, S)
  BY <1>11, <1>13, TurnedFrame, Zenon
<1> QED BY <1>1, <1>11, <1>14, <1>15, <1>24, <1>25, <1>26, <1>27, <1>30, Zenon DEF SiblingUp

\* x with a black sibling.
LEMMA BlackSiblingKeeps ==
  ASSUME NEW u, NEW S, NEW x, NEW p, NEW side, NEW o, NEW w0, Pair(u, S, x, p, side, o, w0), Lacking(u, S, p, side),
         NEW v, v = BlackSibling(u, side, x), NEW w, w = v.kid[o][p]
  PROVE  /\ Pair(v, S, x, p, side, o, w) /\ Lacking(v, S, p, side) /\ w \notin v.red
         /\ v.red \subseteq u.red \cup {p} /\ v.size = u.size /\ TopKept(u, v, p) /\ KidFrame(u, v, S)
         /\ p \notin v.red => v = u
<1>1. p = u.parent[x] /\ o = Other(side) /\ w0 = u.kid[o][p] /\ w0 \in S /\ p \in S
  BY Zenon DEF Pair
<1>2. u \in TreeRecords /\ S \subseteq Nodes
  BY NodeFacts DEF Lacking, Grown
<1>3. CASE w0 \in u.red
  <2>1. PICK t1 : t1 = Paint(u, w0, FALSE)
    OBVIOUS
  <2>2. PICK t : t = Paint(t1, p, TRUE)
    OBVIOUS
  <2>3. v = Rotate(t, side, p)
    BY <1>1, <1>3, <2>1, <2>2, Zenon DEF BlackSibling
  <2>4. Painted(u, t1, u.red \ {w0})
    BY <1>1, <1>2, <2>1, PaintBlack
  <2>5. t1 \in TreeRecords /\ t1.red = u.red \ {w0}
    BY <2>4 DEF Painted
  <2>6. Painted(t1, t, t1.red \cup {p})
    BY <1>1, <1>2, <2>2, <2>5, PaintRed
  <2>7. Painted(u, t, (u.red \ {w0}) \cup {p})
    BY <2>4, <2>5, <2>6, PaintedTwice
  <2>8. PICK b : b = u.kid[side][w0]
    OBVIOUS
  <2>0. SiblingUp(u, v, S, x, p, side, o, w0, b)
    BY <1>3, <2>3, <2>7, <2>8, RedSiblingGoesUp, Zenon
  <2>9. /\ Pair(v, S, x, p, side, o, b) /\ Lacking(v, S, p, side) /\ b \notin v.red /\ p \in v.red
        /\ v.red = (u.red \ {w0}) \cup {p} /\ v.size = u.size /\ TopKept(u, v, p) /\ KidFrame(u, v, S)
    BY <2>0 DEF SiblingUp
  <2>10. b = w
    BY <2>9, Zenon DEF Pair
  <2> QED BY <2>9, <2>10
<1>4. CASE w0 \notin u.red
  <2>1. v = u
    BY <1>1, <1>4, Zenon DEF BlackSibling
  <2> QED BY <2>1, <1>1, <1>4 DEF TopKept, KidFrame
<1> QED BY <1>3, <1>4, Zenon

\* No deficit in the tree is no deficit.
LEMMA RootNumbers ==
  ASSUME NEW u, NEW S \in SUBSET Keys, NEW bh, NEW ds, ShortNumbers(u, S, bh, Root, ds)
  PROVE  WholeNumbers(u, S, bh)
<1>1. \A k \in S : k # Root
  BY NodeFacts
<1>2. /\ bh \in [Nodes -> Nat \ {0}] /\ bh[Nil] = 1
      /\ \A k \in S, way \in Sides : bh[u.kid[way][k]] \in Int /\ u.kid[way][k] \in Nodes /\ LevelNumbers(u, bh, k, way, Root, ds)
  BY DEF ShortNumbers
<1>3. ASSUME NEW k \in S, NEW way \in Sides
      PROVE  /\ k \in u.red => bh[k] = bh[u.kid[way][k]]
             /\ k \notin u.red => bh[k] = bh[u.kid[way][k]] + 1
  BY <1>1, <1>2 DEF LevelNumbers
<1> QED BY <1>2, <1>3 DEF WholeNumbers

LEMMA FromWhole ==
  ASSUME NEW u, NEW S, Grown(u, S), Coloured(u, S, Nil), NEW bh, WholeNumbers(u, S, bh)
  PROVE  RedBlack(u, S, Nil)
<1>1. u \in TreeRecords /\ S \in SUBSET Keys
  BY DEF Grown
<1>2. Heights(u, S, bh, Nil, "left")
  BY <1>1, WholeHeights, Zenon
<1> QED BY <1>2 DEF RedBlack

\* The colours when a black sibling with black children is made red.
LEMMA RedSiblingColours ==
  ASSUME NEW u, NEW S, NEW x, NEW p, NEW side, NEW o, NEW w, Pair(u, S, x, p, side, o, w), Lacking(u, S, p, side),
         w \notin u.red, u.kid[side][w] \notin u.red, u.kid[o][w] \notin u.red,
         NEW t, t.parent = u.parent, t.red = (u.red \cup {w}) \ {p}
  PROVE  Coloured(t, S, Nil)
<1>1. /\ side \in Sides /\ o = Other(side) /\ p \in S /\ w \in S /\ w # p /\ u.parent[w] = p
  BY Zenon DEF Pair
<1>2. u \in TreeRecords /\ S \in SUBSET Keys /\ Linked(u, S) /\ Coloured(u, S, Nil)
  BY DEF Lacking, Grown
<1>3. S \subseteq Nodes /\ Nil \notin S /\ Root \notin S
  BY <1>2, NodeFacts
<1>4. /\ Nil \notin u.red /\ Root \notin u.red
      /\ \A k \in S : k \in u.red => u.parent[k] # Root /\ u.parent[k] \notin u.red
  BY <1>2, <1>3 DEF Coloured
<1>5. ASSUME NEW k \in S, k \in t.red PROVE t.parent[k] # Root /\ t.parent[k] \notin t.red
  <2>1. CASE k = w
    BY <2>1, <1>1, <1>3
  <2>2. CASE k # w
    <3>1. k \in u.red /\ t.parent[k] = u.parent[k]
      BY <2>2, <1>5
    <3>2. u.parent[k] # Root /\ u.parent[k] \notin u.red
      BY <3>1, <1>4
    <3>3. u.parent[k] # w
      <4>1. k = u.kid[side][u.parent[k]] \/ k = u.kid[Other(side)][u.parent[k]]
        BY <1>1, <1>2, KidsOf
      <4> QED BY <4>1, <3>1, <1>1
    <3> QED BY <3>1, <3>2, <3>3
  <2> QED BY <2>1, <2>2
<1>6. Nil \notin t.red /\ Root \notin t.red
  BY <1>1, <1>3, <1>4
<1> QED BY <1>5, <1>6 DEF Coloured

\* Its parent was red: made black, it makes up for the missing node.
LEMMA RedParentEnds ==
  ASSUME NEW u, NEW S, NEW x, NEW p, NEW side, NEW o, NEW w, Pair(u, S, x, p, side, o, w), Lacking(u, S, p, side),
         w \notin u.red, u.kid[side][w] \notin u.red, u.kid[o][w] \notin u.red, p \in u.red,
         NEW t, Painted(u, t, (u.red \cup {w}) \ {p})
  PROVE  RedBlack(t, S, Nil)
<1>1. /\ side \in Sides /\ o \in Sides /\ p \in S /\ w \in S /\ w # p /\ u.parent[w] = p /\ x = u.kid[side][p] /\ w = u.kid[o][p]
      /\ (\A way \in Sides : way = side \/ way = o) /\ w # x /\ x \in Nodes
  BY Zenon DEF Pair
<1>2. Grown(u, S) /\ \E bh : ShortNumbers(u, S, bh, p, side)
  BY DEF Lacking
<1>3. u \in TreeRecords /\ S \in SUBSET Keys /\ Linked(u, S)
  BY <1>2 DEF Grown
<1>4. S \subseteq Nodes /\ Nil \notin S
  BY <1>3, NodeFacts
<1>5. Grown(t, S) /\ t.red = (u.red \cup {w}) \ {p} /\ t.kid = u.kid /\ t.parent = u.parent
  BY <1>2, PaintedGrown, Zenon
<1>6. Coloured(t, S, Nil)
  BY <1>5, RedSiblingColours
<1>7. PICK bh : ShortNumbers(u, S, bh, p, side)
  BY <1>2, Zenon
<1>8. /\ bh \in [Nodes -> Nat \ {0}] /\ bh[Nil] = 1 /\ bh[x] \in Nat \ {0} /\ bh[w] = bh[x] + 1
      /\ bh[p] = bh[x] + 1
      /\ \A k \in S, way \in Sides :
           k # p => /\ bh[u.kid[way][k]] \in Nat \ {0} /\ u.kid[way][k] \in Nodes
                    /\ k \in u.red => bh[k] = bh[u.kid[way][k]]
                    /\ k \notin u.red => bh[k] = bh[u.kid[way][k]] + 1
  BY <1>2, <1>7, LackingNumbers, SMTT(20)
<1> DEFINE bg == [n \in Nodes |-> IF n = w THEN bh[x] ELSE bh[n]]
<1>9. /\ bg \in [Nodes -> Nat \ {0}] /\ bg[Nil] = 1 /\ bg[w] = bh[x] /\ bg[p] = bh[x] + 1 /\ bg[x] = bh[x]
      /\ \A n \in Nodes : n # w => bg[n] = bh[n]
  BY <1>1, <1>4, <1>8, NodeFacts, Zenon
<1> HIDE DEF bg
<1>10. ASSUME NEW k \in S, NEW way \in Sides
       PROVE  /\ bg[t.kid[way][k]] \in Int /\ t.kid[way][k] \in Nodes
              /\ k \in t.red => bg[k] = bg[t.kid[way][k]]
              /\ k \notin t.red => bg[k] = bg[t.kid[way][k]] + 1
  <2>1. CASE k = p
    <3>1. t.kid[way][k] = x \/ t.kid[way][k] = w
      BY <2>1, <1>1, <1>5, Zenon
    <3>2. bg[t.kid[way][k]] = bh[x] /\ t.kid[way][k] \in Nodes /\ k \notin t.red
      BY <2>1, <3>1, <1>1, <1>4, <1>5, <1>9, Zenon
    <3> QED BY <2>1, <3>2, <1>8, <1>9
  <2>2. CASE k # p
    <3> DEFINE c == u.kid[way][k]
    <3>1. /\ bh[c] \in Nat \ {0} /\ c \in Nodes /\ t.kid[way][k] = c
          /\ k \in u.red => bh[k] = bh[c]
          /\ k \notin u.red => bh[k] = bh[c] + 1
      BY <2>2, <1>5, <1>8, Zenon
    <3>2. c # w
      <4>1. c # Nil => u.parent[c] = k
        BY <1>3 DEF Linked
      <4> QED BY <4>1, <2>2, <1>1, <1>4
    <3> HIDE DEF c
    <3>3. bg[c] = bh[c]
      BY <3>1, <3>2, <1>9, Zenon
    <3>4. CASE k = w
      BY <2>2, <3>1, <3>3, <3>4, <1>5, <1>8, <1>9
    <3>5. CASE k # w
      <4>1. bg[k] = bh[k] /\ (k \in t.red <=> k \in u.red)
        BY <2>2, <3>5, <1>4, <1>5, <1>9, Zenon
      <4> QED BY <3>1, <3>3, <4>1
    <3> QED BY <3>4, <3>5, Zenon
  <2> QED BY <2>1, <2>2, Zenon
<1>11. WholeNumbers(t, S, bg)
  BY <1>9, <1>10 DEF WholeNumbers
<1> QED BY <1>5, <1>6, <1>11, FromWhole

\* Its parent was black: now a node is missing below the parent.
LEMMA BlackParentShort ==
  ASSUME NEW u, NEW S, NEW x, NEW p, NEW side, NEW o, NEW w, Pair(u, S, x, p, side, o, w), Lacking(u, S, p, side),
         w \notin u.red, u.kid[side][w] \notin u.red, u.kid[o][w] \notin u.red, p \notin u.red,
         NEW t, Painted(u, t, u.red \cup {w})
  PROVE  /\ Left(u, Root) # p => Short(t, S, p) /\ p \notin t.red
         /\ Left(u, Root) = p => RedBlack(t, S, Nil)
<1>1. /\ side \in Sides /\ o \in Sides /\ p \in S /\ w \in S /\ w # p /\ u.parent[w] = p /\ x = u.kid[side][p] /\ w = u.kid[o][p]
      /\ (\A way \in Sides : way = side \/ way = o) /\ w # x /\ x # p /\ x \in Nodes
  BY Zenon DEF Pair
<1>2. Grown(u, S) /\ \E bh : ShortNumbers(u, S, bh, p, side)
  BY DEF Lacking
<1>3. u \in TreeRecords /\ S \in SUBSET Keys /\ Linked(u, S) /\ \E sub : Searchable(u, S, sub)
  BY <1>2 DEF Grown
<1>4. S \subseteq Nodes /\ Nil \notin S
  BY <1>3, NodeFacts, Zenon
<1>5. /\ Grown(t, S) /\ t.red = u.red \cup {w} /\ t.kid = u.kid /\ t.parent = u.parent /\ p \notin t.red
      /\ t.red = (u.red \cup {w}) \ {p} /\ t \in TreeRecords
  BY <1>1, <1>2, PaintedGrown DEF Painted
<1>6. Coloured(t, S, Nil)
  BY <1>5, RedSiblingColours
<1>7. PICK bh : ShortNumbers(u, S, bh, p, side)
  BY <1>2, Zenon
<1>8. /\ bh \in [Nodes -> Nat \ {0}] /\ bh[Nil] = 1 /\ bh[x] \in Nat \ {0} /\ bh[w] = bh[x] + 1
      /\ bh[p] = bh[x] + 2
      /\ \A k \in S, way \in Sides :
           k # p => /\ bh[u.kid[way][k]] \in Nat \ {0} /\ u.kid[way][k] \in Nodes
                    /\ k \in u.red => bh[k] = bh[u.kid[way][k]]
                    /\ k \notin u.red => bh[k] = bh[u.kid[way][k]] + 1
  BY <1>2, <1>7, LackingNumbers
<1>9. PICK sub : Searchable(u, S, sub)
  BY <1>3
<1>10. PICK pp, d : pp = u.parent[p] /\ d = SideOf(u, p)
  BY Zenon
<1>11. pp \in S \cup {Root} /\ d \in Sides /\ p = u.kid[d][pp] /\ p # Nil /\ pp # p /\ (pp = Root => d = "left")
  BY <1>1, <1>3, <1>9, <1>10, UpFacts, SMTT(20)
<1> DEFINE bg == [n \in Nodes |-> IF n = w THEN bh[x] ELSE IF n = p THEN bh[x] + 1 ELSE bh[n]]
<1>12. /\ bg \in [Nodes -> Nat \ {0}] /\ bg[Nil] = 1 /\ bg[w] = bh[x] /\ bg[p] = bh[x] + 1 /\ bg[x] = bh[x]
       /\ \A n \in Nodes : n # w /\ n # p => bg[n] = bh[n]
  BY <1>1, <1>4, <1>8, NodeFacts
<1> HIDE DEF bg
<1>13. ASSUME NEW k \in S, NEW way \in Sides
       PROVE  bg[t.kid[way][k]] \in Int /\ t.kid[way][k] \in Nodes /\ LevelNumbers(t, bg, k, way, pp, d)
  <2>1. CASE k = p
    <3>1. t.kid[way][k] = x \/ t.kid[way][k] = w
      BY <2>1, <1>1, <1>5
    <3>2. bg[t.kid[way][k]] = bh[x] /\ t.kid[way][k] \in Nodes /\ k \notin t.red /\ k # pp
      BY <2>1, <3>1, <1>1, <1>4, <1>5, <1>11, <1>12, Zenon
    <3>3. LevelNumbers(t, bg, k, way, pp, d)
      BY <2>1, <3>2, <1>12 DEF LevelNumbers
    <3> QED BY <3>2, <3>3, <1>8
  <2>2. CASE k # p
    <3> DEFINE c == u.kid[way][k]
    <3>1. /\ bh[c] \in Nat \ {0} /\ c \in Nodes /\ t.kid[way][k] = c
          /\ k \in u.red => bh[k] = bh[c]
          /\ k \notin u.red => bh[k] = bh[c] + 1
      BY <2>2, <1>5, <1>8, Zenon
    <3>2. c # w
      <4>1. c # Nil => u.parent[c] = k
        BY <1>3 DEF Linked
      <4> QED BY <4>1, <2>2, <1>1, <1>4
    <3>3. c = p <=> k = pp /\ way = d
      <4>1. ASSUME c = p PROVE k = pp
        BY <4>1, <1>3, <1>10, <1>11, Zenon DEF Linked
      <4>2. ASSUME c = p, k = pp, way # d PROVE FALSE
        <5>1. KidNode(u, S, sub, k, way, u.kid[way][k])
          BY <4>2, <1>3, <1>9, <1>11, KidNodes
        <5>2. way = Other(d)
          BY <4>2, <1>11, NodeFacts
        <5>3. Other(way) = d
          BY <5>2, <1>11, NodeFacts, Zenon
        <5>4. u.kid[way][k] # u.kid[d][k]
          BY <5>1, <5>3 DEF KidNode
        <5> QED BY <5>4, <4>2, <1>11
      <4> QED BY <4>1, <4>2, <1>11
    <3> HIDE DEF c
    <3>4. CASE c = p
      <4>1. k = pp /\ way = d /\ bg[c] = bh[x] + 1 /\ bh[c] = bh[x] + 2
        BY <3>3, <3>4, <1>8, <1>12, Zenon
      <4>2. k # w
        <5>1. u.parent[c] = k
          BY <4>1, <3>4, <1>10, Zenon
        <5>2. UpNode(u, S, sub, w, u.parent[w]) /\ UpNode(u, S, sub, p, u.parent[p])
          BY <1>1, <1>3, <1>9, UpNodes
        <5> QED BY <5>1, <5>2, <3>4, <1>1 DEF UpNode
      <4>3. bg[k] = bh[k] /\ (k \in t.red <=> k \in u.red)
        BY <2>2, <4>2, <1>4, <1>5, <1>12
      <4>4. LevelNumbers(t, bg, k, way, pp, d)
        <5>1. bh[k] \in Int /\ bh[x] \in Int
          BY <1>4, <1>8
        <5>2. (k \in t.red => bg[k] = bg[c] + 1) /\ (k \notin t.red => bg[k] = bg[c] + 2)
          BY <4>1, <4>3, <3>1, <5>1
        <5> QED BY <4>1, <3>1, <5>2, Zenon DEF LevelNumbers
      <4>5. bg[c] \in Int
        BY <3>1, <1>12
      <4> QED BY <3>1, <4>4, <4>5, Zenon
    <3>5. CASE c # p
      <4>1. bg[c] = bh[c] /\ ~(k = pp /\ way = d)
        BY <3>1, <3>2, <3>3, <3>5, <1>12
      <4>2. CASE k = w
        <5>1. k \in t.red /\ bg[k] = bg[c]
          BY <2>2, <3>1, <4>1, <4>2, <1>5, <1>8, <1>12
        <5> QED BY <3>1, <4>1, <5>1 DEF LevelNumbers
      <4>3. CASE k # w
        <5>1. bg[k] = bh[k] /\ (k \in t.red <=> k \in u.red)
          BY <2>2, <4>3, <1>4, <1>5, <1>12, Zenon
        <5> QED BY <3>1, <4>1, <5>1 DEF LevelNumbers
      <4> QED BY <4>2, <4>3
    <3> QED BY <3>4, <3>5, Zenon
  <2> QED BY <2>1, <2>2, Zenon
<1>14. ShortNumbers(t, S, bg, pp, d)
  BY <1>12, <1>13 DEF ShortNumbers
<1>15. CASE Left(u, Root) = p
  <2>1. pp = Root
    BY <1>15, <1>3, <1>10, <1>11, NodeFacts, Zenon DEF Linked, Left
  <2>2. WholeNumbers(t, S, bg)
    BY <2>1, <1>3, <1>14, RootNumbers
  <2> QED BY <2>2, <1>5, <1>6, <1>15, FromWhole
<1>16. CASE Left(u, Root) # p
  <2>1. pp \in S
    BY <1>16, <1>11 DEF Left
  <2>2. Heights(t, S, bg, pp, d)
    BY <1>3, <1>5, <1>14, ShortHeights, Zenon
  <2>3. t.parent[p] = pp /\ SideOf(t, p) = d /\ p = t.kid[d][pp]
    BY <1>5, <1>10, <1>11, Zenon DEF SideOf, Left
  <2> QED BY <2>1, <2>2, <2>3, <1>5, <1>6, <1>16 DEF Short
<1> QED BY <1>15, <1>16

LEMMA SideIs ==
  ASSUME NEW t, NEW w, NEW side \in Sides, w = t.kid[side][t.parent[w]], w # t.kid[Other(side)][t.parent[w]]
  PROVE  SideOf(t, w) = side
BY DEF SideOf, Left, Sides, Other

\* The near child of the sibling goes up: the far child of the new sibling is red.
NearUp(u, v, S, x, p, side, o, w, near) ==
  /\ Pair(v, S, x, p, side, o, near) /\ Lacking(v, S, p, side) /\ near \notin v.red
  /\ v.kid[o][near] = w /\ w \in v.red
  /\ v.size = u.size /\ Left(v, Root) = Left(u, Root) /\ KidFrame(u, v, S)

LEMMA NearChildGoesUp ==
  ASSUME NEW u, NEW S, NEW x, NEW p, NEW side, NEW o, NEW w, Pair(u, S, x, p, side, o, w), Lacking(u, S, p, side),
         w \notin u.red, u.kid[o][w] \notin u.red, NEW near, near = u.kid[side][w], near \in u.red,
         NEW t, Painted(u, t, (u.red \ {near}) \cup {w}), NEW v, v = Rotate(t, o, w)
  PROVE  NearUp(u, v, S, x, p, side, o, w, near)
<1>1. /\ p = u.parent[x] /\ side \in Sides /\ o \in Sides /\ o = Other(side) /\ side = Other(o) /\ o # side
      /\ (\A way \in Sides : way = side \/ way = o)
      /\ x \in S \cup {Nil} /\ x \in Nodes /\ x \notin u.red /\ p \in S /\ x = u.kid[side][p] /\ x # p
      /\ w = u.kid[o][p] /\ w \in S /\ w # p /\ w # x /\ u.parent[w] = p
  BY Zenon DEF Pair
<1>2. /\ Grown(u, S) /\ Coloured(u, S, Nil) /\ \E bh : ShortNumbers(u, S, bh, p, side)
  BY DEF Lacking
<1>3. u \in TreeRecords /\ S \in SUBSET Keys /\ Linked(u, S)
  BY <1>2 DEF Grown
<1>4. S \subseteq Nodes /\ Nil \notin S /\ Root \notin S /\ Nil \in Nodes /\ Root \in Nodes
  BY <1>3, NodeFacts
<1>5. /\ Nil \notin u.red /\ Root \notin u.red
      /\ \A k \in S : k \in u.red => u.parent[k] # Root /\ u.parent[k] \notin u.red
  BY <1>2, <1>4 DEF Coloured
<1>6. PICK bh : ShortNumbers(u, S, bh, p, side)
  BY <1>2, Zenon
<1>7. /\ bh \in [Nodes -> Nat \ {0}] /\ bh[Nil] = 1 /\ bh[x] \in Nat \ {0} /\ bh[w] = bh[x] + 1
      /\ \A k \in S, way \in Sides :
           k # p => /\ bh[u.kid[way][k]] \in Nat \ {0} /\ u.kid[way][k] \in Nodes
                    /\ k \in u.red => bh[k] = bh[u.kid[way][k]]
                    /\ k \notin u.red => bh[k] = bh[u.kid[way][k]] + 1
  BY <1>2, <1>6, LackingNumbers
<1>8. near # Nil /\ near \in S /\ u.parent[near] = w
  BY <1>1, <1>3, <1>5, ZenonT(30) DEF Linked
<1>9. PICK b : b = u.kid[o][near]
  BY Zenon
<1>10. Grown(t, S) /\ t.red = (u.red \ {near}) \cup {w} /\ t.kid = u.kid /\ t.parent = u.parent /\ t.size = u.size
  BY <1>2, PaintedGrown
<1>11. Turned(t, v, o, w, near, p, b) /\ Around(t, S, o, w, near, p, b) /\ Grown(v, S)
  <2>1. near = t.kid[Other(o)][w] /\ b = t.kid[o][near] /\ p = t.parent[w]
    BY <1>1, <1>9, <1>10, Zenon
  <2> QED BY <2>1, <1>1, <1>8, <1>10, RotateGrown, Zenon
<1>12. /\ v \in TreeRecords /\ v.red = t.red /\ v.size = u.size
       /\ \A n \in Nodes : v.parent[n] = IF n = w THEN near ELSE IF n = near THEN p
                                         ELSE IF n = b /\ b # Nil THEN w ELSE u.parent[n]
  BY <1>10, <1>11 DEF Turned
<1>13. /\ b \in S \cup {Nil} /\ b # w /\ b # near /\ (b # Nil => u.parent[b] = near) /\ near # w /\ near # p
       /\ (b # Nil => b \notin u.red)
  <2>1. /\ b \in S \cup {Nil} /\ b # w /\ b # near /\ (b # Nil => u.parent[b] = near) /\ near # w /\ near # p
    BY <1>10, <1>11 DEF Around
  <2> QED BY <2>1, <1>5, SMTT(30)
<1>14. v.red = (u.red \ {near}) \cup {w} /\ side \in Sides /\ o = Other(side) /\ near # w
  BY <1>1, <1>10, <1>12, <1>13, Zenon
<1>15. Coloured(v, S, Nil)
  <2>1. ASSUME NEW k \in S, k \in v.red PROVE v.parent[k] # Root /\ v.parent[k] \notin v.red
    <3>1. k \in Nodes /\ k # Nil /\ k # near
      BY <2>1, <1>4, <1>14
    <3>2. CASE k = w
      <4>1. v.parent[k] = near
        BY <3>1, <3>2, <1>12
      <4> QED BY <4>1, <1>4, <1>8, <1>14
    <3>3. CASE k # w
      <4>1. k \in u.red
        BY <2>1, <3>3, <1>14
      <4>2. u.parent[k] # Root /\ u.parent[k] \notin u.red /\ k # b
        BY <3>1, <4>1, <1>5, <1>13
      <4>3. v.parent[k] = u.parent[k]
        BY <3>1, <3>3, <4>2, <1>12
      <4>4. u.parent[k] # w
        <5>1. k = u.kid[side][u.parent[k]] \/ k = u.kid[o][u.parent[k]]
          BY <1>14, <1>3, KidsOf
        <5> QED BY <5>1, <3>1, <4>1, Zenon
      <4> QED BY <4>2, <4>3, <4>4, <1>14
    <3> QED BY <3>2, <3>3
  <2>2. Nil \notin v.red /\ Root \notin v.red
    BY <1>1, <1>4, <1>5, <1>14, Zenon
  <2> QED BY <2>1, <2>2 DEF Coloured
<1> DEFINE h == bh[x]
           bg == TurnedHeight(bh, w, near, h)
<1>16. h \in Nat \ {0}
  BY <1>7
<1> HIDE DEF h, bg
<1>17. HeightsAround(t, v, o, side, w, near, b, bh, bg, h)
  BY <1>1, <1>7, <1>10, <1>11, <1>16, TurnedValues, Zenon DEF bg
<1>18. /\ v.kid[o][w] = u.kid[o][w] /\ v.kid[side][w] = b /\ v.kid[o][near] = w /\ v.kid[side][near] = u.kid[side][near]
       /\ bg[w] = h /\ bg[near] = bh[w] /\ bg[b] = bh[b]
       /\ bg[u.kid[o][w]] = bh[u.kid[o][w]] /\ bg[u.kid[side][near]] = bh[u.kid[side][near]]
  BY <1>1, <1>10, <1>17, ZenonT(30) DEF HeightsAround
<1>19. LevelsAround(v, bg, o, side, w, near, p, side)
  <2>1. w \in v.red /\ near \notin v.red /\ w # p /\ near # p
    BY <1>1, <1>13, <1>14, Zenon
  <2>2. bh[w] = bh[near] + 1 /\ bh[near] \in Nat /\ bh[w] = bh[u.kid[o][w]] + 1 /\ bh[u.kid[o][w]] \in Nat
    BY <1>1, <1>7, Zenon
  <2>3. bh[near] = bh[b] /\ bh[near] = bh[u.kid[side][near]]
    BY <1>1, <1>7, <1>8, <1>9, <1>13, ZenonT(40)
  <2>4. bh[near] = bh[x] /\ bh[u.kid[o][w]] = bh[x] /\ bh[b] = bh[x] /\ bh[u.kid[side][near]] = bh[x]
    BY <2>2, <2>3, <1>7, SMTT(20)
  <2>5. LevelNumbers(v, bg, w, o, p, side) /\ LevelNumbers(v, bg, w, side, p, side)
    BY <2>1, <2>4, <1>18, Zenon DEF LevelNumbers, h
  <2>6. LevelNumbers(v, bg, near, o, p, side) /\ LevelNumbers(v, bg, near, side, p, side)
    BY <2>1, <2>4, <1>7, <1>18 DEF LevelNumbers, h
  <2> QED BY <2>5, <2>6 DEF LevelsAround
<1>20. LevelsElsewhere(t, S, bh, w, near, p, side)
  <2>1. ASSUME NEW k \in S, NEW way \in Sides, k # w, k # near PROVE LevelNumbers(t, bh, k, way, p, side)
    <3>1. (k \in t.red <=> k \in u.red)
      BY <2>1, <1>10
    <3>2. LevelNumbers(u, bh, k, way, p, side)
      BY <1>6 DEF ShortNumbers
    <3> QED BY <3>1, <3>2, <1>10 DEF LevelNumbers
  <2> QED BY <2>1, Zenon DEF LevelsElsewhere
<1>21. Heights(v, S, bg, p, side)
  BY <1>1, <1>10, <1>11, <1>17, <1>19, <1>20, TurnedHeights, Zenon
<1>22. ShortNumbers(v, S, bg, p, side)
  BY <1>3, <1>12, <1>21, ShortHeights, Zenon
<1>23. Lacking(v, S, p, side)
  BY <1>11, <1>15, <1>22 DEF Lacking
<1>24. t \in TreeRecords /\ Linked(t, S)
  BY <1>10 DEF Grown
<1>25. v.kid[o][p] = near /\ v.kid[side][p] = x
  <2>0. o \in Sides /\ w = t.kid[o][t.parent[w]] /\ w # t.kid[Other(o)][t.parent[w]]
    <3>1. t.parent[w] = p /\ t.kid[o][p] = w /\ t.kid[side][p] = x /\ w # x /\ side = Other(o) /\ o \in Sides
      BY <1>1, <1>10, Zenon
    <3> QED BY <3>1, Zenon
  <2>1. SideOf(t, w) = o
    BY <2>0, SideIs
  <2>2. KidsAround(t, v, S, o, w, near, p, b)
    BY <1>1, <1>3, <1>11, <1>24, TurnedKids, Zenon
  <2>3. v.kid[o][p] = near
    BY <2>1, <2>2 DEF KidsAround
  <2>4. v.kid[side][p] = t.kid[side][p]
    BY <2>1, <2>2, <1>1, <1>13, ZenonT(40) DEF KidsAround
  <2> QED BY <2>3, <2>4, <1>1, <1>10, Zenon
<1>26. Pair(v, S, x, p, side, o, near)
  <2>1. (x # near /\ x # b) \/ x = Nil
    BY <1>1, <1>8, <1>13, Zenon
  <2>2. v.parent[x] = p /\ v.parent[near] = p
    BY <2>1, <1>1, <1>4, <1>8, <1>12, <1>13, Zenon
  <2>3. x \notin v.red /\ x # near
    BY <1>1, <1>8, <1>14, Zenon
  <2> QED BY <2>2, <2>3, <1>1, <1>8, <1>13, <1>25, Zenon DEF Pair
<1>27. Left(v, Root) = Left(u, Root)
  <2>1. TopKept(t, v, w)
    BY <1>1, <1>10, <1>11, TurnedTop, Zenon
  <2>2. Left(u, Root) # w
    <3>1. Left(u, Root) # Nil => u.parent[Left(u, Root)] = Root
      BY <1>3, NodeFacts, Zenon DEF Linked, Left
    <3> QED BY <3>1, <1>1, <1>4, Zenon
  <2> QED BY <2>1, <2>2, <1>10, Zenon DEF TopKept, Left
<1>28. KidFrame(u, v, S)
  BY <1>10, <1>11, TurnedFrame, Zenon
<1> QED BY <1>8, <1>12, <1>14, <1>18, <1>23, <1>26, <1>27, <1>28 DEF NearUp

\* The sibling takes the place of the parent, which makes up for the missing node.
SiblingRestores(u, v, S, p, w) ==
  /\ RedBlack(v, S, Nil) /\ v.size = u.size /\ v.red \subseteq (u.red \cup {w}) \ {p}
  /\ KidFrame(u, v, S)

LEMMA RestoreKeeps ==
  ASSUME NEW u, NEW S, NEW x, NEW p, NEW side, NEW o, NEW w, Pair(u, S, x, p, side, o, w), Lacking(u, S, p, side),
         w \notin u.red, NEW far, far = u.kid[o][w], far \in u.red, NEW r,
         r = ((IF p \in u.red THEN u.red \cup {w} ELSE u.red \ {w}) \ {p}) \ {far},
         NEW t, Painted(u, t, r), NEW v, v = Rotate(t, side, p)
  PROVE  SiblingRestores(u, v, S, p, w)
<1>1. /\ p = u.parent[x] /\ side \in Sides /\ o \in Sides /\ o = Other(side) /\ side = Other(o) /\ o # side
      /\ (\A way \in Sides : way = side \/ way = o)
      /\ x \in S \cup {Nil} /\ x \in Nodes /\ x \notin u.red /\ p \in S /\ x = u.kid[side][p] /\ x # p
      /\ w = u.kid[o][p] /\ w \in S /\ w # p /\ w # x /\ u.parent[w] = p
  BY Zenon DEF Pair
<1>2. /\ Grown(u, S) /\ Coloured(u, S, Nil) /\ \E bh : ShortNumbers(u, S, bh, p, side)
  BY Zenon DEF Lacking
<1>3. u \in TreeRecords /\ S \in SUBSET Keys /\ Linked(u, S)
  BY <1>2, Zenon DEF Grown
<1>4. S \subseteq Nodes /\ Nil \notin S /\ Root \notin S /\ Nil \in Nodes /\ Root \in Nodes
  BY <1>3, NodeFacts, Zenon
<1>5. /\ Nil \notin u.red /\ Root \notin u.red
      /\ \A k \in S : k \in u.red => u.parent[k] # Root /\ u.parent[k] \notin u.red
  BY <1>2, <1>4 DEF Coloured
<1>6. PICK bh : ShortNumbers(u, S, bh, p, side)
  BY <1>2, Zenon
<1>7. /\ bh \in [Nodes -> Nat \ {0}] /\ bh[Nil] = 1 /\ bh[x] \in Nat \ {0} /\ bh[w] = bh[x] + 1
      /\ p \in u.red => bh[p] = bh[x] + 1
      /\ p \notin u.red => bh[p] = bh[x] + 2
      /\ \A k \in S, way \in Sides :
           k # p => /\ bh[u.kid[way][k]] \in Nat \ {0} /\ u.kid[way][k] \in Nodes
                    /\ k \in u.red => bh[k] = bh[u.kid[way][k]]
                    /\ k \notin u.red => bh[k] = bh[u.kid[way][k]] + 1
  BY <1>2, <1>6, LackingNumbers
<1>8. far # Nil /\ far \in S /\ u.parent[far] = w
  BY <1>1, <1>3, <1>5, Zenon DEF Linked
<1>9. PICK b, pp : b = u.kid[side][w] /\ pp = u.parent[p]
  BY Zenon
<1>10. Grown(t, S) /\ t.red = r /\ t.kid = u.kid /\ t.parent = u.parent /\ t.size = u.size
  BY <1>2, PaintedGrown, ZenonT(40)
<1>11. Turned(t, v, side, p, w, pp, b) /\ Around(t, S, side, p, w, pp, b) /\ Grown(v, S)
  <2>1. w = t.kid[Other(side)][p] /\ w # Nil /\ b = t.kid[side][w] /\ pp = t.parent[p]
    BY <1>1, <1>4, <1>9, <1>10, Zenon
  <2> QED BY <2>1, <1>1, <1>10, RotateGrown, Zenon
<1>12. /\ v \in TreeRecords /\ v.red = r /\ v.size = u.size
       /\ \A n \in Nodes : v.parent[n] = IF n = p THEN w ELSE IF n = w THEN pp
                                         ELSE IF n = b /\ b # Nil THEN p ELSE u.parent[n]
  BY <1>10, <1>11, Zenon DEF Turned
<1>13. /\ b \in S \cup {Nil} /\ b # w /\ b # p /\ (b # Nil => u.parent[b] = w) /\ far # w /\ far # p /\ far # b
       /\ pp # w /\ pp # p /\ pp \in S \cup {Root}
  <2>1. /\ b \in S \cup {Nil} /\ b # w /\ b # p /\ (b # Nil => u.parent[b] = w) /\ pp # w /\ pp # p /\ pp \in S \cup {Root}
        /\ (b # Nil => far # b)
    BY <1>1, <1>10, <1>11, Zenon DEF Around
  <2>2. PICK sub : Searchable(u, S, sub)
    BY <1>2 DEF Grown
  <2>3. KidNode(u, S, sub, w, o, far) /\ KidNode(u, S, sub, p, o, w)
    BY <2>2, <1>1, <1>3, <1>4, <1>8, KidNodes, Zenon
  <2> QED BY <2>1, <2>3, <1>8 DEF KidNode
<1>14. /\ \A k : k # w => (k \in r <=> k \in u.red /\ k # p /\ k # far)
       /\ w \in r <=> p \in u.red
       /\ p \notin r
  BY <1>1, <1>13, Zenon
<1>15. Coloured(v, S, Nil)
  <2>1. ASSUME NEW k \in S, k \in v.red PROVE v.parent[k] # Root /\ v.parent[k] \notin v.red
    <3>1. k \in Nodes /\ k # Nil /\ k # p /\ k \in r
      BY <2>1, <1>4, <1>12, <1>14, Zenon
    <3>2. CASE k = w
      <4>1. v.parent[k] = pp /\ p \in u.red
        BY <3>1, <3>2, <1>12, <1>14
      <4>2. pp # Root /\ pp \notin u.red
        BY <4>1, <1>1, <1>5, <1>9, Zenon
      <4> QED BY <4>1, <4>2, <1>12, <1>13, <1>14
    <3>3. CASE k # w
      <4>1. k \in u.red /\ k # far
        BY <3>1, <3>3, <1>14
      <4>2. CASE k = b
        <5>1. v.parent[k] = p
          BY <3>1, <3>3, <4>2, <1>12
        <5>2. p # Root /\ p \notin v.red
          BY <1>1, <1>4, <1>12, <1>14, Zenon
        <5> QED BY <5>1, <5>2
      <4>3. CASE k # b
        <5>1. v.parent[k] = u.parent[k]
          BY <3>1, <3>3, <4>3, <1>12
        <5>2. u.parent[k] # Root /\ u.parent[k] \notin u.red
          BY <4>1, <1>5
        <5>3. u.parent[k] # w
          <6>1. side \in Sides /\ o = Other(side)
            BY <1>1, Zenon
          <6>2. k = u.kid[side][u.parent[k]] \/ k = u.kid[o][u.parent[k]]
            BY <6>1, <1>3, KidsOf
          <6> QED BY <6>2, <4>1, <4>3, <1>9
        <5> QED BY <5>1, <5>2, <5>3, <1>12, <1>14, Zenon
      <4> QED BY <4>2, <4>3
    <3> QED BY <3>2, <3>3
  <2>2. Nil \notin v.red /\ Root \notin v.red
    BY <1>1, <1>4, <1>5, <1>12, <1>14, Zenon
  <2> QED BY <2>1, <2>2 DEF Coloured
<1> DEFINE h == bh[x] + 1
           b1 == [n \in Nodes |-> IF n = far THEN h ELSE bh[n]]
           bg == TurnedHeight(b1, p, w, h)
<1>16. h \in Nat \ {0}
  BY <1>7
<1> HIDE DEF h
<1>17. /\ b1 \in [Nodes -> Nat \ {0}] /\ b1[Nil] = 1 /\ b1[far] = h /\ \A n \in Nodes : n # far => b1[n] = bh[n]
  BY <1>4, <1>7, <1>8, <1>16, Zenon
<1> HIDE DEF b1, bg
<1>18. HeightsAround(t, v, side, o, p, w, b, b1, bg, h)
  BY <1>1, <1>10, <1>11, <1>16, <1>17, TurnedValues, Zenon DEF bg
<1>19. /\ v.kid[side][p] = x /\ v.kid[o][p] = b /\ v.kid[side][w] = p /\ v.kid[o][w] = far
       /\ bg[p] = h /\ bg[w] = b1[p] /\ bg[b] = b1[b] /\ bg[x] = b1[x] /\ bg[far] = b1[far]
  BY <1>1, <1>10, <1>18, ZenonT(40) DEF HeightsAround
<1>20. /\ b1[p] = bh[p] /\ b1[b] = bh[x] /\ b1[x] = bh[x]
  <2>1. bh[w] = bh[b] + 1 /\ bh[b] \in Nat
    BY <1>1, <1>7, <1>9, Zenon
  <2>2. bh[b] = bh[x]
    BY <2>1, <1>7
  <2>3. x # far
    BY <1>1, <1>8, Zenon
  <2> QED BY <2>2, <2>3, <1>1, <1>4, <1>13, <1>17, Zenon
<1>21. LevelsAround(v, bg, side, o, p, w, Nil, "left")
  <2>1. p \notin v.red /\ (w \in v.red <=> p \in u.red) /\ w # Nil /\ p # Nil
    BY <1>1, <1>4, <1>12, <1>14, Zenon
  <2>2. LevelNumbers(v, bg, p, side, Nil, "left") /\ LevelNumbers(v, bg, p, o, Nil, "left")
    BY <2>1, <1>19, <1>20, Zenon DEF LevelNumbers, h
  <2>3. (p \in u.red => bh[p] = h) /\ (p \notin u.red => bh[p] = h + 1)
    BY <1>7 DEF h
  <2>4. LevelNumbers(v, bg, w, side, Nil, "left") /\ LevelNumbers(v, bg, w, o, Nil, "left")
    BY <2>1, <2>3, <1>17, <1>19, <1>20, Zenon DEF LevelNumbers
  <2> QED BY <2>2, <2>4 DEF LevelsAround
<1>22. LevelsElsewhere(t, S, b1, p, w, Nil, "left")
  <2>1. ASSUME NEW k \in S, NEW way \in Sides, k # p, k # w PROVE LevelNumbers(t, b1, k, way, Nil, "left")
    <3> DEFINE c == u.kid[way][k]
    <3>1. /\ bh[c] \in Nat \ {0} /\ c \in Nodes /\ t.kid[way][k] = c
          /\ k \in u.red => bh[k] = bh[c]
          /\ k \notin u.red => bh[k] = bh[c] + 1
      BY <2>1, <1>7, <1>10
    <3>2. c # far
      <4>1. c # Nil => u.parent[c] = k
        BY <1>3 DEF Linked
      <4> QED BY <4>1, <2>1, <1>8, Zenon
    <3>3. k # Nil /\ k \in Nodes
      BY <1>4
    <3> HIDE DEF c
    <3>4. b1[c] = bh[c]
      BY <3>1, <3>2, <1>17
    <3>5. CASE k = far
      <4>1. bh[w] = bh[far] + 1 /\ bh[far] \in Nat
        BY <1>1, <1>7, Zenon
      <4>2. bh[far] = bh[x] /\ k \notin t.red /\ bh[k] = bh[c]
        BY <2>1, <3>1, <3>5, <4>1, <1>7, <1>10, <1>14
      <4>3. b1[k] = b1[c] + 1
        BY <3>4, <3>5, <4>2, <1>17 DEF h
      <4> QED BY <3>1, <3>3, <4>2, <4>3 DEF LevelNumbers
    <3>6. CASE k # far
      <4>1. b1[k] = bh[k] /\ (k \in t.red <=> k \in u.red)
        BY <2>1, <3>3, <3>6, <1>10, <1>14, <1>17
      <4> QED BY <3>1, <3>3, <3>4, <4>1, Zenon DEF LevelNumbers
    <3> QED BY <3>5, <3>6, Zenon
  <2> QED BY <2>1 DEF LevelsElsewhere
<1>23. Heights(v, S, bg, Nil, "left")
  BY <1>1, <1>10, <1>11, <1>18, <1>21, <1>22, TurnedHeights, Zenon
<1>24. RedBlack(v, S, Nil)
  BY <1>11, <1>15, <1>23 DEF RedBlack
<1>25. v.red \subseteq (u.red \cup {w}) \ {p}
  BY <1>12
<1>26. KidFrame(u, v, S)
  BY <1>10, <1>11, TurnedFrame
<1> QED BY <1>12, <1>24, <1>25, <1>26, Zenon DEF SiblingRestores

\* Colours that do not change.
LEMMA PaintedSame ==
  ASSUME NEW u, NEW S, NEW c, RedBlack(u, S, c), NEW v, Painted(u, v, u.red)
  PROVE  RedBlack(v, S, c)
<1>1. Resized(u, v, u.size)
  BY DEF Painted, Resized
<1> QED BY <1>1, ResizedRedBlack

\* Where RemoveFix_ is: a node is missing below c, or painting c black is the end.
Repair(t, S, c, top) ==
  IF c # top /\ c \notin t.red THEN Short(t, S, c) /\ top = Left(t, Root)
                               ELSE RedBlack(Paint(t, c, FALSE), S, Nil)

Repairs(u, t, S, c, top) ==
  t \in TreeRecords /\ c \in Nodes /\ Repair(t, S, c, top) /\ t.size = u.size /\ KidFrame(u, t, S)

\* The sibling has two black children.
LEMMA BothTurn ==
  ASSUME NEW u, NEW S, NEW x, NEW p, NEW side, NEW o, NEW w0, Pair(u, S, x, p, side, o, w0), Lacking(u, S, p, side),
         NEW v, v = BlackSibling(u, side, x), NEW w, w = v.kid[o][p],
         Left(v, w) \notin v.red, Right(v, w) \notin v.red
  PROVE  Repairs(u, Paint(v, w, TRUE), S, p, Left(u, Root))
<1>1. /\ Pair(v, S, x, p, side, o, w) /\ Lacking(v, S, p, side) /\ w \notin v.red
      /\ v.red \subseteq u.red \cup {p} /\ v.size = u.size /\ TopKept(u, v, p) /\ KidFrame(u, v, S)
      /\ p \notin v.red => v = u
  BY BlackSiblingKeeps
<1>2. side \in Sides /\ o \in Sides /\ w \in S /\ p \in S /\ w # p
  BY <1>1, Zenon DEF Pair
<1>3. v.kid[side][w] \notin v.red /\ v.kid[o][w] \notin v.red
  BY <1>2 DEF Left, Right, Sides
<1>4. v \in TreeRecords /\ S \subseteq Nodes
  BY <1>1, NodeFacts DEF Lacking, Grown
<1>5. PICK t : t = Paint(v, w, TRUE)
  OBVIOUS
<1>6. Painted(v, t, v.red \cup {w})
  BY <1>2, <1>4, <1>5, PaintRed
<1>7. t \in TreeRecords /\ t.size = u.size /\ KidFrame(u, t, S) /\ t.red = v.red \cup {w} /\ t.kid = v.kid
  BY <1>1, <1>6 DEF Painted, KidFrame
<1>8. PICK n : n = Paint(t, p, FALSE)
  OBVIOUS
<1>9. Painted(t, n, t.red \ {p})
  BY <1>2, <1>4, <1>7, <1>8, PaintBlack
<1>10. Repair(t, S, p, Left(u, Root))
  <2>1. CASE p \in v.red
    <3>1. Painted(v, n, (v.red \cup {w}) \ {p})
      BY <1>6, <1>7, <1>9, PaintedTwice
    <3>2. RedBlack(n, S, Nil)
      BY <1>1, <1>3, <2>1, <3>1, RedParentEnds
    <3>3. p \in t.red
      BY <2>1, <1>7
    <3> QED BY <3>2, <3>3, <1>8, Zenon DEF Repair
  <2>2. CASE p \notin v.red
    <3>1. v = u
      BY <2>2, <1>1
    <3>2. p \notin t.red
      BY <2>2, <1>2, <1>7, Zenon
    <3>3. /\ Left(v, Root) # p => Short(t, S, p)
          /\ Left(v, Root) = p => RedBlack(t, S, Nil)
      BY <1>1, <1>3, <1>6, <2>2, BlackParentShort
    <3>4. CASE Left(u, Root) # p
      <4>1. Left(t, Root) = Left(u, Root)
        BY <3>1, <1>7 DEF Left
      <4>2. Short(t, S, p)
        BY <3>1, <3>3, <3>4
      <4> QED BY <3>2, <3>4, <4>1, <4>2, Zenon DEF Repair
    <3>5. CASE Left(u, Root) = p
      <4>1. t.red \ {p} = t.red
        BY <3>2
      <4>2. RedBlack(n, S, Nil)
        BY <3>1, <3>3, <3>5, <4>1, <1>9, PaintedSame
      <4> QED BY <3>5, <4>2, <1>8, Zenon DEF Repair
    <3> QED BY <3>4, <3>5
  <2> QED BY <2>1, <2>2
<1>11. Repairs(u, t, S, p, Left(u, Root))
  BY <1>2, <1>4, <1>7, <1>10, Zenon DEF Repairs
<1> QED BY <1>5, <1>11, Zenon

\* It has a red child.
LEMMA FarTurn ==
  ASSUME NEW u, NEW S, NEW x, NEW p, NEW side, NEW o, NEW w, Pair(u, S, x, p, side, o, w), Lacking(u, S, p, side),
         w \notin u.red, ~(Left(u, w) \notin u.red /\ Right(u, w) \notin u.red),
         NEW v, v = RedFarChild(u, side, x)
  PROVE  /\ Pair(v, S, x, p, side, o, v.kid[o][p]) /\ Lacking(v, S, p, side) /\ v.kid[o][p] \notin v.red
         /\ v.kid[o][v.kid[o][p]] \in v.red /\ v.size = u.size
         /\ Left(v, Root) = Left(u, Root) /\ KidFrame(u, v, S)
<1>1. side \in Sides /\ o \in Sides /\ w \in S /\ p \in S /\ w # p /\ p = u.parent[x] /\ o = Other(side) /\ w = u.kid[o][p]
  BY Zenon DEF Pair
<1>2. u \in TreeRecords /\ S \subseteq Nodes /\ Linked(u, S)
  BY NodeFacts, Zenon DEF Lacking, Grown
<1>3. CASE u.kid[o][w] \in u.red
  <2>1. v = u
    BY <1>1, <1>3, Zenon DEF RedFarChild
  <2> QED BY <2>1, <1>1, <1>3 DEF KidFrame
<1>4. CASE u.kid[o][w] \notin u.red
  <2>1. PICK near : near = u.kid[side][w]
    BY Zenon
  <2>2. near \in u.red
    BY <1>1, <1>4, <2>1, Zenon DEF Left, Right, Sides, Other
  <2>3. near \in Nodes
    BY <1>1, <1>2, <2>1 DEF TreeRecords
  <2>4. PICK t1 : t1 = Paint(u, near, FALSE)
    OBVIOUS
  <2>5. PICK t : t = Paint(t1, w, TRUE)
    OBVIOUS
  <2>6. v = Rotate(t, o, w)
    BY <1>1, <1>4, <2>1, <2>4, <2>5, Zenon DEF RedFarChild
  <2>7. Painted(u, t1, u.red \ {near})
    BY <1>2, <2>3, <2>4, PaintBlack, ZenonT(30)
  <2>8. t1 \in TreeRecords /\ t1.red = u.red \ {near}
    BY <2>7 DEF Painted
  <2>9. Painted(t1, t, t1.red \cup {w})
    BY <1>1, <1>2, <2>5, <2>8, PaintRed
  <2>10. Painted(u, t, (u.red \ {near}) \cup {w})
    BY <2>7, <2>8, <2>9, PaintedTwice
  <2>11. NearUp(u, v, S, x, p, side, o, w, near)
    BY <1>4, <2>1, <2>2, <2>6, <2>10, NearChildGoesUp, Zenon
  <2>12. v.kid[o][p] = near
    BY <2>11, Zenon DEF NearUp, Pair
  <2> QED BY <2>11, <2>12 DEF NearUp
<1> QED BY <1>3, <1>4

LEMMA RestoreTurn ==
  ASSUME NEW u, NEW S, NEW x, NEW p, NEW side, NEW o, NEW w, Pair(u, S, x, p, side, o, w), Lacking(u, S, p, side),
         w \notin u.red, u.kid[o][w] \in u.red, NEW v, v = Restore(u, side, x)
  PROVE  SiblingRestores(u, v, S, p, w)
<1>1. side \in Sides /\ o \in Sides /\ w \in S /\ p \in S /\ w # p /\ p = u.parent[x] /\ o = Other(side) /\ w = u.kid[o][p]
  BY Zenon DEF Pair
<1>2. u \in TreeRecords /\ S \subseteq Nodes /\ Linked(u, S)
  BY NodeFacts DEF Lacking, Grown
<1>3. PICK far : far = u.kid[o][w]
  BY Zenon
<1>4. far \in Nodes
  BY <1>1, <1>2, <1>3 DEF TreeRecords
<1>5. PICK t1 : t1 = Paint(u, w, p \in u.red)
  OBVIOUS
<1>6. PICK t2 : t2 = Paint(t1, p, FALSE)
  OBVIOUS
<1>7. PICK t : t = Paint(t2, far, FALSE)
  OBVIOUS
<1>8. v = Rotate(t, side, p)
  BY <1>1, <1>3, <1>5, <1>6, <1>7, Zenon DEF Restore
<1>9. PICK r1 : r1 = IF p \in u.red THEN u.red \cup {w} ELSE u.red \ {w}
  OBVIOUS
<1>10. Painted(u, t1, r1)
  BY <1>1, <1>2, <1>5, <1>9, PaintLike, Zenon
<1>11. t1 \in TreeRecords /\ t1.red = r1
  BY <1>10, Zenon DEF Painted
<1>12. Painted(t1, t2, t1.red \ {p})
  BY <1>1, <1>2, <1>6, <1>11, PaintBlack
<1>13. t2 \in TreeRecords /\ t2.red = r1 \ {p}
  BY <1>11, <1>12 DEF Painted
<1>14. Painted(t2, t, t2.red \ {far})
  BY <1>4, <1>7, <1>13, PaintBlack
<1>15. Painted(u, t, t2.red \ {far})
  BY <1>10, <1>12, <1>14, PaintedTwice
<1>16. Painted(u, t, (r1 \ {p}) \ {far})
  BY <1>13, <1>15
<1>17. PICK r : r = (r1 \ {p}) \ {far}
  OBVIOUS
<1> QED BY <1>3, <1>8, <1>9, <1>16, <1>17, RestoreKeeps, Zenon

LEMMA NotBothTurn ==
  ASSUME NEW u, NEW S, NEW x, NEW p, NEW side, NEW o, NEW w0, Pair(u, S, x, p, side, o, w0), Lacking(u, S, p, side),
         NEW v, v = BlackSibling(u, side, x), NEW w, w = v.kid[o][p],
         ~(Left(v, w) \notin v.red /\ Right(v, w) \notin v.red),
         NEW top, top = Left(u, Root)
  PROVE  Repairs(u, Restore(RedFarChild(v, side, x), side, x), S, top, top)
<1>1. /\ Pair(v, S, x, p, side, o, w) /\ Lacking(v, S, p, side) /\ w \notin v.red
      /\ v.red \subseteq u.red \cup {p} /\ v.size = u.size /\ TopKept(u, v, p) /\ KidFrame(u, v, S)
  BY BlackSiblingKeeps
<1>2. PICK f : f = RedFarChild(v, side, x)
  OBVIOUS
<1>3. PICK wf : wf = f.kid[o][p]
  BY Zenon
<1>4. /\ Pair(f, S, x, p, side, o, wf) /\ Lacking(f, S, p, side) /\ wf \notin f.red
      /\ f.kid[o][wf] \in f.red /\ f.size = v.size
      /\ Left(f, Root) = Left(v, Root) /\ KidFrame(v, f, S)
  BY <1>1, <1>2, <1>3, FarTurn
<1>5. PICK t : t = Restore(f, side, x)
  OBVIOUS
<1>6. SiblingRestores(f, t, S, p, wf)
  BY <1>4, <1>5, RestoreTurn, Zenon
<1>7. /\ RedBlack(t, S, Nil) /\ t.size = u.size /\ t.red \subseteq (f.red \cup {wf}) \ {p}
      /\ KidFrame(u, t, S)
  BY <1>1, <1>4, <1>6 DEF SiblingRestores, KidFrame
<1>8. t \in TreeRecords /\ S \in SUBSET Keys
  BY <1>7 DEF RedBlack, Grown
<1>9. top \notin t.red /\ top \in Nodes
  <2>1. u \in TreeRecords /\ Linked(u, S) /\ f \in TreeRecords /\ Linked(f, S) /\ Coloured(f, S, Nil)
    BY <1>4 DEF Lacking, Grown
  <2>2. top \in Nodes
    BY <2>1, NodeFacts DEF Left, TreeRecords
  <2>3. CASE top = p
    BY <2>2, <2>3, <1>7
  <2>4. CASE top # p
    <3>1. top = Left(f, Root)
      BY <2>4, <1>1, <1>4, Zenon DEF TopKept
    <3>2. top # Nil => top \in S /\ f.parent[top] = Root
      BY <3>1, <2>1, NodeFacts DEF Linked, Left
    <3>3. top \notin f.red
      BY <3>2, <2>1 DEF Coloured
    <3>4. wf \in S /\ f.parent[wf] = p /\ p \in S
      BY <1>4, Zenon DEF Pair
    <3>5. top # wf
      BY <3>2, <3>4, <1>8, NodeFacts
    <3> QED BY <2>2, <3>3, <3>5, <1>7
  <2> QED BY <2>3, <2>4
<1>10. PICK n : n = Paint(t, top, FALSE)
  OBVIOUS
<1>11. Painted(t, n, t.red \ {top})
  BY <1>8, <1>9, <1>10, PaintBlack
<1>12. t.red \ {top} = t.red
  BY <1>9
<1>13. RedBlack(n, S, Nil)
  BY <1>7, <1>11, <1>12, PaintedSame
<1>14. Repair(t, S, top, top)
  BY <1>10, <1>13, Zenon DEF Repair
<1>15. Repairs(u, t, S, top, top)
  BY <1>7, <1>8, <1>9, <1>14 DEF Repairs
<1> QED BY <1>2, <1>5, <1>15

\* One turn of the loop of RemoveFix_.
LEMMA RemoveFixKeeps ==
  ASSUME NEW u, NEW S, NEW x, Short(u, S, x), NEW top, top = Left(u, Root)
  PROVE  LET side == SideOf(u, x)
             v == BlackSibling(u, side, x)
             w == v.kid[Other(side)][v.parent[x]]
             both == Left(v, w) \notin v.red /\ Right(v, w) \notin v.red
         IN  /\ v.parent[x] \in S
             /\ both => Repairs(u, Paint(v, w, TRUE), S, v.parent[x], top)
             /\ ~both => Repairs(u, Restore(RedFarChild(v, side, x), side, x), S, top, top)
<1>1. PICK p, side : p = u.parent[x] /\ side = SideOf(u, x)
  OBVIOUS
<1>2. PICK o : o = Other(side)
  OBVIOUS
<1>3. PICK w0, v : w0 = u.kid[o][p] /\ v = BlackSibling(u, side, x)
  OBVIOUS
<1>4. PICK w : w = v.kid[o][p]
  OBVIOUS
<1>5. Pair(u, S, x, p, side, o, w0) /\ Lacking(u, S, p, side)
  BY <1>1, <1>2, <1>3, ShortPair, Zenon
<1>6. v.parent[x] = p /\ p \in S
  <2>1. Pair(v, S, x, p, side, o, w)
    BY <1>3, <1>4, <1>5, BlackSiblingKeeps
  <2> QED BY <2>1 DEF Pair
<1>7. Left(v, w) \notin v.red /\ Right(v, w) \notin v.red => Repairs(u, Paint(v, w, TRUE), S, p, top)
  BY <1>3, <1>4, <1>5, BothTurn, Zenon
<1>8. ~(Left(v, w) \notin v.red /\ Right(v, w) \notin v.red) =>
        Repairs(u, Restore(RedFarChild(v, side, x), side, x), S, top, top)
  BY <1>3, <1>4, <1>5, NotBothTurn, Zenon
<1> QED BY <1>1, <1>2, <1>3, <1>4, <1>6, <1>7, <1>8, Zenon

-----------------------------------------------------------------------------
(***************************************************************************)
(* Walks.  A walk over D goes from n to next[n] until it is in stop; with  *)
(* every step the rank falls, so it ends.                                  *)
(***************************************************************************)
WalkEquation(f, D, next, stop, val) ==
  f = [n \in D |-> IF n \in stop THEN val[n] ELSE f[next[n]]]

Falls(D, next, stop, rank, L) ==
  /\ rank \in [D -> 0..L]
  /\ \A n \in D \ stop : next[n] \in D /\ rank[next[n]] < rank[n]

LEMMA WalkExists ==
  ASSUME NEW D, NEW next, NEW stop, NEW V, NEW val, \A n \in D : val[n] \in V,
         NEW L \in Nat, NEW rank, Falls(D, next, stop, rank, L)
  PROVE  \E f \in [D -> V] : WalkEquation(f, D, next, stop, val)
<1>1. rank \in [D -> 0..L] /\ \A n \in D \ stop : next[n] \in D /\ rank[next[n]] < rank[n]
  BY DEF Falls
<1> DEFINE Good(f, r) == \A n \in D : rank[n] < r => f[n] = IF n \in stop THEN val[n] ELSE f[next[n]]
           P == {r \in Nat : \E f \in [D -> V] : Good(f, r)}
<1>2. 0 \in P
  <2>1. [n \in D |-> val[n]] \in [D -> V]
    OBVIOUS
  <2>2. Good([n \in D |-> val[n]], 0)
    BY <1>1
  <2> HIDE DEF Good
  <2> QED BY <2>1, <2>2
<1>3. ASSUME NEW r \in P, r < L + 1 PROVE r + 1 \in P
  <2>1. r \in Nat /\ \E f \in [D -> V] : Good(f, r)
    <3> HIDE DEF Good
    <3> QED BY <1>3
  <2>2. PICK f \in [D -> V] : Good(f, r)
    BY <2>1
  <2> DEFINE h == [n \in D |-> IF rank[n] = r THEN (IF n \in stop THEN val[n] ELSE f[next[n]]) ELSE f[n]]
  <2>3. h \in [D -> V]
    BY <1>1
  <2>4. \A n \in D : /\ rank[n] = r => h[n] = IF n \in stop THEN val[n] ELSE f[next[n]]
                     /\ rank[n] # r => h[n] = f[n]
    OBVIOUS
  <2> HIDE DEF h
  <2>5. ASSUME NEW n \in D, rank[n] < r + 1 PROVE h[n] = IF n \in stop THEN val[n] ELSE h[next[n]]
    <3>1. rank[n] \in Nat /\ (rank[n] = r \/ rank[n] < r)
      BY <1>1, <2>1, <2>5
    <3>2. n \notin stop => next[n] \in D /\ rank[next[n]] \in Nat /\ rank[next[n]] < rank[n]
      BY <1>1
    <3>3. n \notin stop => h[next[n]] = f[next[n]]
      BY <3>1, <3>2, <2>1, <2>4
    <3>4. CASE rank[n] = r
      BY <3>3, <3>4, <2>4
    <3>5. CASE rank[n] < r
      <4>1. h[n] = f[n] /\ f[n] = IF n \in stop THEN val[n] ELSE f[next[n]]
        BY <3>1, <3>5, <2>1, <2>2, <2>4
      <4> QED BY <4>1, <3>3
    <3> QED BY <3>1, <3>4, <3>5
  <2>6. Good(h, r + 1) /\ r + 1 \in Nat
    BY <2>1, <2>5
  <2> HIDE DEF Good
  <2> QED BY <2>3, <2>6
<1>4. P \in SUBSET Nat /\ L + 1 \in Nat
  OBVIOUS
<1>5. L + 1 \in P
  <2> HIDE DEF P
  <2>1. 0..(L + 1) \subseteq P
    BY <1>2, <1>3, <1>4, UpTo
  <2> QED BY <2>1, <1>4
<1>6. PICK f \in [D -> V] : Good(f, L + 1)
  <2> HIDE DEF Good
  <2> QED BY <1>5
<1>7. \A n \in D : f[n] = IF n \in stop THEN val[n] ELSE f[next[n]]
  BY <1>1, <1>6
<1>8. f = [n \in D |-> IF n \in stop THEN val[n] ELSE f[next[n]]]
  BY <1>7
<1> QED BY <1>6, <1>8, Zenon DEF WalkEquation

\* It ends in every set it does not leave.
LEMMA WalkEnds ==
  ASSUME NEW D, NEW next, NEW stop, NEW val, NEW L \in Nat, NEW rank, Falls(D, next, stop, rank, L),
         NEW f, WalkEquation(f, D, next, stop, val),
         NEW Part \in SUBSET D, \A n \in Part \ stop : next[n] \in Part, NEW n0 \in Part
  PROVE  \E m \in Part \cap stop : f[n0] = val[m]
<1>1. rank \in [D -> 0..L] /\ \A n \in D \ stop : next[n] \in D /\ rank[next[n]] < rank[n]
  BY DEF Falls
<1>2. \A n \in D : f[n] = IF n \in stop THEN val[n] ELSE f[next[n]]
  <2>1. f = [n \in D |-> IF n \in stop THEN val[n] ELSE f[next[n]]]
    BY Zenon DEF WalkEquation
  <2> DEFINE g == [n \in D |-> IF n \in stop THEN val[n] ELSE f[next[n]]]
  <2>2. \A n \in D : g[n] = IF n \in stop THEN val[n] ELSE f[next[n]]
    OBVIOUS
  <2>3. f = g
    BY <2>1
  <2> HIDE DEF g
  <2> QED BY <2>2, <2>3
<1> DEFINE Ends(n) == \E m \in Part \cap stop : f[n] = val[m]
           P == {r \in Nat : \A n \in Part : rank[n] < r => Ends(n)}
<1>3. 0 \in P
  BY <1>1
<1>4. ASSUME NEW r \in P, r < L + 1 PROVE r + 1 \in P
  <2>1. r \in Nat /\ \A n \in Part : rank[n] < r => Ends(n)
    <3> HIDE DEF Ends
    <3> QED BY <1>4
  <2>2. ASSUME NEW n \in Part, rank[n] < r + 1 PROVE Ends(n)
    <3>1. CASE n \in stop
      BY <3>1, <1>2
    <3>2. CASE n \notin stop
      <4>1. next[n] \in Part /\ next[n] \in D /\ rank[next[n]] < rank[n] /\ rank[n] \in Nat /\ rank[next[n]] \in Nat
        BY <3>2, <1>1
      <4>2. Ends(next[n])
        <5> HIDE DEF Ends
        <5> QED BY <4>1, <2>1, <2>2
      <4>3. f[n] = f[next[n]]
        BY <3>2, <1>2
      <4> QED BY <4>2, <4>3
    <3> QED BY <3>1, <3>2
  <2> HIDE DEF Ends
  <2> QED BY <2>1, <2>2
<1>5. P \in SUBSET Nat /\ L + 1 \in Nat
  OBVIOUS
<1>6. L + 1 \in P
  <2> HIDE DEF P
  <2>1. 0..(L + 1) \subseteq P
    BY <1>3, <1>4, <1>5, UpTo
  <2> QED BY <2>1, <1>5
<1> HIDE DEF Ends
<1>7. rank[n0] < L + 1
  BY <1>1
<1>8. Ends(n0)
  BY <1>6, <1>7
<1> QED BY <1>8 DEF Ends

-----------------------------------------------------------------------------
(***************************************************************************)
(* The way down and the way up.                                            *)
(***************************************************************************)
\* A number that grows on every way up.
Ranked(u, S, L, rank) ==
  L \in Nat /\ rank \in [Nodes -> 0..L] /\ \A n \in S : rank[n] < rank[u.parent[n]]

LEMMA FinitePart ==
  ASSUME NEW S \in SUBSET Keys
  PROVE  IsFiniteSet(S) /\ Cardinality(S) \in Nat
BY KeysAssumption, FS_Subset, FS_CardinalityType

LEMMA RanksExist ==
  ASSUME NEW u \in TreeRecords, NEW S \in SUBSET Keys, Linked(u, S), NEW sub, Searchable(u, S, sub)
  PROVE  \E L, rank : Ranked(u, S, L, rank)
<1> DEFINE L == Cardinality(S) + 1
           rank == [n \in Nodes |-> IF n = Root THEN L ELSE Cardinality(sub[n])]
<1>1. IsFiniteSet(S) /\ Cardinality(S) \in Nat /\ L \in Nat
  BY FinitePart
<1>2. ASSUME NEW n \in Nodes PROVE IsFiniteSet(sub[n]) /\ Cardinality(sub[n]) \in 0..Cardinality(S)
  <2>1. sub[n] \in SUBSET S
    BY DEF Searchable
  <2>2. IsFiniteSet(sub[n]) /\ Cardinality(sub[n]) \in Nat /\ Cardinality(sub[n]) <= Cardinality(S)
    BY <2>1, <1>1, FS_Subset, FS_CardinalityType
  <2> QED BY <2>2, <1>1
<1>3. rank \in [Nodes -> 0..L]
  BY <1>1, <1>2
<1>4. ASSUME NEW n \in S PROVE rank[n] < rank[u.parent[n]]
  <2>1. PICK p : p = u.parent[n]
    OBVIOUS
  <2>2. UpNode(u, S, sub, n, p)
    BY <2>1, UpNodes
  <2>3. n \in Nodes /\ p \in Nodes /\ n # Root
    BY <2>2 DEF UpNode
  <2>4. rank[n] = Cardinality(sub[n]) /\ rank[p] = IF p = Root THEN L ELSE Cardinality(sub[p])
    BY <2>3
  <2> HIDE DEF rank
  <2> SUFFICES rank[n] < rank[p]
    BY <2>1
  <2>5. CASE p = Root
    <3>1. Cardinality(sub[n]) \in 0..Cardinality(S)
      BY <2>3, <1>2
    <3> QED BY <2>4, <2>5, <3>1, <1>1
  <2>6. CASE p # Root
    <3>1. p \in sub[p] /\ p \notin sub[n] /\ sub[n] \subseteq sub[p]
      BY <2>2, <2>6 DEF UpNode
    <3>2. Cardinality(sub[n]) < Cardinality(sub[p])
      <4>1. Cardinality(sub[n]) <= Cardinality(sub[p]) /\ (Cardinality(sub[n]) = Cardinality(sub[p]) => sub[n] = sub[p])
        BY <3>1, <2>3, <1>2, FS_Subset
      <4> QED BY <4>1, <3>1, <2>3, <1>2
    <3> QED BY <3>2, <2>4, <2>6
  <2> QED BY <2>5, <2>6
<1> HIDE DEF rank, L
<1>5. Ranked(u, S, L, rank)
  BY <1>1, <1>3, <1>4 DEF Ranked
<1> QED BY <1>5

LEMMA LowestRanked ==
  ASSUME NEW u, NEW S, NEW L, NEW rank, Ranked(u, S, L, rank), NEW X \in SUBSET Nodes, X # {}
  PROVE  \E x \in X : \A y \in X : rank[x] <= rank[y]
<1> DEFINE R == {rank[x] : x \in X}
<1>1. R \in SUBSET Nat /\ R # {}
  BY DEF Ranked
<1>2. Min(R) \in R /\ \A y \in R : Min(R) <= y
  <2> HIDE DEF R
  <2> QED BY <1>1, LeastNumber
<1>3. PICK x \in X : rank[x] = Min(R)
  BY <1>2
<1> QED BY <1>2, <1>3

\* A child of a node is ranked lower.
LEMMA KidRanked ==
  ASSUME NEW u \in TreeRecords, NEW S \in SUBSET Keys, Linked(u, S),
         NEW L, NEW rank, Ranked(u, S, L, rank), NEW n \in S \cup {Root}, NEW side \in Sides, u.kid[side][n] # Nil
  PROVE  u.kid[side][n] \in S /\ u.parent[u.kid[side][n]] = n /\ rank[u.kid[side][n]] < rank[n]
BY Zenon DEF Linked, Ranked

\* What is below a node that is below d, is below d.
LEMMA BelowBelow ==
  ASSUME NEW u \in TreeRecords, NEW S \in SUBSET Keys, Linked(u, S), NEW sub, Searchable(u, S, sub),
         NEW d \in S, NEW a \in sub[d]
  PROVE  sub[a] \subseteq sub[d]
<1>1. PICK L, rank : Ranked(u, S, L, rank)
  BY RanksExist
<1> DEFINE X == {e \in S : \E b \in sub[e] : ~(sub[b] \subseteq sub[e])}
<1>2. SUFFICES ASSUME X # {} PROVE FALSE
  OBVIOUS
<1>3. PICK e \in X : \A y \in X : rank[e] <= rank[y]
  <2>1. X \in SUBSET Nodes
    BY NodeFacts
  <2> HIDE DEF X
  <2> QED BY <1>1, <1>2, <2>1, LowestRanked
<1>4. PICK b \in sub[e] : ~(sub[b] \subseteq sub[e])
  BY <1>3
<1>5. e \in S /\ sub[e] = {e} \cup sub[Left(u, e)] \cup sub[Right(u, e)]
  BY <1>3 DEF Searchable
<1>6. b # e
  BY <1>4, Zenon
<1>7. PICK way \in Sides : b \in sub[u.kid[way][e]]
  BY <1>4, <1>5, <1>6 DEF Left, Right, Sides
<1>8. PICK c : c = u.kid[way][e]
  BY Zenon
<1>9. sub[c] \subseteq sub[e] /\ c # Nil
  BY <1>5, <1>7, <1>8 DEF Left, Right, Sides, Searchable
<1>10. c \in S /\ rank[c] < rank[e]
  BY <1>1, <1>5, <1>8, <1>9, KidRanked
<1>11. rank[c] \in Int /\ rank[e] \in Int
  BY <1>1, <1>5, <1>10, NodeFacts DEF Ranked
<1>12. c \notin X
  BY <1>3, <1>10, <1>11
<1>13. sub[b] \subseteq sub[c]
  BY <1>7, <1>8, <1>10, <1>12
<1> QED BY <1>4, <1>9, <1>13

\* The parent of a node below d is below d.
LEMMA ParentBelow ==
  ASSUME NEW u \in TreeRecords, NEW S \in SUBSET Keys, Linked(u, S), NEW sub, Searchable(u, S, sub),
         NEW d \in S, NEW c \in sub[d], c # d
  PROVE  u.parent[c] \in sub[d]
<1>1. PICK L, rank : Ranked(u, S, L, rank)
  BY RanksExist
<1> DEFINE X == {e \in S : c \in sub[e] /\ c # e /\ u.parent[c] \notin sub[e]}
<1>2. SUFFICES ASSUME X # {} PROVE FALSE
  OBVIOUS
<1>3. PICK e \in X : \A y \in X : rank[e] <= rank[y]
  <2>1. X \in SUBSET Nodes
    BY NodeFacts
  <2> HIDE DEF X
  <2> QED BY <1>1, <1>2, <2>1, LowestRanked
<1>5. e \in S /\ sub[e] = {e} \cup sub[Left(u, e)] \cup sub[Right(u, e)] /\ c \in sub[e] /\ c # e /\ u.parent[c] \notin sub[e]
  BY <1>3 DEF Searchable
<1>7. PICK way \in Sides : c \in sub[u.kid[way][e]]
  BY <1>5, Zenon DEF Left, Right, Sides
<1>8. PICK b : b = u.kid[way][e]
  BY Zenon
<1>9. sub[b] \subseteq sub[e] /\ b # Nil
  BY <1>5, <1>7, <1>8, Zenon DEF Left, Right, Sides, Searchable
<1>10. b \in S /\ u.parent[b] = e /\ rank[b] < rank[e]
  BY <1>1, <1>5, <1>8, <1>9, KidRanked
<1>11. rank[b] \in Int /\ rank[e] \in Int
  BY <1>1, <1>5, <1>10, NodeFacts DEF Ranked
<1>12. b \notin X
  BY <1>3, <1>10, <1>11
<1>13. b # c
  BY <1>5, <1>10
<1>14. u.parent[c] \in sub[b]
  BY <1>7, <1>8, <1>10, <1>12, <1>13
<1> QED BY <1>5, <1>9, <1>14

\* A tree whose unused nodes have no children.
Tidy(u, S) == Grown(u, S) /\ \A k \in Keys \ S, side \in Sides : u.kid[side][k] = Nil

LEMMA TidyParts ==
  ASSUME NEW u, NEW S, Tidy(u, S)
  PROVE  /\ u \in TreeRecords /\ S \in SUBSET Keys /\ Linked(u, S)
         /\ \E sub : Searchable(u, S, sub)
         /\ \A k \in Keys \ S, side \in Sides : u.kid[side][k] = Nil
         /\ \A n \in Nodes, side \in Sides : u.kid[side][n] \in Nodes
         /\ \A n \in Nodes, side \in Sides : u.kid[side][n] # Nil =>
              n \in S \cup {Root} /\ u.kid[side][n] \in S /\ u.parent[u.kid[side][n]] = n
<1>1. /\ u \in TreeRecords /\ S \in SUBSET Keys /\ Linked(u, S) /\ \E sub : Searchable(u, S, sub)
      /\ \A k \in Keys \ S, side \in Sides : u.kid[side][k] = Nil
  BY DEF Tidy, Grown
<1>2. ASSUME NEW n \in Nodes, NEW side \in Sides, u.kid[side][n] # Nil
      PROVE n \in S \cup {Root} /\ u.kid[side][n] \in S /\ u.parent[u.kid[side][n]] = n
  <2>1. n # Nil
    BY <1>1, <1>2 DEF Linked, Left, Right, Sides
  <2>2. n \in S \cup {Root}
    BY <1>1, <1>2, <2>1 DEF Nodes
  <2> QED BY <1>1, <1>2, <2>2, Zenon DEF Linked
<1>3. \A n \in Nodes, side \in Sides : u.kid[side][n] \in Nodes
  BY <1>1 DEF TreeRecords
<1> QED BY <1>1, <1>2, <1>3

Self == [n \in Nodes |-> n]

DescendTurns(f, u, k) ==
  f = [n \in Nodes |-> LET next == IF n = Root \/ k < n THEN Left(u, n) ELSE Right(u, n)
                       IN  IF n = k \/ next = Nil THEN n ELSE f[next]]

DescendNext(u, k) == [n \in Nodes |-> IF n = Root \/ k < n THEN Left(u, n) ELSE Right(u, n)]
DescendStop(u, k) == {n \in Nodes : n = k \/ DescendNext(u, k)[n] = Nil}

LEMMA DescendEquation ==
  ASSUME NEW u, NEW k, NEW f
  PROVE  DescendTurns(f, u, k) <=> WalkEquation(f, Nodes, DescendNext(u, k), DescendStop(u, k), Self)
<1> DEFINE nx(n) == IF n = Root \/ k < n THEN Left(u, n) ELSE Right(u, n)
           g == [n \in Nodes |-> IF n = k \/ nx(n) = Nil THEN n ELSE f[nx(n)]]
           next == DescendNext(u, k)
           stop == DescendStop(u, k)
           h == [n \in Nodes |-> IF n \in stop THEN Self[n] ELSE f[next[n]]]
<1>1. DescendTurns(f, u, k) <=> f = g
  BY Zenon DEF DescendTurns
<1>2. WalkEquation(f, Nodes, next, stop, Self) <=> f = h
  BY Zenon DEF WalkEquation
<1>3. ASSUME NEW n \in Nodes PROVE g[n] = h[n]
  <2>1. next[n] = nx(n)
    BY DEF DescendNext
  <2>2. n \in stop <=> n = k \/ nx(n) = Nil
    <3>1. stop = {m \in Nodes : m = k \/ next[m] = Nil}
      BY Zenon DEF DescendStop
    <3> HIDE DEF stop, next, nx
    <3> QED BY <2>1, <3>1
  <2>3. g[n] = IF n = k \/ nx(n) = Nil THEN n ELSE f[nx(n)]
    BY Zenon
  <2>4. h[n] = IF n \in stop THEN Self[n] ELSE f[next[n]]
    BY Zenon
  <2>5. Self[n] = n
    BY DEF Self
  <2> HIDE DEF nx, g, h, next, stop
  <2> QED BY <2>1, <2>2, <2>3, <2>4, <2>5
<1>4. g = h
  <2>1. g = [n \in Nodes |-> g[n]] /\ h = [n \in Nodes |-> h[n]]
    OBVIOUS
  <2> HIDE DEF g, h
  <2> QED BY <1>3, <2>1
<1> QED BY <1>1, <1>2, <1>4, Zenon

LEMMA DescendFalls ==
  ASSUME NEW u, NEW S, Tidy(u, S), NEW k \in Keys, NEW L, NEW rank, Ranked(u, S, L, rank)
  PROVE  Falls(Nodes, DescendNext(u, k), DescendStop(u, k), rank, L)
<1> DEFINE next == DescendNext(u, k)
           stop == DescendStop(u, k)
<1>1. rank \in [Nodes -> 0..L]
  BY DEF Ranked
<1>2. ASSUME NEW n \in Nodes \ stop PROVE next[n] \in Nodes /\ rank[next[n]] < rank[n]
  <2>1. n \in Nodes /\ next[n] # Nil
    BY DEF DescendStop
  <2>2. PICK side \in Sides : next[n] = u.kid[side][n]
    BY <2>1 DEF DescendNext, Left, Right, Sides
  <2>3. PICK c : c = u.kid[side][n]
    OBVIOUS
  <2>4. c \in Nodes /\ c \in S /\ u.parent[c] = n
    BY <2>1, <2>2, <2>3, TidyParts
  <2>5. rank[c] < rank[n]
    BY <2>4 DEF Ranked
  <2> QED BY <2>2, <2>3, <2>4, <2>5
<1> HIDE DEF next, stop
<1> QED BY <1>1, <1>2 DEF Falls, next, stop

\* The search ends in every set it does not leave.
LEMMA DescendEnds ==
  ASSUME NEW u, NEW S, Tidy(u, S), NEW k \in Keys, NEW Part \in SUBSET Nodes, Root \in Part,
         \A n \in Part \ DescendStop(u, k) : DescendNext(u, k)[n] \in Part
  PROVE  Descend(u, k) \in Part \cap DescendStop(u, k)
<1> DEFINE next == DescendNext(u, k)
           stop == DescendStop(u, k)
           F == CHOOSE f : DescendTurns(f, u, k)
<1>1. u \in TreeRecords /\ S \in SUBSET Keys /\ Linked(u, S) /\ \E sub : Searchable(u, S, sub)
  BY TidyParts
<1>2. PICK sub : Searchable(u, S, sub)
  BY <1>1
<1>3. PICK L, rank : Ranked(u, S, L, rank)
  BY <1>1, <1>2, RanksExist
<1>4. Falls(Nodes, next, stop, rank, L) /\ L \in Nat
  BY <1>3, DescendFalls DEF Ranked
<1>5. \A n \in Nodes : Self[n] = n
  BY DEF Self
<1>6. \E f : WalkEquation(f, Nodes, next, stop, Self)
  <2> HIDE DEF next, stop
  <2>0. \A n \in Nodes : Self[n] \in Nodes
    BY <1>5
  <2>1. \E f \in [Nodes -> Nodes] : WalkEquation(f, Nodes, next, stop, Self)
    BY <1>4, <2>0, WalkExists
  <2> QED BY <2>1
<1>7. \E f : DescendTurns(f, u, k)
  BY <1>6, DescendEquation, Zenon
<1>8. DescendTurns(F, u, k)
  BY <1>7, Zenon
<1>9. Descend(u, k) = F[Root]
  BY Zenon DEF Descend, DescendTurns
<1>10. WalkEquation(F, Nodes, next, stop, Self)
  BY <1>8, DescendEquation, Zenon
<1> HIDE DEF F, next, stop
<1>11. \E m \in Part \cap stop : F[Root] = Self[m]
  <2>1. \A n \in Part \ stop : next[n] \in Part
    BY DEF next, stop
  <2> QED BY <1>4, <1>10, <2>1, WalkEnds
<1>12. PICK m \in Part \cap stop : F[Root] = Self[m]
  BY <1>11
<1>13. F[Root] = m
  BY <1>5, <1>12
<1> QED BY <1>9, <1>12, <1>13 DEF stop

\* One step of the search.
LEMMA DescendStep ==
  ASSUME NEW u, NEW S, Tidy(u, S), NEW k \in Keys, NEW n \in S \cup {Root}, n # k
  PROVE  \E side \in Sides : /\ DescendNext(u, k)[n] = u.kid[side][n] /\ (n = Root => side = "left")
                             /\ (n # Root => Before(side, k, n))
                             /\ side = IF n = Root \/ k < n THEN "left" ELSE "right"
                             /\ (n \in DescendStop(u, k) <=> u.kid[side][n] = Nil)
<1> DEFINE side == IF n = Root \/ k < n THEN "left" ELSE "right"
<1>1. S \in SUBSET Keys
  BY TidyParts
<1>2. n \in Nodes /\ n \in Int /\ k \in Int
  BY <1>1, NodeFacts
<1>3. side \in Sides /\ (n = Root => side = "left") /\ (n # Root => Before(side, k, n))
  BY <1>2 DEF Sides, Before
<1>4. DescendNext(u, k)[n] = u.kid[side][n]
  BY <1>2 DEF DescendNext, Left, Right
<1>5. n \in DescendStop(u, k) <=> DescendNext(u, k)[n] = Nil
  <2>1. DescendStop(u, k) = {m \in Nodes : m = k \/ DescendNext(u, k)[m] = Nil}
    BY Zenon DEF DescendStop
  <2> QED BY <1>2, <2>1
<1>6. side = IF n = Root \/ k < n THEN "left" ELSE "right"
  OBVIOUS
<1> HIDE DEF side
<1> QED BY <1>3, <1>4, <1>5, <1>6

\* RBTreeGet finds every key that is in the tree.
LEMMA SearchFinds ==
  ASSUME NEW u, NEW S, Tidy(u, S), NEW k \in S
  PROVE  Descend(u, k) = k
<1>1. u \in TreeRecords /\ S \in SUBSET Keys /\ Linked(u, S) /\ \E sub : Searchable(u, S, sub)
  BY TidyParts
<1>2. PICK sub : Searchable(u, S, sub)
  BY <1>1
<1> DEFINE Part == {n \in S \cup {Root} : k \in sub[n]}
<1>3. Part \in SUBSET Nodes /\ Root \in Part /\ k \in Keys
  BY <1>1, <1>2, NodeFacts DEF Searchable
<1>4. ASSUME NEW n \in Part, n # k
      PROVE  n \notin DescendStop(u, k) /\ DescendNext(u, k)[n] \in Part
  <2>1. PICK side \in Sides : /\ DescendNext(u, k)[n] = u.kid[side][n] /\ (n = Root => side = "left")
                              /\ (n # Root => Before(side, k, n))
                              /\ (n \in DescendStop(u, k) <=> u.kid[side][n] = Nil)
    BY <1>3, <1>4, DescendStep
  <2>2. k \in sub[u.kid[side][n]]
    <3>1. CASE n = Root
      BY <1>2, <2>1, <3>1 DEF Searchable, Left
    <3>2. CASE n # Root
      <4>1. n \in S /\ k \in sub[n] /\ n \in Int /\ k \in Int
        BY <1>1, <1>3, <3>2, NodeFacts, Zenon
      <4>2. k \in sub[u.kid[side][n]] \/ k \in sub[u.kid[Other(side)][n]]
        BY <4>1, <1>2, <1>4 DEF Searchable, Left, Right, Sides, Other
      <4>3. k \notin sub[u.kid[Other(side)][n]]
        <5> SUFFICES ASSUME k \in sub[u.kid[Other(side)][n]] PROVE FALSE
          BY Zenon
        <5>1. Before(Other(side), k, n)
          BY <4>1, <1>2, NodeFacts, Zenon DEF Searchable
        <5>2. Before(side, n, k) /\ Before(side, k, n)
          BY <5>1, <4>1, <2>1, <3>2, BeforeFacts, Zenon
        <5> QED BY <5>2, <4>1, BeforeFacts
      <4> QED BY <4>2, <4>3
    <3> QED BY <3>1, <3>2
  <2>3. u.kid[side][n] # Nil
    BY <1>2, <2>2 DEF Searchable
  <2>4. u.kid[side][n] \in S
    BY <1>1, <2>3 DEF Linked
  <2> QED BY <2>1, <2>2, <2>3, <2>4, Zenon
<1>5. \A n \in Part \ DescendStop(u, k) : DescendNext(u, k)[n] \in Part
  <2>1. k \in DescendStop(u, k)
    <3>1. DescendStop(u, k) = {m \in Nodes : m = k \/ DescendNext(u, k)[m] = Nil}
      BY Zenon DEF DescendStop
    <3> QED BY <3>1, <1>1, NodeFacts
  <2> HIDE DEF Part
  <2> QED BY <1>4, <2>1
<1>6. Descend(u, k) \in Part \cap DescendStop(u, k)
  <2> HIDE DEF Part
  <2> QED BY <1>3, <1>5, DescendEnds
<1> HIDE DEF Part
<1> QED BY <1>4, <1>6

\* Where a key that is not in the tree would be.
FreePlace(u, S, sub, k, y, side) ==
  /\ y \in S \cup {Root} /\ side \in Sides /\ u.kid[side][y] = Nil
  /\ (y = Root => side = "left") /\ (y \in S => Before(side, k, y))
  /\ \A m \in S, way \in Sides : y \in sub[u.kid[way][m]] => Before(way, k, m)

LEMMA SearchFails ==
  ASSUME NEW u, NEW S, Tidy(u, S), NEW k \in Keys \ S, NEW sub, Searchable(u, S, sub),
         NEW y, y = Descend(u, k), NEW side, side = IF y = Root \/ k < y THEN "left" ELSE "right"
  PROVE  FreePlace(u, S, sub, k, y, side)
<1>1. u \in TreeRecords /\ S \in SUBSET Keys /\ Linked(u, S)
  BY TidyParts
<1> DEFINE Part == {n \in S \cup {Root} : \A m \in S, way \in Sides : n \in sub[u.kid[way][m]] => Before(way, k, m)}
<1>2. ASSUME NEW m \in S, NEW way \in Sides PROVE sub[u.kid[way][m]] \subseteq S
  <2>1. m \in Nodes
    BY <1>1, NodeFacts
  <2>2. u.kid[way][m] \in Nodes
    BY <2>1, TidyParts
  <2>3. sub \in [Nodes -> SUBSET S]
    BY DEF Searchable
  <2> QED BY <2>2, <2>3
<1>3. Part \in SUBSET Nodes /\ Root \in Part
  BY <1>1, <1>2, NodeFacts, ZenonT(30)
<1>4. \A n \in Part : n \in S \cup {Root} /\ n # k
  BY <1>1, NodeFacts
<1>5. ASSUME NEW n \in Part \ DescendStop(u, k) PROVE DescendNext(u, k)[n] \in Part
  <2>1. PICK t \in Sides : /\ DescendNext(u, k)[n] = u.kid[t][n]
                           /\ (n # Root => Before(t, k, n)) /\ u.kid[t][n] # Nil
    <3> HIDE DEF Part
    <3> QED BY <1>4, DescendStep
  <2>2. PICK c : c = u.kid[t][n]
    OBVIOUS
  <2>3. c \in S /\ u.parent[c] = n /\ n \in S \cup {Root} /\ c \in Nodes
    BY <1>1, <1>4, <2>1, <2>2, NodeFacts DEF Linked
  <2>4. ASSUME NEW m \in S, NEW way \in Sides, c \in sub[u.kid[way][m]] PROVE Before(way, k, m)
    <3>1. PICK d : d = u.kid[way][m]
      OBVIOUS
    <3>2. d # Nil
      BY <2>4, <3>1 DEF Searchable
    <3>3. KidNode(u, S, sub, m, way, d)
      BY <1>1, <3>1, <3>2, KidNodes, Zenon
    <3>4. d \in S /\ u.parent[d] = m /\ c \in sub[d]
      BY <3>1, <3>3, <2>4 DEF KidNode
    <3>5. CASE c = d
      <4>1. n = m /\ n # Root /\ n \in S
        BY <1>1, <3>4, <3>5, <2>3, NodeFacts
      <4>2. t = way
        <5>1. d = u.kid[t][m]
          BY <4>1, <3>5, <2>2
        <5>2. d # u.kid[Other(way)][m]
          BY <3>3 DEF KidNode
        <5> QED BY <5>1, <5>2, NodeFacts
      <4> QED BY <4>1, <4>2, <2>1
    <3>6. CASE c # d
      <4>1. n \in sub[d]
        BY <1>1, <2>3, <3>4, <3>6, ParentBelow
      <4> QED BY <4>1, <3>1
    <3> QED BY <3>5, <3>6, Zenon
  <2>5. c \in Part
    BY <2>3, <2>4
  <2> HIDE DEF Part
  <2> QED BY <2>1, <2>2, <2>5
<1>6. y \in Part \cap DescendStop(u, k)
  <2> HIDE DEF Part
  <2> QED BY <1>3, <1>5, DescendEnds
<1>7. PICK t \in Sides : /\ (y = Root => t = "left") /\ (y # Root => Before(t, k, y))
                         /\ t = IF y = Root \/ k < y THEN "left" ELSE "right"
                         /\ (y \in DescendStop(u, k) <=> u.kid[t][y] = Nil)
  <2> HIDE DEF Part
  <2> QED BY <1>4, <1>6, DescendStep
<1>8. t = side
  BY <1>7
<1>9. y \in S => y # Root
  BY <1>1, NodeFacts
<1>10. \A m \in S, way \in Sides : y \in sub[u.kid[way][m]] => Before(way, k, m)
  BY <1>6
<1>11. y \in S \cup {Root} /\ y \in DescendStop(u, k)
  BY <1>6
<1> HIDE DEF Part
<1> QED BY <1>7, <1>8, <1>9, <1>10, <1>11 DEF FreePlace

LEMMA HasExactly ==
  ASSUME NEW u, NEW S, Tidy(u, S)
  PROVE  {k \in Keys : Has(u, k)} = S
<1>1. S \in SUBSET Keys /\ \E sub : Searchable(u, S, sub)
  BY TidyParts
<1>2. PICK sub : Searchable(u, S, sub)
  BY <1>1
<1>3. ASSUME NEW k \in S PROVE Has(u, k)
  BY SearchFinds DEF Has
<1>4. ASSUME NEW k \in Keys \ S PROVE ~Has(u, k)
  <2>1. PICK y : y = Descend(u, k)
    OBVIOUS
  <2>2. PICK side : side = IF y = Root \/ k < y THEN "left" ELSE "right"
    OBVIOUS
  <2>3. FreePlace(u, S, sub, k, y, side)
    BY <1>2, <2>1, <2>2, SearchFails
  <2>4. y \in S \cup {Root}
    BY <2>3 DEF FreePlace
  <2>5. y # k
    BY <2>4, NodeFacts
  <2> QED BY <2>1, <2>5 DEF Has
<1> QED BY <1>1, <1>3, <1>4, Zenon

-----------------------------------------------------------------------------
(***************************************************************************)
(* A new node, RBTreePut.                                                  *)
(***************************************************************************)
\* v is u with k as the child of y on side s.
Hung(u, v, k, y, side) ==
  /\ v \in TreeRecords /\ v.size = u.size /\ v.red = u.red \cup {k}
  /\ \A n \in Nodes : v.parent[n] = IF n = k THEN y ELSE u.parent[n]
  /\ \A way \in Sides, n \in Nodes : v.kid[way][n] = IF way = side /\ n = y THEN k ELSE u.kid[way][n]

LEMMA LinkFields ==
  ASSUME NEW u \in TreeRecords, NEW k \in Keys, NEW y \in Nodes, NEW side \in Sides,
         y = Descend(u, k), side = IF y = Root \/ k < y THEN "left" ELSE "right"
  PROVE  Hung(u, Link(u, k), k, y, side)
<1>1. /\ u.red \in SUBSET Nodes /\ u.parent \in [Nodes -> Nodes]
      /\ u.kid \in [Sides -> [Nodes -> Nodes]] /\ u.size \in Int
      /\ u = [red |-> u.red, parent |-> u.parent, kid |-> u.kid, size |-> u.size]
  BY DEF TreeRecords
<1>2. k \in Nodes
  BY NodeFacts
<1> DEFINE kid == [u.kid EXCEPT ![side][y] = k]
           par == [u.parent EXCEPT ![k] = y]
           red == u.red \cup {k}
<1>3. Link(u, k) = [red |-> red, parent |-> par, kid |-> kid, size |-> u.size]
  <2>1. Link(u, k) = [u EXCEPT !.kid[side][y] = k, !.parent[k] = y, !.red = u.red \cup {k}]
    BY Zenon DEF Link
  <2> QED BY <1>1, <2>1
<1>4. /\ kid \in [Sides -> [Nodes -> Nodes]]
      /\ \A way \in Sides, n \in Nodes : kid[way][n] = IF way = side /\ n = y THEN k ELSE u.kid[way][n]
  BY <1>1, <1>2, Zenon
<1>5. par \in [Nodes -> Nodes] /\ \A n \in Nodes : par[n] = IF n = k THEN y ELSE u.parent[n]
  BY <1>1, <1>2
<1>6. red \in SUBSET Nodes
  BY <1>1, <1>2
<1> HIDE DEF kid, par, red
<1> DEFINE v == [red |-> red, parent |-> par, kid |-> kid, size |-> u.size]
<1>7. v \in TreeRecords /\ v.size = u.size /\ v.red = red /\ v.parent = par /\ v.kid = kid
  <2>1. kid \in [Sides -> [Nodes -> Nodes]] /\ par \in [Nodes -> Nodes] /\ red \in SUBSET Nodes /\ u.size \in Int
    BY <1>1, <1>4, <1>5, <1>6
  <2> QED BY <2>1 DEF TreeRecords
<1>8. v.red = u.red \cup {k}
  BY <1>7 DEF red
<1>9. Link(u, k) = v
  BY <1>3, Zenon
<1> HIDE DEF v
<1> QED BY <1>4, <1>5, <1>7, <1>8, <1>9 DEF Hung

LEMMA HungLinked ==
  ASSUME NEW u, NEW S, Tidy(u, S), NEW k \in Keys \ S, NEW sub, NEW y, NEW side, FreePlace(u, S, sub, k, y, side),
         NEW v, Hung(u, v, k, y, side)
  PROVE  Linked(v, S \cup {k})
<1>1. /\ u \in TreeRecords /\ S \in SUBSET Keys /\ Linked(u, S)
      /\ \A n \in Nodes, way \in Sides : u.kid[way][n] \in Nodes
      /\ \A way \in Sides : u.kid[way][k] = Nil
  BY TidyParts
<1>2. y \in S \cup {Root} /\ side \in Sides /\ u.kid[side][y] = Nil /\ (y = Root => side = "left")
  BY DEF FreePlace
<1>3. /\ k \in Nodes /\ y \in Nodes /\ S \subseteq Nodes /\ Root \in Nodes /\ Nil \in Nodes
      /\ k # Nil /\ k # Root /\ y # k /\ y # Nil /\ Root # Nil /\ Nil \notin S /\ Root \notin S
  BY <1>1, <1>2, NodeFacts
<1>4. /\ \A n \in Nodes : v.parent[n] = IF n = k THEN y ELSE u.parent[n]
      /\ \A way \in Sides, n \in Nodes : v.kid[way][n] = IF way = side /\ n = y THEN k ELSE u.kid[way][n]
  BY DEF Hung
<1>5. ASSUME NEW n \in S \cup {k} \cup {Root}, NEW way \in Sides, v.kid[way][n] # Nil
      PROVE  v.kid[way][n] \in S \cup {k} /\ v.parent[v.kid[way][n]] = n
  <2>1. CASE way = side /\ n = y
    BY <2>1, <1>3, <1>4, Zenon
  <2>2. CASE ~(way = side /\ n = y)
    <3>1. v.kid[way][n] = u.kid[way][n] /\ n # k
      BY <2>2, <1>1, <1>3, <1>4, <1>5
    <3>2. u.kid[way][n] \in S /\ u.parent[u.kid[way][n]] = n
      BY <3>1, <1>1, <1>5 DEF Linked
    <3> QED BY <3>1, <3>2, <1>3, <1>4, Zenon
  <2> QED BY <2>1, <2>2, Zenon
<1>6. ASSUME NEW j \in S \cup {k}
      PROVE  /\ v.parent[j] \in S \cup {k} \cup {Root}
             /\ j = Left(v, v.parent[j]) \/ j = Right(v, v.parent[j])
  <2>1. CASE j = k
    BY <2>1, <1>2, <1>3, <1>4 DEF Left, Right, Sides
  <2>2. CASE j # k
    <3>1. j \in S /\ v.parent[j] = u.parent[j] /\ u.parent[j] \in S \cup {Root}
      BY <2>2, <1>1, <1>3, <1>4, Zenon DEF Linked
    <3>2. PICK way \in Sides : j = u.kid[way][u.parent[j]]
      BY <3>1, <1>1 DEF Linked, Left, Right, Sides
    <3>3. j # Nil
      BY <3>1, <1>3
    <3>4. v.kid[way][u.parent[j]] = j
      BY <3>1, <3>2, <3>3, <1>2, <1>3, <1>4
    <3> QED BY <3>1, <3>4 DEF Left, Right, Sides
  <2> QED BY <2>1, <2>2, Zenon
<1>7. Right(v, Root) = Nil /\ Left(v, Nil) = Nil /\ Right(v, Nil) = Nil
  <2>1. "left" \in Sides /\ "right" \in Sides
    BY NodeFacts
  <2>2. Right(u, Root) = Nil /\ Left(u, Nil) = Nil /\ Right(u, Nil) = Nil
    BY <1>1 DEF Linked
  <2> QED BY <2>1, <2>2, <1>2, <1>3, <1>4 DEF Left, Right
<1>8. v.parent[Root] = Nil
  BY <1>1, <1>3, <1>4 DEF Linked
<1> QED BY <1>5, <1>6, <1>7, <1>8, Zenon DEF Linked

LEMMA HungSearchable ==
  ASSUME NEW u, NEW S, Tidy(u, S), NEW k \in Keys \ S, NEW sub, Searchable(u, S, sub),
         NEW y, NEW side, FreePlace(u, S, sub, k, y, side), NEW v, Hung(u, v, k, y, side)
  PROVE  \E sb : Searchable(v, S \cup {k}, sb)
<1>1. /\ u \in TreeRecords /\ S \in SUBSET Keys /\ Linked(u, S)
      /\ \A n \in Nodes, way \in Sides : u.kid[way][n] \in Nodes
      /\ \A way \in Sides : u.kid[way][k] = Nil
      /\ \A n \in Nodes, way \in Sides : u.kid[way][n] # Nil => u.kid[way][n] \in S
  BY TidyParts
<1>2. /\ y \in S \cup {Root} /\ side \in Sides /\ u.kid[side][y] = Nil /\ (y = Root => side = "left")
      /\ (y \in S => Before(side, k, y))
      /\ \A m \in S, way \in Sides : y \in sub[u.kid[way][m]] => Before(way, k, m)
  BY DEF FreePlace
<1>3. /\ k \in Nodes /\ y \in Nodes /\ S \subseteq Nodes /\ Root \in Nodes /\ Nil \in Nodes
      /\ k # Nil /\ k # Root /\ y # k /\ y # Nil /\ Root # Nil /\ Nil \notin S /\ Root \notin S
      /\ "left" \in Sides /\ "right" \in Sides
  BY <1>1, <1>2, NodeFacts, ZenonT(30)
<1>4. \A way \in Sides, n \in Nodes : v.kid[way][n] = IF way = side /\ n = y THEN k ELSE u.kid[way][n]
  BY DEF Hung
<1>5. /\ sub \in [Nodes -> SUBSET S]
      /\ sub[Nil] = {} /\ sub[Root] = S /\ sub[u.kid["left"][Root]] = S
      /\ \A j \in S : sub[j] = {j} \cup sub[u.kid["left"][j]] \cup sub[u.kid["right"][j]]
      /\ \A j \in S, way \in Sides : \A a \in sub[u.kid[way][j]] : Before(way, a, j)
  BY Zenon DEF Searchable, Left, Right
<1> DEFINE sb == [n \in Nodes |-> IF n = k THEN {k} ELSE IF n = Root \/ y \in sub[n] THEN sub[n] \cup {k} ELSE sub[n]]
<1>6. sb \in [Nodes -> SUBSET (S \cup {k})]
  BY <1>5, Zenon
<1>7. /\ sb[k] = {k} /\ sb[Root] = S \cup {k} /\ sb[Nil] = {}
      /\ \A n \in S : sb[n] = IF y \in sub[n] THEN sub[n] \cup {k} ELSE sub[n]
  BY <1>3, <1>5
<1> HIDE DEF sb
<1>8. sb[v.kid["left"][Root]] = S \cup {k}
  <2>1. CASE y = Root
    <3>1. v.kid["left"][Root] = k /\ S = {}
      BY <2>1, <1>2, <1>3, <1>4, <1>5, Zenon
    <3> QED BY <3>1, <1>7
  <2>2. CASE y # Root
    <3>1. PICK t : t = u.kid["left"][Root]
      BY Zenon
    <3>2. v.kid["left"][Root] = t /\ y \in S /\ sub[t] = S /\ t \in S
      BY <2>2, <3>1, <1>1, <1>2, <1>3, <1>4, <1>5
    <3> QED BY <3>2, <1>7, Zenon
  <2> QED BY <2>1, <2>2
<1>9. ASSUME NEW j \in S, j # y, NEW way \in Sides
      PROVE  sb[v.kid[way][j]] = sub[u.kid[way][j]] \cup (IF y \in sub[u.kid[way][j]] THEN {k} ELSE {})
  <2>1. PICK c : c = u.kid[way][j]
    OBVIOUS
  <2>2. v.kid[way][j] = c /\ (c = Nil \/ c \in S)
    BY <2>1, <1>1, <1>3, <1>4, <1>9
  <2>3. sb[c] = IF y \in sub[c] THEN sub[c] \cup {k} ELSE sub[c]
    <3>1. CASE c = Nil
      <4>1. y \notin sub[c] /\ sub[c] = {} /\ sb[c] = {}
        BY <3>1, <1>5, <1>7
      <4> QED BY <4>1
    <3>2. CASE c \in S
      BY <3>2, <1>7
    <3> QED BY <2>2, <3>1, <3>2
  <2>4. sb[c] = sub[c] \cup (IF y \in sub[c] THEN {k} ELSE {})
    BY <2>3
  <2> QED BY <2>1, <2>2, <2>4
<1>10. ASSUME NEW j \in S \cup {k}
       PROVE  /\ sb[j] = {j} \cup sb[v.kid["left"][j]] \cup sb[v.kid["right"][j]]
              /\ \A way \in Sides : \A a \in sb[v.kid[way][j]] : Before(way, a, j)
  <2>1. CASE j = k
    <3>1. \A way \in Sides : v.kid[way][j] = Nil
      BY <2>1, <1>1, <1>3, <1>4, Zenon
    <3> QED BY <2>1, <3>1, <1>3, <1>7, Zenon
  <2>2. CASE j = y
    <3>1. PICK o, c : o = Other(side) /\ c = u.kid[o][y]
      OBVIOUS
    <3>2. o \in Sides /\ o # side /\ (\A way \in Sides : way = side \/ way = o)
      BY <3>1, <1>2, NodeFacts
    <3>3. v.kid[side][y] = k /\ v.kid[o][y] = c /\ y \in S
      BY <2>2, <3>1, <3>2, <1>2, <1>3, <1>4
    <3>4. sub[y] = {y} \cup sub[c]
      <4>1. sub[y] = {y} \cup sub[u.kid[side][y]] \cup sub[u.kid[o][y]]
        BY <3>1, <3>3, <1>2, <1>5, Zenon DEF Sides, Other
      <4> QED BY <4>1, <3>1, <1>2, <1>5
    <3>5. y \notin sub[c] /\ \A a \in sub[c] : Before(o, a, y)
      <4>1. \A a \in sub[c] : Before(o, a, y)
        BY <3>1, <3>2, <3>3, <1>5, Zenon
      <4>2. y \in Int
        BY <3>3, <1>1, NodeFacts
      <4> QED BY <4>1, <4>2, <3>2, BeforeFacts
    <3>6. sb[c] = sub[c]
      BY <3>1, <3>2, <3>5, <1>1, <1>3, <1>5, <1>7
    <3>7. sb[y] = {y} \cup sb[v.kid[side][y]] \cup sb[v.kid[o][y]]
      BY <3>3, <3>4, <3>6, <1>7, ZenonT(30)
    <3>8. sb[j] = {j} \cup sb[v.kid["left"][j]] \cup sb[v.kid["right"][j]]
      BY <2>2, <3>1, <3>7, <1>2 DEF Sides, Other
    <3>9. \A a \in sb[v.kid[side][y]] : Before(side, a, y)
      BY <3>3, <1>2, <1>7
    <3>10. \A a \in sb[v.kid[o][y]] : Before(o, a, y)
      BY <3>3, <3>5, <3>6, Zenon
    <3> QED BY <2>2, <3>2, <3>8, <3>9, <3>10
  <2>3. CASE j # y /\ j # k
    <3>1. j \in S
      BY <2>3
    <3>2. PICK l, r : l = u.kid["left"][j] /\ r = u.kid["right"][j]
      OBVIOUS
    <3>3. /\ sb[v.kid["left"][j]] = sub[l] \cup (IF y \in sub[l] THEN {k} ELSE {})
          /\ sb[v.kid["right"][j]] = sub[r] \cup (IF y \in sub[r] THEN {k} ELSE {})
      BY <3>1, <3>2, <2>3, <1>3, <1>9
    <3>4. sub[j] = {j} \cup sub[l] \cup sub[r]
      BY <3>1, <3>2, <1>5, Zenon
    <3>5. sb[j] = {j} \cup sb[v.kid["left"][j]] \cup sb[v.kid["right"][j]]
      BY <3>1, <3>3, <3>4, <2>3, <1>7
    <3>6. ASSUME NEW way \in Sides, NEW a \in sb[v.kid[way][j]] PROVE Before(way, a, j)
      <4>1. PICK c : c = u.kid[way][j]
        BY Zenon
      <4>2. a \in sub[c] \/ (a = k /\ y \in sub[c])
        BY <3>1, <3>6, <4>1, <2>3, <1>9
      <4> QED BY <4>1, <4>2, <3>1, <1>2, <1>5
    <3> QED BY <3>5, <3>6
  <2> QED BY <2>1, <2>2, <2>3, Zenon
<1>11. Searchable(v, S \cup {k}, sb)
  BY <1>6, <1>7, <1>8, <1>10 DEF Searchable, Left, Right
<1> QED BY <1>11

LEMMA HungNumbers ==
  ASSUME NEW u, NEW S, Tidy(u, S), NEW k \in Keys \ S, NEW sub, NEW y, NEW side, FreePlace(u, S, sub, k, y, side),
         NEW v, Hung(u, v, k, y, side), NEW bh, WholeNumbers(u, S, bh)
  PROVE  \E bg : WholeNumbers(v, S \cup {k}, bg)
<1>1. /\ u \in TreeRecords /\ S \in SUBSET Keys /\ \A way \in Sides : u.kid[way][k] = Nil
      /\ \A n \in Nodes, way \in Sides : u.kid[way][n] \in Nodes
      /\ \A n \in Nodes, way \in Sides : u.kid[way][n] # Nil => u.kid[way][n] \in S
  BY TidyParts
<1>2. y \in S \cup {Root} /\ side \in Sides /\ u.kid[side][y] = Nil
  BY DEF FreePlace
<1>3. /\ k \in Nodes /\ S \subseteq Nodes /\ Nil \in Nodes /\ y \in Nodes
      /\ k # Nil /\ y # k /\ Nil \notin S /\ k \notin S
  BY <1>1, <1>2, NodeFacts
<1>4. /\ v.red = u.red \cup {k}
      /\ \A way \in Sides, n \in Nodes : v.kid[way][n] = IF way = side /\ n = y THEN k ELSE u.kid[way][n]
  BY DEF Hung
<1>5. /\ bh \in [Nodes -> Nat \ {0}] /\ bh[Nil] = 1
      /\ \A j \in S, way \in Sides : /\ j \in u.red => bh[j] = bh[u.kid[way][j]]
                                     /\ j \notin u.red => bh[j] = bh[u.kid[way][j]] + 1
  BY Zenon DEF WholeNumbers
<1> DEFINE bg == [n \in Nodes |-> IF n = k THEN 1 ELSE bh[n]]
<1>6. /\ bg \in [Nodes -> Nat \ {0}] /\ bg[k] = 1 /\ bg[Nil] = 1
      /\ \A n \in Nodes : n # k => bg[n] = bh[n]
  BY <1>3, <1>5, Zenon
<1> HIDE DEF bg
<1>7. ASSUME NEW j \in S \cup {k}, NEW way \in Sides
      PROVE  /\ bg[v.kid[way][j]] \in Int /\ v.kid[way][j] \in Nodes
             /\ j \in v.red => bg[j] = bg[v.kid[way][j]]
             /\ j \notin v.red => bg[j] = bg[v.kid[way][j]] + 1
  <2>1. CASE j = k
    <3>1. v.kid[way][j] = Nil /\ j \in v.red
      BY <2>1, <1>1, <1>3, <1>4, Zenon
    <3> QED BY <2>1, <3>1, <1>3, <1>6
  <2>2. CASE j # k /\ way = side /\ j = y
    <3>1. v.kid[way][j] = k /\ j \in S /\ u.kid[way][j] = Nil /\ j \in Nodes
      BY <2>2, <1>2, <1>3, <1>4
    <3>2. (j \in v.red <=> j \in u.red) /\ bg[j] = bh[j]
      BY <2>2, <3>1, <1>4, <1>6
    <3>3. (j \in u.red => bh[j] = bh[Nil]) /\ (j \notin u.red => bh[j] = bh[Nil] + 1)
      BY <3>1, <1>5
    <3> QED BY <3>1, <3>2, <3>3, <1>3, <1>5, <1>6
  <2>3. CASE j # k /\ ~(way = side /\ j = y)
    <3>1. PICK c : c = u.kid[way][j]
      BY Zenon
    <3>2. j \in S /\ j \in Nodes /\ v.kid[way][j] = c /\ c \in Nodes /\ (c = Nil \/ c \in S) /\ (j \in v.red <=> j \in u.red)
      BY <2>3, <3>1, <1>1, <1>3, <1>4
    <3>3. bg[j] = bh[j] /\ bg[c] = bh[c] /\ bg[c] \in Int
      BY <2>3, <3>2, <1>3, <1>6
    <3>4. (j \in u.red => bh[j] = bh[c]) /\ (j \notin u.red => bh[j] = bh[c] + 1)
      BY <3>1, <3>2, <1>5, Zenon
    <3> QED BY <3>2, <3>3, <3>4
  <2> QED BY <2>1, <2>2, <2>3
<1>8. WholeNumbers(v, S \cup {k}, bg)
  BY <1>6, <1>7 DEF WholeNumbers
<1> QED BY <1>8

\* A tree between two operations.
Complete(u, S) == RedBlack(u, S, Nil) /\ Tidy(u, S)

\* RBTreePut up to PutFix_: the tree has the new node, which is red.
LEMMA LinkKeeps ==
  ASSUME NEW u, NEW S, Complete(u, S), NEW k \in Keys \ S, NEW v, v = Link(u, k)
  PROVE  /\ RedBlack(v, S \cup {k}, k) /\ Tidy(v, S \cup {k}) /\ k \in v.red /\ v.size = u.size
<1>1. /\ u \in TreeRecords /\ S \in SUBSET Keys /\ Linked(u, S) /\ Tidy(u, S) /\ RedBlack(u, S, Nil)
      /\ \A j \in Keys \ S, way \in Sides : u.kid[way][j] = Nil
  BY TidyParts DEF Complete
<1>2. /\ \E sub : Searchable(u, S, sub)
      /\ \E bh : Heights(u, S, bh, Nil, "left")
      /\ Nil \notin u.red /\ Root \notin u.red
      /\ \A j \in S : j \in u.red /\ j # Nil => u.parent[j] # Root /\ u.parent[j] \notin u.red
  BY <1>1, RedBlackParts
<1>3. PICK sub : Searchable(u, S, sub)
  BY <1>2
<1>4. PICK y : y = Descend(u, k)
  OBVIOUS
<1>5. PICK side : side = IF y = Root \/ k < y THEN "left" ELSE "right"
  OBVIOUS
<1>6. FreePlace(u, S, sub, k, y, side)
  BY <1>1, <1>3, <1>4, <1>5, SearchFails
<1>7. y \in S \cup {Root} /\ y \in Nodes /\ side \in Sides /\ k \in Nodes /\ k # Nil /\ k # Root /\ S \subseteq Nodes
  BY <1>1, <1>6, NodeFacts DEF FreePlace
<1>8. Hung(u, v, k, y, side)
  BY <1>1, <1>4, <1>5, <1>7, LinkFields
<1>9. /\ v \in TreeRecords /\ v.size = u.size /\ v.red = u.red \cup {k}
      /\ \A n \in Nodes : v.parent[n] = IF n = k THEN y ELSE u.parent[n]
      /\ \A way \in Sides, n \in Nodes : v.kid[way][n] = IF way = side /\ n = y THEN k ELSE u.kid[way][n]
  BY <1>8 DEF Hung
<1>10. Grown(v, S \cup {k})
  <2>1. Linked(v, S \cup {k})
    BY <1>1, <1>6, <1>8, HungLinked, Zenon
  <2>2. \E sb : Searchable(v, S \cup {k}, sb)
    BY <1>1, <1>3, <1>6, <1>8, HungSearchable
  <2> QED BY <2>1, <2>2, <1>1, <1>9 DEF Grown
<1>11. Coloured(v, S \cup {k}, k)
  <2>1. ASSUME NEW j \in S \cup {k}, j \in v.red, j # k PROVE v.parent[j] # Root /\ v.parent[j] \notin v.red
    <3>1. j \in S /\ j \in Nodes /\ j \in u.red /\ v.parent[j] = u.parent[j] /\ j # Nil
      BY <2>1, <1>1, <1>7, <1>9, NodeFacts
    <3>2. u.parent[j] \in S \cup {Root} /\ u.parent[j] # k
      BY <3>1, <1>1, <1>7, NodeFacts DEF Linked
    <3> QED BY <3>1, <3>2, <1>2, <1>9, Zenon
  <2>2. Nil \notin v.red /\ Root \notin v.red
    BY <1>2, <1>7, <1>9
  <2> QED BY <2>1, <2>2 DEF Coloured
<1>12. \E bg : Heights(v, S \cup {k}, bg, Nil, "left")
  <2>1. PICK bh : Heights(u, S, bh, Nil, "left")
    BY <1>2
  <2>2. WholeNumbers(u, S, bh)
    BY <1>1, <2>1, WholeHeights, Zenon
  <2>3. PICK bg : WholeNumbers(v, S \cup {k}, bg)
    BY <1>1, <1>6, <1>8, <2>2, HungNumbers
  <2>4. S \cup {k} \in SUBSET Keys
    BY <1>1
  <2>5. Heights(v, S \cup {k}, bg, Nil, "left")
    BY <1>9, <2>3, <2>4, WholeHeights, Zenon
  <2> QED BY <2>5
<1>13. ASSUME NEW j \in Keys \ (S \cup {k}), NEW way \in Sides PROVE v.kid[way][j] = Nil
  BY <1>1, <1>7, <1>9, NodeFacts
<1> QED BY <1>9, <1>10, <1>11, <1>12, <1>13 DEF RedBlack, Tidy

-----------------------------------------------------------------------------
(***************************************************************************)
(* The order of the nodes, Next_.                                          *)
(***************************************************************************)
LEMMA HighestRanked ==
  ASSUME NEW u, NEW S, NEW L, NEW rank, Ranked(u, S, L, rank), NEW X \in SUBSET Nodes, X # {}
  PROVE  \E x \in X : \A y \in X : rank[y] <= rank[x]
<1> DEFINE R == {L - rank[x] : x \in X}
<1>0. L \in Nat /\ \A x \in X : rank[x] \in 0..L
  BY DEF Ranked
<1>1. R \in SUBSET Nat /\ R # {}
  BY <1>0
<1>2. Min(R) \in R /\ \A y \in R : Min(R) <= y
  <2> HIDE DEF R
  <2> QED BY <1>1, LeastNumber
<1>3. PICK x \in X : L - rank[x] = Min(R)
  BY <1>2
<1>4. ASSUME NEW y \in X PROVE rank[y] <= rank[x]
  <2>1. L - rank[x] <= L - rank[y]
    BY <1>2, <1>3
  <2>2. rank[x] \in 0..L /\ rank[y] \in 0..L
    BY <1>0
  <2> QED BY <1>0, <2>1, <2>2
<1> QED BY <1>4

\* What is below a node are neighbours.
LEMMA BelowConvex ==
  ASSUME NEW u \in TreeRecords, NEW S \in SUBSET Keys, Linked(u, S), NEW sub, Searchable(u, S, sub),
         NEW d \in S, NEW a \in sub[d], NEW b \in sub[d], NEW j \in S, a < j, j < b
  PROVE  j \in sub[d]
<1>1. PICK L, rank : Ranked(u, S, L, rank)
  BY RanksExist
<1> DEFINE X == {e \in S : a \in sub[e] /\ b \in sub[e] /\ j \notin sub[e]}
<1>2. SUFFICES ASSUME X # {} PROVE FALSE
  OBVIOUS
<1>3. PICK e \in X : \A y \in X : rank[y] <= rank[e]
  <2>1. X \in SUBSET Nodes
    BY NodeFacts
  <2> HIDE DEF X
  <2> QED BY <1>1, <1>2, <2>1, HighestRanked
<1>4. e \in S /\ a \in sub[e] /\ b \in sub[e] /\ j \notin sub[e]
  BY <1>3
<1>5. PICK p, side : p = u.parent[e] /\ side = SideOf(u, e)
  BY Zenon
<1>6. UpNode(u, S, sub, e, p)
  BY <1>4, <1>5, UpNodes
<1>7. p \in S /\ p \in Nodes /\ e \in Nodes /\ side \in Sides /\ e = u.kid[side][p] /\ sub[e] \subseteq sub[p]
  BY <1>4, <1>5, <1>6 DEF UpNode
<1>8. rank[e] < rank[p] /\ rank[e] \in Int /\ rank[p] \in Int
  <2>1. \A n \in Nodes : rank[n] \in Int
    BY <1>1 DEF Ranked
  <2>2. rank[e] < rank[p]
    BY <1>1, <1>4, <1>5 DEF Ranked
  <2> QED BY <2>1, <2>2, <1>7
<1>9. p \notin X
  BY <1>3, <1>8
<1>10. j \in sub[p]
  BY <1>4, <1>7, <1>9
<1>11. PICK o : o = Other(side)
  BY Zenon
<1>12. j = p \/ j \in sub[u.kid[o][p]]
  <2>1. sub[p] = {p} \cup sub[u.kid[side][p]] \cup sub[u.kid[o][p]]
    BY <1>7, <1>11 DEF Searchable, Left, Right, Sides, Other
  <2> QED BY <2>1, <1>4, <1>7, <1>10, Zenon
<1>13. Before(side, a, p) /\ Before(side, b, p)
  BY <1>4, <1>7, Zenon DEF Searchable
<1>14. j = p \/ Before(o, j, p)
  BY <1>7, <1>11, <1>12, NodeFacts, Zenon DEF Searchable
<1>15. a \in Int /\ b \in Int /\ p \in Int /\ j \in Int
  BY <1>4, <1>7, NodeFacts DEF Searchable
<1> QED BY <1>7, <1>11, <1>13, <1>14, <1>15 DEF Before, Other, Sides

LowestTurns(f, u) == f = [m \in Nodes |-> IF Left(u, m) = Nil THEN m ELSE f[Left(u, m)]]

LowestNext(u) == [m \in Nodes |-> Left(u, m)]
LowestStop(u) == {m \in Nodes : Left(u, m) = Nil}

LEMMA LowestEquation ==
  ASSUME NEW u, NEW f
  PROVE  LowestTurns(f, u) <=> WalkEquation(f, Nodes, LowestNext(u), LowestStop(u), Self)
<1> DEFINE g == [m \in Nodes |-> IF Left(u, m) = Nil THEN m ELSE f[Left(u, m)]]
           next == LowestNext(u)
           stop == LowestStop(u)
           h == [m \in Nodes |-> IF m \in stop THEN Self[m] ELSE f[next[m]]]
<1>1. LowestTurns(f, u) <=> f = g
  BY Zenon DEF LowestTurns
<1>2. WalkEquation(f, Nodes, next, stop, Self) <=> f = h
  BY Zenon DEF WalkEquation
<1>3. ASSUME NEW n \in Nodes PROVE g[n] = h[n]
  <2>1. next[n] = Left(u, n)
    BY DEF LowestNext
  <2>2. n \in stop <=> Left(u, n) = Nil
    BY DEF LowestStop
  <2>3. g[n] = IF Left(u, n) = Nil THEN n ELSE f[Left(u, n)]
    BY Zenon
  <2>4. h[n] = IF n \in stop THEN Self[n] ELSE f[next[n]]
    BY Zenon
  <2>5. Self[n] = n
    BY DEF Self
  <2> HIDE DEF g, h, next, stop
  <2> QED BY <2>1, <2>2, <2>3, <2>4, <2>5
<1>4. g = h
  <2>1. g = [n \in Nodes |-> g[n]] /\ h = [n \in Nodes |-> h[n]]
    OBVIOUS
  <2> HIDE DEF g, h
  <2> QED BY <1>3, <2>1
<1> QED BY <1>1, <1>2, <1>4, Zenon

\* The way to the left ends in every set it does not leave.
LEMMA LowestEnds ==
  ASSUME NEW u, NEW S, Tidy(u, S), NEW Part \in SUBSET Nodes, NEW n \in Part,
         \A m \in Part : Left(u, m) # Nil => Left(u, m) \in Part
  PROVE  Lowest(u, n) \in Part /\ Left(u, Lowest(u, n)) = Nil
<1> DEFINE next == LowestNext(u)
           stop == LowestStop(u)
           F == CHOOSE f : LowestTurns(f, u)
<1>1. u \in TreeRecords /\ S \in SUBSET Keys /\ Linked(u, S) /\ \E sub : Searchable(u, S, sub)
  BY TidyParts
<1>2. PICK sub : Searchable(u, S, sub)
  BY <1>1
<1>3. PICK L, rank : Ranked(u, S, L, rank)
  BY <1>1, <1>2, RanksExist
<1>0. \A m \in Nodes : next[m] = Left(u, m) /\ (m \in stop <=> Left(u, m) = Nil)
  BY DEF LowestNext, LowestStop
<1>4. Falls(Nodes, next, stop, rank, L) /\ L \in Nat
  <2> HIDE DEF next, stop
  <2>1. rank \in [Nodes -> 0..L] /\ L \in Nat
    BY <1>3 DEF Ranked
  <2>2. ASSUME NEW m \in Nodes \ stop PROVE next[m] \in Nodes /\ rank[next[m]] < rank[m]
    <3>1. PICK c : c = Left(u, m)
      OBVIOUS
    <3>2. c # Nil /\ next[m] = c
      BY <3>1, <1>0
    <3>3. c \in Nodes /\ c \in S /\ u.parent[c] = m
      BY <3>1, <3>2, TidyParts, NodeFacts DEF Left
    <3>4. rank[c] < rank[m]
      BY <3>3, <1>3 DEF Ranked
    <3> QED BY <3>2, <3>3, <3>4
  <2> QED BY <2>1, <2>2 DEF Falls
<1>5. \A m \in Nodes : Self[m] = m
  BY DEF Self
<1>6. \E f : WalkEquation(f, Nodes, next, stop, Self)
  <2> HIDE DEF next, stop
  <2>0. \A m \in Nodes : Self[m] \in Nodes
    BY <1>5
  <2>1. \E f \in [Nodes -> Nodes] : WalkEquation(f, Nodes, next, stop, Self)
    BY <1>4, <2>0, WalkExists
  <2> QED BY <2>1
<1>7. \E f : LowestTurns(f, u)
  BY <1>6, LowestEquation, Zenon
<1>8. LowestTurns(F, u)
  BY <1>7, Zenon
<1>9. Lowest(u, n) = F[n]
  BY Zenon DEF Lowest, LowestTurns
<1>10. WalkEquation(F, Nodes, next, stop, Self)
  BY <1>8, LowestEquation, Zenon
<1> HIDE DEF F, next, stop
<1>11. \E m \in Part \cap stop : F[n] = Self[m]
  <2>1. \A m \in Part \ stop : next[m] \in Part
    BY <1>0
  <2> QED BY <1>4, <1>10, <2>1, WalkEnds
<1>12. PICK m \in Part \cap stop : F[n] = Self[m]
  BY <1>11
<1>13. F[n] = m /\ m \in Nodes
  BY <1>5, <1>12
<1> QED BY <1>0, <1>9, <1>12, <1>13

\* m is the least node below n.
LEMMA LowestIsLeast ==
  ASSUME NEW u, NEW S, Tidy(u, S), NEW sub, Searchable(u, S, sub),
         NEW n \in S \cup {Root}, n = Root => S # {}, NEW m, m = Lowest(u, n)
  PROVE  m \in S /\ m \in sub[n] /\ Left(u, m) = Nil /\ \A a \in sub[n] : m <= a
<1>1. /\ u \in TreeRecords /\ S \in SUBSET Keys /\ Linked(u, S)
      /\ \A e \in Nodes, way \in Sides : u.kid[way][e] # Nil => u.kid[way][e] \in S
  BY TidyParts
<1> DEFINE Part == {e \in S : e \in sub[n] /\ \A a \in sub[n] : a \in sub[e] \/ e < a}
           D == Part \cup (IF n = Root THEN {Root} ELSE {})
<1>2. /\ S \subseteq Nodes /\ S \subseteq Int /\ Root \in Nodes /\ Nil \in Nodes /\ Nil \notin S /\ Root \notin S
      /\ "left" \in Sides /\ "right" \in Sides
  BY <1>1, NodeFacts
<1>3. /\ sub \in [Nodes -> SUBSET S]
      /\ sub[Nil] = {} /\ sub[Root] = S /\ sub[Left(u, Root)] = S
      /\ \A j \in S : sub[j] = {j} \cup sub[Left(u, j)] \cup sub[Right(u, j)]
      /\ \A j \in S : \A a \in sub[Left(u, j)] : a < j
      /\ \A j \in S : \A a \in sub[Right(u, j)] : j < a
  BY <1>2 DEF Searchable, Left, Right, Before
<1>4. D \in SUBSET Nodes /\ n \in D
  <2>1. n \in S => n \in Part
    BY <1>3
  <2> QED BY <2>1, <1>2
<1>5. ASSUME NEW e \in D, Left(u, e) # Nil PROVE Left(u, e) \in D
  <2>1. PICK c : c = Left(u, e)
    BY Zenon
  <2>2. e \in Nodes /\ c \in S /\ c \in sub[c]
    <3>1. e \in Nodes
      BY <1>4
    <3>2. c \in S
      BY <3>1, <1>1, <1>2, <1>5, <2>1 DEF Left
    <3> QED BY <3>1, <3>2, <1>3
  <2>3. CASE e = Root
    <3>1. n = Root
      BY <2>3, <1>2
    <3>2. sub[n] = S /\ sub[c] = S
      BY <2>1, <2>3, <3>1, <1>3
    <3> QED BY <2>1, <2>2, <3>2
  <2>4. CASE e # Root
    <3>1. e \in S /\ e \in sub[n] /\ \A a \in sub[n] : a \in sub[e] \/ e < a
      BY <2>4
    <3>2. c < e /\ sub[c] \subseteq sub[e]
      BY <2>1, <2>2, <3>1, <1>3
    <3>3. sub[e] \subseteq sub[n]
      <4>1. CASE n = Root
        BY <4>1, <1>2, <1>3, <3>1
      <4>2. CASE n # Root
        <5>1. n \in S
          BY <4>2
        <5> QED BY <5>1, <3>1, <1>1, BelowBelow
      <4> QED BY <4>1, <4>2
    <3>4. ASSUME NEW a \in sub[n] PROVE a \in sub[c] \/ c < a
      <4>1. a \in Int /\ c \in Int /\ e \in Int
        BY <1>2, <1>3, <2>2, <3>1
      <4>2. CASE e < a
        BY <4>1, <4>2, <3>2
      <4>3. CASE a \in sub[e]
        <5>1. a = e \/ a \in sub[c] \/ a \in sub[Right(u, e)]
          BY <4>3, <3>1, <2>1, <1>3
        <5>2. a \in sub[Right(u, e)] => e < a
          BY <3>1, <1>3
        <5> QED BY <5>1, <5>2, <4>1, <3>2
      <4> QED BY <4>2, <4>3, <3>1
    <3>5. c \in Part
      BY <2>2, <3>2, <3>3, <3>4, Zenon
    <3> HIDE DEF Part
    <3> QED BY <2>1, <3>5
  <2> QED BY <2>3, <2>4
<1>6. m \in D /\ Left(u, m) = Nil
  <2> HIDE DEF D
  <2> QED BY <1>4, <1>5, LowestEnds
<1>7. m # Root
  <2> SUFFICES ASSUME m = Root PROVE FALSE
    OBVIOUS
  <2>1. n = Root
    BY <1>2, <1>6, Zenon
  <2> QED BY <2>1, <1>3, <1>6
<1>8. m \in Part
  BY <1>6, <1>7
<1>9. ASSUME NEW a \in sub[n] PROVE m <= a
  <2>1. m \in S /\ (a \in sub[m] \/ m < a)
    BY <1>8, Zenon
  <2>2. a \in Int /\ m \in Int
    BY <1>2, <1>3, <1>4, <2>1
  <2>3. a \in sub[m] => a = m \/ m < a
    BY <2>1, <1>3, <1>6
  <2> QED BY <2>1, <2>2, <2>3
<1> QED BY <1>6, <1>8, <1>9

Up == Nodes \ {Nil}

UpTurns(f, u) == f = [m \in Nodes \ {Nil} |-> IF m = Right(u, u.parent[m]) THEN f[u.parent[m]] ELSE u.parent[m]]

UpNext(u) == [m \in Up |-> u.parent[m]]
UpStop(u) == {m \in Up : m # Right(u, u.parent[m])}

LEMMA UpEquation ==
  ASSUME NEW u, NEW f
  PROVE  UpTurns(f, u) <=> WalkEquation(f, Up, UpNext(u), UpStop(u), UpNext(u))
<1> DEFINE g == [m \in Up |-> IF m = Right(u, u.parent[m]) THEN f[u.parent[m]] ELSE u.parent[m]]
           next == UpNext(u)
           stop == UpStop(u)
           h == [m \in Up |-> IF m \in stop THEN next[m] ELSE f[next[m]]]
<1>1. UpTurns(f, u) <=> f = g
  BY Zenon DEF UpTurns, Up
<1>2. WalkEquation(f, Up, next, stop, next) <=> f = h
  BY Zenon DEF WalkEquation
<1>3. ASSUME NEW n \in Up PROVE g[n] = h[n]
  <2>1. next[n] = u.parent[n]
    BY DEF UpNext
  <2>2. n \in stop <=> n # Right(u, u.parent[n])
    BY DEF UpStop
  <2>3. g[n] = IF n = Right(u, u.parent[n]) THEN f[u.parent[n]] ELSE u.parent[n]
    BY Zenon
  <2>4. h[n] = IF n \in stop THEN next[n] ELSE f[next[n]]
    BY Zenon
  <2> HIDE DEF g, h, next, stop
  <2> QED BY <2>1, <2>2, <2>3, <2>4
<1>4. g = h
  <2>1. g = [n \in Up |-> g[n]] /\ h = [n \in Up |-> h[n]]
    OBVIOUS
  <2> HIDE DEF g, h
  <2> QED BY <1>3, <2>1
<1> QED BY <1>1, <1>2, <1>4, Zenon

\* A node on the right of its parent.
LEMMA RightOfParent ==
  ASSUME NEW u, NEW S, Tidy(u, S), NEW m \in Up, m = Right(u, u.parent[m])
  PROVE  m \in S /\ u.parent[m] \in S
<1>1. /\ u \in TreeRecords /\ S \in SUBSET Keys /\ Linked(u, S)
      /\ \A e \in Nodes, way \in Sides : u.kid[way][e] # Nil => e \in S \cup {Root} /\ u.kid[way][e] \in S
  BY TidyParts
<1>2. m \in Nodes /\ m # Nil /\ u.parent[m] \in Nodes /\ "right" \in Sides
  BY <1>1, NodeFacts DEF Up, TreeRecords
<1>3. m \in S /\ u.parent[m] \in S \cup {Root}
  BY <1>1, <1>2 DEF Right
<1> QED BY <1>1, <1>2, <1>3 DEF Linked

\* The way up ends in every set it does not leave.
LEMMA UpEnds ==
  ASSUME NEW u, NEW S, Tidy(u, S), NEW Part \in SUBSET Up, NEW n \in Part,
         \A m \in Part : m = Right(u, u.parent[m]) => u.parent[m] \in Part
  PROVE  \E m \in Part : /\ m # Right(u, u.parent[m])
                         /\ Right(u, n) = Nil => NextNode(u, n) = IF u.parent[m] = Root THEN Nil ELSE u.parent[m]
<1> DEFINE next == UpNext(u)
           stop == UpStop(u)
           F == CHOOSE f : UpTurns(f, u)
<1>1. u \in TreeRecords /\ S \in SUBSET Keys /\ Linked(u, S) /\ \E sub : Searchable(u, S, sub)
  BY TidyParts
<1>2. PICK sub : Searchable(u, S, sub)
  BY <1>1
<1>3. PICK L, rank : Ranked(u, S, L, rank)
  BY <1>1, <1>2, RanksExist
<1>0. \A m \in Up : next[m] = u.parent[m] /\ (m \in stop <=> m # Right(u, u.parent[m]))
  BY DEF UpNext, UpStop
<1>4. PICK high : Falls(Up, next, stop, high, L) /\ L \in Nat
  <2> HIDE DEF next, stop
  <2> DEFINE high == [m \in Up |-> L - rank[m]]
  <2>1. (\A m \in Nodes : rank[m] \in 0..L) /\ L \in Nat
    BY <1>3 DEF Ranked
  <2>2. high \in [Up -> 0..L] /\ \A m \in Up : high[m] = L - rank[m]
    BY <2>1 DEF Up
  <2> HIDE DEF high
  <2>3. ASSUME NEW m \in Up \ stop PROVE next[m] \in Up /\ high[next[m]] < high[m]
    <3>1. PICK p : p = u.parent[m]
      OBVIOUS
    <3>2. next[m] = p /\ m \in S /\ p \in S
      BY <3>1, <1>0, RightOfParent
    <3>3. p \in Up /\ m \in Nodes /\ p \in Nodes
      BY <3>2, <1>1, NodeFacts DEF Up
    <3>4. rank[m] < rank[p]
      BY <3>1, <3>2, <1>3 DEF Ranked
    <3>5. high[p] < high[m]
      BY <3>3, <3>4, <2>1, <2>2
    <3> QED BY <3>2, <3>3, <3>5
  <2>4. Falls(Up, next, stop, high, L)
    BY <2>2, <2>3 DEF Falls
  <2> QED BY <2>1, <2>4
<1>5. \A m \in Up : next[m] \in Nodes
  BY <1>0, <1>1 DEF Up, TreeRecords
<1>6. \E f : WalkEquation(f, Up, next, stop, next)
  <2> HIDE DEF next, stop
  <2>1. \E f \in [Up -> Nodes] : WalkEquation(f, Up, next, stop, next)
    BY <1>4, <1>5, WalkExists
  <2> QED BY <2>1
<1>7. \E f : UpTurns(f, u)
  BY <1>6, UpEquation, Zenon
<1>8. UpTurns(F, u)
  BY <1>7, Zenon
<1>9. Right(u, n) = Nil => NextNode(u, n) = IF F[n] = Root THEN Nil ELSE F[n]
  <2>1. NextNode(u, n) = IF Right(u, n) # Nil THEN Lowest(u, Right(u, n)) ELSE IF F[n] = Root THEN Nil ELSE F[n]
    BY Zenon DEF NextNode, UpTurns
  <2> HIDE DEF F
  <2> QED BY <2>1, Zenon
<1>10. WalkEquation(F, Up, next, stop, next)
  BY <1>8, UpEquation, Zenon
<1> HIDE DEF F, next, stop
<1>11. \E m \in Part \cap stop : F[n] = next[m]
  <2>1. \A m \in Part \ stop : next[m] \in Part
    BY <1>0
  <2> QED BY <1>4, <1>10, <2>1, WalkEnds
<1>12. PICK m \in Part \cap stop : F[n] = next[m]
  BY <1>11
<1>13. F[n] = u.parent[m] /\ m # Right(u, u.parent[m]) /\ m \in Part
  BY <1>0, <1>12
<1> QED BY <1>9, <1>13

\* What follows n in the order of the keys.
Follows(S, n, m) ==
  \/ m = Nil /\ \A j \in S : j <= n
  \/ m \in S /\ n < m /\ \A j \in S : n < j => m <= j

LEMMA NextDown ==
  ASSUME NEW u, NEW S, Tidy(u, S), NEW sub, Searchable(u, S, sub), NEW n \in S, Right(u, n) # Nil,
         NEW m, m = Lowest(u, Right(u, n))
  PROVE  m \in sub[Right(u, n)] /\ Left(u, m) = Nil /\ Follows(S, n, m) /\ m \in S
<1>1. u \in TreeRecords /\ S \in SUBSET Keys /\ Linked(u, S)
  BY TidyParts
<1>2. PICK r : r = Right(u, n)
  OBVIOUS
<1>3. KidNode(u, S, sub, n, "right", r)
  BY <1>1, <1>2, NodeFacts, KidNodes DEF Right
<1>4. r \in S /\ sub[r] \subseteq sub[n]
  BY <1>3 DEF KidNode
<1>5. m \in S /\ m \in sub[r] /\ Left(u, m) = Nil /\ \A a \in sub[r] : m <= a
  <2>1. r # Root
    BY <1>1, <1>4, NodeFacts
  <2> QED BY <1>2, <1>4, <2>1, LowestIsLeast
<1>6. S \subseteq Int /\ n \in Int /\ m \in Int
  BY <1>1, <1>5, NodeFacts
<1>7. /\ sub[n] = {n} \cup sub[Left(u, n)] \cup sub[r]
      /\ \A a \in sub[Left(u, n)] : a < n
      /\ \A a \in sub[r] : n < a
  BY <1>2, NodeFacts, Zenon DEF Searchable, Left, Right, Before
<1>8. n < m
  BY <1>5, <1>7
<1>9. ASSUME NEW j \in S, n < j PROVE m <= j
  <2> SUFFICES ASSUME j < m PROVE FALSE
    BY <1>6
  <2>1. j \in sub[n]
    <3>1. n \in sub[n] /\ m \in sub[n]
      BY <1>4, <1>5, <1>7
    <3> QED BY <3>1, <1>1, <1>9, BelowConvex
  <2>2. j \in Int
    BY <1>6
  <2> QED BY <2>1, <2>2, <1>5, <1>6, <1>7, <1>9
<1> QED BY <1>2, <1>5, <1>8, <1>9 DEF Follows

LEMMA NextUp ==
  ASSUME NEW u, NEW S, Tidy(u, S), NEW sub, Searchable(u, S, sub), NEW n \in S, Right(u, n) = Nil
  PROVE  Follows(S, n, NextNode(u, n))
<1>1. u \in TreeRecords /\ S \in SUBSET Keys /\ Linked(u, S)
  BY TidyParts
<1>2. S \subseteq Int /\ n \in Int /\ S \subseteq Up /\ Root \notin S /\ Nil \notin S /\ "left" \in Sides /\ "right" \in Sides
  BY <1>1, NodeFacts, Zenon DEF Up
<1>3. /\ sub \in [Nodes -> SUBSET S]
      /\ sub[Nil] = {} /\ sub[Root] = S /\ sub[Left(u, Root)] = S
      /\ \A j \in S : sub[j] = {j} \cup sub[Left(u, j)] \cup sub[Right(u, j)]
      /\ \A j \in S : \A a \in sub[Left(u, j)] : a < j
      /\ \A j \in S : \A a \in sub[Right(u, j)] : j < a
  BY <1>2 DEF Searchable, Left, Right, Before
<1> DEFINE Part == {m \in S : n \in sub[m] /\ \A a \in sub[m] : a <= n}
<1>4. Part \in SUBSET Up
  BY <1>2
<1>5. n \in Part
  <2>1. sub[n] = {n} \cup sub[Left(u, n)]
    BY <1>3
  <2>2. \A a \in sub[n] : a <= n
    BY <2>1, <1>2, <1>3
  <2> QED BY <2>1, <2>2
<1>6. ASSUME NEW m \in Part, m = Right(u, u.parent[m]) PROVE u.parent[m] \in Part
  <2>1. PICK p : p = u.parent[m]
    OBVIOUS
  <2>2. p \in S /\ m = Right(u, p)
    BY <2>1, <1>4, <1>6, RightOfParent
  <2>3. n \in sub[m] /\ \A a \in sub[m] : a <= n
    OBVIOUS
  <2>4. sub[p] = {p} \cup sub[Left(u, p)] \cup sub[m] /\ p < n /\ p \in Int
    BY <1>2, <1>3, <2>2, <2>3
  <2>5. ASSUME NEW a \in sub[p] PROVE a <= n
    <3>1. a = p \/ a \in sub[m] \/ (a \in sub[Left(u, p)] /\ a < p)
      BY <2>2, <2>4, <2>5, <1>3
    <3>2. a \in Int
      BY <2>2, <2>5, <1>2, <1>3, NodeFacts
    <3> QED BY <3>1, <3>2, <2>3, <2>4, <1>2
  <2>6. n \in sub[p]
    BY <2>3, <2>4
  <2> QED BY <2>1, <2>2, <2>5, <2>6
<1>7. PICK m \in Part : m # Right(u, u.parent[m]) /\ NextNode(u, n) = IF u.parent[m] = Root THEN Nil ELSE u.parent[m]
  <2> HIDE DEF Part
  <2> QED BY <1>4, <1>5, <1>6, UpEnds, Zenon
<1>8. m \in S /\ n \in sub[m] /\ \A a \in sub[m] : a <= n
  BY <1>7
<1>9. PICK p : p = u.parent[m]
  OBVIOUS
<1>10. m = Left(u, p) /\ p \in S \cup {Root}
  BY <1>1, <1>7, <1>8, <1>9 DEF Linked
<1>11. CASE p = Root
  <2>1. NextNode(u, n) = Nil /\ sub[m] = S
    BY <1>3, <1>7, <1>9, <1>10, <1>11
  <2> QED BY <2>1, <1>8 DEF Follows
<1>12. CASE p # Root
  <2>1. p \in S /\ NextNode(u, n) = p
    BY <1>7, <1>9, <1>10, <1>12
  <2>2. sub[p] = {p} \cup sub[m] \cup sub[Right(u, p)] /\ n < p /\ p \in Int
    BY <2>1, <1>2, <1>3, <1>8, <1>10
  <2>3. ASSUME NEW j \in S, n < j PROVE p <= j
    <3> SUFFICES ASSUME j < p PROVE FALSE
      BY <1>2, <2>2
    <3>1. j \in sub[p]
      <4>1. n \in sub[p] /\ p \in sub[p]
        BY <2>2, <1>8
      <4> QED BY <4>1, <1>1, <2>1, <2>3, BelowConvex
    <3>2. j \in Int
      BY <1>2
    <3>3. j \notin sub[m]
      BY <1>2, <1>8, <2>3, <3>2
    <3>4. j \notin sub[Right(u, p)]
      BY <1>3, <2>1, <2>2, <3>2
    <3> QED BY <3>1, <3>2, <3>3, <3>4, <2>2
  <2> QED BY <2>1, <2>2, <2>3 DEF Follows
<1> QED BY <1>11, <1>12

\* Next_ goes to the next key.
LEMMA NextFollows ==
  ASSUME NEW u, NEW S, Tidy(u, S), NEW n \in S
  PROVE  Follows(S, n, NextNode(u, n))
<1>1. PICK sub : Searchable(u, S, sub)
  BY TidyParts
<1>2. CASE Right(u, n) = Nil
  BY <1>1, <1>2, NextUp
<1>3. CASE Right(u, n) # Nil
  <2>1. NextNode(u, n) = Lowest(u, Right(u, n))
    BY <1>3, Zenon DEF NextNode
  <2>2. PICK m : m = Lowest(u, Right(u, n))
    OBVIOUS
  <2>3. Follows(S, n, m)
    BY <1>1, <1>3, <2>2, NextDown
  <2> QED BY <2>1, <2>2, <2>3
<1> QED BY <1>2, <1>3

LEMMA NextIsNode ==
  ASSUME NEW u, NEW S, Tidy(u, S), NEW n \in Nodes, n # Nil
  PROVE  NextNode(u, n) \in Nodes
<1>1. /\ u \in TreeRecords /\ S \in SUBSET Keys /\ Linked(u, S)
      /\ \A e \in Nodes, way \in Sides : u.kid[way][e] # Nil => e \in S \cup {Root}
  BY TidyParts
<1>2. CASE n \in S
  <2>1. Follows(S, n, NextNode(u, n))
    BY <1>2, NextFollows
  <2> QED BY <2>1, <1>1, NodeFacts DEF Follows
<1>3. CASE n \notin S
  <2>1. n \in Up
    BY DEF Up
  <2>2. n # Right(u, u.parent[n])
    BY <1>3, <2>1, RightOfParent
  <2>3. Right(u, n) = Nil
    BY <1>1, <1>3, NodeFacts DEF Linked, Right
  <2>4. \A m \in {n} : m = Right(u, u.parent[m]) => u.parent[m] \in {n}
    BY <2>2
  <2>5. \E m \in {n} : /\ m # Right(u, u.parent[m])
                       /\ Right(u, n) = Nil => NextNode(u, n) = IF u.parent[m] = Root THEN Nil ELSE u.parent[m]
    <3>1. {n} \in SUBSET Up
      BY <2>1
    <3> QED BY <2>4, <3>1, UpEnds
  <2>6. u.parent[n] \in Nodes /\ Nil \in Nodes
    BY <1>1, NodeFacts DEF TreeRecords
  <2> QED BY <2>3, <2>5, <2>6
<1> QED BY <1>2, <1>3

-----------------------------------------------------------------------------
(***************************************************************************)
(* Iteration.                                                              *)
(***************************************************************************)
\* s lists A in increasing order.
Lists(seq, A) ==
  /\ seq \in Seq(Keys) /\ Range(seq) = A /\ Len(seq) = Cardinality(A)
  /\ \A i \in 1..Len(seq) - 1 : seq[i] < seq[i + 1]

LEMMA ListsNothing == Lists(<<>>, {})
<1>1. Cardinality({}) = 0
  BY FS_EmptySet
<1>2. Range(<<>>) = {}
  BY DEF Range
<1> QED BY <1>1, <1>2 DEF Lists

LEMMA ListsMore ==
  ASSUME NEW A \in SUBSET Keys, NEW seq, Lists(seq, A), NEW n \in Keys, \A a \in A : n < a
  PROVE  Lists(<<n>> \o seq, A \cup {n})
<1> DEFINE r == <<n>> \o seq
<1>1. seq \in Seq(Keys) /\ Range(seq) = A /\ Len(seq) = Cardinality(A) /\ \A i \in 1..Len(seq) - 1 : seq[i] < seq[i + 1]
  BY DEF Lists
<1>2. /\ r \in Seq(Keys) /\ Len(r) = Len(seq) + 1 /\ r[1] = n
      /\ \A i \in 1..Len(seq) : r[i + 1] = seq[i]
  BY <1>1
<1>3. n \notin A /\ IsFiniteSet(A)
  BY FinitePart, NodeFacts
<1>4. Cardinality(A \cup {n}) = Cardinality(A) + 1
  BY <1>3, FS_AddElement
<1> HIDE DEF r
<1>5. Range(r) = A \cup {n}
  <2>1. DOMAIN seq = 1..Len(seq) /\ DOMAIN r = 1..(Len(seq) + 1) /\ Len(seq) \in Nat
    BY <1>1, <1>2
  <2>2. Range(seq) = {seq[i] : i \in 1..Len(seq)} /\ Range(r) = {r[i] : i \in 1..(Len(seq) + 1)}
    BY <2>1 DEF Range
  <2>3. ASSUME NEW i \in 1..(Len(seq) + 1) PROVE r[i] \in A \cup {n}
    <3>1. CASE i = 1
      BY <3>1, <1>2
    <3>2. CASE i # 1
      <4>1. i - 1 \in 1..Len(seq) /\ (i - 1) + 1 = i
        BY <3>2, <2>1
      <4>2. r[i] = seq[i - 1]
        BY <4>1, <1>2
      <4> QED BY <4>1, <4>2, <2>2, <1>1
    <3> QED BY <3>1, <3>2
  <2>4. ASSUME NEW a \in A PROVE \E i \in 1..(Len(seq) + 1) : a = r[i]
    <3>1. PICK i \in 1..Len(seq) : a = seq[i]
      BY <1>1, <2>2, Zenon
    <3>2. i + 1 \in 1..(Len(seq) + 1) /\ r[i + 1] = seq[i]
      BY <1>2, <2>1
    <3> QED BY <3>1, <3>2
  <2>5. \E i \in 1..(Len(seq) + 1) : n = r[i]
    BY <1>2, <2>1
  <2> QED BY <2>2, <2>3, <2>4, <2>5
<1>6. ASSUME NEW i \in 1..Len(r) - 1 PROVE r[i] < r[i + 1]
  <2>1. Len(seq) \in Nat /\ i \in 1..Len(seq) /\ r[i + 1] = seq[i]
    BY <1>1, <1>2
  <2>2. CASE i = 1
    <3>1. seq[i] \in A
      BY <2>1, <1>1 DEF Range
    <3> QED BY <2>1, <2>2, <3>1, <1>2
  <2>3. CASE i # 1
    <3>1. i - 1 \in 1..Len(seq) - 1 /\ i - 1 \in 1..Len(seq) /\ (i - 1) + 1 = i
      BY <2>1, <2>3
    <3>2. r[i] = seq[i - 1] /\ seq[i - 1] < seq[i]
      <4>1. r[(i - 1) + 1] = seq[i - 1]
        BY <3>1, <1>2
      <4>2. seq[i - 1] < seq[(i - 1) + 1]
        BY <3>1, <1>1
      <4> QED BY <4>1, <4>2, <3>1
    <3> QED BY <3>2, <2>1
  <2> QED BY <2>2, <2>3
<1>7. Lists(r, A \cup {n})
  BY <1>1, <1>2, <1>4, <1>5, <1>6 DEF Lists
<1> QED BY <1>7 DEF r

CollectTurns(f, u, filter) ==
  f = [i \in 0..Cardinality(Keys) |->
         [n \in Nodes |->
            IF i = 0 \/ n = Nil THEN <<>>
            ELSE (IF n \in filter THEN <<n>> ELSE <<>>) \o f[i - 1][NextNode(u, n)]]]

CollectTurn(u, filter, w) ==
  [n \in Nodes |-> IF n = Nil THEN <<>> ELSE (IF n \in filter THEN <<n>> ELSE <<>>) \o w[NextNode(u, n)]]

LEMMA CollectTurnType ==
  ASSUME NEW u, NEW S, Tidy(u, S), NEW filter \in SUBSET Keys, NEW w \in [Nodes -> Seq(Keys)]
  PROVE  CollectTurn(u, filter, w) \in [Nodes -> Seq(Keys)]
<1>1. ASSUME NEW n \in Nodes
      PROVE  (IF n = Nil THEN <<>> ELSE (IF n \in filter THEN <<n>> ELSE <<>>) \o w[NextNode(u, n)]) \in Seq(Keys)
  <2>1. CASE n = Nil
    BY <2>1
  <2>2. CASE n # Nil
    <3>1. PICK m : m = NextNode(u, n)
      OBVIOUS
    <3>2. m \in Nodes
      BY <2>2, <3>1, NextIsNode
    <3>3. w[m] \in Seq(Keys)
      BY <3>2
    <3>4. (IF n \in filter THEN <<n>> ELSE <<>>) \in Seq(Keys)
      OBVIOUS
    <3>5. (IF n \in filter THEN <<n>> ELSE <<>>) \o w[m] \in Seq(Keys)
      BY <3>3, <3>4
    <3> QED BY <2>2, <3>1, <3>5, Zenon
  <2> QED BY <2>1, <2>2
<1> QED BY <1>1, Zenon DEF CollectTurn

LEMMA CollectRuns ==
  ASSUME NEW u, NEW S, Tidy(u, S), NEW filter \in SUBSET Keys
  PROVE  \E f : /\ \A n \in Nodes : f[0][n] = <<>>
                /\ \A j \in 1..Cardinality(Keys) : f[j] = CollectTurn(u, filter, f[j - 1])
                /\ Collected(u, filter) = f[Cardinality(Keys)][Lowest(u, Root)]
<1> DEFINE L == Cardinality(Keys)
           W == [Nodes -> Seq(Keys)]
           a == [n \in Nodes |-> <<>>]
           g == [j \in 1..L |-> [w \in W |-> CollectTurn(u, filter, w)]]
<1>1. L \in Nat
  BY FinitePart
<1>2. a \in W
  OBVIOUS
<1>3. \A w \in W : CollectTurn(u, filter, w) \in W
  BY CollectTurnType
<1>4. g \in [1..L -> [W -> W]] /\ \A j \in 1..L, w \in W : g[j][w] = CollectTurn(u, filter, w)
  <2> HIDE DEF W, L
  <2> QED BY <1>3
<1>5. LoopRuns(L, W, a, g)
  <2> HIDE DEF L, W, a, g
  <2> QED BY <1>1, <1>2, <1>4, LoopExists
<1>6. PICK f \in [0..L -> W] : f[0] = a /\ \A j \in 1..L : f[j] = g[j][f[j - 1]]
  <2> HIDE DEF L, W, a, g
  <2> QED BY <1>5 DEF LoopRuns
<1>7. \A j \in 1..L : f[j] = CollectTurn(u, filter, f[j - 1])
  <2> HIDE DEF W, g
  <2>1. ASSUME NEW j \in 1..L PROVE f[j] = CollectTurn(u, filter, f[j - 1])
    <3>1. j - 1 \in 0..L
      BY <1>1
    <3>2. f[j - 1] \in W
      BY <3>1, <1>6
    <3> QED BY <3>2, <1>4, <1>6, Zenon
  <2> QED BY <2>1
<1>8. CollectTurns(f, u, filter)
  <2> DEFINE e == [i \in 0..L |-> [n \in Nodes |-> IF i = 0 \/ n = Nil THEN <<>>
                                     ELSE (IF n \in filter THEN <<n>> ELSE <<>>) \o f[i - 1][NextNode(u, n)]]]
  <2>1. ASSUME NEW i \in 0..L PROVE e[i] = f[i]
    <3>1. e[i] = [n \in Nodes |-> IF i = 0 \/ n = Nil THEN <<>>
                                  ELSE (IF n \in filter THEN <<n>> ELSE <<>>) \o f[i - 1][NextNode(u, n)]]
      BY Zenon
    <3> HIDE DEF e
    <3>2. CASE i = 0
      <4>1. \A n \in Nodes : (IF i = 0 \/ n = Nil THEN <<>>
                              ELSE (IF n \in filter THEN <<n>> ELSE <<>>) \o f[i - 1][NextNode(u, n)]) = <<>>
        BY <3>2, Zenon
      <4>2. e[i] = [n \in Nodes |-> <<>>]
        BY <3>1, <4>1, Zenon
      <4> QED BY <4>2, <3>2, <1>6, Zenon
    <3>3. CASE i # 0
      <4>1. i \in 1..L
        BY <3>3, <1>1
      <4>2. f[i] = CollectTurn(u, filter, f[i - 1])
        BY <4>1, <1>7, Zenon
      <4>3. CollectTurn(u, filter, f[i - 1]) =
              [n \in Nodes |-> IF n = Nil THEN <<>> ELSE (IF n \in filter THEN <<n>> ELSE <<>>) \o f[i - 1][NextNode(u, n)]]
        BY Zenon DEF CollectTurn
      <4>4. \A n \in Nodes : (IF i = 0 \/ n = Nil THEN <<>>
                              ELSE (IF n \in filter THEN <<n>> ELSE <<>>) \o f[i - 1][NextNode(u, n)]) =
                             (IF n = Nil THEN <<>> ELSE (IF n \in filter THEN <<n>> ELSE <<>>) \o f[i - 1][NextNode(u, n)])
        BY <3>3, Zenon
      <4>5. e[i] = CollectTurn(u, filter, f[i - 1])
        BY <3>1, <4>3, <4>4, Zenon
      <4> QED BY <4>2, <4>5, Zenon
    <3> QED BY <3>2, <3>3
  <2>2. e = [i \in 0..L |-> e[i]] /\ f = [i \in 0..L |-> f[i]]
    BY <1>6
  <2>3. e = f
    <3> HIDE DEF e
    <3> QED BY <2>1, <2>2
  <2> QED BY <2>3, Zenon DEF CollectTurns
<1> DEFINE F == CHOOSE h : CollectTurns(h, u, filter)
<1>9. CollectTurns(F, u, filter)
  BY <1>8, Zenon
<1>10. Collected(u, filter) = F[L][Lowest(u, Root)]
  BY Zenon DEF Collected, CollectTurns
<1> HIDE DEF F
<1>11. \A i \in 0..L : F[i] = [n \in Nodes |-> IF i = 0 \/ n = Nil THEN <<>>
                                 ELSE (IF n \in filter THEN <<n>> ELSE <<>>) \o F[i - 1][NextNode(u, n)]]
  BY <1>9, Zenon DEF CollectTurns
<1>12. 0 \in 0..L /\ \A j \in 1..L : j \in 0..L /\ j # 0
  BY <1>1
<1>13. ASSUME NEW n \in Nodes PROVE F[0][n] = <<>>
  BY <1>11, <1>12, Zenon
<1>14. ASSUME NEW j \in 1..L PROVE F[j] = CollectTurn(u, filter, F[j - 1])
  <2>1. F[j] = [n \in Nodes |-> IF j = 0 \/ n = Nil THEN <<>>
                                 ELSE (IF n \in filter THEN <<n>> ELSE <<>>) \o F[j - 1][NextNode(u, n)]]
    BY <1>11, <1>12, Zenon
  <2>2. CollectTurn(u, filter, F[j - 1]) =
          [n \in Nodes |-> IF n = Nil THEN <<>> ELSE (IF n \in filter THEN <<n>> ELSE <<>>) \o F[j - 1][NextNode(u, n)]]
    BY Zenon DEF CollectTurn
  <2>3. j # 0
    BY <1>12
  <2>4. \A n \in Nodes : (IF j = 0 \/ n = Nil THEN <<>>
                          ELSE (IF n \in filter THEN <<n>> ELSE <<>>) \o F[j - 1][NextNode(u, n)]) =
                         (IF n = Nil THEN <<>> ELSE (IF n \in filter THEN <<n>> ELSE <<>>) \o F[j - 1][NextNode(u, n)])
    BY <2>3, Zenon
  <2> QED BY <2>1, <2>2, <2>4, Zenon
<1> QED BY <1>10, <1>13, <1>14, Zenon

From(S, n) == {a \in S : n <= a}

LEMMA FromNext ==
  ASSUME NEW S \in SUBSET Keys, NEW n \in S, NEW m, Follows(S, n, m)
  PROVE  /\ IsFiniteSet(From(S, n)) /\ Cardinality(From(S, n)) \in Nat \ {0}
         /\ m = Nil => From(S, n) = {n}
         /\ m # Nil => /\ m \in S /\ From(S, n) = From(S, m) \cup {n} /\ \A a \in From(S, m) : n < a
                       /\ Cardinality(From(S, m)) = Cardinality(From(S, n)) - 1
<1>1. S \subseteq Int /\ n \in Int /\ Nil \notin S
  BY NodeFacts
<1>2. n \in From(S, n) /\ From(S, n) \in SUBSET S /\ From(S, m) \in SUBSET S
  BY <1>1 DEF From
<1>3. IsFiniteSet(From(S, n)) /\ Cardinality(From(S, n)) \in Nat \ {0}
  <2>1. IsFiniteSet(From(S, n)) /\ Cardinality(From(S, n)) \in Nat
    BY <1>2, FinitePart
  <2>2. Cardinality(From(S, n)) # 0
    BY <1>2, <2>1, FS_EmptySet
  <2> QED BY <2>1, <2>2
<1>4. m = Nil => From(S, n) = {n}
  <2>1. ASSUME m = Nil PROVE From(S, n) = {n}
    <3>1. \A j \in S : j <= n
      BY <2>1, <1>1 DEF Follows
    <3>2. \A j \in S : n <= j <=> j = n
      BY <3>1, <1>1
    <3> QED BY <3>2 DEF From
  <2> QED BY <2>1
<1>5. ASSUME m # Nil
      PROVE  /\ m \in S /\ From(S, n) = From(S, m) \cup {n} /\ \A a \in From(S, m) : n < a
             /\ Cardinality(From(S, m)) = Cardinality(From(S, n)) - 1
  <2>1. m \in S /\ n < m /\ \A j \in S : n < j => m <= j
    BY <1>5 DEF Follows
  <2>2. \A a \in From(S, m) : n < a
    BY <2>1, <1>1 DEF From
  <2>3. From(S, n) = From(S, m) \cup {n}
    <3>1. ASSUME NEW j \in S PROVE n <= j <=> m <= j \/ j = n
      <4>1. j \in Int /\ m \in Int /\ (n < j => m <= j)
        BY <2>1, <1>1
      <4> QED BY <4>1, <2>1, <1>1
    <3> QED BY <3>1 DEF From
  <2>4. n \notin From(S, m) /\ IsFiniteSet(From(S, m)) /\ Cardinality(From(S, m)) \in Nat
    BY <2>2, <1>1, <1>2, FinitePart
  <2>5. Cardinality(From(S, n)) = Cardinality(From(S, m)) + 1
    BY <2>3, <2>4, FS_AddElement
  <2> QED BY <2>1, <2>2, <2>3, <2>4, <2>5
<1> QED BY <1>3, <1>4, <1>5

\* An iteration from n on yields what follows n.
LEMMA CollectFrom ==
  ASSUME NEW u, NEW S, Tidy(u, S), NEW filter \in SUBSET Keys, NEW L, L = Cardinality(Keys),
         NEW f, \A n \in Nodes : f[0][n] = <<>>,
         \A j \in 1..L : f[j] = CollectTurn(u, filter, f[j - 1])
  PROVE  \A n \in S : Cardinality(From(S, n)) <= L => Lists(f[L][n], From(S, n) \cap filter)
<1> DEFINE Good(i) == \A n \in S : Cardinality(From(S, n)) <= i => Lists(f[i][n], From(S, n) \cap filter)
           P == {i \in Nat : i <= L => Good(i)}
<1>1. L \in Nat /\ S \in SUBSET Keys
  BY FinitePart, TidyParts, Zenon
<1>2. \A n \in S : Follows(S, n, NextNode(u, n)) /\ Cardinality(From(S, n)) \in Nat \ {0}
  <2> TAKE n \in S
  <2>1. PICK m : m = NextNode(u, n)
    OBVIOUS
  <2>2. Follows(S, n, m)
    BY <2>1, NextFollows
  <2>3. Cardinality(From(S, n)) \in Nat \ {0}
    BY <1>1, <2>2, FromNext
  <2> QED BY <2>1, <2>2, <2>3
<1>3. Nil \in Nodes /\ Nil \notin S /\ S \subseteq Nodes
  BY <1>1, NodeFacts, Zenon
<1>4. \A i \in 0..L : f[i][Nil] = <<>>
  <2>1. ASSUME NEW i \in 0..L PROVE f[i][Nil] = <<>>
    <3>1. CASE i = 0
      BY <3>1, <1>3
    <3>2. CASE i # 0
      <4>1. i \in 1..L
        BY <3>2, <1>1
      <4>2. f[i] = CollectTurn(u, filter, f[i - 1])
        BY <4>1
      <4>3. CollectTurn(u, filter, f[i - 1])[Nil] = <<>>
        BY <1>3, Zenon DEF CollectTurn
      <4> QED BY <4>2, <4>3, Zenon
    <3> QED BY <3>1, <3>2
  <2> QED BY <2>1
<1>5. 0 \in P
  BY <1>2
<1>6. ASSUME NEW i \in P, i < L PROVE i + 1 \in P
  <2>1. i \in Nat /\ i + 1 \in 1..L /\ (i + 1) - 1 = i /\ i \in 0..L /\ i <= L
    BY <1>1, <1>6
  <2>2. Good(i)
    <3> HIDE DEF Good
    <3> QED BY <2>1, <1>6
  <2>3. ASSUME NEW n \in S, Cardinality(From(S, n)) <= i + 1
        PROVE  Lists(f[i + 1][n], From(S, n) \cap filter)
    <3>1. PICK m : m = NextNode(u, n)
      OBVIOUS
    <3>2. Follows(S, n, m)
      BY <1>2, <3>1
    <3>3. /\ IsFiniteSet(From(S, n)) /\ Cardinality(From(S, n)) \in Nat \ {0}
          /\ m = Nil => From(S, n) = {n}
          /\ m # Nil => /\ m \in S /\ From(S, n) = From(S, m) \cup {n} /\ \A a \in From(S, m) : n < a
                        /\ Cardinality(From(S, m)) = Cardinality(From(S, n)) - 1
      BY <3>2, <1>1, FromNext, ZenonT(40)
    <3>4. PICK r : r = f[i][m]
      OBVIOUS
    <3>5. f[i + 1][n] = (IF n \in filter THEN <<n>> ELSE <<>>) \o r
      <4>1. f[i + 1] = CollectTurn(u, filter, f[(i + 1) - 1])
        BY <2>1, Zenon
      <4>2. f[i + 1] = CollectTurn(u, filter, f[i])
        BY <4>1, <2>1
      <4>3. n \in Nodes /\ n # Nil
        BY <1>3
      <4>4. CollectTurn(u, filter, f[i])[n] = (IF n \in filter THEN <<n>> ELSE <<>>) \o f[i][NextNode(u, n)]
        BY <4>3, Zenon DEF CollectTurn
      <4> QED BY <4>2, <4>4, <3>1, <3>4, Zenon
    <3>6. PICK A : A = IF m = Nil THEN {} ELSE From(S, m) \cap filter
      OBVIOUS
    <3>7. Lists(r, A)
      <4>1. CASE m = Nil
        <5>1. r = <<>> /\ A = {}
          BY <4>1, <3>4, <3>6, <1>4, <2>1
        <5> QED BY <5>1, ListsNothing
      <4>2. CASE m # Nil
        <5>1. m \in S /\ Cardinality(From(S, m)) <= i /\ A = From(S, m) \cap filter
          BY <4>2, <3>3, <3>6, <2>1, <2>3
        <5> QED BY <5>1, <2>2, <3>4
      <4> QED BY <4>1, <4>2
    <3>8. /\ A \in SUBSET Keys /\ \A a \in A : n < a
          /\ n \in filter => From(S, n) \cap filter = A \cup {n}
          /\ n \notin filter => From(S, n) \cap filter = A
      BY <3>3, <3>6, Zenon
    <3>9. r \in Seq(Keys) /\ <<>> \o r = r
      <4>1. r \in Seq(Keys)
        BY <3>7 DEF Lists
      <4> QED BY <4>1
    <3>10. CASE n \in filter
      <4>1. f[i + 1][n] = <<n>> \o r
        BY <3>5, <3>10, Zenon
      <4>2. Lists(<<n>> \o r, A \cup {n})
        BY <3>7, <3>8, <3>10, ListsMore
      <4> QED BY <4>1, <4>2, <3>8, <3>10
    <3>11. CASE n \notin filter
      <4>1. f[i + 1][n] = <<>> \o r
        BY <3>5, <3>11, Zenon
      <4> QED BY <4>1, <3>7, <3>8, <3>9, <3>11
    <3> QED BY <3>10, <3>11
  <2>4. Good(i + 1)
    BY <2>3
  <2> HIDE DEF Good
  <2> QED BY <2>1, <2>4
<1>7. P \in SUBSET Nat
  OBVIOUS
<1>8. L \in P
  <2> HIDE DEF P
  <2>1. 0..L \subseteq P
    BY <1>1, <1>5, <1>6, <1>7, UpTo
  <2> QED BY <2>1, <1>1
<1>9. Good(L)
  <2> HIDE DEF Good
  <2> QED BY <1>1, <1>8
<1> QED BY <1>9

LEMMA CollectedLists ==
  ASSUME NEW u, NEW S, Tidy(u, S), S # {}, NEW filter \in SUBSET Keys
  PROVE  Lists(Collected(u, filter), S \cap filter)
<1>1. S \in SUBSET Keys /\ \E sub : Searchable(u, S, sub)
  BY TidyParts, Zenon
<1>2. PICK sub : Searchable(u, S, sub)
  BY <1>1
<1>3. PICK m : m = Lowest(u, Root)
  OBVIOUS
<1>4. m \in S /\ \A a \in S : m <= a
  <2>1. m \in S /\ m \in sub[Root] /\ \A a \in sub[Root] : m <= a
    BY <1>2, <1>3, LowestIsLeast
  <2> QED BY <2>1, <1>2 DEF Searchable
<1>5. From(S, m) = S
  BY <1>4 DEF From
<1>6. PICK L : L = Cardinality(Keys)
  OBVIOUS
<1>7. Cardinality(From(S, m)) <= L
  BY <1>1, <1>5, <1>6, KeysAssumption, FS_Subset
<1>8. PICK f : /\ \A n \in Nodes : f[0][n] = <<>>
               /\ \A j \in 1..L : f[j] = CollectTurn(u, filter, f[j - 1])
               /\ Collected(u, filter) = f[L][m]
  BY <1>3, <1>6, CollectRuns
<1>9. \A n \in S : Cardinality(From(S, n)) <= L => Lists(f[L][n], From(S, n) \cap filter)
  BY <1>6, <1>8, CollectFrom
<1> QED BY <1>4, <1>5, <1>7, <1>8, <1>9

\* The iterator yields what is in the tree.
LEMMA IteratedLists ==
  ASSUME NEW u, NEW S, Tidy(u, S), u.size = Cardinality(S)
  PROVE  Lists(Iterated(u), S)
<1>1. S \in SUBSET Keys /\ IsFiniteSet(S)
  BY TidyParts, FinitePart, Zenon
<1>2. CASE S = {}
  <2>1. u.size = 0
    BY <1>2, FS_EmptySet
  <2>2. Iterated(u) = <<>>
    BY <2>1 DEF Iterated
  <2> QED BY <2>2, <1>2, ListsNothing
<1>3. CASE S # {}
  <2>1. u.size # 0
    BY <1>1, <1>3, FS_EmptySet
  <2>2. Iterated(u) = Collected(u, Keys)
    BY <2>1 DEF Iterated
  <2>3. Lists(Collected(u, Keys), S \cap Keys)
    BY <1>3, CollectedLists
  <2>4. S \cap Keys = S
    BY <1>1
  <2> QED BY <2>2, <2>3, <2>4
<1> QED BY <1>2, <1>3

-----------------------------------------------------------------------------
(***************************************************************************)
(* A node less, RBTreeRemove.                                              *)
(***************************************************************************)
\* x is all that is below y, and d the side of its parent p that y is on.
OnlyChild(u, S, y, x, p, d) ==
  /\ y \in S /\ p = u.parent[y] /\ d = SideOf(u, y)
  /\ \A way \in Sides : u.kid[way][y] = x \/ u.kid[way][y] = Nil
  /\ \E way \in Sides : u.kid[way][y] = x /\ u.kid[Other(way)][y] = Nil

\* v is u with x in the place of y.
Spliced(u, v, x, p, d) ==
  /\ v \in TreeRecords /\ v.size = u.size /\ v.red = u.red
  /\ \A n \in Nodes : v.parent[n] = IF n = x THEN p ELSE u.parent[n]
  /\ \A way \in Sides, n \in Nodes : v.kid[way][n] = IF way = d /\ n = p THEN x ELSE u.kid[way][n]

LEMMA ReplaceFields ==
  ASSUME NEW u \in TreeRecords, NEW x \in Nodes, NEW y \in Nodes, NEW p \in Nodes, NEW d \in Sides,
         p = u.parent[y], d = SideOf(u, y), p = Root => d = "left"
  PROVE  Spliced(u, Replace(u, y, x), x, p, d)
<1>1. /\ u.red \in SUBSET Nodes /\ u.parent \in [Nodes -> Nodes]
      /\ u.kid \in [Sides -> [Nodes -> Nodes]] /\ u.size \in Int
      /\ u = [red |-> u.red, parent |-> u.parent, kid |-> u.kid, size |-> u.size]
  BY DEF TreeRecords
<1> DEFINE kid == [u.kid EXCEPT ![d][p] = x]
           par == [u.parent EXCEPT ![x] = p]
<1>3. Replace(u, y, x) = [red |-> u.red, parent |-> par, kid |-> kid, size |-> u.size]
  <2>1. d = IF u.parent[y] = Root THEN "left" ELSE SideOf(u, y)
    BY Zenon
  <2>2. Replace(u, y, x) = [u EXCEPT !.parent[x] = p, !.kid[d][p] = x]
    BY <2>1, Zenon DEF Replace
  <2> QED BY <1>1, <2>2
<1>4. /\ kid \in [Sides -> [Nodes -> Nodes]]
      /\ \A way \in Sides, n \in Nodes : kid[way][n] = IF way = d /\ n = p THEN x ELSE u.kid[way][n]
  BY <1>1
<1>5. par \in [Nodes -> Nodes] /\ \A n \in Nodes : par[n] = IF n = x THEN p ELSE u.parent[n]
  BY <1>1
<1> HIDE DEF kid, par
<1> DEFINE v == [red |-> u.red, parent |-> par, kid |-> kid, size |-> u.size]
<1>7. v \in TreeRecords /\ v.size = u.size /\ v.red = u.red /\ v.parent = par /\ v.kid = kid
  <2>1. kid \in [Sides -> [Nodes -> Nodes]] /\ par \in [Nodes -> Nodes] /\ u.red \in SUBSET Nodes /\ u.size \in Int
    BY <1>1, <1>4, <1>5
  <2> QED BY <2>1 DEF TreeRecords
<1>9. Replace(u, y, x) = v
  BY <1>3
<1> HIDE DEF v
<1> QED BY <1>4, <1>5, <1>7, <1>9 DEF Spliced

\* Around y: its parent, its side, its only child.
Splice(u, S, sub, y, x, p, d) ==
  /\ y \in S /\ y \in Nodes /\ p \in S \cup {Root} /\ p \in Nodes /\ p # Nil /\ d \in Sides
  /\ y = u.kid[d][p] /\ y # p /\ y # Nil /\ y # Root /\ (p = Root => d = "left")
  /\ u.parent[y] = p /\ u.kid[Other(d)][p] # y
  /\ x \in S \cup {Nil} /\ x \in Nodes /\ x # y /\ x # p /\ (x # Nil => u.parent[x] = y)
  /\ \A way \in Sides : u.kid[way][y] = x \/ u.kid[way][y] = Nil
  /\ \E way \in Sides : u.kid[way][y] = x
  /\ sub[y] = {y} \cup sub[x] /\ y \notin sub[x]

LEMMA OnlyChildSplice ==
  ASSUME NEW u \in TreeRecords, NEW S \in SUBSET Keys, Linked(u, S), NEW sub, Searchable(u, S, sub),
         NEW y, NEW x, NEW p, NEW d, OnlyChild(u, S, y, x, p, d)
  PROVE  Splice(u, S, sub, y, x, p, d)
<1>1. /\ y \in S /\ p = u.parent[y] /\ d = SideOf(u, y)
      /\ \A way \in Sides : u.kid[way][y] = x \/ u.kid[way][y] = Nil
  BY DEF OnlyChild
<1>2. PICK way \in Sides : u.kid[way][y] = x /\ u.kid[Other(way)][y] = Nil
  BY DEF OnlyChild
<1>3. UpNode(u, S, sub, y, p)
  BY <1>1, UpNodes
<1>4. /\ y \in Nodes /\ p \in S \cup {Root} /\ p \in Nodes /\ p # Nil /\ d \in Sides
      /\ y = u.kid[d][p] /\ y # p /\ y # Nil /\ y # Root /\ (p = Root => d = "left")
  BY <1>1, <1>3 DEF UpNode
<1>5. u.kid[Other(d)][p] # y
  <2>1. CASE p = Root
    BY <2>1, <1>4 DEF Linked, Right, Other
  <2>2. CASE p # Root
    <3>1. p \in S
      BY <2>2, <1>4
    <3>2. KidNode(u, S, sub, p, d, y)
      BY <3>1, <1>4, KidNodes
    <3> QED BY <3>2 DEF KidNode
  <2> QED BY <2>1, <2>2, Zenon
<1>6. x # Nil => KidNode(u, S, sub, y, way, x)
  BY <1>1, <1>2, KidNodes
<1>7. x \in S \cup {Nil} /\ x \in Nodes /\ x # y /\ (x # Nil => u.parent[x] = y) /\ y \notin sub[x]
  <2>1. CASE x = Nil
    BY <2>1, <1>4, NodeFacts DEF Searchable
  <2>2. CASE x # Nil
    BY <2>2, <1>6 DEF KidNode
  <2> QED BY <2>1, <2>2, Zenon
<1>8. sub[y] = {y} \cup sub[x]
  <2>1. sub[y] = {y} \cup sub[u.kid[way][y]] \cup sub[u.kid[Other(way)][y]]
    BY <1>1 DEF Searchable, Left, Right, Sides, Other
  <2>2. sub[Nil] = {}
    BY DEF Searchable
  <2> QED BY <2>1, <2>2, <1>2, Zenon
<1>9. x # p
  <2>1. p \notin sub[y]
    BY <1>3 DEF UpNode
  <2>2. x # Nil => x \in sub[x]
    BY <1>6, Zenon DEF KidNode
  <2> QED BY <2>1, <2>2, <1>4, <1>8
<1> QED BY <1>1, <1>2, <1>4, <1>5, <1>7, <1>8, <1>9, Zenon DEF Splice

LEMMA SplicedLinked ==
  ASSUME NEW u \in TreeRecords, NEW S \in SUBSET Keys, Linked(u, S), NEW sub,
         NEW y, NEW x, NEW p, NEW d, Splice(u, S, sub, y, x, p, d), NEW v, Spliced(u, v, x, p, d)
  PROVE  Linked(v, S \ {y})
<1>1. /\ y \in S /\ y \in Nodes /\ p \in S \cup {Root} /\ p \in Nodes /\ p # Nil /\ d \in Sides
      /\ y = u.kid[d][p] /\ y # p /\ y # Nil /\ y # Root /\ (p = Root => d = "left")
      /\ u.parent[y] = p /\ u.kid[Other(d)][p] # y
      /\ x \in S \cup {Nil} /\ x \in Nodes /\ x # y /\ x # p /\ (x # Nil => u.parent[x] = y)
      /\ \A way \in Sides : u.kid[way][y] = x \/ u.kid[way][y] = Nil
  BY DEF Splice
<1>2. /\ \A n \in Nodes : v.parent[n] = IF n = x THEN p ELSE u.parent[n]
      /\ \A way \in Sides, n \in Nodes : v.kid[way][n] = IF way = d /\ n = p THEN x ELSE u.kid[way][n]
  BY Zenon DEF Spliced
<1>3. /\ S \subseteq Nodes /\ Root \in Nodes /\ Nil \in Nodes /\ Nil \notin S /\ Root \notin S /\ Root # Nil
      /\ \A way \in Sides : way = d \/ way = Other(d)
  BY <1>1, NodeFacts
<1>4. ASSUME NEW n \in (S \ {y}) \cup {Root}, NEW way \in Sides, v.kid[way][n] # Nil
      PROVE  v.kid[way][n] \in S \ {y} /\ v.parent[v.kid[way][n]] = n
  <2>1. CASE way = d /\ n = p
    BY <2>1, <1>1, <1>2, <1>4
  <2>2. CASE ~(way = d /\ n = p)
    <3>1. PICK c : c = u.kid[way][n]
      OBVIOUS
    <3>2. v.kid[way][n] = c /\ c # Nil
      BY <2>2, <3>1, <1>2, <1>3, <1>4
    <3>3. c \in S /\ u.parent[c] = n
      BY <3>1, <3>2 DEF Linked
    <3>4. c # y
      BY <2>2, <3>1, <3>3, <1>1, <1>3, Zenon
    <3>5. c # x
      BY <3>2, <3>3, <1>1, Zenon
    <3> QED BY <3>2, <3>3, <3>4, <3>5, <1>2, <1>3
  <2> QED BY <2>1, <2>2, Zenon
<1>5. ASSUME NEW j \in S \ {y}
      PROVE  /\ v.parent[j] \in (S \ {y}) \cup {Root}
             /\ \E way \in Sides : j = v.kid[way][v.parent[j]]
  <2>1. CASE j = x
    BY <2>1, <1>1, <1>2
  <2>2. CASE j # x
    <3>1. PICK m : m = u.parent[j]
      OBVIOUS
    <3>2. v.parent[j] = m /\ m \in S \cup {Root} /\ j # Nil
      BY <2>2, <3>1, <1>2, <1>3, Zenon DEF Linked
    <3>3. PICK way \in Sides : j = u.kid[way][m]
      BY <3>1, Zenon DEF Linked, Left, Right, Sides
    <3>4. m # y
      BY <2>2, <3>2, <3>3, <1>1, Zenon
    <3>5. ~(way = d /\ m = p)
      BY <3>3, <1>1
    <3>6. v.kid[way][m] = j
      BY <3>2, <3>3, <3>5, <1>2, <1>3
    <3> QED BY <3>2, <3>4, <3>6
  <2> QED BY <2>1, <2>2, Zenon
<1>6. \A j \in S \ {y} : j = Left(v, v.parent[j]) \/ j = Right(v, v.parent[j])
  BY <1>5, Zenon DEF Left, Right, Sides
<1>7. Right(v, Root) = Nil /\ Left(v, Nil) = Nil /\ Right(v, Nil) = Nil
  <2>1. "left" \in Sides /\ "right" \in Sides
    BY NodeFacts, Zenon
  <2>2. Right(u, Root) = Nil /\ Left(u, Nil) = Nil /\ Right(u, Nil) = Nil
    BY Zenon DEF Linked
  <2> QED BY <2>1, <2>2, <1>1, <1>2, <1>3 DEF Left, Right
<1>8. v.parent[Root] = Nil
  BY <1>1, <1>2, <1>3 DEF Linked
<1> QED BY <1>4, <1>5, <1>6, <1>7, <1>8, Zenon DEF Linked

LEMMA SplicedSearchable ==
  ASSUME NEW u \in TreeRecords, NEW S \in SUBSET Keys, Linked(u, S), NEW sub, Searchable(u, S, sub),
         NEW y, NEW x, NEW p, NEW d, Splice(u, S, sub, y, x, p, d), NEW v, Spliced(u, v, x, p, d)
  PROVE  Searchable(v, S \ {y}, [n \in Nodes |-> sub[n] \ {y}])
<1>1. /\ y \in S /\ p \in Nodes /\ d \in Sides /\ y = u.kid[d][p] /\ y # p /\ x \in Nodes /\ y \in Nodes
      /\ sub[y] = {y} \cup sub[x] /\ y \notin sub[x]
  BY DEF Splice
<1>2. \A way \in Sides, n \in Nodes : v.kid[way][n] = IF way = d /\ n = p THEN x ELSE u.kid[way][n]
  BY DEF Spliced
<1>3. /\ S \subseteq Nodes /\ Root \in Nodes /\ Nil \in Nodes /\ "left" \in Sides /\ "right" \in Sides
      /\ \A way \in Sides, n \in Nodes : u.kid[way][n] \in Nodes
  BY NodeFacts DEF TreeRecords
<1>4. /\ sub \in [Nodes -> SUBSET S]
      /\ sub[Nil] = {} /\ sub[Root] = S /\ sub[u.kid["left"][Root]] = S
      /\ \A j \in S : sub[j] = {j} \cup sub[u.kid["left"][j]] \cup sub[u.kid["right"][j]]
      /\ \A j \in S, way \in Sides : \A a \in sub[u.kid[way][j]] : Before(way, a, j)
  BY DEF Searchable, Left, Right
<1> DEFINE sb == [n \in Nodes |-> sub[n] \ {y}]
<1>5. sb \in [Nodes -> SUBSET (S \ {y})] /\ \A n \in Nodes : sb[n] = sub[n] \ {y}
  BY <1>4
<1> HIDE DEF sb
<1>6. ASSUME NEW n \in Nodes, NEW way \in Sides PROVE sb[v.kid[way][n]] = sub[u.kid[way][n]] \ {y}
  <2>1. CASE way = d /\ n = p
    <3>1. v.kid[way][n] = x /\ u.kid[way][n] = y
      BY <2>1, <1>1, <1>2
    <3> QED BY <3>1, <1>1, <1>5
  <2>2. CASE ~(way = d /\ n = p)
    <3>1. v.kid[way][n] = u.kid[way][n] /\ u.kid[way][n] \in Nodes
      BY <2>2, <1>2, <1>3, Zenon
    <3> QED BY <3>1, <1>5
  <2> QED BY <2>1, <2>2, Zenon
<1>7. sb[Nil] = {} /\ sb[Root] = S \ {y} /\ sb[v.kid["left"][Root]] = S \ {y}
  BY <1>3, <1>4, <1>5, <1>6
<1>8. ASSUME NEW j \in S \ {y}
      PROVE  /\ sb[j] = {j} \cup sb[v.kid["left"][j]] \cup sb[v.kid["right"][j]]
             /\ \A way \in Sides : \A a \in sb[v.kid[way][j]] : Before(way, a, j)
  <2>1. j \in Nodes /\ j \in S /\ j # y
    BY <1>3, Zenon
  <2>2. sb[v.kid["left"][j]] = sub[u.kid["left"][j]] \ {y} /\ sb[v.kid["right"][j]] = sub[u.kid["right"][j]] \ {y}
    BY <2>1, <1>3, <1>6
  <2>3. sb[j] = sub[j] \ {y} /\ sub[j] = {j} \cup sub[u.kid["left"][j]] \cup sub[u.kid["right"][j]]
    BY <2>1, <1>4, <1>5, Zenon
  <2>4. sb[j] = {j} \cup sb[v.kid["left"][j]] \cup sb[v.kid["right"][j]]
    BY <2>1, <2>2, <2>3, Zenon
  <2>5. ASSUME NEW way \in Sides, NEW a \in sb[v.kid[way][j]] PROVE Before(way, a, j)
    <3>1. a \in sub[u.kid[way][j]]
      BY <2>1, <2>5, <1>6, Zenon
    <3> QED BY <3>1, <2>1, <1>4
  <2> QED BY <2>4, <2>5
<1>9. Searchable(v, S \ {y}, sb)
  BY <1>5, <1>7, <1>8, Zenon DEF Searchable, Left, Right
<1> QED BY <1>9, Zenon DEF sb

\* The heights: nothing has changed but for what y counted.
LEMMA SplicedNumbers ==
  ASSUME NEW u \in TreeRecords, NEW S \in SUBSET Keys, Linked(u, S), NEW sub,
         NEW y, NEW x, NEW p, NEW d, Splice(u, S, sub, y, x, p, d), NEW v, Spliced(u, v, x, p, d),
         NEW bh, WholeNumbers(u, S, bh)
  PROVE  /\ bh \in [Nodes -> Nat \ {0}] /\ bh[Nil] = 1 /\ bh[x] \in Nat \ {0}
         /\ y \in u.red => bh[y] = bh[x]
         /\ y \notin u.red => bh[y] = bh[x] + 1
         /\ \A j \in S \ {y}, way \in Sides :
              /\ v.kid[way][j] \in Nodes /\ bh[v.kid[way][j]] \in Int
              /\ ~(way = d /\ j = p) => /\ j \in u.red => bh[j] = bh[v.kid[way][j]]
                                        /\ j \notin u.red => bh[j] = bh[v.kid[way][j]] + 1
              /\ way = d /\ j = p => /\ v.kid[way][j] = x
                                     /\ j \in u.red => bh[j] = bh[y]
                                     /\ j \notin u.red => bh[j] = bh[y] + 1
<1>1. /\ y \in S /\ p \in Nodes /\ d \in Sides /\ y = u.kid[d][p] /\ y # p /\ x \in Nodes /\ y \in Nodes
  BY Zenon DEF Splice
<1>2. PICK q0 \in Sides : u.kid[q0][y] = x
  BY DEF Splice
<1>3. \A way \in Sides, n \in Nodes : v.kid[way][n] = IF way = d /\ n = p THEN x ELSE u.kid[way][n]
  BY DEF Spliced
<1>4. /\ bh \in [Nodes -> Nat \ {0}] /\ bh[Nil] = 1
      /\ \A j \in S, way \in Sides : /\ u.kid[way][j] \in Nodes
                                     /\ j \in u.red => bh[j] = bh[u.kid[way][j]]
                                     /\ j \notin u.red => bh[j] = bh[u.kid[way][j]] + 1
  BY DEF WholeNumbers
<1>5. S \subseteq Nodes
  BY NodeFacts, Zenon
<1>6. (y \in u.red => bh[y] = bh[x]) /\ (y \notin u.red => bh[y] = bh[x] + 1) /\ bh[x] \in Nat \ {0}
  BY <1>1, <1>2, <1>4, Zenon
<1>7. ASSUME NEW j \in S \ {y}, NEW way \in Sides
      PROVE  /\ v.kid[way][j] \in Nodes /\ bh[v.kid[way][j]] \in Int
             /\ ~(way = d /\ j = p) => /\ j \in u.red => bh[j] = bh[v.kid[way][j]]
                                       /\ j \notin u.red => bh[j] = bh[v.kid[way][j]] + 1
             /\ way = d /\ j = p => /\ v.kid[way][j] = x
                                    /\ j \in u.red => bh[j] = bh[y]
                                    /\ j \notin u.red => bh[j] = bh[y] + 1
  <2>1. PICK c : c = u.kid[way][j]
    OBVIOUS
  <2>2. c \in Nodes /\ (j \in u.red => bh[j] = bh[c]) /\ (j \notin u.red => bh[j] = bh[c] + 1)
    BY <2>1, <1>4
  <2>3. CASE way = d /\ j = p
    <3>1. v.kid[way][j] = x /\ c = y
      BY <2>1, <2>3, <1>1, <1>3
    <3>2. bh[x] \in Int
      BY <1>6
    <3> QED BY <3>1, <3>2, <2>2, <2>3, <1>1
  <2>4. CASE ~(way = d /\ j = p)
    <3>1. v.kid[way][j] = c
      BY <2>1, <2>4, <1>3, <1>5
    <3>2. bh[c] \in Int
      BY <2>2, <1>4
    <3> QED BY <3>1, <3>2, <2>2, <2>4
  <2> QED BY <2>3, <2>4
<1> QED BY <1>4, <1>6, <1>7, Zenon

\* What of the tree is as before.
LEMMA SplicedParts ==
  ASSUME NEW u, NEW S, RedBlack(u, S, Nil), NEW y, NEW x, NEW p, NEW d, OnlyChild(u, S, y, x, p, d),
         NEW v, v = Replace(u, y, x)
  PROVE  /\ Spliced(u, v, x, p, d) /\ Grown(v, S \ {y})
         /\ \E sub : Searchable(u, S, sub) /\ Splice(u, S, sub, y, x, p, d)
         /\ Nil \notin v.red /\ Root \notin v.red
         /\ \A j \in S \ {y} : j \in v.red /\ j # x => v.parent[j] # Root /\ v.parent[j] \notin v.red
<1>1. /\ u \in TreeRecords /\ S \in SUBSET Keys /\ Linked(u, S)
      /\ Nil \notin u.red /\ Root \notin u.red
      /\ \A k \in S : k \in u.red /\ k # Nil => u.parent[k] # Root /\ u.parent[k] \notin u.red
  BY RedBlackParts
<1>2. PICK sub : Searchable(u, S, sub)
  BY RedBlackParts
<1>3. Splice(u, S, sub, y, x, p, d)
  BY <1>1, <1>2, OnlyChildSplice, Zenon
<1>4. x \in Nodes /\ y \in Nodes /\ p \in Nodes /\ d \in Sides /\ (p = Root => d = "left")
  BY <1>3 DEF Splice
<1>5. p = u.parent[y] /\ d = SideOf(u, y)
  BY DEF OnlyChild
<1>6. Spliced(u, v, x, p, d)
  BY <1>1, <1>4, <1>5, ReplaceFields
<1>7. Grown(v, S \ {y})
  <2>1. Linked(v, S \ {y})
    BY <1>1, <1>3, <1>6, SplicedLinked
  <2>2. Searchable(v, S \ {y}, [n \in Nodes |-> sub[n] \ {y}])
    BY <1>1, <1>2, <1>3, <1>6, SplicedSearchable
  <2>3. \E sb : Searchable(v, S \ {y}, sb)
    BY <2>2, Zenon
  <2>4. v \in TreeRecords
    BY <1>6 DEF Spliced
  <2> QED BY <2>1, <2>3, <2>4, <1>1 DEF Grown
<1>8. v.red = u.red /\ \A n \in Nodes : v.parent[n] = IF n = x THEN p ELSE u.parent[n]
  BY <1>6 DEF Spliced
<1>9. ASSUME NEW j \in S \ {y}, j \in v.red, j # x PROVE v.parent[j] # Root /\ v.parent[j] \notin v.red
  BY <1>1, <1>8, <1>9, NodeFacts
<1> QED BY <1>1, <1>2, <1>3, <1>6, <1>7, <1>8, <1>9

\* A red node is taken out: no path loses a black node.
LEMMA ReplaceRed ==
  ASSUME NEW u, NEW S, RedBlack(u, S, Nil), NEW y, NEW x, NEW p, NEW d, OnlyChild(u, S, y, x, p, d),
         NEW v, v = Replace(u, y, x), y \in u.red
  PROVE  RedBlack(v, S \ {y}, Nil)
<1>1. /\ u \in TreeRecords /\ S \in SUBSET Keys /\ Linked(u, S)
      /\ \A k \in S : k \in u.red /\ k # Nil => u.parent[k] # Root /\ u.parent[k] \notin u.red
  BY RedBlackParts
<1>2. /\ Spliced(u, v, x, p, d) /\ Grown(v, S \ {y})
      /\ Nil \notin v.red /\ Root \notin v.red
      /\ \A j \in S \ {y} : j \in v.red /\ j # x => v.parent[j] # Root /\ v.parent[j] \notin v.red
  BY SplicedParts
<1>3. PICK sub : Searchable(u, S, sub) /\ Splice(u, S, sub, y, x, p, d)
  BY SplicedParts
<1>4. v.red = u.red
  BY <1>2 DEF Spliced
<1>5. x \notin v.red
  <2> SUFFICES ASSUME x \in v.red PROVE FALSE
    BY Zenon
  <2>1. x \in S /\ u.parent[x] = y /\ x # Nil
    BY <1>2, <1>3 DEF Splice
  <2> QED BY <2>1, <1>1, <1>4
<1>6. Coloured(v, S \ {y}, Nil)
  BY <1>2, <1>5 DEF Coloured
<1>7. PICK bh : Heights(u, S, bh, Nil, "left")
  BY RedBlackParts
<1>8. WholeNumbers(u, S, bh)
  BY <1>1, <1>7, WholeHeights, Zenon
<1>9. /\ bh \in [Nodes -> Nat \ {0}] /\ bh[Nil] = 1 /\ bh[y] = bh[x]
      /\ \A j \in S \ {y}, way \in Sides :
              /\ v.kid[way][j] \in Nodes /\ bh[v.kid[way][j]] \in Int
              /\ ~(way = d /\ j = p) => /\ j \in u.red => bh[j] = bh[v.kid[way][j]]
                                        /\ j \notin u.red => bh[j] = bh[v.kid[way][j]] + 1
              /\ way = d /\ j = p => /\ v.kid[way][j] = x
                                     /\ j \in u.red => bh[j] = bh[y]
                                     /\ j \notin u.red => bh[j] = bh[y] + 1
  BY <1>1, <1>2, <1>3, <1>8, SplicedNumbers
<1>10. WholeNumbers(v, S \ {y}, bh)
  <2>1. ASSUME NEW j \in S \ {y}, NEW way \in Sides
        PROVE  /\ bh[v.kid[way][j]] \in Int /\ v.kid[way][j] \in Nodes
               /\ j \in v.red => bh[j] = bh[v.kid[way][j]]
               /\ j \notin v.red => bh[j] = bh[v.kid[way][j]] + 1
    BY <1>4, <1>9
  <2> QED BY <2>1, <1>9, Zenon DEF WholeNumbers
<1> QED BY <1>2, <1>6, <1>10, FromWhole

\* The last node above goes: the rest is a tree, whose top is to be painted.
LEMMA ReplaceTop ==
  ASSUME NEW u, NEW S, RedBlack(u, S, Nil), NEW y, NEW x, NEW p, NEW d, OnlyChild(u, S, y, x, p, d),
         NEW v, v = Replace(u, y, x), p = Root, NEW w, Painted(v, w, v.red \ {x})
  PROVE  RedBlack(w, S \ {y}, Nil) /\ Left(v, Root) = x
<1>1. /\ u \in TreeRecords /\ S \in SUBSET Keys /\ Linked(u, S) /\ S \ {y} \in SUBSET Keys
  BY RedBlackParts
<1>2. /\ Spliced(u, v, x, p, d) /\ Grown(v, S \ {y})
      /\ Nil \notin v.red /\ Root \notin v.red
      /\ \A j \in S \ {y} : j \in v.red /\ j # x => v.parent[j] # Root /\ v.parent[j] \notin v.red
  BY SplicedParts
<1>3. PICK sub : Searchable(u, S, sub) /\ Splice(u, S, sub, y, x, p, d)
  BY SplicedParts
<1>4. /\ v.red = u.red /\ v \in TreeRecords
      /\ \A n \in Nodes : v.parent[n] = IF n = x THEN p ELSE u.parent[n]
      /\ \A way \in Sides, n \in Nodes : v.kid[way][n] = IF way = d /\ n = p THEN x ELSE u.kid[way][n]
  BY <1>2, Zenon DEF Spliced
<1>5. d = "left" /\ x \in Nodes /\ d \in Sides /\ p \in Nodes
  BY <1>3, Zenon DEF Splice
<1>6. Left(v, Root) = x /\ v.parent[x] = Root
  BY <1>4, <1>5 DEF Left
<1>7. PICK bh : Heights(u, S, bh, Nil, "left")
  BY RedBlackParts
<1>8. WholeNumbers(u, S, bh)
  BY <1>1, <1>7, WholeHeights, Zenon
<1>9. /\ bh \in [Nodes -> Nat \ {0}] /\ bh[Nil] = 1
      /\ \A j \in S \ {y}, way \in Sides :
              /\ v.kid[way][j] \in Nodes /\ bh[v.kid[way][j]] \in Int
              /\ ~(way = d /\ j = p) => /\ j \in u.red => bh[j] = bh[v.kid[way][j]]
                                        /\ j \notin u.red => bh[j] = bh[v.kid[way][j]] + 1
  BY <1>1, <1>2, <1>3, <1>8, SplicedNumbers
<1>10. WholeNumbers(v, S \ {y}, bh)
  <2>0. \A j \in S : j # p
    BY <1>1, NodeFacts, Zenon
  <2>1. ASSUME NEW j \in S \ {y}, NEW way \in Sides
        PROVE  /\ bh[v.kid[way][j]] \in Int /\ v.kid[way][j] \in Nodes
               /\ j \in v.red => bh[j] = bh[v.kid[way][j]]
               /\ j \notin v.red => bh[j] = bh[v.kid[way][j]] + 1
    BY <2>0, <1>4, <1>9
  <2> QED BY <2>1, <1>9 DEF WholeNumbers
<1>11. RedBlack(v, S \ {y}, x)
  <2>1. Heights(v, S \ {y}, bh, Nil, "left")
    BY <1>1, <1>4, <1>10, WholeHeights, Zenon
  <2>2. Coloured(v, S \ {y}, x)
    BY <1>2 DEF Coloured
  <2> QED BY <2>1, <2>2, <1>2 DEF RedBlack
<1>12. x \in S \ {y} /\ x \in v.red => v.parent[x] \notin v.red
  BY <1>2, <1>6
<1>13. PICK t : RedBlack(t, S \ {y}, Nil) /\ Painted(v, t, v.red \ {Left(v, Root)})
  BY <1>11, <1>12, BlackTop, Zenon
<1>14. Painted(t, w, t.red)
  BY <1>6, <1>13 DEF Painted
<1>15. RedBlack(w, S \ {y}, Nil)
  BY <1>13, <1>14, PaintedSame
<1> QED BY <1>6, <1>15

\* A black node goes and its red child can be black instead.
LEMMA ReplaceByRed ==
  ASSUME NEW u, NEW S, RedBlack(u, S, Nil), NEW y, NEW x, NEW p, NEW d, OnlyChild(u, S, y, x, p, d),
         NEW v, v = Replace(u, y, x), y \notin u.red, x \in v.red, NEW w, Painted(v, w, v.red \ {x})
  PROVE  RedBlack(w, S \ {y}, Nil)
<1>1. /\ u \in TreeRecords /\ S \in SUBSET Keys /\ Linked(u, S) /\ S \ {y} \in SUBSET Keys
  BY RedBlackParts
<1>2. /\ Spliced(u, v, x, p, d) /\ Grown(v, S \ {y})
      /\ Nil \notin v.red /\ Root \notin v.red
      /\ \A j \in S \ {y} : j \in v.red /\ j # x => v.parent[j] # Root /\ v.parent[j] \notin v.red
  BY SplicedParts
<1>3. PICK sub : Searchable(u, S, sub) /\ Splice(u, S, sub, y, x, p, d)
  BY SplicedParts
<1>4. v.red = u.red /\ v \in TreeRecords
  BY <1>2 DEF Spliced
<1>5. /\ x \in S /\ x \in Nodes /\ x # Nil /\ x # y /\ x # p /\ d \in Sides
  BY <1>2, <1>3, Zenon DEF Splice
<1>6. Grown(w, S \ {y}) /\ w.red = v.red \ {x} /\ w.kid = v.kid /\ w.parent = v.parent
  BY <1>2, PaintedGrown
<1>7. Coloured(w, S \ {y}, Nil)
  BY <1>2, <1>6 DEF Coloured
<1>8. PICK bh : Heights(u, S, bh, Nil, "left")
  BY RedBlackParts
<1>9. WholeNumbers(u, S, bh)
  BY <1>1, <1>8, WholeHeights, Zenon
<1>10. /\ bh \in [Nodes -> Nat \ {0}] /\ bh[Nil] = 1 /\ bh[x] \in Nat \ {0} /\ bh[y] = bh[x] + 1
       /\ \A j \in S \ {y}, way \in Sides :
              /\ v.kid[way][j] \in Nodes /\ bh[v.kid[way][j]] \in Int
              /\ ~(way = d /\ j = p) => /\ j \in u.red => bh[j] = bh[v.kid[way][j]]
                                        /\ j \notin u.red => bh[j] = bh[v.kid[way][j]] + 1
              /\ way = d /\ j = p => /\ v.kid[way][j] = x
                                     /\ j \in u.red => bh[j] = bh[y]
                                     /\ j \notin u.red => bh[j] = bh[y] + 1
  BY <1>1, <1>2, <1>3, <1>9, SplicedNumbers
<1> DEFINE bg == [n \in Nodes |-> IF n = x THEN bh[x] + 1 ELSE bh[n]]
<1>11. /\ bg \in [Nodes -> Nat \ {0}] /\ bg[Nil] = 1 /\ bg[x] = bh[x] + 1
       /\ \A n \in Nodes : n # x => bg[n] = bh[n]
  <2>1. Nil \in Nodes
    BY NodeFacts
  <2> QED BY <2>1, <1>5, <1>10
<1> HIDE DEF bg
<1>12. ASSUME NEW j \in S \ {y}, NEW way \in Sides, v.kid[way][j] = x PROVE way = d /\ j = p
  <2>1. v.parent[x] = p
    BY <1>2, <1>5 DEF Spliced
  <2>2. Linked(v, S \ {y})
    BY <1>2 DEF Grown
  <2>3. j = p
    BY <2>1, <2>2, <1>5, <1>12 DEF Linked
  <2>4. way # d => FALSE
    <3> SUFFICES ASSUME way # d PROVE FALSE
      BY Zenon
    <3>1. p \in Nodes /\ u.kid[way][p] = x /\ p # y
      BY <2>3, <1>2, <1>3, <1>12, ZenonT(40) DEF Spliced, Splice
    <3>2. u.parent[x] = p /\ u.parent[x] = y
      BY <3>1, <2>3, <1>1, <1>3, <1>5 DEF Linked, Splice
    <3> QED BY <3>1, <3>2
  <2> QED BY <2>3, <2>4
<1>13. ASSUME NEW j \in S \ {y}, NEW way \in Sides
       PROVE  /\ bg[w.kid[way][j]] \in Int /\ w.kid[way][j] \in Nodes
              /\ j \in w.red => bg[j] = bg[w.kid[way][j]]
              /\ j \notin w.red => bg[j] = bg[w.kid[way][j]] + 1
  <2>1. PICK c : c = v.kid[way][j]
    OBVIOUS
  <2>2. w.kid[way][j] = c /\ c \in Nodes /\ bh[c] \in Int /\ j \in Nodes /\ bg[c] \in Int
    <3>1. w.kid[way][j] = c /\ c \in Nodes /\ bh[c] \in Int
      BY <2>1, <1>6, <1>10
    <3>2. bg[c] \in Int
      BY <3>1, <1>11
    <3> QED BY <3>1, <3>2, <1>1, NodeFacts, Zenon
  <2>3. CASE way = d /\ j = p
    <3>1. c = x /\ (j \in u.red => bh[j] = bh[y]) /\ (j \notin u.red => bh[j] = bh[y] + 1)
      BY <2>1, <2>3, <1>10, Zenon
    <3>2. j # x /\ (j \in w.red <=> j \in u.red) /\ bg[j] = bh[j] /\ bg[c] = bh[y]
      BY <2>2, <2>3, <3>1, <1>4, <1>5, <1>6, <1>10, <1>11, Zenon
    <3> QED BY <2>2, <3>1, <3>2, Zenon
  <2>4. CASE ~(way = d /\ j = p)
    <3>1. c # x /\ (j \in u.red => bh[j] = bh[c]) /\ (j \notin u.red => bh[j] = bh[c] + 1)
      BY <2>1, <2>4, <1>10, <1>12
    <3>2. bg[c] = bh[c]
      BY <2>2, <3>1, <1>11
    <3>3. CASE j = x
      <4>1. j \in u.red /\ j \notin w.red /\ bg[j] = bh[j] + 1
        BY <3>3, <1>4, <1>6, <1>11
      <4> QED BY <2>2, <3>1, <3>2, <4>1
    <3>4. CASE j # x
      <4>1. (j \in w.red <=> j \in u.red) /\ bg[j] = bh[j]
        BY <2>2, <3>4, <1>4, <1>6, <1>11, Zenon
      <4> QED BY <2>2, <3>1, <3>2, <4>1
    <3> QED BY <3>3, <3>4, Zenon
  <2> QED BY <2>3, <2>4
<1>14. WholeNumbers(w, S \ {y}, bg)
  BY <1>11, <1>13 DEF WholeNumbers
<1> QED BY <1>6, <1>7, <1>14, FromWhole

\* A black node goes and nothing stands in for it.
LEMMA ReplaceShort ==
  ASSUME NEW u, NEW S, RedBlack(u, S, Nil), NEW y, NEW x, NEW p, NEW d, OnlyChild(u, S, y, x, p, d),
         NEW v, v = Replace(u, y, x), y \notin u.red, x \notin v.red, p # Root
  PROVE  Short(v, S \ {y}, x) /\ x # Left(v, Root)
<1>1. /\ u \in TreeRecords /\ S \in SUBSET Keys /\ Linked(u, S) /\ S \ {y} \in SUBSET Keys
  BY RedBlackParts
<1>2. /\ Spliced(u, v, x, p, d) /\ Grown(v, S \ {y})
      /\ Nil \notin v.red /\ Root \notin v.red
      /\ \A j \in S \ {y} : j \in v.red /\ j # x => v.parent[j] # Root /\ v.parent[j] \notin v.red
  BY SplicedParts
<1>3. PICK sub : Searchable(u, S, sub) /\ Splice(u, S, sub, y, x, p, d)
  BY SplicedParts
<1>4. /\ v.red = u.red /\ v \in TreeRecords
      /\ \A n \in Nodes : v.parent[n] = IF n = x THEN p ELSE u.parent[n]
      /\ \A way \in Sides, n \in Nodes : v.kid[way][n] = IF way = d /\ n = p THEN x ELSE u.kid[way][n]
  BY <1>2, Zenon DEF Spliced
<1>5. /\ y \in S /\ p \in S /\ p \in Nodes /\ p # y /\ x \in S \cup {Nil} /\ x \in Nodes /\ x # p /\ x # y /\ d \in Sides
      /\ (x # Nil => u.parent[x] = y) /\ u.kid[Other(d)][p] # y
  BY <1>3, Zenon DEF Splice
<1>6. PICK o, z : o = Other(d) /\ z = u.kid[o][p]
  BY Zenon
<1>7. o \in Sides /\ o # d /\ d = Other(o) /\ (\A way \in Sides : way = d \/ way = o)
  BY <1>5, <1>6, NodeFacts
<1>8. v.parent[x] = p /\ x = v.kid[d][p] /\ z = v.kid[o][p]
  BY <1>4, <1>5, <1>6, <1>7
<1>9. Coloured(v, S \ {y}, Nil)
  BY <1>2 DEF Coloured
<1>10. PICK bh : Heights(u, S, bh, Nil, "left")
  BY RedBlackParts
<1>11. WholeNumbers(u, S, bh)
  BY <1>1, <1>10, WholeHeights, Zenon
<1>12. /\ bh \in [Nodes -> Nat \ {0}] /\ bh[Nil] = 1 /\ bh[x] \in Nat \ {0} /\ bh[y] = bh[x] + 1
       /\ \A j \in S \ {y}, way \in Sides :
              /\ v.kid[way][j] \in Nodes /\ bh[v.kid[way][j]] \in Int
              /\ ~(way = d /\ j = p) => /\ j \in u.red => bh[j] = bh[v.kid[way][j]]
                                        /\ j \notin u.red => bh[j] = bh[v.kid[way][j]] + 1
              /\ way = d /\ j = p => /\ v.kid[way][j] = x
                                     /\ j \in u.red => bh[j] = bh[y]
                                     /\ j \notin u.red => bh[j] = bh[y] + 1
  BY <1>1, <1>2, <1>3, <1>11, SplicedNumbers
<1>13. z # Nil
  <2> SUFFICES ASSUME z = Nil PROVE FALSE
    OBVIOUS
  <2>1. p \in S \ {y} /\ ~(o = d /\ p = p)
    BY <1>5, <1>7
  <2>2. (p \in u.red => bh[p] = bh[z]) /\ (p \notin u.red => bh[p] = bh[z] + 1)
    <3>1. v.kid[o][p] = z
      BY <1>8, Zenon
    <3>2. (p \in u.red => bh[p] = bh[v.kid[o][p]]) /\ (p \notin u.red => bh[p] = bh[v.kid[o][p]] + 1)
      BY <2>1, <1>7, <1>12
    <3> QED BY <3>1, <3>2, Zenon
  <2>3. (p \in u.red => bh[p] = bh[y]) /\ (p \notin u.red => bh[p] = bh[y] + 1)
    BY <2>1, <1>5, <1>12
  <2> QED BY <2>2, <2>3, <1>12
<1>14. z \in S /\ u.parent[z] = p /\ z # y
  BY <1>1, <1>5, <1>6, <1>7, <1>13 DEF Linked
<1>15. z # x /\ z # p /\ v.parent[z] = p /\ z \in Nodes
  <2>1. z # x
    BY <1>5, <1>13, <1>14
  <2>2. KidNode(u, S, sub, p, o, z)
    BY <1>1, <1>3, <1>5, <1>6, <1>7, <1>13, KidNodes
  <2>3. z # p /\ z \in Nodes
    BY <2>2 DEF KidNode
  <2> QED BY <2>1, <2>3, <1>4, <1>14
<1>16. Pair(v, S \ {y}, x, p, d, o, z)
  <2>1. /\ p = v.parent[x] /\ x \in (S \ {y}) \cup {Nil} /\ p \in S \ {y} /\ z \in S \ {y}
    BY <1>5, <1>8, <1>14
  <2> QED BY <2>1, <1>5, <1>6, <1>7, <1>8, <1>15, Zenon DEF Pair
<1>17. ShortNumbers(v, S \ {y}, bh, p, d)
  <2>1. ASSUME NEW j \in S \ {y}, NEW way \in Sides
        PROVE  bh[v.kid[way][j]] \in Int /\ v.kid[way][j] \in Nodes /\ LevelNumbers(v, bh, j, way, p, d)
    <3>1. v.kid[way][j] \in Nodes /\ bh[v.kid[way][j]] \in Int
      BY <1>12
    <3>2. CASE way = d /\ j = p
      <4>1. v.kid[way][j] = x /\ (j \in u.red => bh[j] = bh[y]) /\ (j \notin u.red => bh[j] = bh[y] + 1)
        BY <3>2, <1>12, Zenon
      <4>2. (j \in v.red => bh[j] = bh[v.kid[way][j]] + 1) /\ (j \notin v.red => bh[j] = bh[v.kid[way][j]] + 2)
        BY <4>1, <1>4, <1>12
      <4>3. LevelNumbers(v, bh, j, way, p, d)
        BY <4>2, <3>2 DEF LevelNumbers
      <4> QED BY <3>1, <4>3, Zenon
    <3>3. CASE ~(way = d /\ j = p)
      <4>1. (j \in v.red => bh[j] = bh[v.kid[way][j]]) /\ (j \notin v.red => bh[j] = bh[v.kid[way][j]] + 1)
        BY <3>3, <1>4, <1>12
      <4>2. LevelNumbers(v, bh, j, way, p, d)
        BY <4>1, <3>3 DEF LevelNumbers
      <4> QED BY <3>1, <4>2
    <3> QED BY <3>2, <3>3, Zenon
  <2> QED BY <2>1, <1>12 DEF ShortNumbers
<1>18. Lacking(v, S \ {y}, p, d)
  BY <1>2, <1>9, <1>17 DEF Lacking
<1>19. Short(v, S \ {y}, x)
  BY <1>16, <1>18, PairShort
<1>20. x # Left(v, Root)
  <2> SUFFICES ASSUME x = Left(v, Root) PROVE FALSE
    BY Zenon
  <2>1. u \in TreeRecords /\ Linked(v, S \ {y}) /\ \E sb : Searchable(v, S \ {y}, sb)
    BY <1>1, <1>2 DEF Grown
  <2>2. CASE x = Nil
    <3>1. PICK sb : Searchable(v, S \ {y}, sb)
      BY <2>1
    <3>2. S \ {y} = {}
      BY <2>2, <3>1 DEF Searchable
    <3> QED BY <3>2, <1>5
  <2>3. CASE x # Nil
    <3>1. v.kid["left"][Root] = x /\ Root \in (S \ {y}) \cup {Root} /\ "left" \in Sides
      BY NodeFacts, Zenon DEF Left
    <3>2. v.parent[x] = Root
      BY <2>1, <2>3, <3>1 DEF Linked
    <3> QED BY <3>2, <1>8, Zenon
  <2> QED BY <2>2, <2>3
<1> QED BY <1>19, <1>20

\* What RemoveFix_ starts with.
LEMMA ReplaceBlack ==
  ASSUME NEW u, NEW S, RedBlack(u, S, Nil), NEW y, NEW x, NEW p, NEW d, OnlyChild(u, S, y, x, p, d),
         NEW v, v = Replace(u, y, x), y \notin u.red
  PROVE  Repair(v, S \ {y}, x, Left(v, Root))
<1>0. v \in TreeRecords /\ x \in Nodes
  <2>1. Spliced(u, v, x, p, d)
    BY SplicedParts
  <2>2. PICK sub : Searchable(u, S, sub) /\ Splice(u, S, sub, y, x, p, d)
    BY SplicedParts
  <2> QED BY <2>1, <2>2 DEF Spliced, Splice
<1>1. CASE p = Root
  <2>1. PICK w : w = Paint(v, x, FALSE)
    BY Zenon
  <2>2. Painted(v, w, v.red \ {x})
    BY <1>0, <2>1, PaintBlack, Zenon
  <2>3. RedBlack(w, S \ {y}, Nil) /\ Left(v, Root) = x
    BY <1>1, <2>2, ReplaceTop
  <2> QED BY <2>1, <2>3, Zenon DEF Repair
<1>2. CASE p # Root /\ x \in v.red
  <2>1. PICK w : w = Paint(v, x, FALSE)
    BY Zenon
  <2>2. Painted(v, w, v.red \ {x})
    BY <1>0, <2>1, PaintBlack, Zenon
  <2>3. RedBlack(w, S \ {y}, Nil)
    BY <1>2, <2>2, ReplaceByRed
  <2> QED BY <1>2, <2>1, <2>3, Zenon DEF Repair
<1>3. CASE p # Root /\ x \notin v.red
  <2>1. Short(v, S \ {y}, x) /\ x # Left(v, Root)
    BY <1>3, ReplaceShort
  <2> QED BY <1>3, <2>1, Zenon DEF Repair
<1> QED BY <1>1, <1>2, <1>3, Zenon

\* w is u with y where z was; l and r are the children of z.
Placed(u, w, y, z, p, d, l, r) ==
  /\ w \in TreeRecords /\ w.size = u.size
  /\ w.red = IF z \in u.red THEN u.red \cup {y} ELSE u.red \ {y}
  /\ \A n \in Nodes : w.parent[n] = IF n = r \/ n = l THEN y ELSE IF n = y THEN p ELSE u.parent[n]
  /\ \A way \in Sides, n \in Nodes :
       w.kid[way][n] = IF way = d /\ n = p THEN y ELSE IF n = y THEN u.kid[way][z] ELSE u.kid[way][n]

Halfway(u, y, z) ==
  [u EXCEPT !.kid = [side \in Sides |-> [u.kid[side] EXCEPT ![y] = u.kid[side][z]]],
            !.red = IF z \in u.red THEN u.red \cup {y} ELSE u.red \ {y},
            !.parent = [u.parent EXCEPT ![y] = u.parent[z],
                                        ![Left(u, z)] = y, ![Right(u, z)] = y]]

HalfPlaced(u, v, y, z, p, l, r) ==
  /\ v \in TreeRecords /\ v.size = u.size
  /\ v.red = IF z \in u.red THEN u.red \cup {y} ELSE u.red \ {y}
  /\ \A n \in Nodes : v.parent[n] = IF n = r \/ n = l THEN y ELSE IF n = y THEN p ELSE u.parent[n]
  /\ \A way \in Sides, n \in Nodes : v.kid[way][n] = IF n = y THEN u.kid[way][z] ELSE u.kid[way][n]

LEMMA HalfwayFields ==
  ASSUME NEW u \in TreeRecords, NEW y \in Nodes, NEW z \in Nodes, NEW p, NEW l, NEW r,
         p = u.parent[z], l = Left(u, z), r = Right(u, z), y # z, y # l, y # r
  PROVE  HalfPlaced(u, Halfway(u, y, z), y, z, p, l, r)
<1>1. /\ u.red \in SUBSET Nodes /\ u.parent \in [Nodes -> Nodes]
      /\ u.kid \in [Sides -> [Nodes -> Nodes]] /\ u.size \in Int
      /\ u = [red |-> u.red, parent |-> u.parent, kid |-> u.kid, size |-> u.size]
  BY DEF TreeRecords
<1> DEFINE kid == [side \in Sides |-> [u.kid[side] EXCEPT ![y] = u.kid[side][z]]]
           red == IF z \in u.red THEN u.red \cup {y} ELSE u.red \ {y}
           par == [u.parent EXCEPT ![y] = p, ![l] = y, ![r] = y]
<1>2. Halfway(u, y, z) = [u EXCEPT !.kid = kid, !.red = red, !.parent = par]
  BY Zenon DEF Halfway
<1>3. /\ kid \in [Sides -> [Nodes -> Nodes]]
      /\ \A way \in Sides, n \in Nodes : kid[way][n] = IF n = y THEN u.kid[way][z] ELSE u.kid[way][n]
  BY <1>1
<1>4. red \in SUBSET Nodes
  BY <1>1
<1>5. l \in Nodes /\ r \in Nodes /\ p \in Nodes
  BY <1>1, NodeFacts DEF Left, Right
<1>6. par \in [Nodes -> Nodes] /\ \A n \in Nodes : par[n] = IF n = r \/ n = l THEN y ELSE IF n = y THEN p ELSE u.parent[n]
  BY <1>1, <1>5
<1>7. red = IF z \in u.red THEN u.red \cup {y} ELSE u.red \ {y}
  OBVIOUS
<1> HIDE DEF kid, red, par
<1> DEFINE v == [red |-> red, parent |-> par, kid |-> kid, size |-> u.size]
<1>8. Halfway(u, y, z) = v
  BY <1>1, <1>2
<1>9. v \in TreeRecords /\ v.size = u.size /\ v.red = red /\ v.parent = par /\ v.kid = kid
  <2>1. kid \in [Sides -> [Nodes -> Nodes]] /\ par \in [Nodes -> Nodes] /\ red \in SUBSET Nodes /\ u.size \in Int
    BY <1>1, <1>3, <1>4, <1>6
  <2> QED BY <2>1 DEF TreeRecords
<1> HIDE DEF v
<1> QED BY <1>3, <1>6, <1>7, <1>8, <1>9 DEF HalfPlaced

LEMMA TakePlaceFields ==
  ASSUME NEW u \in TreeRecords, NEW y \in Nodes, NEW z \in Nodes, NEW p, NEW d, NEW l, NEW r,
         p = u.parent[z], d = SideOf(u, z), l = Left(u, z), r = Right(u, z),
         y # z, y # l, y # r, z # l, z # r, y # p
  PROVE  Placed(u, TakePlace(u, y, z), y, z, p, d, l, r)
<1>1. PICK v : v = Halfway(u, y, z)
  OBVIOUS
<1>2. /\ v \in TreeRecords /\ v.size = u.size
      /\ v.red = IF z \in u.red THEN u.red \cup {y} ELSE u.red \ {y}
      /\ \A n \in Nodes : v.parent[n] = IF n = r \/ n = l THEN y ELSE IF n = y THEN p ELSE u.parent[n]
      /\ \A way \in Sides, n \in Nodes : v.kid[way][n] = IF n = y THEN u.kid[way][z] ELSE u.kid[way][n]
  <2>1. HalfPlaced(u, v, y, z, p, l, r)
    BY <1>1, HalfwayFields
  <2> QED BY <2>1 DEF HalfPlaced
<1>3. p \in Nodes /\ d \in Sides
  BY DEF TreeRecords, SideOf, Sides
<1>4. v.parent[z] = p
  BY <1>2
<1>5. SideOf(v, z) = d
  <2>1. v.kid["left"][p] = u.kid["left"][p]
    BY <1>2, <1>3, NodeFacts
  <2> QED BY <2>1, <1>4 DEF SideOf, Left
<1>6. TakePlace(u, y, z) = [v EXCEPT !.kid[SideOf(v, z)][v.parent[z]] = y]
  BY <1>1, Zenon DEF TakePlace, Halfway
<1>7. /\ v.red \in SUBSET Nodes /\ v.parent \in [Nodes -> Nodes]
      /\ v.kid \in [Sides -> [Nodes -> Nodes]] /\ v.size \in Int
      /\ v = [red |-> v.red, parent |-> v.parent, kid |-> v.kid, size |-> v.size]
  BY <1>2 DEF TreeRecords
<1> DEFINE kid == [v.kid EXCEPT ![d][p] = y]
           w == [red |-> v.red, parent |-> v.parent, kid |-> kid, size |-> v.size]
<1>8. TakePlace(u, y, z) = w
  <2>1. TakePlace(u, y, z) = [v EXCEPT !.kid[d][p] = y]
    BY <1>4, <1>5, <1>6
  <2> QED BY <2>1, <1>7
<1>9. kid \in [Sides -> [Nodes -> Nodes]] /\ \A way \in Sides, n \in Nodes : kid[way][n] = IF way = d /\ n = p THEN y ELSE v.kid[way][n]
  BY <1>3, <1>7, Zenon
<1> HIDE DEF kid
<1>10. w \in TreeRecords /\ w.size = v.size /\ w.red = v.red /\ w.parent = v.parent /\ w.kid = kid
  <2>1. kid \in [Sides -> [Nodes -> Nodes]]
    BY <1>9
  <2> QED BY <2>1, <1>7 DEF TreeRecords
<1> HIDE DEF w
<1>11. \A way \in Sides, n \in Nodes :
         w.kid[way][n] = IF way = d /\ n = p THEN y ELSE IF n = y THEN u.kid[way][z] ELSE u.kid[way][n]
  BY <1>2, <1>9, <1>10
<1>12. Placed(u, w, y, z, p, d, l, r)
  BY <1>2, <1>10, <1>11 DEF Placed
<1> QED BY <1>8, <1>12

\* Around z, and y between the same neighbours as z.
Successor(u, S, sub, y, z, p, d, l, r) ==
  /\ z \in S /\ z \in Nodes /\ y \in Keys /\ y \notin S /\ y \in Nodes /\ y # z /\ y # Nil /\ y # Root
  /\ p = u.parent[z] /\ p \in S \cup {Root} /\ p \in Nodes /\ p # z /\ p # y /\ p # Nil /\ d \in Sides
  /\ z = u.kid[d][p] /\ u.kid[Other(d)][p] # z /\ (p = Root => d = "left") /\ d = SideOf(u, z)
  /\ l = Left(u, z) /\ r = Right(u, z) /\ l \in S \cup {Nil} /\ r \in S \cup {Nil} /\ l # z /\ r # z
  /\ z # Nil /\ z # Root /\ z \notin sub[l] /\ z \notin sub[r]
  /\ (l # Nil => u.parent[l] = z) /\ (r # Nil => u.parent[r] = z)
  /\ \A j \in S \ {z} : j < z <=> j < y

LEMMA SuccessorFacts ==
  ASSUME NEW u \in TreeRecords, NEW S \in SUBSET Keys, Linked(u, S), NEW sub, Searchable(u, S, sub),
         NEW z \in S, NEW y \in Keys \ S, \A j \in S \ {z} : j < z <=> j < y,
         NEW p, NEW d, NEW l, NEW r, p = u.parent[z], d = SideOf(u, z), l = Left(u, z), r = Right(u, z)
  PROVE  Successor(u, S, sub, y, z, p, d, l, r)
<1>1. UpNode(u, S, sub, z, p)
  BY UpNodes
<1>2. /\ z \in Nodes /\ p \in S \cup {Root} /\ p \in Nodes /\ p # z /\ p # Nil /\ d \in Sides
      /\ z = u.kid[d][p] /\ z # Nil /\ z # Root /\ (p = Root => d = "left")
  BY <1>1 DEF UpNode
<1>3. y \in Nodes /\ y # z /\ y # Nil /\ y # Root /\ p # y /\ "left" \in Sides /\ "right" \in Sides
  <2>1. y \in Nodes /\ y # Nil /\ y # Root /\ "left" \in Sides /\ "right" \in Sides
    BY NodeFacts
  <2> QED BY <2>1, <1>2, Zenon
<1>4. u.kid[Other(d)][p] # z
  <2>1. CASE p = Root
    BY <2>1, <1>2 DEF Linked, Right, Other
  <2>2. CASE p # Root
    <3>1. p \in S
      BY <2>2, <1>2, Zenon
    <3>2. KidNode(u, S, sub, p, d, z)
      BY <3>1, <1>2, KidNodes, Zenon
    <3> QED BY <3>2 DEF KidNode
  <2> QED BY <2>1, <2>2, Zenon
<1>5. l # Nil => KidNode(u, S, sub, z, "left", l)
  BY <1>3, KidNodes DEF Left
<1>6. r # Nil => KidNode(u, S, sub, z, "right", r)
  BY <1>3, KidNodes DEF Right
<1>7. sub[Nil] = {}
  BY DEF Searchable
<1>8. l \in S \cup {Nil} /\ l # z /\ (l # Nil => u.parent[l] = z) /\ z \notin sub[l]
  BY <1>2, <1>5, <1>7, Zenon DEF KidNode
<1>9. r \in S \cup {Nil} /\ r # z /\ (r # Nil => u.parent[r] = z) /\ z \notin sub[r]
  BY <1>2, <1>6, <1>7, Zenon DEF KidNode
<1> QED BY <1>2, <1>3, <1>4, <1>8, <1>9, Zenon DEF Successor

LEMMA PlacedLinked ==
  ASSUME NEW u \in TreeRecords, NEW S \in SUBSET Keys, Linked(u, S), NEW sub,
         NEW y, NEW z, NEW p, NEW d, NEW l, NEW r, Successor(u, S, sub, y, z, p, d, l, r),
         NEW w, Placed(u, w, y, z, p, d, l, r)
  PROVE  Linked(w, (S \ {z}) \cup {y})
<1> DEFINE T == (S \ {z}) \cup {y}
<1>1. /\ z \in S /\ z \in Nodes /\ y \notin S /\ y \in Nodes /\ y # z /\ y # Nil /\ y # Root
      /\ p = u.parent[z] /\ p \in S \cup {Root} /\ p \in Nodes /\ p # z /\ p # y /\ p # Nil /\ d \in Sides
      /\ z = u.kid[d][p] /\ u.kid[Other(d)][p] # z /\ (p = Root => d = "left")
      /\ l = Left(u, z) /\ r = Right(u, z) /\ l \in S \cup {Nil} /\ r \in S \cup {Nil} /\ l # z /\ r # z
      /\ z # Nil /\ z # Root
      /\ (l # Nil => u.parent[l] = z) /\ (r # Nil => u.parent[r] = z)
  BY Zenon DEF Successor
<1>2. \A n \in Nodes : w.parent[n] = IF n = r \/ n = l THEN y ELSE IF n = y THEN p ELSE u.parent[n]
  BY DEF Placed
<1>3. \A way \in Sides, n \in Nodes :
       w.kid[way][n] = IF way = d /\ n = p THEN y ELSE IF n = y THEN u.kid[way][z] ELSE u.kid[way][n]
  BY DEF Placed
<1>4. /\ S \subseteq Nodes /\ Root \in Nodes /\ Nil \in Nodes /\ Nil \notin S /\ Root \notin S /\ Root # Nil
      /\ (\A way \in Sides : way = d \/ way = Other(d)) /\ "left" \in Sides /\ "right" \in Sides
  BY <1>1, NodeFacts, Zenon
<1>5. \A way \in Sides : u.kid[way][z] = l \/ u.kid[way][z] = r
  BY <1>1, Zenon DEF Left, Right, Sides
<1>6. w.parent[y] = p /\ y # l /\ y # r
  BY <1>1, <1>2, Zenon
<1>7. ASSUME NEW n \in T \cup {Root}, NEW way \in Sides, w.kid[way][n] # Nil
      PROVE  w.kid[way][n] \in T /\ w.parent[w.kid[way][n]] = n
  <2>1. CASE way = d /\ n = p
    <3>1. w.kid[way][n] = y
      BY <2>1, <1>1, <1>3, Zenon
    <3> QED BY <3>1, <2>1, <1>6
  <2>2. CASE ~(way = d /\ n = p) /\ n = y
    <3>1. PICK c : c = u.kid[way][z]
      OBVIOUS
    <3>2. w.kid[way][n] = c /\ (c = l \/ c = r) /\ c # Nil
      BY <2>2, <3>1, <1>1, <1>3, <1>5, <1>7, Zenon
    <3>3. c \in S /\ c # z /\ c \in Nodes
      BY <3>2, <1>1, <1>4, Zenon
    <3>4. w.parent[c] = y
      BY <3>2, <3>3, <1>2
    <3> QED BY <3>2, <3>3, <3>4, <2>2
  <2>3. CASE ~(way = d /\ n = p) /\ n # y
    <3>1. PICK c : c = u.kid[way][n]
      OBVIOUS
    <3>2. n \in S \cup {Root} /\ n # z /\ n \in Nodes
      BY <2>3, <1>1, <1>4, Zenon
    <3>3. w.kid[way][n] = c /\ c # Nil
      BY <2>3, <3>1, <3>2, <1>3, <1>7
    <3>4. c \in S /\ u.parent[c] = n
      BY <3>1, <3>2, <3>3 DEF Linked
    <3>5. c # z
      BY <2>3, <3>1, <3>4, <1>1, <1>4, Zenon
    <3>6. c # l /\ c # r /\ c # y /\ c \in Nodes
      BY <3>2, <3>3, <3>4, <1>1, <1>4, Zenon
    <3>7. w.parent[c] = n
      BY <3>4, <3>6, <1>2
    <3> QED BY <3>3, <3>4, <3>5, <3>7
  <2> QED BY <2>1, <2>2, <2>3
<1>8. ASSUME NEW j \in T
      PROVE  w.parent[j] \in T \cup {Root} /\ \E way \in Sides : j = w.kid[way][w.parent[j]]
  <2>1. CASE j = y
    <3>1. w.kid[d][p] = y
      BY <1>1, <1>3, Zenon
    <3> QED BY <2>1, <3>1, <1>1, <1>6, Zenon
  <2>2. CASE j # y /\ (j = l \/ j = r)
    <3>1. j \in S /\ j \in Nodes
      BY <2>2, <1>4
    <3>2. w.parent[j] = y
      BY <2>2, <3>1, <1>2
    <3>3. PICK way \in Sides : j = u.kid[way][z]
      BY <2>2, <1>1, <1>4, Zenon DEF Left, Right
    <3>4. w.kid[way][y] = j
      BY <3>3, <1>1, <1>3, Zenon
    <3> QED BY <3>2, <3>4
  <2>3. CASE j # y /\ j # l /\ j # r
    <3>1. j \in S /\ j # z /\ j \in Nodes /\ j # Nil
      BY <2>3, <1>4
    <3>2. PICK m : m = u.parent[j]
      OBVIOUS
    <3>3. w.parent[j] = m /\ m \in S \cup {Root} /\ m \in Nodes
      BY <2>3, <3>1, <3>2, <1>2, <1>4, Zenon DEF Linked
    <3>4. PICK way \in Sides : j = u.kid[way][m]
      BY <3>1, <3>2 DEF Linked, Left, Right, Sides
    <3>5. m # z /\ m # y
      BY <2>3, <3>3, <3>4, <1>1, <1>5, Zenon
    <3>6. ~(way = d /\ m = p)
      BY <3>1, <3>4, <1>1, Zenon
    <3>7. w.kid[way][m] = j
      BY <3>3, <3>4, <3>5, <3>6, <1>3
    <3> QED BY <3>3, <3>5, <3>7
  <2> QED BY <2>1, <2>2, <2>3
<1>9. \A j \in T : j = Left(w, w.parent[j]) \/ j = Right(w, w.parent[j])
  <2> HIDE DEF T
  <2> QED BY <1>8 DEF Left, Right, Sides
<1>10. Right(w, Root) = Nil /\ Left(w, Nil) = Nil /\ Right(w, Nil) = Nil
  <2>1. Right(u, Root) = Nil /\ Left(u, Nil) = Nil /\ Right(u, Nil) = Nil
    BY DEF Linked
  <2> QED BY <2>1, <1>1, <1>3, <1>4, ZenonT(40) DEF Left, Right
<1>11. w.parent[Root] = Nil
  BY <1>1, <1>2, <1>4, Zenon DEF Linked
<1>12. Linked(w, T)
  <2> HIDE DEF T
  <2> QED BY <1>7, <1>8, <1>9, <1>10, <1>11, Zenon DEF Linked
<1> QED BY <1>12

\* y for z in a set.
Renamed(A, y, z) == IF z \in A THEN (A \ {z}) \cup {y} ELSE A

LEMMA PlacedSearchable ==
  ASSUME NEW u \in TreeRecords, NEW S \in SUBSET Keys, Linked(u, S), NEW sub, Searchable(u, S, sub),
         NEW y, NEW z, NEW p, NEW d, NEW l, NEW r, Successor(u, S, sub, y, z, p, d, l, r),
         NEW w, Placed(u, w, y, z, p, d, l, r)
  PROVE  \E sb : Searchable(w, (S \ {z}) \cup {y}, sb)
<1>1. /\ z \in S /\ z \in Nodes /\ y \notin S /\ y \in Nodes /\ y # z /\ y # Nil /\ y # Root /\ y \in Keys
      /\ p \in S \cup {Root} /\ p \in Nodes /\ p # z /\ p # y /\ p # Nil /\ d \in Sides /\ z = u.kid[d][p]
      /\ l = Left(u, z) /\ r = Right(u, z) /\ l \in S \cup {Nil} /\ r \in S \cup {Nil} /\ l # z /\ r # z
      /\ z # Nil /\ z # Root /\ z \notin sub[l] /\ z \notin sub[r] /\ u.kid[Other(d)][p] # z /\ p = u.parent[z]
      /\ \A j \in S \ {z} : j < z <=> j < y
  BY Zenon DEF Successor
<1>2. PICK T : T = (S \ {z}) \cup {y}
  BY Zenon
<1>3. \A way \in Sides, n \in Nodes :
       w.kid[way][n] = IF way = d /\ n = p THEN y ELSE IF n = y THEN u.kid[way][z] ELSE u.kid[way][n]
  BY DEF Placed
<1>4. /\ S \subseteq Nodes /\ Root \in Nodes /\ Nil \in Nodes /\ Nil \notin S /\ Root \notin S /\ Root # Nil
      /\ "left" \in Sides /\ "right" \in Sides /\ (\A way \in Sides : way = d \/ way = Other(d))
      /\ S \subseteq Int /\ y \in Int /\ z \in Int
  BY <1>1, NodeFacts, Zenon
<1>5. /\ sub \in [Nodes -> SUBSET S]
      /\ sub[Nil] = {} /\ sub[Root] = S /\ sub[u.kid["left"][Root]] = S
      /\ \A j \in S : sub[j] = {j} \cup sub[u.kid["left"][j]] \cup sub[u.kid["right"][j]]
      /\ \A j \in S, way \in Sides : \A a \in sub[u.kid[way][j]] : Before(way, a, j)
  BY DEF Searchable, Left, Right
<1> DEFINE sb == [n \in Nodes |-> IF n = y THEN Renamed(sub[z], y, z) ELSE IF n = z THEN {} ELSE Renamed(sub[n], y, z)]
<1>6. sb \in [Nodes -> SUBSET T]
  <2>1. ASSUME NEW n \in Nodes PROVE Renamed(sub[n], y, z) \in SUBSET T
    <3>1. sub[n] \in SUBSET S
      BY <1>5
    <3> QED BY <3>1, <1>2 DEF Renamed
  <2> QED BY <2>1, <1>1, Zenon
<1>7. sb[y] = Renamed(sub[z], y, z) /\ \A n \in Nodes : n # y /\ n # z => sb[n] = Renamed(sub[n], y, z)
  BY <1>1, Zenon
<1> HIDE DEF sb
<1>8. ASSUME NEW n \in (S \ {z}) \cup {Root}, NEW way \in Sides
      PROVE  sb[w.kid[way][n]] = Renamed(sub[u.kid[way][n]], y, z)
  <2>1. n # y /\ n # z /\ n \in Nodes
    BY <1>1, <1>4, Zenon
  <2>2. CASE way = d /\ n = p
    BY <2>2, <1>1, <1>3, <1>7, Zenon
  <2>3. CASE ~(way = d /\ n = p)
    <3>1. PICK c : c = u.kid[way][n]
      OBVIOUS
    <3>2. w.kid[way][n] = c
      BY <2>1, <2>3, <3>1, <1>3
    <3>3. c = Nil \/ (c \in S /\ u.parent[c] = n)
      BY <3>1 DEF Linked
    <3>4. c # z
      BY <2>3, <3>1, <3>3, <1>1, <1>4, Zenon
    <3>5. c # y /\ c \in Nodes
      BY <3>3, <1>1, <1>4, Zenon
    <3> QED BY <3>1, <3>2, <3>4, <3>5, <1>7
  <2> QED BY <2>2, <2>3
<1>9. ASSUME NEW way \in Sides PROVE sb[w.kid[way][y]] = sub[u.kid[way][z]] /\ z \notin sub[u.kid[way][z]]
  <2>1. PICK c : c = u.kid[way][z]
    OBVIOUS
  <2>2. (c = l \/ c = r) /\ w.kid[way][y] = c
    BY <2>1, <1>1, <1>3, Zenon DEF Left, Right, Sides
  <2>3. c \in Nodes /\ c # z /\ c # y /\ z \notin sub[c]
    BY <2>2, <1>1, <1>4, Zenon
  <2> QED BY <2>1, <2>2, <2>3, <1>7, Zenon DEF Renamed
<1>10. sb[Nil] = {} /\ sb[Root] = T /\ sb[w.kid["left"][Root]] = T
  <2>1. Renamed({}, y, z) = {} /\ Renamed(S, y, z) = T
    BY <1>1, <1>2, Zenon DEF Renamed
  <2>2. sb[Nil] = {} /\ sb[Root] = T
    BY <2>1, <1>1, <1>4, <1>5, <1>7, Zenon
  <2>3. sb[w.kid["left"][Root]] = Renamed(sub[u.kid["left"][Root]], y, z)
    BY <1>4, <1>8, Zenon
  <2>4. sb[w.kid["left"][Root]] = T
    BY <2>1, <2>3, <1>5, Zenon
  <2> QED BY <2>2, <2>4
<1>11. ASSUME NEW j \in S \ {z}
       PROVE  /\ sb[j] = {j} \cup sb[w.kid["left"][j]] \cup sb[w.kid["right"][j]]
              /\ \A way \in Sides : \A a \in sb[w.kid[way][j]] : Before(way, a, j)
  <2>1. PICK A, B : A = sub[u.kid["left"][j]] /\ B = sub[u.kid["right"][j]]
    BY Zenon
  <2>2. sb[w.kid["left"][j]] = Renamed(A, y, z) /\ sb[w.kid["right"][j]] = Renamed(B, y, z)
    BY <2>1, <1>4, <1>8, Zenon
  <2>3. sb[j] = Renamed({j} \cup A \cup B, y, z)
    <3>1. j \in S /\ j \in Nodes /\ j # y /\ j # z
      BY <1>1, <1>4, Zenon
    <3>2. sub[j] = {j} \cup A \cup B
      BY <2>1, <3>1, <1>5
    <3>3. sb[j] = Renamed(sub[j], y, z)
      BY <3>1, <1>7
    <3> QED BY <3>2, <3>3
  <2>4. j # z
    OBVIOUS
  <2>5. Renamed({j} \cup A \cup B, y, z) = {j} \cup Renamed(A, y, z) \cup Renamed(B, y, z)
    BY <2>4 DEF Renamed
  <2>6. ASSUME NEW way \in Sides, NEW a \in sb[w.kid[way][j]] PROVE Before(way, a, j)
    <3>1. PICK Part : Part = sub[u.kid[way][j]]
      OBVIOUS
    <3>2. a \in Renamed(Part, y, z) /\ \A b \in Part : Before(way, b, j)
      BY <2>6, <3>1, <1>5, <1>8
    <3>3. a \in Part \/ (a = y /\ z \in Part)
      BY <3>2 DEF Renamed
    <3>4. CASE a \in Part
      BY <3>2, <3>4
    <3>5. CASE a = y /\ z \in Part
      <4>1. Before(way, z, j) /\ j \in Int /\ (j < z <=> j < y) /\ j # y
        BY <3>2, <3>5, <1>1, <1>4, Zenon
      <4>2. Before(way, y, j)
        BY <4>1, <2>4, <1>4 DEF Before
      <4> QED BY <4>2, <3>5
    <3> QED BY <3>3, <3>4, <3>5
  <2> QED BY <2>2, <2>3, <2>5, <2>6
<1>12. /\ sb[y] = {y} \cup sb[w.kid["left"][y]] \cup sb[w.kid["right"][y]]
       /\ \A way \in Sides : \A a \in sb[w.kid[way][y]] : Before(way, a, y)
  <2>1. PICK A, B : A = sub[u.kid["left"][z]] /\ B = sub[u.kid["right"][z]]
    BY Zenon
  <2>2. sb[w.kid["left"][y]] = A /\ sb[w.kid["right"][y]] = B /\ z \notin A /\ z \notin B
    BY <2>1, <1>4, <1>9
  <2>3. sb[y] = Renamed({z} \cup A \cup B, y, z)
    BY <2>1, <1>1, <1>5, <1>7, Zenon
  <2>4. sb[y] = {y} \cup A \cup B
    BY <2>2, <2>3 DEF Renamed
  <2>5. ASSUME NEW way \in Sides, NEW a \in sb[w.kid[way][y]] PROVE Before(way, a, y)
    <3>1. a \in sub[u.kid[way][z]] /\ a # z /\ Before(way, a, z)
      BY <2>5, <1>1, <1>5, <1>9, Zenon
    <3>2. PICK c : c = u.kid[way][z]
      OBVIOUS
    <3>3. a \in S /\ a \in Int /\ a # y
      <4>1. (c = l \/ c = r) /\ a \in sub[c]
        BY <3>1, <3>2, <1>1, Zenon DEF Left, Right, Sides
      <4>2. c \in Nodes
        BY <4>1, <1>1, <1>4, Zenon
      <4>3. sub[c] \in SUBSET S
        BY <4>2, <1>5
      <4>4. a \in S
        BY <4>1, <4>3
      <4> QED BY <4>4, <1>1, <1>4, Zenon
    <3>4. a < z <=> a < y
      BY <3>1, <3>3, <1>1, Zenon
    <3> QED BY <3>1, <3>3, <3>4, <1>4 DEF Before
  <2> QED BY <2>2, <2>4, <2>5
<1>13. ASSUME NEW j \in T
       PROVE  /\ sb[j] = {j} \cup sb[w.kid["left"][j]] \cup sb[w.kid["right"][j]]
              /\ \A way \in Sides : \A a \in sb[w.kid[way][j]] : Before(way, a, j)
  <2>1. CASE j = y
    BY <2>1, <1>12
  <2>2. CASE j \in S \ {z}
    BY <2>2, <1>11, Zenon
  <2> QED BY <2>1, <2>2, <1>2
<1>14. Searchable(w, T, sb)
  BY <1>6, <1>10, <1>13 DEF Searchable, Left, Right
<1> QED BY <1>2, <1>14

\* Heights and colours with y in the place of z.
LEMMA PlacedNumbers ==
  ASSUME NEW u \in TreeRecords, NEW S \in SUBSET Keys, Linked(u, S), NEW sub,
         NEW y, NEW z, NEW p, NEW d, NEW l, NEW r, Successor(u, S, sub, y, z, p, d, l, r),
         NEW w, Placed(u, w, y, z, p, d, l, r), NEW bh, WholeNumbers(u, S, bh)
  PROVE  \E bg : WholeNumbers(w, (S \ {z}) \cup {y}, bg)
<1>1. /\ z \in S /\ z \in Nodes /\ y \notin S /\ y \in Nodes /\ y # z /\ y # Nil
      /\ p \in S \cup {Root} /\ p \in Nodes /\ p # z /\ p # y /\ d \in Sides /\ z = u.kid[d][p]
      /\ l = Left(u, z) /\ r = Right(u, z) /\ l \in S \cup {Nil} /\ r \in S \cup {Nil}
      /\ u.kid[Other(d)][p] # z /\ p = u.parent[z] /\ z # Nil
  BY Zenon DEF Successor
<1>2. PICK T : T = (S \ {z}) \cup {y}
  OBVIOUS
<1>3. \A way \in Sides, n \in Nodes :
       w.kid[way][n] = IF way = d /\ n = p THEN y ELSE IF n = y THEN u.kid[way][z] ELSE u.kid[way][n]
  BY DEF Placed
<1>4. S \subseteq Nodes /\ Nil \in Nodes /\ Nil \notin S
  BY NodeFacts
<1>5. (y \in w.red <=> z \in u.red) /\ \A n \in Nodes : n # y => (n \in w.red <=> n \in u.red)
  <2>1. w.red = IF z \in u.red THEN u.red \cup {y} ELSE u.red \ {y}
    BY Zenon DEF Placed
  <2> QED BY <2>1
<1>6. /\ bh \in [Nodes -> Nat \ {0}] /\ bh[Nil] = 1
      /\ \A k \in S, way \in Sides : /\ bh[u.kid[way][k]] \in Int /\ u.kid[way][k] \in Nodes
                                     /\ k \in u.red => bh[k] = bh[u.kid[way][k]]
                                     /\ k \notin u.red => bh[k] = bh[u.kid[way][k]] + 1
  BY DEF WholeNumbers
<1> DEFINE bg == [n \in Nodes |-> IF n = y THEN bh[z] ELSE bh[n]]
<1>7. bg \in [Nodes -> Nat \ {0}] /\ bg[y] = bh[z] /\ \A n \in Nodes : n # y => bg[n] = bh[n]
  BY <1>1, <1>6, Zenon
<1> HIDE DEF bg
<1>8. bg[Nil] = 1
  BY <1>1, <1>4, <1>6, <1>7, Zenon
<1>9. ASSUME NEW j \in T, NEW way \in Sides
      PROVE  /\ bg[w.kid[way][j]] \in Int /\ w.kid[way][j] \in Nodes
             /\ j \in w.red => bg[j] = bg[w.kid[way][j]]
             /\ j \notin w.red => bg[j] = bg[w.kid[way][j]] + 1
  <2>1. CASE j = y
    <3>1. PICK c : c = u.kid[way][z]
      OBVIOUS
    <3>2. w.kid[way][j] = c /\ (c = l \/ c = r)
      BY <2>1, <3>1, <1>1, <1>3, Zenon DEF Left, Right, Sides
    <3>3. c # y /\ c \in Nodes
      BY <3>2, <1>1, <1>4, Zenon
    <3>4. bg[c] = bh[c] /\ bh[c] \in Int
      BY <3>1, <3>3, <1>1, <1>6, <1>7, Zenon
    <3>5. (z \in u.red => bh[z] = bh[c]) /\ (z \notin u.red => bh[z] = bh[c] + 1)
      BY <3>1, <1>1, <1>6, Zenon
    <3> QED BY <2>1, <3>2, <3>3, <3>4, <3>5, <1>5, <1>7
  <2>2. CASE j # y
    <3>1. j \in S /\ j # z /\ j \in Nodes
      BY <2>2, <1>2, <1>4
    <3>2. bg[j] = bh[j] /\ (j \in w.red <=> j \in u.red)
      BY <2>2, <3>1, <1>5, <1>7
    <3>3. PICK c : c = u.kid[way][j]
      BY Zenon
    <3>4. bh[c] \in Int /\ c \in Nodes /\ (j \in u.red => bh[j] = bh[c]) /\ (j \notin u.red => bh[j] = bh[c] + 1)
      BY <3>1, <3>3, <1>6
    <3>5. CASE way = d /\ j = p
      <4>1. w.kid[way][j] = y /\ c = z
        BY <3>3, <3>5, <1>1, <1>3, Zenon
      <4> QED BY <4>1, <3>2, <3>4, <1>1, <1>7, Zenon
    <3>6. CASE ~(way = d /\ j = p)
      <4>1. w.kid[way][j] = c
        BY <2>2, <3>1, <3>3, <3>6, <1>3
      <4>2. c = Nil \/ c \in S
        BY <3>1, <3>3 DEF Linked
      <4>3. bg[c] = bh[c]
        BY <4>2, <3>4, <1>1, <1>7, Zenon
      <4> QED BY <4>1, <4>3, <3>2, <3>4
    <3> QED BY <3>5, <3>6
  <2> QED BY <2>1, <2>2
<1>10. WholeNumbers(w, T, bg)
  BY <1>7, <1>8, <1>9 DEF WholeNumbers
<1> QED BY <1>2, <1>10

LEMMA PlacedColoured ==
  ASSUME NEW u \in TreeRecords, NEW S \in SUBSET Keys, Linked(u, S), Coloured(u, S, Nil), NEW sub,
         NEW y, NEW z, NEW p, NEW d, NEW l, NEW r, Successor(u, S, sub, y, z, p, d, l, r),
         NEW w, Placed(u, w, y, z, p, d, l, r)
  PROVE  Coloured(w, (S \ {z}) \cup {y}, Nil)
<1>1. /\ z \in S /\ z \in Nodes /\ y \notin S /\ y \in Nodes /\ y # z /\ y # Nil /\ y # Root
      /\ p \in S \cup {Root} /\ p \in Nodes /\ p # z /\ p # y
      /\ l \in S \cup {Nil} /\ r \in S \cup {Nil}
      /\ p = u.parent[z] /\ z # Nil /\ (l # Nil => u.parent[l] = z) /\ (r # Nil => u.parent[r] = z)
  BY Zenon DEF Successor
<1>2. PICK T : T = (S \ {z}) \cup {y}
  OBVIOUS
<1>3. \A n \in Nodes : w.parent[n] = IF n = r \/ n = l THEN y ELSE IF n = y THEN p ELSE u.parent[n]
  BY DEF Placed
<1>4. S \subseteq Nodes /\ Nil \in Nodes /\ Nil \notin S /\ Root \in Nodes /\ u.parent \in [Nodes -> Nodes]
  BY NodeFacts DEF TreeRecords
<1>5. (y \in w.red <=> z \in u.red) /\ \A n \in Nodes : n # y => (n \in w.red <=> n \in u.red)
  <2>1. w.red = IF z \in u.red THEN u.red \cup {y} ELSE u.red \ {y}
    BY Zenon DEF Placed
  <2> QED BY <2>1
<1>6. /\ Nil \notin u.red /\ Root \notin u.red
      /\ \A k \in S : k \in u.red => u.parent[k] # Root /\ u.parent[k] \notin u.red
  BY <1>4 DEF Coloured
<1>7. Nil \notin w.red /\ Root \notin w.red
  BY <1>1, <1>4, <1>5, <1>6
<1>8. ASSUME NEW j \in T, j \in w.red PROVE w.parent[j] # Root /\ w.parent[j] \notin w.red
  <2>1. CASE j = y
    <3>1. w.parent[j] = p /\ z \in u.red
      BY <2>1, <1>1, <1>3, <1>4, <1>5, <1>8
    <3>2. p # Root /\ p \notin u.red
      BY <3>1, <1>1, <1>6
    <3> QED BY <3>1, <3>2, <1>1, <1>5
  <2>2. CASE j # y /\ (j = l \/ j = r)
    <3>1. j \in S /\ j \in Nodes /\ j # Nil /\ u.parent[j] = z
      BY <2>2, <1>1, <1>2, <1>4
    <3>2. j \in u.red /\ w.parent[j] = y
      BY <2>2, <3>1, <1>3, <1>5, <1>8
    <3>3. z \notin u.red
      BY <3>1, <3>2, <1>6
    <3> QED BY <3>2, <3>3, <1>1, <1>5
  <2>3. CASE j # y /\ j # l /\ j # r
    <3>1. j \in S /\ j \in Nodes
      BY <2>3, <1>2, <1>4
    <3>2. PICK m : m = u.parent[j]
      OBVIOUS
    <3>3. j \in u.red /\ w.parent[j] = m /\ m \in Nodes
      BY <2>3, <3>1, <3>2, <1>3, <1>4, <1>5, <1>8
    <3>4. m # Root /\ m \notin u.red
      BY <3>1, <3>2, <3>3, <1>6
    <3>5. m # y
      BY <3>1, <3>2, <1>1 DEF Linked
    <3> QED BY <3>3, <3>4, <3>5, <1>5
  <2> QED BY <2>1, <2>2, <2>3
<1>9. Coloured(w, T, Nil)
  BY <1>7, <1>8 DEF Coloured
<1> QED BY <1>2, <1>9

\* y takes the place, and the colour, of z.
LEMMA TakePlaceKeeps ==
  ASSUME NEW u, NEW S, RedBlack(u, S, Nil), NEW z \in S, NEW y \in Keys \ S,
         \A j \in S \ {z} : j < z <=> j < y, NEW w, w = TakePlace(u, y, z)
  PROVE  /\ RedBlack(w, (S \ {z}) \cup {y}, Nil) /\ w.size = u.size
         /\ \A k \in Keys \ (S \cup {y}), way \in Sides : w.kid[way][k] = u.kid[way][k]
<1>1. u \in TreeRecords /\ S \in SUBSET Keys /\ Linked(u, S) /\ Coloured(u, S, Nil)
  BY DEF RedBlack, Grown
<1>2. PICK sub : Searchable(u, S, sub)
  BY RedBlackParts
<1>3. PICK bh : Heights(u, S, bh, Nil, "left")
  BY RedBlackParts
<1>4. PICK p, d : p = u.parent[z] /\ d = SideOf(u, z)
  OBVIOUS
<1>5. PICK l, r : l = Left(u, z) /\ r = Right(u, z)
  OBVIOUS
<1>6. PICK T : T = (S \ {z}) \cup {y}
  BY Zenon
<1>7. Successor(u, S, sub, y, z, p, d, l, r)
  BY <1>1, <1>2, <1>4, <1>5, SuccessorFacts
<1>8. /\ y \in Nodes /\ z \in Nodes /\ y # z /\ y # p /\ l \in S \cup {Nil} /\ r \in S \cup {Nil} /\ z # l /\ z # r
      /\ y \notin S /\ y # Nil /\ p \in S \cup {Root}
  BY <1>7, Zenon DEF Successor
<1>9. Placed(u, w, y, z, p, d, l, r)
  <2>1. y # l /\ y # r
    BY <1>8
  <2> QED BY <2>1, <1>1, <1>4, <1>5, <1>8, TakePlaceFields
<1>10. w \in TreeRecords /\ w.size = u.size
  BY <1>9 DEF Placed
<1>11. T \subseteq Keys
  BY <1>1, <1>6
<1>12. Grown(w, T)
  <2>1. Linked(w, T)
    BY <1>1, <1>6, <1>7, <1>9, PlacedLinked
  <2>2. \E sb : Searchable(w, T, sb)
    BY <1>1, <1>2, <1>6, <1>7, <1>9, PlacedSearchable
  <2> QED BY <2>1, <2>2, <1>10, <1>11 DEF Grown
<1>13. Coloured(w, T, Nil)
  BY <1>1, <1>6, <1>7, <1>9, PlacedColoured
<1>14. WholeNumbers(u, S, bh)
  BY <1>1, <1>3, WholeHeights, Zenon
<1>15. PICK bg : WholeNumbers(w, T, bg)
  BY <1>1, <1>6, <1>7, <1>9, <1>14, PlacedNumbers
<1>16. RedBlack(w, T, Nil)
  BY <1>12, <1>13, <1>15, FromWhole
<1>17. ASSUME NEW k \in Keys \ (S \cup {y}), NEW way \in Sides PROVE w.kid[way][k] = u.kid[way][k]
  <2>1. k \in Nodes /\ k # y /\ k # p
    BY <1>8, NodeFacts
  <2> QED BY <2>1, <1>9 DEF Placed
<1> QED BY <1>6, <1>10, <1>16, <1>17

\* NodeDestroy_ of a node that is not in the tree.
Freed(u, v, z) ==
  /\ v \in TreeRecords /\ v.size = u.size - 1 /\ v.red = u.red \ {z}
  /\ \A n \in Nodes : v.parent[n] = IF n = z THEN Nil ELSE u.parent[n]
  /\ \A way \in Sides, n \in Nodes : v.kid[way][n] = IF n = z THEN Nil ELSE u.kid[way][n]

LEMMA FreeFields ==
  ASSUME NEW u \in TreeRecords, NEW z \in Nodes
  PROVE  Freed(u, Free(u, z), z)
<1>1. /\ u.red \in SUBSET Nodes /\ u.parent \in [Nodes -> Nodes]
      /\ u.kid \in [Sides -> [Nodes -> Nodes]] /\ u.size \in Int
      /\ u = [red |-> u.red, parent |-> u.parent, kid |-> u.kid, size |-> u.size]
  BY DEF TreeRecords
<1> DEFINE kid == [side \in Sides |-> [u.kid[side] EXCEPT ![z] = Nil]]
           red == u.red \ {z}
           par == [u.parent EXCEPT ![z] = Nil]
           sz == u.size - 1
<1>2. Free(u, z) = [u EXCEPT !.red = red, !.parent[z] = Nil, !.kid = kid, !.size = @ - 1]
  BY Zenon DEF Free
<1>3. Nil \in Nodes
  BY NodeFacts
<1>4. /\ kid \in [Sides -> [Nodes -> Nodes]]
      /\ \A way \in Sides, n \in Nodes : kid[way][n] = IF n = z THEN Nil ELSE u.kid[way][n]
  BY <1>1, <1>3
<1>5. par \in [Nodes -> Nodes] /\ \A n \in Nodes : par[n] = IF n = z THEN Nil ELSE u.parent[n]
  BY <1>1, <1>3
<1>6. red \in SUBSET Nodes /\ sz \in Int
  BY <1>1
<1> DEFINE v == [red |-> red, parent |-> par, kid |-> kid, size |-> sz]
<1> HIDE DEF kid, red
<1>7. Free(u, z) = v
  BY <1>1, <1>2
<1>8. sz = u.size - 1 /\ red = u.red \ {z}
  BY DEF red
<1> HIDE DEF par, sz
<1>9. v \in TreeRecords /\ v.size = sz /\ v.red = red /\ v.parent = par /\ v.kid = kid
  <2>1. kid \in [Sides -> [Nodes -> Nodes]] /\ par \in [Nodes -> Nodes]
    BY <1>4, <1>5
  <2> QED BY <2>1, <1>6 DEF TreeRecords
<1> HIDE DEF v
<1> QED BY <1>4, <1>5, <1>7, <1>8, <1>9 DEF Freed

LEMMA FreeKeeps ==
  ASSUME NEW u, NEW S, RedBlack(u, S, Nil), NEW z \in Keys \ S,
         \A k \in Keys \ (S \cup {z}), way \in Sides : u.kid[way][k] = Nil, NEW v, v = Free(u, z)
  PROVE  Complete(v, S) /\ v.size = u.size - 1
<1>1. u \in TreeRecords /\ S \in SUBSET Keys /\ Linked(u, S) /\ Coloured(u, S, Nil)
  BY DEF RedBlack, Grown
<1>2. PICK sub : Searchable(u, S, sub)
  BY RedBlackParts
<1>3. PICK bh : Heights(u, S, bh, Nil, "left")
  BY RedBlackParts
<1>4. /\ S \subseteq Nodes /\ Nil \in Nodes /\ Root \in Nodes /\ z \in Nodes /\ z # Nil /\ z # Root /\ z \notin S
      /\ "left" \in Sides /\ "right" \in Sides
  BY <1>1, NodeFacts
<1>5. Freed(u, v, z)
  BY <1>1, <1>4, FreeFields
<1>6. v \in TreeRecords /\ v.size = u.size - 1 /\ v.red = u.red \ {z}
  BY <1>5 DEF Freed
<1>7. \A n \in S \cup {Nil, Root}, way \in Sides : v.parent[n] = u.parent[n] /\ v.kid[way][n] = u.kid[way][n]
  BY <1>4, <1>5 DEF Freed
<1>8. Linked(v, S)
  <2>1. ASSUME NEW n \in S \cup {Root}, NEW way \in Sides, v.kid[way][n] # Nil
        PROVE  v.kid[way][n] \in S /\ v.parent[v.kid[way][n]] = n
    <3>1. PICK c : c = u.kid[way][n]
      OBVIOUS
    <3>2. v.kid[way][n] = c /\ c # Nil
      BY <2>1, <3>1, <1>7, Zenon
    <3>3. c \in S /\ u.parent[c] = n
      BY <3>1, <3>2, <1>1 DEF Linked
    <3> QED BY <3>2, <3>3, <1>4, <1>7
  <2>2. ASSUME NEW k \in S
        PROVE  v.parent[k] \in S \cup {Root} /\ (k = v.kid["left"][v.parent[k]] \/ k = v.kid["right"][v.parent[k]])
    <3>1. PICK m : m = u.parent[k]
      BY Zenon
    <3>2. m \in S \cup {Root} /\ (k = u.kid["left"][m] \/ k = u.kid["right"][m])
      BY <3>1, <1>1 DEF Linked, Left, Right
    <3>3. v.parent[k] = m
      BY <3>1, <1>4, <1>7
    <3>4. v.kid["left"][m] = u.kid["left"][m] /\ v.kid["right"][m] = u.kid["right"][m]
      BY <3>2, <1>4, <1>7
    <3> QED BY <3>2, <3>3, <3>4
  <2>3. v.kid["right"][Root] = Nil /\ v.kid["left"][Nil] = Nil /\ v.kid["right"][Nil] = Nil /\ v.parent[Root] = Nil
    BY <1>1, <1>4, <1>7 DEF Linked, Left, Right
  <2> QED BY <2>1, <2>2, <2>3 DEF Linked, Left, Right
<1>9. Searchable(v, S, sub)
  <2>1. \A k \in S \cup {Root} : v.kid["left"][k] = u.kid["left"][k] /\ v.kid["right"][k] = u.kid["right"][k]
    BY <1>4, <1>7
  <2>2. \A k \in S, way \in Sides : v.kid[way][k] = u.kid[way][k]
    BY <1>7
  <2> QED BY <1>2, <2>1, <2>2 DEF Searchable, Left, Right
<1>10. Grown(v, S)
  BY <1>1, <1>6, <1>8, <1>9 DEF Grown
<1>11. Coloured(v, S, Nil)
  BY <1>1, <1>4, <1>6, <1>7 DEF Coloured
<1>12. WholeNumbers(u, S, bh)
  BY <1>1, <1>3, WholeHeights, Zenon
<1>13. WholeNumbers(v, S, bh)
  <2>1. \A k \in S : k \in v.red <=> k \in u.red
    BY <1>4, <1>6
  <2>2. \A k \in S, way \in Sides : v.kid[way][k] = u.kid[way][k]
    BY <1>7
  <2> QED BY <2>1, <2>2, <1>12 DEF WholeNumbers
<1>14. RedBlack(v, S, Nil)
  BY <1>10, <1>11, <1>13, FromWhole
<1>15. ASSUME NEW k \in Keys \ S, NEW way \in Sides PROVE v.kid[way][k] = Nil
  <2>1. k \in Nodes
    BY NodeFacts
  <2>2. v.kid[way][k] = IF k = z THEN Nil ELSE u.kid[way][k]
    BY <2>1, <1>5 DEF Freed
  <2> QED BY <2>2
<1>16. Tidy(v, S)
  BY <1>10, <1>15 DEF Tidy
<1> QED BY <1>6, <1>14, <1>16 DEF Complete

\* The end of a removal: y is in the tree again and z is not.
LEMMA RemoveEndKeeps ==
  ASSUME NEW u, NEW S, RedBlack(u, S, Nil), NEW y \in Keys \ S, NEW z \in Keys,
         y # z => z \in S /\ \A j \in S \ {z} : j < z <=> j < y,
         \A k \in Keys \ (S \cup {y}), way \in Sides : u.kid[way][k] = Nil,
         NEW v, v = Free(IF y # z THEN TakePlace(u, y, z) ELSE u, z)
  PROVE  Complete(v, (S \cup {y}) \ {z}) /\ v.size = u.size - 1
<1>1. CASE y = z
  <2>1. v = Free(u, z)
    BY <1>1
  <2>2. Complete(v, S) /\ v.size = u.size - 1
    BY <1>1, <2>1, FreeKeeps
  <2>3. (S \cup {y}) \ {z} = S
    BY <1>1
  <2> QED BY <2>2, <2>3
<1>2. CASE y # z
  <2>1. PICK w : w = TakePlace(u, y, z)
    OBVIOUS
  <2>2. PICK T : T = (S \ {z}) \cup {y}
    OBVIOUS
  <2>3. z \in S /\ \A j \in S \ {z} : j < z <=> j < y
    BY <1>2
  <2>4. /\ RedBlack(w, T, Nil) /\ w.size = u.size
        /\ \A k \in Keys \ (S \cup {y}), way \in Sides : w.kid[way][k] = u.kid[way][k]
    BY <2>1, <2>2, <2>3, TakePlaceKeeps
  <2>5. v = Free(w, z) /\ z \in Keys \ T
    BY <1>2, <2>1, <2>2
  <2>6. \A k \in Keys \ (T \cup {z}), way \in Sides : w.kid[way][k] = Nil
    BY <2>2, <2>4
  <2>7. Complete(v, T) /\ v.size = w.size - 1
    BY <2>4, <2>5, <2>6, FreeKeeps
  <2>8. T = (S \cup {y}) \ {z}
    BY <1>2, <2>2
  <2> QED BY <2>4, <2>7, <2>8
<1> QED BY <1>1, <1>2

\* The end of PutFix_: the top is painted black and the node counted.
LEMMA PutEndKeeps ==
  ASSUME NEW u, NEW S, NEW c \in S, RedBlack(u, S, c), Tidy(u, S), u.parent[c] \notin u.red,
         NEW v, v = [Paint(u, Left(u, Root), FALSE) EXCEPT !.size = @ + 1]
  PROVE  Complete(v, S) /\ v.size = u.size + 1
<1>1. PICK w : w = Paint(u, Left(u, Root), FALSE)
  BY Zenon
<1>2. RedBlack(w, S, Nil) /\ Painted(u, w, u.red \ {Left(u, Root)})
  BY <1>1, BlackTop, Zenon
<1>3. v = [w EXCEPT !.size = @ + 1]
  BY <1>1, Zenon
<1>4. w \in TreeRecords /\ w.size = u.size /\ w.kid = u.kid /\ w.size \in Int
  <2>1. w \in TreeRecords /\ w.size = u.size /\ w.kid = u.kid
    BY <1>2, Zenon DEF Painted
  <2>2. \A t \in TreeRecords : t.size \in Int
    BY DEF TreeRecords
  <2> QED BY <2>1, <2>2, Zenon
<1>5. PICK z : z = w.size + 1
  OBVIOUS
<1>6. z \in Int /\ z = u.size + 1
  <2>1. w.size \in Int /\ w.size = u.size
    BY <1>4, Zenon
  <2>2. \A a \in Int : a + 1 \in Int
    OBVIOUS
  <2> QED BY <2>1, <2>2, <1>5, Zenon
<1>7. v = [w EXCEPT !.size = z]
  BY <1>3, <1>5, Zenon
<1>8. Resized(w, v, z)
  BY <1>4, <1>6, <1>7, SizeField, Zenon
<1>9. RedBlack(v, S, Nil)
  BY <1>2, <1>8, ResizedRedBlack, Zenon
<1>10. Tidy(v, S)
  <2>1. v.kid = u.kid /\ Grown(v, S)
    BY <1>4, <1>8, <1>9, Zenon DEF Resized, RedBlack
  <2>2. \A k \in Keys \ S, side \in Sides : u.kid[side][k] = Nil
    BY Zenon DEF Tidy
  <2> QED BY <2>1, <2>2, Zenon DEF Tidy
<1>11. v.size = u.size + 1
  BY <1>6, <1>8, Zenon DEF Resized
<1> QED BY <1>9, <1>10, <1>11, Zenon DEF Complete

\* The end of RemoveFix_.
LEMMA RemoveFixEndKeeps ==
  ASSUME NEW u \in TreeRecords, NEW S, NEW c \in Nodes, NEW top, Repair(u, S, c, top),
         ~(c # top /\ c \notin u.red), NEW v, v = Paint(u, c, FALSE)
  PROVE  RedBlack(v, S, Nil) /\ v.size = u.size /\ v.kid = u.kid
<1>1. Painted(u, v, u.red \ {c})
  BY PaintBlack, Zenon
<1>2. RedBlack(v, S, Nil)
  BY Zenon DEF Repair
<1> QED BY <1>1, <1>2, Zenon DEF Painted

-----------------------------------------------------------------------------
(***************************************************************************)
(* The numbers of black nodes that VerifyTree_ finds.                      *)
(***************************************************************************)
CountTurns(f, u) ==
  f = [m \in Nodes |->
        IF m = Nil THEN {1}
        ELSE {c + (IF m \in u.red THEN 0 ELSE 1) : c \in f[Left(u, m)] \cup f[Right(u, m)]}]

Raised(u, m, A) == {c + (IF m \in u.red THEN 0 ELSE 1) : c \in A}

LEMMA RaisedTwo ==
  ASSUME NEW u, NEW m, NEW a \in Int, NEW b \in Int
  PROVE  /\ m \in u.red => Raised(u, m, {a} \cup {b}) = {a} \cup {b}
         /\ m \notin u.red => Raised(u, m, {a} \cup {b}) = {a + 1} \cup {b + 1}
<1>1. CASE m \in u.red
  <2>1. Raised(u, m, {a} \cup {b}) = {c + 0 : c \in {a} \cup {b}}
    BY <1>1 DEF Raised
  <2>2. {c + 0 : c \in {a} \cup {b}} = {a + 0} \cup {b + 0}
    OBVIOUS
  <2>3. a + 0 = a /\ b + 0 = b
    OBVIOUS
  <2> QED BY <1>1, <2>1, <2>2, <2>3
<1>2. CASE m \notin u.red
  <2>1. Raised(u, m, {a} \cup {b}) = {c + 1 : c \in {a} \cup {b}}
    BY <1>2 DEF Raised
  <2>2. {c + 1 : c \in {a} \cup {b}} = {a + 1} \cup {b + 1}
    OBVIOUS
  <2> QED BY <1>2, <2>1, <2>2
<1> QED BY <1>1, <1>2

LEMMA CountEquation ==
  ASSUME NEW u, NEW f
  PROVE  CountTurns(f, u) <=>
           f = [m \in Nodes |-> IF m = Nil THEN {1} ELSE Raised(u, m, f[Left(u, m)] \cup f[Right(u, m)])]
BY Zenon DEF CountTurns, Raised

\* The counts of a tree that is complete.
LEMMA CountExists ==
  ASSUME NEW u, NEW S, Tidy(u, S), NEW bh, WholeNumbers(u, S, bh), Root \notin u.red
  PROVE  \E f : CountTurns(f, u)
<1>1. /\ u \in TreeRecords /\ S \in SUBSET Keys /\ Linked(u, S)
      /\ \A k \in Keys \ S, side \in Sides : u.kid[side][k] = Nil
      /\ \A n \in Nodes, side \in Sides : u.kid[side][n] \in Nodes
  BY TidyParts
<1>2. /\ bh \in [Nodes -> Nat \ {0}] /\ bh[Nil] = 1
      /\ \A k \in S, way \in Sides : /\ bh[u.kid[way][k]] \in Int /\ u.kid[way][k] \in Nodes
                                     /\ k \in u.red => bh[k] = bh[u.kid[way][k]]
                                     /\ k \notin u.red => bh[k] = bh[u.kid[way][k]] + 1
  BY DEF WholeNumbers
<1>3. /\ S \subseteq Nodes /\ Nil \in Nodes /\ Root \in Nodes /\ Nil \notin S /\ Root \notin S /\ Nil # Root
      /\ "left" \in Sides /\ "right" \in Sides
  BY <1>1, NodeFacts
<1>4. PICK t : t = Left(u, Root)
  OBVIOUS
<1>5. (t \in S \/ t = Nil) /\ Right(u, Root) = Nil /\ t \in Nodes
  BY <1>1, <1>3, <1>4 DEF Linked, Left
<1> DEFINE g == [m \in Nodes |-> IF m \in S \cup {Nil} THEN {bh[m]} ELSE IF m = Root THEN {bh[t] + 1} \cup {2}
                                 ELSE IF m \in u.red THEN {1} ELSE {2}]
<1>6. /\ \A m \in S \cup {Nil} : g[m] = {bh[m]}
      /\ g[Root] = {bh[t] + 1} \cup {2}
      /\ \A m \in Keys \ S : g[m] = IF m \in u.red THEN {1} ELSE {2}
      /\ g = [m \in Nodes |-> g[m]]
  <2>1. \A m \in Keys \ S : m \notin S \cup {Nil} /\ m # Root /\ m \in Nodes
    BY NodeFacts
  <2> QED BY <2>1, <1>3
<1> HIDE DEF g
<1>7. \A m \in S \cup {Nil} : bh[m] \in Int
  BY <1>2, <1>3
<1>8. g[Nil] = {1}
  BY <1>2, <1>6
<1>9. ASSUME NEW m \in S PROVE g[m] = Raised(u, m, g[Left(u, m)] \cup g[Right(u, m)])
  <2>1. PICK a, b : a = u.kid["left"][m] /\ b = u.kid["right"][m]
    OBVIOUS
  <2>2. a \in S \cup {Nil} /\ b \in S \cup {Nil}
    BY <2>1, <1>1, <1>3, Zenon DEF Linked
  <2>3. g[a] = {bh[a]} /\ g[b] = {bh[b]} /\ g[m] = {bh[m]}
    BY <2>2, <1>6
  <2>4. bh[a] \in Int /\ bh[b] \in Int
    BY <2>2, <1>7
  <2>5. (m \in u.red => bh[m] = bh[a] /\ bh[m] = bh[b]) /\ (m \notin u.red => bh[m] = bh[a] + 1 /\ bh[m] = bh[b] + 1)
    BY <2>1, <1>2, <1>3
  <2>6. /\ m \in u.red => Raised(u, m, {bh[a]} \cup {bh[b]}) = {bh[a]} \cup {bh[b]}
        /\ m \notin u.red => Raised(u, m, {bh[a]} \cup {bh[b]}) = {bh[a] + 1} \cup {bh[b] + 1}
    BY <2>4, RaisedTwo
  <2>7. Raised(u, m, {bh[a]} \cup {bh[b]}) = {bh[m]}
    BY <2>5, <2>6
  <2> QED BY <2>1, <2>3, <2>7, Zenon DEF Left, Right
<1>10. g[Root] = Raised(u, Root, g[Left(u, Root)] \cup g[Right(u, Root)])
  <2>1. g[t] = {bh[t]} /\ g[Nil] = {1} /\ bh[t] \in Int
    BY <1>5, <1>6, <1>7, <1>8
  <2>2. Raised(u, Root, {bh[t]} \cup {1}) = {bh[t] + 1} \cup {1 + 1}
    BY <2>1, RaisedTwo
  <2>3. 1 + 1 = 2
    OBVIOUS
  <2> QED BY <2>1, <2>2, <2>3, <1>4, <1>5, <1>6
<1>11. ASSUME NEW m \in Keys \ S PROVE g[m] = Raised(u, m, g[Left(u, m)] \cup g[Right(u, m)])
  <2>1. Left(u, m) = Nil /\ Right(u, m) = Nil
    BY <1>1, <1>3 DEF Left, Right
  <2>2. /\ m \in u.red => Raised(u, m, {1} \cup {1}) = {1} \cup {1}
        /\ m \notin u.red => Raised(u, m, {1} \cup {1}) = {1 + 1} \cup {1 + 1}
    BY RaisedTwo
  <2>3. g[m] = Raised(u, m, {1} \cup {1})
    BY <2>2, <1>6
  <2> QED BY <2>1, <2>3, <1>8
<1>12. ASSUME NEW m \in Nodes PROVE g[m] = IF m = Nil THEN {1} ELSE Raised(u, m, g[Left(u, m)] \cup g[Right(u, m)])
  <2>1. CASE m = Nil
    BY <2>1, <1>8
  <2>2. CASE m = Root
    BY <2>2, <1>3, <1>10
  <2>3. CASE m \in Keys
    <3>1. m # Nil
      BY <2>3, NodeFacts
    <3>2. g[m] = Raised(u, m, g[Left(u, m)] \cup g[Right(u, m)])
      BY <2>3, <1>9, <1>11
    <3> QED BY <3>1, <3>2
  <2> QED BY <2>1, <2>2, <2>3 DEF Nodes
<1>13. g = [m \in Nodes |-> IF m = Nil THEN {1} ELSE Raised(u, m, g[Left(u, m)] \cup g[Right(u, m)])]
  BY <1>6, <1>12
<1>14. CountTurns(g, u)
  BY <1>13, CountEquation, Zenon
<1> QED BY <1>14, Zenon

LEMMA CountValues ==
  ASSUME NEW u, NEW S, Tidy(u, S), NEW bh, WholeNumbers(u, S, bh), NEW f, CountTurns(f, u)
  PROVE  \A m \in S \cup {Nil} : f[m] = {bh[m]}
<1>1. u \in TreeRecords /\ S \in SUBSET Keys /\ Linked(u, S) /\ \E sub : Searchable(u, S, sub)
  BY TidyParts
<1>2. /\ bh \in [Nodes -> Nat \ {0}] /\ bh[Nil] = 1
      /\ \A k \in S, way \in Sides : /\ bh[u.kid[way][k]] \in Int /\ u.kid[way][k] \in Nodes
                                     /\ k \in u.red => bh[k] = bh[u.kid[way][k]]
                                     /\ k \notin u.red => bh[k] = bh[u.kid[way][k]] + 1
  BY DEF WholeNumbers
<1>3. S \subseteq Nodes /\ Nil \in Nodes /\ Nil \notin S /\ "left" \in Sides /\ "right" \in Sides
  BY <1>1, NodeFacts
<1>4. PICK sub : Searchable(u, S, sub)
  BY <1>1
<1>5. PICK L, rank : Ranked(u, S, L, rank)
  BY <1>1, <1>4, RanksExist
<1>6. f = [m \in Nodes |-> IF m = Nil THEN {1} ELSE Raised(u, m, f[Left(u, m)] \cup f[Right(u, m)])]
  BY CountEquation, Zenon
<1>7. \A m \in Nodes : f[m] = IF m = Nil THEN {1} ELSE Raised(u, m, f[Left(u, m)] \cup f[Right(u, m)])
  BY <1>6, Zenon
<1>8. f[Nil] = {bh[Nil]}
  BY <1>2, <1>3, <1>7
<1> DEFINE X == {m \in S : f[m] # {bh[m]}}
<1>9. X = {}
  <2> SUFFICES ASSUME X # {} PROVE FALSE
    OBVIOUS
  <2>1. X \in SUBSET Nodes /\ X \subseteq S
    BY <1>3
  <2>2. PICK x \in X : \A y \in X : rank[x] <= rank[y]
    <3> HIDE DEF X
    <3> QED BY <2>1, <1>5, LowestRanked
  <2>3. x \in S /\ f[x] # {bh[x]} /\ x \in Nodes /\ x # Nil
    BY <1>3
  <2>4. ASSUME NEW way \in Sides PROVE f[u.kid[way][x]] = {bh[u.kid[way][x]]}
    <3>1. PICK c : c = u.kid[way][x]
      OBVIOUS
    <3>2. CASE c = Nil
      BY <3>1, <3>2, <1>8, Zenon
    <3>3. CASE c # Nil
      <4>1. c \in S /\ rank[c] < rank[x]
        BY <2>3, <3>1, <3>3, <1>1, <1>5, KidRanked
      <4>2. rank[c] \in Int /\ rank[x] \in Int
        BY <2>3, <4>1, <1>3, <1>5 DEF Ranked
      <4>3. c \notin X
        BY <2>2, <4>1, <4>2
      <4> QED BY <4>1, <4>3, <3>1, Zenon
    <3> QED BY <3>2, <3>3
  <2> HIDE DEF X
  <2>5. PICK a, b : a = u.kid["left"][x] /\ b = u.kid["right"][x]
    OBVIOUS
  <2>6. f[a] = {bh[a]} /\ f[b] = {bh[b]} /\ bh[a] \in Int /\ bh[b] \in Int
    BY <2>3, <2>4, <2>5, <1>2, <1>3, Zenon
  <2>7. (x \in u.red => bh[x] = bh[a] /\ bh[x] = bh[b]) /\ (x \notin u.red => bh[x] = bh[a] + 1 /\ bh[x] = bh[b] + 1)
    BY <2>3, <2>5, <1>2, <1>3
  <2>8. /\ x \in u.red => Raised(u, x, {bh[a]} \cup {bh[b]}) = {bh[a]} \cup {bh[b]}
        /\ x \notin u.red => Raised(u, x, {bh[a]} \cup {bh[b]}) = {bh[a] + 1} \cup {bh[b] + 1}
    BY <2>6, RaisedTwo
  <2>9. Raised(u, x, {bh[a]} \cup {bh[b]}) = {bh[x]}
    BY <2>7, <2>8, Zenon
  <2>10. f[x] = Raised(u, x, f[a] \cup f[b])
    BY <2>3, <2>5, <1>7 DEF Left, Right
  <2> QED BY <2>3, <2>6, <2>9, <2>10
<1> QED BY <1>8, <1>9

LEMMA OneCount ==
  ASSUME NEW u, NEW S, Complete(u, S)
  PROVE  Cardinality(BlackCounts(u, Left(u, Root))) = 1
<1>1. /\ RedBlack(u, S, Nil) /\ Tidy(u, S) /\ u \in TreeRecords /\ S \in SUBSET Keys /\ Linked(u, S)
      /\ Root \notin u.red
  BY RedBlackParts DEF Complete
<1>2. PICK bh : Heights(u, S, bh, Nil, "left")
  BY <1>1, RedBlackParts
<1>3. WholeNumbers(u, S, bh)
  BY <1>1, <1>2, WholeHeights, Zenon
<1> DEFINE F == CHOOSE f : CountTurns(f, u)
<1>4. CountTurns(F, u)
  <2>1. \E f : CountTurns(f, u)
    BY <1>1, <1>3, CountExists
  <2> QED BY <2>1, Zenon
<1>5. PICK t : t = Left(u, Root)
  OBVIOUS
<1>6. BlackCounts(u, t) = F[t]
  BY Zenon DEF BlackCounts, CountTurns
<1> HIDE DEF F
<1>7. t \in S \cup {Nil}
  BY <1>1, <1>5, NodeFacts DEF Linked, Left
<1>8. F[t] = {bh[t]}
  BY <1>1, <1>3, <1>4, <1>7, CountValues
<1>9. Cardinality({bh[t]}) = 1
  BY FS_Singleton
<1> QED BY <1>5, <1>6, <1>8, <1>9

\* VerifyTree_ passes on a complete tree.
LEMMA CompleteVerifies ==
  ASSUME NEW u, NEW S, Complete(u, S), u.size = Cardinality(S)
  PROVE  VerifyTree(u)
<1>1. /\ RedBlack(u, S, Nil) /\ Tidy(u, S) /\ Linked(u, S) /\ S \in SUBSET Keys
      /\ Root \notin u.red /\ Nil \notin u.red
      /\ \A k \in S : k \in u.red /\ k # Nil => u.parent[k] # Root /\ u.parent[k] \notin u.red
  BY RedBlackParts, Zenon DEF Complete
<1>2. Range(Iterated(u)) = S
  BY <1>1, IteratedLists DEF Lists
<1>3. ASSUME NEW k \in S, k \in u.red, NEW side \in Sides PROVE u.kid[side][k] \notin u.red
  <2> SUFFICES ASSUME u.kid[side][k] \in u.red PROVE FALSE
    OBVIOUS
  <2>1. u.kid[side][k] # Nil
    BY <1>1, Zenon
  <2>2. u.kid[side][k] \in S /\ u.parent[u.kid[side][k]] = k
    BY <2>1, <1>1 DEF Linked
  <2> QED BY <2>1, <2>2, <1>1, <1>3
<1>4. \A k \in Range(Iterated(u)) : k \in u.red => Left(u, k) \notin u.red /\ Right(u, k) \notin u.red
  BY <1>2, <1>3, NodeFacts DEF Left, Right
<1>5. Cardinality(BlackCounts(u, Left(u, Root))) = 1
  BY OneCount
<1> QED BY <1>1, <1>4, <1>5 DEF VerifyTree

-----------------------------------------------------------------------------
(***************************************************************************)
(* The steps of the operations.                                            *)
(***************************************************************************)
LEMMA NewTreeComplete == Complete(NewTree, {}) /\ NewTree.size = Cardinality({})
<1>1. PICK u : u = NewTree
  OBVIOUS
<1>2. Nil \in Nodes /\ Root \in Nodes /\ "left" \in Sides /\ "right" \in Sides
  BY NodeFacts
<1>3. /\ u.red = {} /\ u.parent = Blank /\ u.kid = [side \in Sides |-> Blank] /\ u.size = 0
      /\ u = [red |-> {}, parent |-> Blank, kid |-> [side \in Sides |-> Blank], size |-> 0]
  BY <1>1 DEF NewTree
<1>4. Blank \in [Nodes -> Nodes] /\ \A n \in Nodes : Blank[n] = Nil
  BY <1>2 DEF Blank
<1>5. u \in TreeRecords
  BY <1>3, <1>4 DEF TreeRecords
<1>6. (\A n \in Nodes, side \in Sides : u.kid[side][n] = Nil) /\ \A n \in Nodes : u.parent[n] = Nil
  BY <1>3, <1>4
<1>7. Linked(u, {})
  BY <1>2, <1>6 DEF Linked, Left, Right
<1> DEFINE sub == [n \in Nodes |-> {}]
<1>8. Searchable(u, {}, sub)
  <2>1. Left(u, Root) = Nil
    BY <1>2, <1>6 DEF Left
  <2> QED BY <2>1, <1>2 DEF Searchable
<1>9. Grown(u, {})
  BY <1>5, <1>7, <1>8 DEF Grown
<1>10. Coloured(u, {}, Nil)
  BY <1>3 DEF Coloured
<1> DEFINE bh == [n \in Nodes |-> 1]
<1>11. WholeNumbers(u, {}, bh)
  BY <1>2 DEF WholeNumbers
<1>12. RedBlack(u, {}, Nil)
  BY <1>9, <1>10, <1>11, FromWhole
<1>13. Tidy(u, {})
  <2>1. \A k \in Keys \ {}, side \in Sides : u.kid[side][k] = Nil
    BY <1>6, NodeFacts
  <2> QED BY <2>1, <1>9 DEF Tidy
<1>14. Cardinality({}) = 0
  BY FS_EmptySet
<1> QED BY <1>1, <1>3, <1>12, <1>13, <1>14 DEF Complete

\* The order in which a copy is made has nothing but what was collected.
LEMMA CopyOrderFrom ==
  ASSUME NEW seq \in Seq(Keys)
  PROVE  CopyOrder(seq) \in Seq(Keys) /\ Range(CopyOrder(seq)) \subseteq Range(seq)
<1>1. PICK n : n = Len(seq)
  OBVIOUS
<1>2. PICK half, odd : half = n \div 2 /\ odd = n % 2
  OBVIOUS
<1>3. n \in Nat /\ seq \in [1..n -> Keys]
  BY <1>1
<1>4. half \in Nat /\ odd \in {0, 1} /\ n = 2 * half + odd
  BY <1>2, <1>3
<1> DEFINE turn(j) == (j - odd + 1) \div 2
           index(j) == IF j <= odd THEN half + 1
                       ELSE IF (j - odd) % 2 = 1 THEN half + turn(j) ELSE half - turn(j) + 1
           c == [j \in 1..n |-> seq[index(j)]]
<1>5. CopyOrder(seq) = c
  BY <1>1, <1>2, Zenon DEF CopyOrder
<1>6. ASSUME NEW j \in 1..n PROVE index(j) \in 1..n
  <2>1. CASE j <= odd
    BY <2>1, <1>3, <1>4
  <2>2. CASE ~(j <= odd)
    <3>1. PICK m : m = j - odd
      OBVIOUS
    <3>2. m \in 1..(2 * half)
      BY <2>2, <3>1, <1>3, <1>4
    <3>3. PICK t : t = (m + 1) \div 2
      OBVIOUS
    <3>4. t \in 1..half
      BY <3>2, <3>3, <1>4
    <3>5. turn(j) = t
      BY <3>1, <3>3
    <3>6. half + t \in 1..n /\ half - t + 1 \in 1..n
      BY <3>4, <1>3, <1>4
    <3> HIDE DEF turn
    <3> QED BY <2>2, <3>5, <3>6
  <2> QED BY <2>1, <2>2
<1> HIDE DEF index
<1>7. c \in [1..n -> Keys]
  BY <1>3, <1>6
<1>8. c \in Seq(Keys)
  <2> HIDE DEF c
  <2> QED BY <1>3, <1>7
<1>9. Range(c) \subseteq Range(seq)
  <2>1. DOMAIN seq = 1..n /\ DOMAIN c = 1..n
    BY <1>3, <1>7
  <2>2. \A j \in 1..n : c[j] = seq[index(j)]
    BY Zenon
  <2> HIDE DEF c
  <2> QED BY <2>1, <2>2, <1>6 DEF Range
<1> QED BY <1>5, <1>8, <1>9

\* The node RBTreeRemove takes out, and what is below it.
LEMMA TakenOut ==
  ASSUME NEW u, NEW S, Tidy(u, S), NEW k \in S,
         NEW y, y = IF Left(u, k) = Nil \/ Right(u, k) = Nil THEN k ELSE NextNode(u, k),
         NEW x, x = IF Left(u, y) = Nil THEN Right(u, y) ELSE Left(u, y)
  PROVE  /\ OnlyChild(u, S, y, x, u.parent[y], SideOf(u, y))
         /\ y # k => \A j \in (S \ {y}) \ {k} : j < k <=> j < y
<1>1. S \in SUBSET Keys /\ S \subseteq Int
  BY TidyParts, NodeFacts
<1>2. y \in S /\ (Left(u, y) = Nil \/ Right(u, y) = Nil) /\ (y # k => Follows(S, k, y))
  <2>1. CASE Left(u, k) = Nil \/ Right(u, k) = Nil
    BY <2>1
  <2>2. CASE ~(Left(u, k) = Nil \/ Right(u, k) = Nil)
    <3>1. PICK sub : Searchable(u, S, sub)
      BY TidyParts
    <3>2. y = NextNode(u, k) /\ Right(u, k) # Nil
      BY <2>2, Zenon
    <3>3. y = Lowest(u, Right(u, k))
      BY <3>2 DEF NextNode
    <3>4. Left(u, y) = Nil /\ Follows(S, k, y) /\ y \in S
      BY <3>1, <3>2, <3>3, NextDown
    <3> QED BY <3>4
  <2> QED BY <2>1, <2>2
<1>3. PICK a, b : a = Left(u, y) /\ b = Right(u, y)
  OBVIOUS
<1>4. (a = Nil /\ x = b) \/ (b = Nil /\ x = a)
  BY <1>2, <1>3, Zenon
<1>5. \A way \in Sides : u.kid[way][y] = x \/ u.kid[way][y] = Nil
  BY <1>3, <1>4, Zenon DEF Left, Right, Sides
<1>6. \E way \in Sides : u.kid[way][y] = x /\ u.kid[Other(way)][y] = Nil
  <2>1. CASE a = Nil /\ x = b
    <3>1. u.kid["right"][y] = x /\ u.kid["left"][y] = Nil /\ Other("right") = "left"
      BY <2>1, <1>3 DEF Left, Right, Other
    <3> QED BY <3>1, ZenonT(40) DEF Sides
  <2>2. CASE b = Nil /\ x = a
    <3>1. u.kid["left"][y] = x /\ u.kid["right"][y] = Nil /\ Other("left") = "right"
      BY <2>2, <1>3 DEF Left, Right, Other
    <3> QED BY <3>1, ZenonT(40) DEF Sides
  <2> QED BY <1>4, <2>1, <2>2
<1>7. ASSUME y # k, NEW j \in (S \ {y}) \ {k} PROVE j < k <=> j < y
  <2>1. y \in S /\ k < y /\ \A i \in S : k < i => y <= i
    <3>1. y # Nil
      BY <1>1, <1>2, NodeFacts
    <3> QED BY <3>1, <1>2, <1>7 DEF Follows
  <2>2. j \in S /\ j # y /\ j # k /\ j \in Int /\ y \in Int /\ k \in Int
    BY <1>1, <1>2
  <2> QED BY <2>1, <2>2
<1> QED BY <1>2, <1>5, <1>6, <1>7 DEF OnlyChild

\* RBTreeRemove up to RemoveFix_.
TakenFrom(u, v, S, y, x) ==
  /\ v \in TreeRecords /\ x \in Nodes /\ y \in S /\ v.red = u.red /\ v.size = u.size
  /\ \A j \in Keys \ S, way \in Sides : v.kid[way][j] = Nil
  /\ y \in u.red => RedBlack(v, S \ {y}, Nil)
  /\ y \notin u.red => Repair(v, S \ {y}, x, Left(v, Root))

LEMMA ReplaceKeeps ==
  ASSUME NEW u, NEW S, Complete(u, S), NEW y, NEW x, OnlyChild(u, S, y, x, u.parent[y], SideOf(u, y)),
         NEW v, v = Replace(u, y, x)
  PROVE  TakenFrom(u, v, S, y, x)
<1>1. RedBlack(u, S, Nil) /\ Tidy(u, S) /\ u \in TreeRecords /\ S \in SUBSET Keys /\ Linked(u, S)
  BY RedBlackParts DEF Complete
<1>2. PICK p, d : p = u.parent[y] /\ d = SideOf(u, y)
  OBVIOUS
<1>3. OnlyChild(u, S, y, x, p, d)
  BY <1>2
<1>4. Spliced(u, v, x, p, d)
  BY <1>1, <1>3, SplicedParts
<1>5. PICK sub : Splice(u, S, sub, y, x, p, d)
  BY <1>1, <1>3, SplicedParts
<1>6. y \in S /\ x \in Nodes /\ p \in S \cup {Root}
  BY <1>3, <1>5, Zenon DEF Splice, OnlyChild
<1>7. ASSUME NEW j \in Keys \ S, NEW way \in Sides PROVE v.kid[way][j] = Nil
  <2>1. j \in Nodes /\ j # p
    BY <1>6, NodeFacts
  <2>2. v.kid[way][j] = u.kid[way][j]
    BY <2>1, <1>4 DEF Spliced
  <2> QED BY <2>2, <1>1 DEF Tidy
<1>8. y \in u.red => RedBlack(v, S \ {y}, Nil)
  BY <1>1, <1>3, ReplaceRed
<1>9. y \notin u.red => Repair(v, S \ {y}, x, Left(v, Root))
  BY <1>1, <1>3, ReplaceBlack
<1> QED BY <1>4, <1>6, <1>7, <1>8, <1>9 DEF TakenFrom, Spliced

\* One node more, one node less.
LEMMA OneMore ==
  ASSUME NEW S \in SUBSET Keys, NEW k \in Keys \ S
  PROVE  Cardinality(S \cup {k}) = Cardinality(S) + 1 /\ Cardinality(S) \in Nat
BY FinitePart, FS_AddElement

LEMMA OneLess ==
  ASSUME NEW S \in SUBSET Keys, NEW k \in S
  PROVE  Cardinality(S \ {k}) = Cardinality(S) - 1 /\ Cardinality(S) \in Nat
BY FinitePart, FS_RemoveElement

LEMMA NoMoreThanKeys ==
  ASSUME NEW S \in SUBSET Keys
  PROVE  Cardinality(S) \in 0..Cardinality(Keys)
<1>1. Cardinality(S) \in Nat /\ Cardinality(Keys) \in Nat /\ Cardinality(S) <= Cardinality(Keys)
  BY KeysAssumption, FS_Subset, FS_CardinalityType
<1> QED BY <1>1

-----------------------------------------------------------------------------
(***************************************************************************)
(* The invariant.  S is the set of the keys that hang in the tree: what    *)
(* RBTreePut has linked, without the node that RBTreeRemove took out.      *)
(***************************************************************************)
\* Between the operations, and between the puts of a copy.
AtRest(S) ==
  at \in {"idle", "return", "put"} => Complete(tree, S) /\ tree.size = Cardinality(S)

\* In PutFix_ only cur may be red below a red node.
Inserting(S) ==
  at = "putfix" => /\ RedBlack(tree, S, cur) /\ Tidy(tree, S) /\ cur \in S /\ cur \in tree.red
                   /\ tree.size = Cardinality(S) - 1

\* In RemoveFix_ a black node is missing below cur, or cur is to be painted;
\* afterwards y, which is not in the tree, can stand where z stands.
Removing(S) ==
  at \in {"removefix", "unlink"} =>
    /\ gone \in [z : Keys, y : Keys, root : Nodes] /\ gone.y \notin S
    /\ gone.y # gone.z => gone.z \in S /\ \A j \in S \ {gone.z} : j < gone.z <=> j < gone.y
    /\ \A k \in Keys \ (S \cup {gone.y}), way \in Sides : tree.kid[way][k] = Nil
    /\ tree.size = Cardinality(S) + 1
    /\ at = "removefix" => Repair(tree, S, cur, gone.root)
    /\ at = "unlink" => RedBlack(tree, S, Nil)

\* How far the operation is that was called.
Asked(S) ==
  at # "idle" =>
    /\ call \in Calls
    /\ \/ call.op = "put" /\ at \in {"putfix", "return"} /\ S = Range(call.before) \cup call.arg
       \/ call.op = "remove" /\ at = "return" /\ S = Range(call.before) \ call.arg
       \/ /\ call.op = "remove" /\ at \in {"removefix", "unlink"} /\ call.arg = {gone.z}
          /\ gone.y \in Range(call.before) /\ S = Range(call.before) \ {gone.y}
       \/ call.op = "clear" /\ at = "return" /\ S = {}
       \/ /\ call.op = "copy" /\ at \in {"put", "putfix", "return"}
          /\ (S \cup Range(todo)) \subseteq (Range(call.before) \cap call.arg)

Flow ==
  /\ tree \in TreeRecords /\ Nil \notin tree.red /\ Root \notin tree.red
  /\ at \in {"idle", "put", "putfix", "removefix", "unlink", "return"}
  /\ cur \in Nodes /\ todo \in Seq(Keys)
  /\ (call = NoCall) <=> (at = "idle")
  /\ at \notin {"removefix", "unlink"} => gone = NoCall
  /\ todo # <<>> => at \in {"put", "putfix"} /\ call.op = "copy"
  /\ at = "put" => todo # <<>>

Holds(S) == AtRest(S) /\ Inserting(S) /\ Removing(S) /\ Asked(S)

RBInv == Flow /\ \E S \in SUBSET Keys : Holds(S)

LEMMA RBInit == TreeInit => RBInv
<1> SUFFICES ASSUME TreeInit PROVE RBInv
  OBVIOUS
<1>1. tree = NewTree /\ at = "idle" /\ cur = Nil /\ gone = NoCall /\ todo = <<>> /\ call = NoCall
  BY DEF TreeInit
<1>2. Complete(tree, {}) /\ tree.size = Cardinality({})
  BY <1>1, NewTreeComplete
<1>3. tree \in TreeRecords /\ Nil \notin tree.red /\ Root \notin tree.red
  BY <1>2, RedBlackParts DEF Complete
<1>4. Flow
  BY <1>1, <1>3, NodeFacts DEF Flow
<1>5. Holds({})
  BY <1>1, <1>2 DEF Holds, AtRest, Inserting, Removing, Asked
<1> QED BY <1>4, <1>5 DEF RBInv

\* A call starts between operations and remembers what is in the tree.
LEMMA BeginCall ==
  ASSUME RBInv, at = "idle"
  PROVE  /\ tree \in TreeRecords /\ Nil \notin tree.red /\ Root \notin tree.red /\ cur \in Nodes /\ todo = <<>>
         /\ gone = NoCall
         /\ \E S \in SUBSET Keys : Complete(tree, S) /\ tree.size = Cardinality(S) /\ Lists(Iterated(tree), S)
<1>1. Flow
  BY DEF RBInv
<1>2. PICK S \in SUBSET Keys : Holds(S)
  BY DEF RBInv
<1>3. Complete(tree, S) /\ tree.size = Cardinality(S)
  BY <1>2 DEF Holds, AtRest
<1>4. Lists(Iterated(tree), S)
  BY <1>3, IteratedLists DEF Complete
<1>5. /\ tree \in TreeRecords /\ Nil \notin tree.red /\ Root \notin tree.red /\ cur \in Nodes /\ todo = <<>>
      /\ gone = NoCall
  BY <1>1 DEF Flow
<1> QED BY <1>3, <1>4, <1>5

LEMMA CallFacts ==
  ASSUME NEW name \in {"put", "remove", "clear", "copy"}, NEW arg \in SUBSET Keys, NEW seq, NEW S, Lists(seq, S),
         NEW c, c = [op |-> name, arg |-> arg, before |-> seq]
  PROVE  c \in Calls /\ c # NoCall /\ c.op = name /\ c.arg = arg /\ Range(c.before) = S
<1>1. seq \in Seq(Keys) /\ Range(seq) = S
  BY DEF Lists
<1>2. c \in Calls
  BY <1>1 DEF Calls
<1>3. c.op = name /\ c.arg = arg /\ c.before = seq
  OBVIOUS
<1> QED BY <1>1, <1>2, <1>3, NoCallAssumption

\* One key is put.
PutResult(T) ==
  /\ tree' \in TreeRecords /\ Nil \notin tree'.red /\ Root \notin tree'.red /\ cur' \in Nodes
  /\ at' \in {"return", "put", "putfix"}
  /\ at' = "return" => todo' = <<>>
  /\ at' = "put" => todo' # <<>>
  /\ AtRest(T)' /\ Inserting(T)' /\ Removing(T)'

LEMMA PutKeyKeeps ==
  ASSUME NEW S \in SUBSET Keys, Complete(tree, S), tree.size = Cardinality(S), cur \in Nodes,
         NEW k \in Keys, PutKey(k)
  PROVE  PutResult(S \cup {k})
<1>1. tree \in TreeRecords /\ Nil \notin tree.red /\ Root \notin tree.red /\ Tidy(tree, S)
  BY RedBlackParts DEF Complete
<1>2. Has(tree, k) <=> k \in S
  <2>1. {j \in Keys : Has(tree, j)} = S
    BY <1>1, HasExactly
  <2> QED BY <2>1
<1>3. CASE Has(tree, k)
  <2>1. at' = (IF todo' = <<>> THEN "return" ELSE "put") /\ tree' = tree /\ cur' = cur
    BY <1>3 DEF PutKey
  <2>2. S \cup {k} = S
    BY <1>2, <1>3
  <2> QED BY <2>1, <2>2, <1>1 DEF PutResult, AtRest, Inserting, Removing
<1>4. CASE ~Has(tree, k)
  <2>1. tree' = Link(tree, k) /\ cur' = k /\ at' = "putfix"
    BY <1>4 DEF PutKey
  <2>2. k \in Keys \ S
    BY <1>2, <1>4
  <2>3. RedBlack(tree', S \cup {k}, k) /\ Tidy(tree', S \cup {k}) /\ k \in tree'.red /\ tree'.size = tree.size
    BY <2>1, <2>2, LinkKeeps
  <2>4. tree' \in TreeRecords /\ Nil \notin tree'.red /\ Root \notin tree'.red
    BY <2>3, RedBlackParts
  <2>5. tree'.size = Cardinality(S \cup {k}) - 1
    BY <2>2, <2>3, OneMore
  <2>6. k \in Nodes
    BY NodeFacts
  <2> QED BY <2>1, <2>3, <2>4, <2>5, <2>6 DEF PutResult, AtRest, Inserting, Removing
<1> QED BY <1>3, <1>4

LEMMA PutStep == ASSUME RBInv, NEW k \in Keys, RBTreePut(k) PROVE RBInv'
<1>1. /\ at = "idle" /\ call' = [op |-> "put", arg |-> {k}, before |-> Iterated(tree)]
      /\ gone' = gone /\ todo' = todo /\ PutKey(k)
  BY DEF RBTreePut, Begin
<1>2. cur \in Nodes /\ todo = <<>> /\ gone = NoCall
  BY <1>1, BeginCall
<1>3. PICK S \in SUBSET Keys : Complete(tree, S) /\ tree.size = Cardinality(S) /\ Lists(Iterated(tree), S)
  BY <1>1, BeginCall
<1>4. call' \in Calls /\ call' # NoCall /\ call'.op = "put" /\ call'.arg = {k} /\ Range(call'.before) = S
  BY <1>1, <1>3, CallFacts
<1>5. PICK T : T = S \cup {k}
  OBVIOUS
<1>6. PutResult(T)
  BY <1>1, <1>2, <1>3, <1>5, PutKeyKeeps, Zenon
<1>7. todo' = <<>> /\ gone' = NoCall /\ todo' \in Seq(Keys)
  BY <1>1, <1>2
<1>8. Flow'
  BY <1>4, <1>6, <1>7 DEF PutResult, Flow
<1>9. Asked(T)'
  <2>1. at' \in {"putfix", "return"}
    BY <1>6, <1>7, SMTT(30) DEF PutResult
  <2> QED BY <2>1, <1>4, <1>5 DEF Asked
<1>10. Holds(T)'
  BY <1>6, <1>9 DEF PutResult, Holds
<1>11. T \in SUBSET Keys
  BY <1>5
<1> QED BY <1>8, <1>10, <1>11 DEF RBInv

LEMMA PutNextStep == ASSUME RBInv, PutNext PROVE RBInv'
<1>1. at = "put" /\ todo' = Tail(todo) /\ gone' = gone /\ call' = call /\ PutKey(Head(todo))
  BY DEF PutNext
<1>2. Flow
  BY DEF RBInv
<1>3. PICK S \in SUBSET Keys : Holds(S)
  BY DEF RBInv
<1>4. cur \in Nodes /\ todo \in Seq(Keys) /\ todo # <<>> /\ gone = NoCall /\ call # NoCall /\ call.op = "copy"
  BY <1>1, <1>2 DEF Flow
<1>5. Complete(tree, S) /\ tree.size = Cardinality(S)
  BY <1>1, <1>3 DEF Holds, AtRest
<1>6. call \in Calls /\ (S \cup Range(todo)) \subseteq (Range(call.before) \cap call.arg)
  BY <1>1, <1>3, <1>4 DEF Holds, Asked
<1>7. PICK k : k = Head(todo)
  OBVIOUS
<1>8. k \in Keys /\ k \in Range(todo) /\ Tail(todo) \in Seq(Keys) /\ Range(Tail(todo)) \subseteq Range(todo)
  <2>1. k = todo[1] /\ Len(todo) > 0 /\ DOMAIN todo = 1..Len(todo)
    BY <1>4, <1>7
  <2>2. Tail(todo) \in Seq(Keys) /\ DOMAIN Tail(todo) = 1..Len(todo) - 1 /\ \A i \in 1..Len(todo) - 1 : Tail(todo)[i] = todo[i + 1]
    BY <1>4
  <2>3. k \in Keys /\ k \in Range(todo)
    BY <1>4, <2>1 DEF Range
  <2>4. Range(Tail(todo)) \subseteq Range(todo)
    BY <2>1, <2>2 DEF Range
  <2> QED BY <2>2, <2>3, <2>4
<1>9. PICK T : T = S \cup {k}
  OBVIOUS
<1>10. PutResult(T)
  BY <1>1, <1>4, <1>5, <1>7, <1>8, <1>9, PutKeyKeeps
<1>11. todo' \in Seq(Keys) /\ gone' = NoCall /\ call' # NoCall /\ call'.op = "copy"
  BY <1>1, <1>4, <1>8
<1>12. Flow'
  BY <1>10, <1>11 DEF PutResult, Flow
<1>13. Asked(T)'
  <2>1. at' \in {"put", "putfix", "return"}
    BY <1>10 DEF PutResult
  <2>2. (T \cup Range(todo')) \subseteq (Range(call.before) \cap call.arg)
    BY <1>1, <1>6, <1>8, <1>9
  <2> QED BY <2>1, <2>2, <1>1, <1>4, <1>6 DEF Asked
<1>14. Holds(T)'
  BY <1>10, <1>13 DEF PutResult, Holds
<1>15. T \in SUBSET Keys
  BY <1>8, <1>9
<1> QED BY <1>12, <1>14, <1>15 DEF RBInv

LEMMA PutFixStep == ASSUME RBInv, PutFix PROVE RBInv'
<1>1. /\ at = "putfix" /\ tree.parent[cur] \in tree.red
      /\ at' = at /\ gone' = gone /\ todo' = todo /\ call' = call
  BY DEF PutFix
<1>2. Flow
  BY DEF RBInv
<1>3. PICK S \in SUBSET Keys : Holds(S)
  BY DEF RBInv
<1>4. RedBlack(tree, S, cur) /\ Tidy(tree, S) /\ cur \in S /\ cur \in tree.red /\ tree.size = Cardinality(S) - 1
  BY <1>1, <1>3 DEF Holds, Inserting
<1>5. Fixing(tree, tree', S, cur')
  BY <1>1, <1>4, PutFixKeeps, Zenon DEF PutFix
<1>6. RedBlack(tree', S, cur') /\ cur' \in S /\ cur' \in tree'.red /\ tree'.size = tree.size /\ KidFrame(tree, tree', S)
  BY <1>5 DEF Fixing
<1>7. tree' \in TreeRecords /\ Nil \notin tree'.red /\ Root \notin tree'.red
  BY <1>6, RedBlackParts
<1>8. Tidy(tree', S)
  BY <1>4, <1>6 DEF Tidy, KidFrame, RedBlack
<1>9. cur' \in Nodes
  BY <1>6, NodeFacts
<1>10. Flow'
  BY <1>1, <1>2, <1>7, <1>9 DEF Flow
<1>11. AtRest(S)' /\ Removing(S)'
  BY <1>1 DEF AtRest, Removing
<1>12. Inserting(S)'
  BY <1>4, <1>6, <1>8 DEF Inserting
<1>13. Asked(S)'
  BY <1>1, <1>3 DEF Holds, Asked
<1> QED BY <1>10, <1>11, <1>12, <1>13, Zenon DEF RBInv, Holds

LEMMA PutEndStep == ASSUME RBInv, PutEnd PROVE RBInv'
<1>1. /\ at = "putfix" /\ tree.parent[cur] \notin tree.red
      /\ at' = IF todo = <<>> THEN "return" ELSE "put"
      /\ cur' = Nil /\ gone' = gone /\ todo' = todo /\ call' = call
  BY DEF PutEnd
<1>2. Flow
  BY DEF RBInv
<1>3. PICK S \in SUBSET Keys : Holds(S)
  BY DEF RBInv
<1>4. RedBlack(tree, S, cur) /\ Tidy(tree, S) /\ cur \in S /\ cur \in tree.red /\ tree.size = Cardinality(S) - 1
  BY <1>1, <1>3 DEF Holds, Inserting
<1>5. Complete(tree', S) /\ tree'.size = tree.size + 1
  BY <1>1, <1>4, PutEndKeeps, Zenon DEF PutEnd
<1>6. Cardinality(S) \in Nat
  BY FinitePart
<1>7. tree'.size = Cardinality(S)
  BY <1>4, <1>5, <1>6
<1>8. tree' \in TreeRecords /\ Nil \notin tree'.red /\ Root \notin tree'.red
  BY <1>5, RedBlackParts DEF Complete
<1>9. Flow'
  BY <1>1, <1>2, <1>8, NodeFacts DEF Flow
<1>10. AtRest(S)' /\ Removing(S)' /\ Inserting(S)'
  BY <1>1, <1>5, <1>7 DEF AtRest, Removing, Inserting
<1>11. Asked(S)'
  <2>1. call \in Calls
    BY <1>1, <1>3 DEF Holds, Asked
  <2>2. CASE call.op = "put"
    <3>1. S = Range(call.before) \cup call.arg
      BY <2>2, <1>1, <1>3 DEF Holds, Asked
    <3>2. todo = <<>>
      BY <2>2, <1>2 DEF Flow
    <3> QED BY <2>1, <2>2, <3>1, <3>2, <1>1 DEF Asked
  <2>3. CASE call.op = "copy"
    <3>1. (S \cup Range(todo)) \subseteq (Range(call.before) \cap call.arg)
      BY <2>3, <1>1, <1>3 DEF Holds, Asked
    <3> QED BY <2>1, <2>3, <3>1, <1>1 DEF Asked
  <2>4. call.op = "put" \/ call.op = "copy"
    BY <1>1, <1>3 DEF Holds, Asked
  <2> QED BY <2>2, <2>3, <2>4
<1> QED BY <1>9, <1>10, <1>11 DEF RBInv, Holds

LEMMA RemoveStep == ASSUME RBInv, NEW k \in Keys, RBTreeRemove(k) PROVE RBInv'
<1>1. at = "idle" /\ call' = [op |-> "remove", arg |-> {k}, before |-> Iterated(tree)] /\ todo' = todo
  BY DEF RBTreeRemove, Begin
<1>2. /\ tree \in TreeRecords /\ Nil \notin tree.red /\ Root \notin tree.red /\ cur \in Nodes
      /\ todo = <<>> /\ gone = NoCall
  BY <1>1, BeginCall
<1>3. PICK S \in SUBSET Keys : Complete(tree, S) /\ tree.size = Cardinality(S) /\ Lists(Iterated(tree), S)
  BY <1>1, BeginCall
<1>4. call' \in Calls /\ call' # NoCall /\ call'.op = "remove" /\ call'.arg = {k} /\ Range(call'.before) = S
  BY <1>1, <1>3, CallFacts
<1>5. Has(tree, k) <=> k \in S
  <2>1. {j \in Keys : Has(tree, j)} = S
    BY <1>3, HasExactly DEF Complete
  <2> QED BY <2>1
<1>6. CASE ~Has(tree, k)
  <2>1. at' = "return" /\ tree' = tree /\ cur' = cur /\ gone' = gone
    BY <1>6 DEF RBTreeRemove
  <2>2. Flow'
    BY <2>1, <1>1, <1>2, <1>4 DEF Flow
  <2>3. AtRest(S)' /\ Inserting(S)' /\ Removing(S)'
    BY <2>1, <1>3 DEF AtRest, Inserting, Removing
  <2>4. S = S \ {k}
    BY <1>5, <1>6
  <2>5. Asked(S)'
    BY <2>1, <2>4, <1>4 DEF Asked
  <2> QED BY <2>2, <2>3, <2>5 DEF RBInv, Holds
<1>7. CASE Has(tree, k)
  <2>1. PICK y : y = IF Left(tree, k) = Nil \/ Right(tree, k) = Nil THEN k ELSE NextNode(tree, k)
    OBVIOUS
  <2>2. PICK x : x = IF Left(tree, y) = Nil THEN Right(tree, y) ELSE Left(tree, y)
    OBVIOUS
  <2>3. PICK v : v = Replace(tree, y, x)
    OBVIOUS
  <2>4. /\ tree' = v /\ cur' = x /\ gone' = [z |-> k, y |-> y, root |-> Left(v, Root)]
        /\ at' = IF y \in tree.red THEN "unlink" ELSE "removefix"
    BY <2>1, <2>2, <2>3, <1>7, Zenon DEF RBTreeRemove
  <2>5. k \in S /\ Tidy(tree, S)
    BY <1>3, <1>5, <1>7 DEF Complete
  <2>6. /\ OnlyChild(tree, S, y, x, tree.parent[y], SideOf(tree, y))
        /\ y # k => \A j \in (S \ {y}) \ {k} : j < k <=> j < y
    BY <2>1, <2>2, <2>5, TakenOut
  <2>7. TakenFrom(tree, v, S, y, x)
    BY <2>3, <2>6, <1>3, ReplaceKeeps
  <2>8. /\ v \in TreeRecords /\ x \in Nodes /\ y \in S /\ v.red = tree.red /\ v.size = tree.size
        /\ \A j \in Keys \ S, way \in Sides : v.kid[way][j] = Nil
        /\ y \in tree.red => RedBlack(v, S \ {y}, Nil)
        /\ y \notin tree.red => Repair(v, S \ {y}, x, Left(v, Root))
    BY <2>7 DEF TakenFrom
  <2>9. Left(v, Root) \in Nodes
    BY <2>8, NodeFacts DEF Left, TreeRecords
  <2>10. /\ gone' \in [z : Keys, y : Keys, root : Nodes]
         /\ gone'.z = k /\ gone'.y = y /\ gone'.root = Left(v, Root)
    <3>1. y \in Keys
      BY <2>8
    <3> QED BY <3>1, <2>4, <2>9
  <2>11. at' \in {"removefix", "unlink"} /\ at' # "idle" /\ at' # "put" /\ at' # "return" /\ at' # "putfix"
    BY <2>4
  <2>12. Flow'
    BY <2>4, <2>8, <2>11, <1>1, <1>2, <1>4 DEF Flow
  <2>13. PICK T : T = S \ {y}
    OBVIOUS
  <2>14. T \in SUBSET Keys /\ y \notin T /\ T \cup {y} = S
    BY <2>8, <2>13
  <2>15. AtRest(T)' /\ Inserting(T)'
    BY <2>11, Zenon DEF AtRest, Inserting
  <2>16. tree'.size = Cardinality(T) + 1
    <3>1. Cardinality(S \ {y}) = Cardinality(S) - 1 /\ Cardinality(S) \in Nat
      BY <2>8, OneLess
    <3> QED BY <3>1, <2>4, <2>8, <2>13, <1>3
  <2>17. Removing(T)'
    <3>1. y # k => k \in T /\ \A j \in T \ {k} : j < k <=> j < y
      BY <2>5, <2>6, <2>13
    <3>2. \A j \in Keys \ (T \cup {y}), way \in Sides : tree'.kid[way][j] = Nil
      BY <2>4, <2>8, <2>14
    <3>3. at' = "removefix" => Repair(tree', T, cur', Left(v, Root))
      BY <2>4, <2>8, <2>13
    <3>4. at' = "unlink" => RedBlack(tree', T, Nil)
      BY <2>4, <2>8, <2>13
    <3> QED BY <3>1, <3>2, <3>3, <3>4, <2>10, <2>14, <2>16 DEF Removing
  <2>18. Asked(T)'
    BY <2>8, <2>10, <2>11, <2>13, <1>4 DEF Asked
  <2> QED BY <2>12, <2>14, <2>15, <2>17, <2>18 DEF RBInv, Holds
<1> QED BY <1>6, <1>7

\* While a node is missing, no turn of RemoveFix_ paints a sentinel red.
LEMMA RepairBlackSentinels ==
  ASSUME NEW t \in TreeRecords, NEW S \in SUBSET Keys, NEW c \in S, NEW top, Repair(t, S, c, top)
  PROVE  Nil \notin t.red /\ Root \notin t.red
<1>1. CASE c # top /\ c \notin t.red
  <2>1. Short(t, S, c)
    BY <1>1, Zenon DEF Repair
  <2> QED BY <2>1 DEF Short, Coloured
<1>2. CASE ~(c # top /\ c \notin t.red)
  <2>1. c \in Nodes /\ c # Nil /\ c # Root
    BY NodeFacts
  <2>2. PICK w : w = Paint(t, c, FALSE)
    BY Zenon
  <2>3. RedBlack(w, S, Nil)
    BY <1>2, <2>2, Zenon DEF Repair
  <2>4. Painted(t, w, t.red \ {c})
    BY <2>1, <2>2, PaintBlack, Zenon
  <2>5. w.red = t.red \ {c} /\ Nil \notin w.red /\ Root \notin w.red
    BY <2>3, <2>4, Zenon DEF Painted, RedBlack, Coloured
  <2> QED BY <2>1, <2>5, Zenon
<1> QED BY <1>1, <1>2

LEMMA ShortHasTop ==
  ASSUME NEW u, NEW S, NEW x, Short(u, S, x)
  PROVE  Left(u, Root) \in S
<1>1. u \in TreeRecords /\ S \in SUBSET Keys /\ Linked(u, S) /\ S # {}
  BY DEF Short, Grown
<1>2. PICK sub : Searchable(u, S, sub)
  BY DEF Short, Grown
<1>3. Left(u, Root) # Nil
  BY <1>1, <1>2 DEF Searchable
<1> QED BY <1>1, <1>3, NodeFacts DEF Linked, Left

LEMMA RemoveFixStep == ASSUME RBInv, RemoveFix PROVE RBInv'
<1>1. /\ at = "removefix" /\ cur # gone.root /\ cur \notin tree.red
      /\ at' = at /\ gone' = gone /\ todo' = todo /\ call' = call
  BY DEF RemoveFix
<1>2. Flow
  BY DEF RBInv
<1>3. PICK S \in SUBSET Keys : Holds(S)
  BY DEF RBInv
<1>4. /\ gone \in [z : Keys, y : Keys, root : Nodes] /\ gone.y \notin S
      /\ gone.y # gone.z => gone.z \in S /\ \A j \in S \ {gone.z} : j < gone.z <=> j < gone.y
      /\ \A k \in Keys \ (S \cup {gone.y}), way \in Sides : tree.kid[way][k] = Nil
      /\ tree.size = Cardinality(S) + 1
      /\ Repair(tree, S, cur, gone.root)
  BY <1>1, <1>3 DEF Holds, Removing
<1>5. PICK top : top = gone.root
  OBVIOUS
<1>6. Short(tree, S, cur) /\ top = Left(tree, Root)
  BY <1>1, <1>4, <1>5, Zenon DEF Repair
<1>7. Repairs(tree, tree', S, cur', top) /\ (cur' \in S \/ cur' = top)
  BY <1>5, <1>6, RemoveFixKeeps, Zenon DEF RemoveFix
<1>8. tree' \in TreeRecords /\ cur' \in Nodes /\ Repair(tree', S, cur', top) /\ tree'.size = tree.size /\ KidFrame(tree, tree', S)
  BY <1>7, Zenon DEF Repairs
<1>9. cur' \in S
  BY <1>6, <1>7, ShortHasTop
<1>10. Nil \notin tree'.red /\ Root \notin tree'.red
  BY <1>8, <1>9, RepairBlackSentinels, Zenon
<1>11. Flow'
  BY <1>1, <1>2, <1>8, <1>10 DEF Flow
<1>12. AtRest(S)' /\ Inserting(S)'
  BY <1>1 DEF AtRest, Inserting
<1>13. \A k \in Keys \ (S \cup {gone.y}), way \in Sides : tree'.kid[way][k] = Nil
  BY <1>4, <1>8 DEF KidFrame
<1>14. Removing(S)'
  <2>1. tree'.size = Cardinality(S) + 1
    BY <1>4, <1>8
  <2>2. Repair(tree', S, cur', gone.root)
    BY <1>5, <1>8, Zenon
  <2>3. at' = "removefix"
    BY <1>1
  <2> QED BY <2>1, <2>2, <2>3, <1>1, <1>4, <1>13 DEF Removing
<1>15. Asked(S)'
  BY <1>1, <1>3 DEF Holds, Asked
<1> QED BY <1>11, <1>12, <1>14, <1>15, Zenon DEF RBInv, Holds

LEMMA RemoveFixEndStep == ASSUME RBInv, RemoveFixEnd PROVE RBInv'
<1>1. /\ at = "removefix" /\ ~(cur # gone.root /\ cur \notin tree.red)
      /\ at' = "unlink" /\ cur' = cur /\ gone' = gone /\ todo' = todo /\ call' = call
  BY DEF RemoveFixEnd
<1>2. Flow
  BY DEF RBInv
<1>3. PICK S \in SUBSET Keys : Holds(S)
  BY DEF RBInv
<1>4. /\ gone \in [z : Keys, y : Keys, root : Nodes] /\ gone.y \notin S
      /\ gone.y # gone.z => gone.z \in S /\ \A j \in S \ {gone.z} : j < gone.z <=> j < gone.y
      /\ \A k \in Keys \ (S \cup {gone.y}), way \in Sides : tree.kid[way][k] = Nil
      /\ tree.size = Cardinality(S) + 1
      /\ Repair(tree, S, cur, gone.root)
  BY <1>1, <1>3 DEF Holds, Removing
<1>5. tree \in TreeRecords /\ cur \in Nodes
  BY <1>2 DEF Flow
<1>6. RedBlack(tree', S, Nil) /\ tree'.size = tree.size /\ tree'.kid = tree.kid
  BY <1>1, <1>4, <1>5, RemoveFixEndKeeps, ZenonT(40) DEF RemoveFixEnd
<1>7. tree' \in TreeRecords /\ Nil \notin tree'.red /\ Root \notin tree'.red
  BY <1>6, RedBlackParts
<1>8. Flow'
  <2>1. todo = <<>>
    BY <1>1, <1>2 DEF Flow
  <2> QED BY <2>1, <1>1, <1>2, <1>7 DEF Flow
<1>9. AtRest(S)' /\ Inserting(S)'
  BY <1>1 DEF AtRest, Inserting
<1>10. Removing(S)'
  <2>1. tree'.size = Cardinality(S) + 1
    BY <1>4, <1>6
  <2>2. \A k \in Keys \ (S \cup {gone.y}), way \in Sides : tree'.kid[way][k] = Nil
    BY <1>4, <1>6
  <2> QED BY <2>1, <2>2, <1>1, <1>4, <1>6 DEF Removing
<1>11. Asked(S)'
  BY <1>1, <1>3 DEF Holds, Asked
<1> QED BY <1>8, <1>9, <1>10, <1>11 DEF RBInv, Holds

LEMMA RemoveEndStep == ASSUME RBInv, RemoveEnd PROVE RBInv'
<1>1. /\ at = "unlink" /\ at' = "return" /\ cur' = Nil /\ gone' = NoCall /\ todo' = todo /\ call' = call
  BY DEF RemoveEnd
<1>2. Flow
  BY DEF RBInv
<1>3. PICK S \in SUBSET Keys : Holds(S)
  BY DEF RBInv
<1>4. /\ gone \in [z : Keys, y : Keys, root : Nodes] /\ gone.y \notin S
      /\ gone.y # gone.z => gone.z \in S /\ \A j \in S \ {gone.z} : j < gone.z <=> j < gone.y
      /\ \A k \in Keys \ (S \cup {gone.y}), way \in Sides : tree.kid[way][k] = Nil
      /\ tree.size = Cardinality(S) + 1
      /\ RedBlack(tree, S, Nil)
  BY <1>1, <1>3 DEF Holds, Removing
<1>5. PICK y, z : y = gone.y /\ z = gone.z
  OBVIOUS
<1>6. y \in Keys \ S /\ z \in Keys /\ (y # z => z \in S /\ \A j \in S \ {z} : j < z <=> j < y)
  BY <1>4, <1>5
<1>7. tree' = Free(IF y # z THEN TakePlace(tree, y, z) ELSE tree, z)
  BY <1>5, Zenon DEF RemoveEnd
<1>8. PICK T : T = (S \cup {y}) \ {z}
  OBVIOUS
<1>9. Complete(tree', T) /\ tree'.size = tree.size - 1
  <2>1. \A k \in Keys \ (S \cup {y}), way \in Sides : tree.kid[way][k] = Nil
    BY <1>4, <1>5
  <2>2. PICK v : v = tree'
    OBVIOUS
  <2>3. v = Free(IF y # z THEN TakePlace(tree, y, z) ELSE tree, z)
    BY <2>2, <1>7
  <2>4. y \in Keys \ S /\ z \in Keys /\ RedBlack(tree, S, Nil)
    BY <1>4, <1>6
  <2>5. y # z => z \in S /\ \A j \in S \ {z} : j < z <=> j < y
    BY <1>6
  <2>6. Complete(v, (S \cup {y}) \ {z}) /\ v.size = tree.size - 1
    BY <2>1, <2>3, <2>4, <2>5, RemoveEndKeeps
  <2> QED BY <2>2, <2>6, <1>8, Zenon
<1>10. Cardinality(T) = Cardinality(S) /\ Cardinality(S) \in Nat /\ T \in SUBSET Keys
  <2>1. Cardinality(S \cup {y}) = Cardinality(S) + 1 /\ Cardinality(S) \in Nat
    BY <1>6, OneMore
  <2>2. PICK U : U = S \cup {y}
    OBVIOUS
  <2>3. U \in SUBSET Keys /\ z \in U /\ T = U \ {z}
    BY <2>2, <1>6, <1>8
  <2>4. Cardinality(T) = Cardinality(U) - 1
    BY <2>3, OneLess
  <2> QED BY <2>1, <2>2, <2>3, <2>4
<1>11. tree'.size = Cardinality(T)
  BY <1>4, <1>9, <1>10
<1>12. tree' \in TreeRecords /\ Nil \notin tree'.red /\ Root \notin tree'.red
  BY <1>9, RedBlackParts DEF Complete
<1>13. Flow'
  <2>1. todo = <<>>
    BY <1>1, <1>2 DEF Flow
  <2> QED BY <2>1, <1>1, <1>2, <1>12, NodeFacts DEF Flow
<1>14. AtRest(T)' /\ Inserting(T)' /\ Removing(T)'
  BY <1>1, <1>9, <1>11 DEF AtRest, Inserting, Removing
<1>15. Asked(T)'
  <2>1. /\ call \in Calls /\ call.op = "remove" /\ call.arg = {gone.z}
        /\ gone.y \in Range(call.before) /\ S = Range(call.before) \ {gone.y}
    BY <1>1, <1>3 DEF Holds, Asked
  <2>2. T = Range(call.before) \ call.arg
    BY <2>1, <1>5, <1>8
  <2> QED BY <2>1, <2>2, <1>1 DEF Asked
<1> QED BY <1>10, <1>13, <1>14, <1>15 DEF RBInv, Holds

LEMMA ClearStep == ASSUME RBInv, RBTreeClear PROVE RBInv'
<1>1. /\ at = "idle" /\ call' = [op |-> "clear", arg |-> {}, before |-> Iterated(tree)] /\ tree' = NewTree
      /\ at' = "return" /\ cur' = cur /\ gone' = gone /\ todo' = todo
  BY DEF RBTreeClear, Begin
<1>2. cur \in Nodes /\ todo = <<>> /\ gone = NoCall
  BY <1>1, BeginCall
<1>3. PICK S \in SUBSET Keys : Lists(Iterated(tree), S)
  BY <1>1, BeginCall
<1>4. call' \in Calls /\ call' # NoCall /\ call'.op = "clear"
  BY <1>1, <1>3, CallFacts
<1>5. Complete(tree', {}) /\ tree'.size = Cardinality({})
  BY <1>1, NewTreeComplete
<1>6. tree' \in TreeRecords /\ Nil \notin tree'.red /\ Root \notin tree'.red
  BY <1>5, RedBlackParts DEF Complete
<1>7. Flow'
  BY <1>1, <1>2, <1>4, <1>6 DEF Flow
<1>8. Holds({})'
  BY <1>1, <1>4, <1>5 DEF Holds, AtRest, Inserting, Removing, Asked
<1> QED BY <1>7, <1>8 DEF RBInv

LEMMA CopyStep == ASSUME RBInv, NEW filter \in Filters, RBTreeCopy(filter) PROVE RBInv'
<1>1. /\ at = "idle" /\ tree.size > 0 /\ call' = [op |-> "copy", arg |-> filter, before |-> Iterated(tree)]
      /\ tree' = NewTree /\ todo' = CopyOrder(Collected(tree, filter))
      /\ at' = (IF todo' = <<>> THEN "return" ELSE "put") /\ cur' = cur /\ gone' = gone
  BY DEF RBTreeCopy, Begin
<1>2. cur \in Nodes /\ gone = NoCall
  BY <1>1, BeginCall
<1>3. PICK S \in SUBSET Keys : Complete(tree, S) /\ tree.size = Cardinality(S) /\ Lists(Iterated(tree), S)
  BY <1>1, BeginCall
<1>4. filter \in SUBSET Keys
  BY KeysAssumption
<1>5. call' \in Calls /\ call' # NoCall /\ call'.op = "copy" /\ call'.arg = filter /\ Range(call'.before) = S
  BY <1>1, <1>3, <1>4, CallFacts
<1>6. S # {}
  <2>1. Cardinality({}) = 0
    BY FS_EmptySet
  <2>2. Cardinality(S) # 0
    BY <1>1, <1>3
  <2> QED BY <2>1, <2>2
<1>7. PICK c : c = Collected(tree, filter)
  OBVIOUS
<1>8. Lists(c, S \cap filter)
  BY <1>3, <1>4, <1>6, <1>7, CollectedLists DEF Complete
<1>9. c \in Seq(Keys) /\ Range(c) = S \cap filter
  BY <1>8 DEF Lists
<1>10. todo' \in Seq(Keys) /\ Range(todo') \subseteq S \cap filter
  BY <1>1, <1>7, <1>9, CopyOrderFrom
<1>11. Complete(tree', {}) /\ tree'.size = Cardinality({})
  BY <1>1, NewTreeComplete
<1>12. tree' \in TreeRecords /\ Nil \notin tree'.red /\ Root \notin tree'.red
  BY <1>11, RedBlackParts DEF Complete
<1>13. at' \in {"return", "put"} /\ (at' = "return" => todo' = <<>>) /\ (at' = "put" => todo' # <<>>)
  BY <1>1, Zenon
<1>14. Flow'
  BY <1>1, <1>2, <1>5, <1>10, <1>12, <1>13 DEF Flow
<1>15. AtRest({})' /\ Inserting({})' /\ Removing({})'
  BY <1>11, <1>13 DEF AtRest, Inserting, Removing
<1>16. Asked({})'
  BY <1>5, <1>10, <1>13 DEF Asked
<1> QED BY <1>14, <1>15, <1>16 DEF RBInv, Holds

LEMMA ReturnStep == ASSUME RBInv, Return PROVE RBInv'
<1>1. /\ at = "return" /\ at' = "idle" /\ call' = NoCall
      /\ tree' = tree /\ cur' = cur /\ gone' = gone /\ todo' = todo
  BY DEF Return
<1>2. Flow
  BY DEF RBInv
<1>3. PICK S \in SUBSET Keys : Holds(S)
  BY DEF RBInv
<1>4. Complete(tree, S) /\ tree.size = Cardinality(S)
  BY <1>1, <1>3 DEF Holds, AtRest
<1>5. Flow'
  BY <1>1, <1>2 DEF Flow
<1>6. Holds(S)'
  BY <1>1, <1>4 DEF Holds, AtRest, Inserting, Removing, Asked
<1> QED BY <1>5, <1>6 DEF RBInv

LEMMA StutterStep == ASSUME RBInv, UNCHANGED treeVars PROVE RBInv'
<1>1. tree' = tree /\ at' = at /\ cur' = cur /\ gone' = gone /\ todo' = todo /\ call' = call
  BY DEF treeVars
<1>2. PICK S \in SUBSET Keys : Holds(S)
  BY DEF RBInv
<1>3. Flow'
  BY <1>1 DEF RBInv, Flow
<1>4. Holds(S)'
  BY <1>1, <1>2 DEF Holds, AtRest, Inserting, Removing, Asked
<1> QED BY <1>3, <1>4 DEF RBInv

LEMMA RBNext == RBInv /\ [TreeNext]_treeVars => RBInv'
<1> SUFFICES ASSUME RBInv, [TreeNext]_treeVars PROVE RBInv'
  BY Zenon
<1>1. ASSUME NEW k \in Keys, RBTreePut(k) PROVE RBInv'
  BY <1>1, PutStep
<1>2. ASSUME NEW k \in Keys, RBTreeRemove(k) PROVE RBInv'
  BY <1>2, RemoveStep
<1>3. ASSUME NEW filter \in Filters, RBTreeCopy(filter) PROVE RBInv'
  BY <1>3, CopyStep
<1>4. CASE RBTreeClear
  BY <1>4, ClearStep
<1>5. CASE PutFix
  BY <1>5, PutFixStep
<1>6. CASE PutEnd
  BY <1>6, PutEndStep
<1>7. CASE PutNext
  BY <1>7, PutNextStep
<1>8. CASE RemoveFix
  BY <1>8, RemoveFixStep
<1>9. CASE RemoveFixEnd
  BY <1>9, RemoveFixEndStep
<1>10. CASE RemoveEnd
  BY <1>10, RemoveEndStep
<1>11. CASE Return
  BY <1>11, ReturnStep
<1>12. CASE UNCHANGED treeVars
  BY <1>12, StutterStep
<1> QED BY <1>1, <1>2, <1>3, <1>4, <1>5, <1>6, <1>7, <1>8, <1>9, <1>10, <1>11, <1>12 DEF TreeNext

\* Every state of the red-black tree, also in the middle of PutFix_ and
\* RemoveFix_, is described by the invariant.
THEOREM TreeInvariant == TreeSpec => []RBInv
<1>1. TreeInit => RBInv
  BY RBInit
<1>2. RBInv /\ [TreeNext]_treeVars => RBInv'
  BY RBNext
<1> QED BY <1>1, <1>2, PTL DEF TreeSpec

LEMMA InvariantTypes == RBInv => TreeTypeOK
<1> SUFFICES ASSUME RBInv PROVE TreeTypeOK
  OBVIOUS
<1>1. Flow
  BY DEF RBInv
<1>2. PICK S \in SUBSET Keys : Holds(S)
  BY DEF RBInv
<1>3. /\ tree \in TreeRecords
      /\ at \in {"idle", "put", "putfix", "removefix", "unlink", "return"}
      /\ cur \in Nodes /\ todo \in Seq(Keys) /\ ((call = NoCall) <=> (at = "idle"))
  BY <1>1 DEF Flow
<1>4. tree.red \subseteq Nodes /\ tree.parent \in [Nodes -> Nodes] /\ tree.kid \in [Sides -> [Nodes -> Nodes]]
  BY <1>3 DEF TreeRecords
<1>5. gone = NoCall \/ gone \in [z : Keys, y : Keys, root : Nodes]
  BY <1>1, <1>2 DEF Flow, Holds, Removing
<1>6. tree.size \in 0..Cardinality(Keys)
  <2>1. CASE at \in {"idle", "return", "put"}
    <3>1. tree.size = Cardinality(S)
      BY <2>1, <1>2 DEF Holds, AtRest
    <3> QED BY <3>1, NoMoreThanKeys
  <2>2. CASE at = "putfix"
    <3>1. tree.size = Cardinality(S) - 1 /\ cur \in S
      BY <2>2, <1>2 DEF Holds, Inserting
    <3>2. PICK U : U = S \ {cur}
      BY Zenon
    <3>3. Cardinality(U) = Cardinality(S) - 1
      BY <3>1, <3>2, OneLess
    <3>4. Cardinality(U) \in 0..Cardinality(Keys)
      BY <3>2, NoMoreThanKeys
    <3> QED BY <3>1, <3>3, <3>4
  <2>3. CASE at \in {"removefix", "unlink"}
    <3>1. tree.size = Cardinality(S) + 1 /\ gone.y \in Keys /\ gone.y \notin S
      BY <2>3, <1>2 DEF Holds, Removing
    <3>2. PICK U : U = S \cup {gone.y}
      BY Zenon
    <3>3. Cardinality(U) = Cardinality(S) + 1
      BY <3>1, <3>2, OneMore
    <3>4. Cardinality(U) \in 0..Cardinality(Keys)
      <4>1. U \in SUBSET Keys
        BY <3>1, <3>2
      <4> QED BY <4>1, NoMoreThanKeys
    <3> QED BY <3>1, <3>3, <3>4
  <2> QED BY <2>1, <2>2, <2>3, <1>3
<1> QED BY <1>3, <1>4, <1>5, <1>6 DEF TreeTypeOK

\* After every operation, whatever sequence of puts, removals, clears and copies
\* led there and however many keys there are, VerifyTree_ would pass; the two
\* sentinels are black at every step of PutFix_ and RemoveFix_.
THEOREM TreesBalanced == TreeSpec => []Balanced
<1>1. RBInv => Balanced
  <2> SUFFICES ASSUME RBInv PROVE Balanced
    OBVIOUS
  <2>1. TreeTypeOK
    BY InvariantTypes
  <2>2. Nil \notin tree.red /\ Root \notin tree.red
    BY DEF RBInv, Flow
  <2>3. PICK S \in SUBSET Keys : Holds(S)
    BY DEF RBInv
  <2>4. ASSUME at \in {"idle", "return"} PROVE VerifyTree(tree)
    <3>1. Complete(tree, S) /\ tree.size = Cardinality(S)
      BY <2>3, <2>4 DEF Holds, AtRest
    <3> QED BY <3>1, CompleteVerifies
  <2> QED BY <2>1, <2>2, <2>4 DEF Balanced
<1> QED BY <1>1, TreeInvariant, PTL

\* What RBTreePut, RBTreeRemove, RBTreeClear and RBTreeCopy leave in the tree is
\* what they promise; the iterator and RBTreeGet agree on it, in order.
THEOREM TreeOperationsExact == TreeSpec => []OperationsExact
<1>1. RBInv => OperationsExact
  <2> SUFFICES ASSUME RBInv, at = "return" PROVE OperationsExact
    BY DEF OperationsExact
  <2>1. PICK S \in SUBSET Keys : Holds(S)
    BY DEF RBInv
  <2>2. Complete(tree, S) /\ tree.size = Cardinality(S)
    BY <2>1 DEF Holds, AtRest
  <2>3. PICK seen : seen = Iterated(tree)
    OBVIOUS
  <2>4. Lists(seen, S)
    BY <2>2, <2>3, IteratedLists DEF Complete
  <2>5. Range(seen) = S /\ Len(seen) = Cardinality(S) /\ \A i \in 1..Len(seen) - 1 : seen[i] < seen[i + 1]
    BY <2>4 DEF Lists
  <2>6. S = {k \in Keys : Has(tree, k)}
    BY <2>2, HasExactly DEF Complete
  <2>7. \/ call.op = "put" /\ S = Range(call.before) \cup call.arg
        \/ call.op = "remove" /\ S = Range(call.before) \ call.arg
        \/ call.op = "clear" /\ S = {}
        \/ call.op = "copy" /\ S \subseteq Range(call.before) \cap call.arg
    BY <2>1 DEF Holds, Asked
  <2>8. (CASE call.op = "put"    -> S = Range(call.before) \cup call.arg
           [] call.op = "remove" -> S = Range(call.before) \ call.arg
           [] call.op = "clear"  -> S = {}
           [] call.op = "copy"   -> S \subseteq Range(call.before) \cap call.arg)
    <3>1. CASE call.op = "put"
      BY <3>1, <2>7
    <3>2. CASE call.op = "remove"
      BY <3>2, <2>7
    <3>3. CASE call.op = "clear"
      BY <3>3, <2>7
    <3>4. CASE call.op = "copy"
      BY <3>4, <2>7
    <3> QED BY <2>7, <3>1, <3>2, <3>3, <3>4
  <2> QED BY <2>2, <2>3, <2>5, <2>6, <2>8 DEF OperationsExact
<1> QED BY <1>1, TreeInvariant, PTL
=============================================================================
