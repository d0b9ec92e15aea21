------------------------ MODULE ThreadedQueueProofs ------------------------
(***************************************************************************)
(* Proofs about ThreadedQueue for any number of threads and items and any  *)
(* initial capacities.                                                     *)
(***************************************************************************)
EXTENDS ThreadedQueue, MonitorProofs

-----------------------------------------------------------------------------
\* The queue as the proofs see it: its fields agree and its slots are filled.
GoodQueue(s) == QueueType(s) /\ Shape(s) /\ Stored(s)

\* The slot of a stored item: no division is left.
LEMMA SlotValue ==
  ASSUME NEW s, QueueType(s), Shape(s), NEW i \in 1..s.capacity
  PROVE  /\ Slot(s, i) = IF s.head + i - 1 < s.capacity
                           THEN s.head + i - 1
                           ELSE s.head + i - 1 - s.capacity
         /\ Slot(s, i) \in 0..(s.capacity - 1)
<1>1. s.head \in Nat /\ s.capacity \in Nat \ {0} /\ s.head < s.capacity
  BY DEF QueueType, Shape
<1> QED BY <1>1, RingIndex, Zenon DEF Slot

\* A queue from ThreadedQueueNew is well formed and empty.
LEMMA NewQueueGood ==
  ASSUME NEW c \in Nat
  PROVE  GoodQueue(NewQueue(c)) /\ NewQueue(c).size = 0
BY QueueAssumption, SMT DEF GoodQueue, QueueType, Shape, Stored, NewQueue, Values

\* After ExpandIfNecessary there is a free slot at tail, and every stored item
\* is where head and the new capacity say it is.
LEMMA ExpandGood ==
  ASSUME NEW s, GoodQueue(s)
  PROVE  LET e == ExpandIfNecessary(s) IN
         /\ QueueType(e)
         /\ e.head = s.head /\ e.size = s.size
         /\ e.head < e.capacity /\ e.tail < e.capacity /\ e.size < e.capacity
         /\ \/ e.tail = e.head + e.size
            \/ e.tail + e.capacity = e.head + e.size
         /\ \A i \in 1..s.size : e.data[Slot(e, i)] = s.data[Slot(s, i)]
<1> DEFINE full    == s.size = s.capacity
           wrapped == full /\ s.tail <= s.head
           c       == IF full THEN s.capacity * EXPAND_FACTOR ELSE s.capacity
           end     == IF wrapped THEN s.tail + s.capacity ELSE s.tail
           moved   == [i \in 0..(c - 1) |->
                         IF i < s.capacity THEN s.data[i]
                         ELSE IF wrapped /\ i < end THEN s.data[i - s.capacity]
                         ELSE Garbage]
           e       == [s EXCEPT !.data = moved, !.capacity = c, !.tail = end % c]
<1>e. ExpandIfNecessary(s) = e
  BY DEF ExpandIfNecessary
<1>t. QueueType(s) /\ Shape(s) /\ Stored(s)
  BY DEF GoodQueue
<1>1. /\ DOMAIN e = {"data", "head", "tail", "size", "capacity"}
      /\ e.data = moved /\ e.capacity = c /\ e.tail = end % c
      /\ e.head = s.head /\ e.size = s.size
  BY <1>t DEF QueueType
<1>2. c \in Nat \ {0} /\ end \in Nat /\ end < 2 * c /\ s.capacity <= c
  BY <1>t, SMT DEF QueueType, Shape, EXPAND_FACTOR
<1>3. end % c = IF end < c THEN end ELSE end - c
  BY <1>2, ModCapacity, Zenon
<1>4. end % c \in Nat /\ end % c < c
  BY <1>2, <1>3, SMT
<1>5. moved \in [0..(c - 1) -> Values]
  <2>1. /\ \A k \in 0..(s.capacity - 1) : s.data[k] \in Values
        /\ s.capacity \in Nat /\ s.tail \in Nat
    BY <1>t DEF QueueType
  <2>2. ASSUME NEW j \in 0..(c - 1) PROVE moved[j] \in Values
    <3>1. CASE j < s.capacity
      <4>1. j \in 0..(s.capacity - 1) /\ moved[j] = s.data[j]
        BY <3>1, <2>1, <1>2
      <4> QED BY <4>1, <2>1
    <3>2. CASE ~(j < s.capacity) /\ wrapped /\ j < end
      <4>1. j - s.capacity \in 0..(s.capacity - 1)
        BY <3>2, <2>1, <1>t DEF Shape
      <4>2. moved[j] = s.data[j - s.capacity]
        BY <3>2
      <4> QED BY <4>1, <4>2, <2>1
    <3>3. CASE ~(j < s.capacity) /\ ~(wrapped /\ j < end)
      BY <3>3 DEF Values
    <3> QED BY <3>1, <3>2, <3>3
  <2> QED BY <2>2
<1>6. s.head < c /\ s.size < c
  BY <1>t, SMT DEF QueueType, Shape, EXPAND_FACTOR
<1>7. end % c = s.head + s.size \/ (end % c) + c = s.head + s.size
  <2> DEFINE r == end % c
  <2>1. r = IF end < c THEN end ELSE end - c
    BY <1>3
  <2> HIDE DEF r
  <2>2. r = s.head + s.size \/ r + c = s.head + s.size
    BY <2>1, <1>t, SMT DEF QueueType, Shape, EXPAND_FACTOR
  <2> QED BY <2>2 DEF r
<1>8. QueueType(e)
  BY <1>1, <1>2, <1>4, <1>5, <1>t DEF QueueType
<1>9. ASSUME NEW i \in 1..s.size
      PROVE  moved[Slot(e, i)] = s.data[Slot(s, i)]
  <2>1. i \in 1..s.capacity /\ i \in 1..c
    BY <1>t, <1>2, SMT DEF QueueType, Shape
  <2>2. Slot(s, i) = IF s.head + i - 1 < s.capacity THEN s.head + i - 1
                     ELSE s.head + i - 1 - s.capacity
    BY <2>1, <1>t, SlotValue
  <2>3. Slot(e, i) = (s.head + i - 1) % c
    BY <1>1 DEF Slot
  <2>4. /\ Slot(e, i) = IF s.head + i - 1 < c THEN s.head + i - 1
                                              ELSE s.head + i - 1 - c
        /\ Slot(e, i) \in 0..(c - 1)
    <3>1. s.head \in Nat
      BY <1>t DEF QueueType
    <3> HIDE DEF c, e
    <3> QED BY <3>1, <2>1, <2>3, <1>2, <1>6, RingIndex, Zenon
  <2>5. CASE ~full
    BY <2>1, <2>2, <2>4, <2>5, <1>t, SMT DEF QueueType, Shape
  <2>6. CASE full /\ s.head + i - 1 < s.capacity
    BY <2>1, <2>2, <2>4, <2>6, <1>t, SMT DEF QueueType, Shape, EXPAND_FACTOR
  <2>7. CASE full /\ ~(s.head + i - 1 < s.capacity)
    <3>1. wrapped /\ s.tail = s.head
      BY <2>1, <2>7, <1>t, SMT DEF QueueType, Shape
    <3>2. Slot(e, i) = s.head + i - 1 /\ Slot(s, i) = s.head + i - 1 - s.capacity
      BY <2>1, <2>2, <2>4, <2>7, <1>t, SMT DEF QueueType, Shape, EXPAND_FACTOR
    <3>3. s.head + i - 1 < end /\ s.head + i - 1 \in 0..(c - 1)
      BY <3>1, <2>1, <2>7, <1>t, SMT DEF QueueType, Shape, EXPAND_FACTOR
    <3>4. moved[s.head + i - 1] = s.data[s.head + i - 1 - s.capacity]
      BY <3>1, <3>3, <2>7, <1>t, SMT DEF QueueType, Shape
    <3> QED BY <3>2, <3>4
  <2> QED BY <2>5, <2>6, <2>7
<1> HIDE DEF c, end, moved, e
<1> QED BY <1>e, <1>1, <1>4, <1>6, <1>7, <1>8, <1>9

\* Pushing an item keeps the queue well formed; the items that were there keep
\* their positions and the new one comes last.
LEMMA PushGood ==
  ASSUME NEW s, GoodQueue(s), NEW x \in Items
  PROVE  LET p == PushItem(s, x) IN
         /\ GoodQueue(p)
         /\ p.size = s.size + 1
         /\ \A i \in 1..s.size : p.data[Slot(p, i)] = s.data[Slot(s, i)]
         /\ p.data[Slot(p, p.size)] = x
<1> DEFINE e == ExpandIfNecessary(s)
           p == PushItem(s, x)
<1>1. /\ QueueType(e)
      /\ e.head = s.head /\ e.size = s.size
      /\ e.head < e.capacity /\ e.tail < e.capacity /\ e.size < e.capacity
      /\ \/ e.tail = e.head + e.size
         \/ e.tail + e.capacity = e.head + e.size
      /\ \A i \in 1..s.size : e.data[Slot(e, i)] = s.data[Slot(s, i)]
  BY ExpandGood
<1>2. /\ DOMAIN p = {"data", "head", "tail", "size", "capacity"}
      /\ p.data = [e.data EXCEPT ![e.tail] = x]
      /\ p.tail = e.tail + 1 /\ p.size = e.size + 1
      /\ p.head = e.head /\ p.capacity = e.capacity
  <2> HIDE DEF e
  <2>1. p = [e EXCEPT !.data = [e.data EXCEPT ![e.tail] = x],
                      !.tail = e.tail + 1, !.size = e.size + 1]
    BY DEF PushItem, e
  <2> QED BY <2>1, <1>1 DEF QueueType
<1> HIDE DEF e, p
<1>3. QueueType(p) /\ Shape(p)
  <2>1. x \in Values
    BY DEF Values
  <2>2. p.data \in [0..(p.capacity - 1) -> Values]
    BY <2>1, <1>1, <1>2 DEF QueueType
  <2>3. /\ p.capacity \in Nat \ {0}
        /\ p.head \in Nat /\ p.tail \in Nat /\ p.size \in Nat
    BY <1>1, <1>2, SMT DEF QueueType
  <2>4. Shape(p)
    <3>1. /\ e.head \in Nat /\ e.tail \in Nat /\ e.size \in Nat /\ e.capacity \in Nat
          /\ e.head < e.capacity /\ e.tail < e.capacity /\ e.size < e.capacity
          /\ \/ e.tail = e.head + e.size
             \/ e.tail + e.capacity = e.head + e.size
      BY <1>1 DEF QueueType
    <3>2. /\ p.tail = e.tail + 1 /\ p.size = e.size + 1
          /\ p.head = e.head /\ p.capacity = e.capacity
      BY <1>2
    <3> QED BY <3>1, <3>2, SMT DEF Shape
  <2> QED BY <2>2, <2>3, <2>4, <1>2 DEF QueueType
<1>4. ASSUME NEW i \in 1..p.capacity
      PROVE  /\ Slot(p, i) = IF e.head + i - 1 < e.capacity
                               THEN e.head + i - 1
                               ELSE e.head + i - 1 - e.capacity
             /\ Slot(p, i) = Slot(e, i)
             /\ Slot(p, i) \in 0..(e.capacity - 1)
  <2>1. /\ Slot(p, i) = IF p.head + i - 1 < p.capacity
                          THEN p.head + i - 1
                          ELSE p.head + i - 1 - p.capacity
        /\ Slot(p, i) \in 0..(p.capacity - 1)
    BY <1>3, SlotValue, Zenon
  <2>2. p.head = e.head /\ p.capacity = e.capacity
    BY <1>2
  <2>3. Slot(p, i) = Slot(e, i)
    BY <2>2, Zenon DEF Slot
  <2> QED BY <2>1, <2>2, <2>3, Zenon
<1>5. p.size \in 1..p.capacity /\ p.size = s.size + 1
  BY <1>1, <1>2, SMT DEF QueueType
<1>6. Slot(p, p.size) = e.tail
  <2>1. Slot(p, p.size) = IF e.head + p.size - 1 < e.capacity
                            THEN e.head + p.size - 1
                            ELSE e.head + p.size - 1 - e.capacity
    BY <1>4, <1>5
  <2> QED BY <2>1, <1>1, <1>2, SMT DEF QueueType
<1>7. p.data[Slot(p, p.size)] = x
  BY <1>1, <1>2, <1>6, SMT DEF QueueType
<1>8. ASSUME NEW i \in 1..s.size
      PROVE  p.data[Slot(p, i)] = s.data[Slot(s, i)]
  <2>1. i \in 1..p.capacity
    BY <1>1, <1>2, SMT DEF QueueType
  <2>2. Slot(p, i) # e.tail
    <3>1. /\ e.head \in Nat /\ e.tail \in Nat /\ e.size \in Nat /\ e.capacity \in Nat
          /\ e.head < e.capacity /\ e.tail < e.capacity /\ e.size < e.capacity
          /\ e.tail = e.head + e.size \/ e.tail + e.capacity = e.head + e.size
          /\ i \in Nat /\ 1 <= i /\ i <= e.size
      BY <1>1 DEF QueueType
    <3>2. Slot(p, i) = IF e.head + i - 1 < e.capacity THEN e.head + i - 1
                                                      ELSE e.head + i - 1 - e.capacity
      BY <2>1, <1>4, Zenon
    <3> QED BY <3>1, <3>2
  <2>3. p.data[Slot(p, i)] = e.data[Slot(e, i)]
    BY <2>1, <2>2, <1>1, <1>2, <1>4 DEF QueueType
  <2> QED BY <2>3, <1>1
<1>9. Stored(p)
  <2> SUFFICES ASSUME NEW i \in 1..p.size PROVE p.data[Slot(p, i)] \in Items
    BY DEF Stored
  <2>1. CASE i = p.size
    BY <2>1, <1>7
  <2>2. CASE i # p.size
    <3>1. i \in 1..s.size
      BY <2>2, <1>1, <1>2, SMT DEF QueueType
    <3> QED BY <3>1, <1>8 DEF GoodQueue, Stored
  <2> QED BY <2>1, <2>2
<1> QED BY <1>3, <1>5, <1>7, <1>8, <1>9 DEF GoodQueue, p

\* Taking n items from the head keeps the queue well formed, and the others
\* move up by n.
LEMMA DropFrontGood ==
  ASSUME NEW s, GoodQueue(s), NEW n \in 0..s.size
  PROVE  LET p == DropFront(s, n) IN
         /\ GoodQueue(p)
         /\ p.size = s.size - n
         /\ \A i \in 1..p.size : p.data[Slot(p, i)] = s.data[Slot(s, i + n)]
<1> DEFINE data == [j \in DOMAIN s.data |->
                      IF \E i \in 1..n : j = Slot(s, i) THEN NULL ELSE s.data[j]]
           p    == DropFront(s, n)
<1>t. QueueType(s) /\ Shape(s) /\ Stored(s)
  BY DEF GoodQueue
<1>1. /\ DOMAIN p = {"data", "head", "tail", "size", "capacity"}
      /\ p.data = data
      /\ p.tail = s.tail /\ p.size = s.size - n
      /\ p.head = (s.head + n) % s.capacity /\ p.capacity = s.capacity
  BY <1>t DEF QueueType, DropFront
<1> HIDE DEF p
<1>n. /\ s.head \in Nat /\ s.tail \in Nat /\ s.size \in Nat
      /\ s.capacity \in Nat \ {0} /\ s.head < s.capacity
      /\ n \in Nat /\ n <= s.size /\ n \in 0..s.capacity
  BY <1>t, SMT DEF QueueType, Shape
<1>2. p.head = IF s.head + n < s.capacity THEN s.head + n ELSE s.head + n - s.capacity
  <2>1. (s.head + n) % s.capacity
          = IF s.head + n < s.capacity THEN s.head + n ELSE s.head + n - s.capacity
    BY <1>n, RingAdvance, Zenon
  <2> QED BY <1>1, <2>1, Zenon
<1>3. data \in [0..(s.capacity - 1) -> Values]
  BY <1>t DEF QueueType, Values
<1>4. QueueType(p) /\ Shape(p)
  <2> HIDE DEF data
  <2>1. /\ p.head \in Nat /\ p.tail \in Nat /\ p.size \in Nat
        /\ p.capacity \in Nat \ {0}
    BY <1>1, <1>2, <1>t, SMT DEF QueueType, Shape
  <2>2. Shape(p)
    <3>1. Shape(s) /\ p.tail = s.tail /\ p.size = s.size - n /\ p.capacity = s.capacity
      BY <1>1, <1>t
    <3>2. CASE s.head + n < s.capacity
      <4>1. p.head = s.head + n
        BY <3>2, <1>2
      <4> QED BY <4>1, <3>1, <3>2, <1>n, SMT DEF Shape
    <3>3. CASE ~(s.head + n < s.capacity)
      <4>1. p.head = s.head + n - s.capacity
        BY <3>3, <1>2
      <4> QED BY <4>1, <3>1, <3>3, <1>n, SMT DEF Shape
    <3> QED BY <3>2, <3>3
  <2> QED BY <2>1, <2>2, <1>1, <1>3 DEF QueueType
<1>5. ASSUME NEW i \in 1..s.capacity
      PROVE  /\ Slot(s, i) = IF s.head + i - 1 < s.capacity
                               THEN s.head + i - 1
                               ELSE s.head + i - 1 - s.capacity
             /\ Slot(s, i) \in 0..(s.capacity - 1)
  BY <1>t, SlotValue
<1>6. ASSUME NEW i \in 1..p.size
      PROVE  p.data[Slot(p, i)] = s.data[Slot(s, i + n)]
  <2>1. /\ i \in 1..p.capacity
        /\ i + n \in 1..s.capacity
    BY <1>t, <1>1, SMT DEF QueueType, Shape
  <2>2. Slot(p, i) = IF p.head + i - 1 < p.capacity
                       THEN p.head + i - 1
                       ELSE p.head + i - 1 - p.capacity
    BY <1>4, <2>1, SlotValue
  <2>s. Slot(s, i + n) = IF s.head + (i + n) - 1 < s.capacity
                           THEN s.head + (i + n) - 1
                           ELSE s.head + (i + n) - 1 - s.capacity
    BY <2>1, <1>5
  <2>3. Slot(p, i) = Slot(s, i + n)
    BY <2>1, <2>2, <2>s, <1>1, <1>2, <1>n, SMT
  <2>4. ASSUME NEW k \in 1..n PROVE Slot(s, k) # Slot(s, i + n)
    <3>1. k \in 1..s.capacity
      BY <1>t, SMT DEF QueueType, Shape
    <3>2. Slot(s, k) = IF s.head + k - 1 < s.capacity THEN s.head + k - 1
                       ELSE s.head + k - 1 - s.capacity
      BY <3>1, <1>5
    <3> QED BY <3>1, <3>2, <2>1, <2>s, <1>n, SMT
  <2>5. Slot(s, i + n) \in DOMAIN s.data
    BY <2>1, <1>5, <1>t DEF QueueType
  <2> QED BY <2>3, <2>4, <2>5, <1>1
<1>7. Stored(p)
  <2> SUFFICES ASSUME NEW i \in 1..p.size PROVE p.data[Slot(p, i)] \in Items
    BY DEF Stored
  <2>1. i + n \in 1..s.size
    BY <1>t, <1>1, SMT DEF QueueType
  <2> QED BY <2>1, <1>6, <1>t DEF Stored
<1> QED BY <1>1, <1>4, <1>6, <1>7 DEF GoodQueue, p

\* DestroyRange(head, tail) visits exactly the stored items.
LEMMA VisitedAll ==
  ASSUME NEW s, QueueType(s), Shape(s)
  PROVE  Visited(s) = s.size
BY SMT DEF QueueType, Shape, Visited

\* After Clear the queue is well formed and empty.
LEMMA ClearGood ==
  ASSUME NEW s, GoodQueue(s)
  PROVE  GoodQueue(ClearQueue(s)) /\ ClearQueue(s).size = 0
<1>1. Visited(s) = s.size
  BY VisitedAll DEF GoodQueue
<1>2. s.size - s.size = 0
  BY SMT DEF GoodQueue, QueueType
<1> DEFINE p == ClearQueue(s)
<1>3. p = [[s EXCEPT !.size = 0] EXCEPT !.head = 0, !.tail = 0]
  BY <1>1, <1>2 DEF ClearQueue, DestroyRange
<1>4. /\ DOMAIN p = {"data", "head", "tail", "size", "capacity"}
      /\ p.data = s.data /\ p.capacity = s.capacity
      /\ p.head = 0 /\ p.tail = 0 /\ p.size = 0
  BY <1>3 DEF GoodQueue, QueueType
<1> HIDE DEF p
<1>5. QueueType(p) /\ Shape(p) /\ Stored(p)
  BY <1>4, SMT DEF GoodQueue, QueueType, Shape, Stored
<1> QED BY <1>4, <1>5 DEF GoodQueue, p

-----------------------------------------------------------------------------
(***************************************************************************)
(* Calls.                                                                  *)
(***************************************************************************)

\* What a request of each kind carries.
LEMMA RequestFields ==
  ASSUME NEW r \in Requests
  PROVE  /\ r.kind = "push" => r.items \in Arrays(MaxPushN)
         /\ r.kind = "clear_and_push" => \E x \in Items : r.items = <<x>>
         /\ r.kind = "pop" => r.num \in Nat
<1>1. \/ r \in Pops \/ r \in Pushes \/ r \in Replaces
      \/ r \in WaitEmptys \/ r \in Others
  BY DEF Requests
<1>2. CASE r \in Pops
  <2>1. r.kind = "pop" /\ r.num \in PopCounts \cup {1}
    BY <1>2 DEF Pops, Request
  <2>2. r.num \in Nat
    <3>1. 1 \in Nat
      OBVIOUS
    <3> QED BY <2>1, <3>1, QueueAssumption, Zenon
  <2> QED BY <2>1, <2>2
<1>3. CASE r \in Pushes
  BY <1>3 DEF Pushes, Request
<1>4. CASE r \in Replaces
  <2>1. PICK x \in Items : r = Request("clear_and_push", "right", <<x>>, 0, "none")
    BY <1>4 DEF Replaces
  <2> QED BY <2>1 DEF Request
<1>5. CASE r \in WaitEmptys
  BY <1>5 DEF WaitEmptys, Request
<1>6. CASE r \in Others
  BY <1>6 DEF Others, Request
<1> QED BY <1>1, <1>2, <1>3, <1>4, <1>5, <1>6

\* The array given to PushN.
LEMMA ArrayFields ==
  ASSUME NEW xs \in Arrays(MaxPushN)
  PROVE  /\ Len(xs) \in 0..MaxPushN
         /\ \A i \in 1..Len(xs) : xs[i] \in Items
<1>1. PICK k \in 0..MaxPushN : xs \in [1..k -> Items]
  BY DEF Arrays
<1>2. k \in Nat
  BY QueueAssumption
<1>3. xs \in Seq(Items) /\ Len(xs) = k
  BY <1>1, <1>2
<1> QED BY <1>1, <1>3

-----------------------------------------------------------------------------
(***************************************************************************)
(* The inductive invariant.                                                *)
(***************************************************************************)

\* A thread that is inside a call has a request, and the queue exists.
CallsKnown ==
  \A t \in Threads : pc[t] \notin {"idle", "unlock"} => op[t] \in Requests /\ alive

\* The loop of PushN is under way: the last items of the queue are the first
\* ones of its array.
PushedBy(t) ==
  /\ In(t, "push") /\ pushed <= Len(op[t].items) /\ pushed <= q.size
  /\ \A i \in 1..pushed : q.data[Slot(q, q.size - pushed + i)] = op[t].items[i]

\* The loop counter of PushN is reset except while a push holds the mutex.
PushCounter == pushed # 0 => \E t \in Threads : PushedBy(t)

QueueInv ==
  /\ TypeOK
  /\ MutualExclusion
  /\ alive => GoodQueue(q)
  /\ CallsKnown
  /\ PushCounter
  /\ WaitsKnown
  /\ EmptyWaitersReleased

\* What the invariant says of the monitor, for the lemmas of MonitorProofs.
LEMMA InvMonitor ==
  QueueInv => /\ MonitorInv /\ MonitorTypeOK /\ WaitsKnown
              /\ DOMAIN op = Threads /\ DOMAIN ret = Threads
              /\ QueueType(q) /\ q.size \in Nat /\ pushed \in Nat
BY DEF QueueInv, TypeOK, MonitorInv, QueueType

\* A thread inside any other critical section finds the counter at zero.
LEMMA CounterIdle ==
  ASSUME QueueInv, NEW t \in Threads, pc[t] \in Holding, ~In(t, "push")
  PROVE  pushed = 0
<1>1. MonitorInv
  BY DEF QueueInv, TypeOK, MonitorInv
<1>2. SUFFICES ASSUME NEW u \in Threads, In(u, "push") PROVE FALSE
  BY DEF QueueInv, PushCounter, PushedBy
<1>3. pc[u] \in Holding
  BY <1>2 DEF In, Holding
<1> QED BY <1>1, <1>2, <1>3, OneOwner

\* A push that holds the mutex is the one the counter speaks of.
LEMMA PushingNow ==
  ASSUME QueueInv, NEW t \in Threads, In(t, "push")
  PROVE  /\ pushed <= q.size
         /\ \A i \in 1..pushed : q.data[Slot(q, q.size - pushed + i)] = op[t].items[i]
<1>1. CASE pushed = 0
  BY <1>1, InvMonitor
<1>2. CASE pushed # 0
  <2>1. PICK u \in Threads : PushedBy(u)
    BY <1>2 DEF QueueInv, PushCounter
  <2>2. pc[u] \in Holding /\ pc[t] \in Holding
    BY <2>1 DEF PushedBy, In, Holding
  <2>3. u = t
    BY <2>2, OneOwner, InvMonitor
  <2> QED BY <2>1, <2>3 DEF PushedBy
<1> QED BY <1>1, <1>2

\* The end of a critical section keeps the invariant, provided the queue is
\* well formed and, if it is empty, every thread in WaitEmpty is woken.
LEMMA FinishStep ==
  ASSUME QueueInv, NEW t \in Threads, pc[t] \in Holding,
         NEW result, NEW woken, NEW c, woken \subseteq Waiters(c),
         Finish(t, result, woken),
         alive' = alive, pushed' = 0, QueueType(q'), alive => GoodQueue(q'),
         q'.size = 0 => Waiters("empty") \subseteq woken
  PROVE  QueueInv'
<1>1. MonitorInv'
  BY FinishOK DEF QueueInv, TypeOK, MonitorInv
<1>2. op' = op /\ pc' = [u \in Threads |-> IF u = t THEN "unlock"
                                            ELSE IF u \in woken THEN "woken" ELSE pc[u]]
      /\ cond' = [u \in Threads |-> IF u \in woken THEN "none" ELSE cond[u]]
      /\ DOMAIN ret' = DOMAIN ret
  BY DEF Finish
<1>3. TypeOK'
  <2>1. pushed' \in 0..MaxPushN
    BY QueueAssumption
  <2> QED BY <1>1, <1>2, <2>1 DEF TypeOK, MonitorInv, QueueInv
<1>4. CallsKnown'
  BY <1>2 DEF QueueInv, CallsKnown, Waiters
<1>5. PushCounter'
  BY DEF PushCounter
<1>6. EmptyWaitersReleased'
  BY <1>2 DEF EmptyWaitersReleased, Waiters
<1>7. WaitsKnown'
  BY FinishWaits, InvMonitor
<1> QED BY <1>1, <1>3, <1>4, <1>5, <1>6, <1>7 DEF QueueInv, MonitorInv

\* The invariant holds of the initial state.
LEMMA QueueInit == Init => QueueInv
<1> SUFFICES ASSUME Init PROVE QueueInv
  OBVIOUS
<1>1. MonitorInv
  BY MonitorInitOK DEF Init
<1>2. QueueType(q) /\ alive = FALSE /\ pushed = 0
  BY NewQueueGood DEF Init, GoodQueue
<1>3. pc = [t \in Threads |-> "idle"] /\ op = [t \in Threads |-> NONE]
      /\ DOMAIN ret = Threads
  BY DEF Init, MonitorInit
<1>4. TypeOK
  <2>1. pushed \in 0..MaxPushN
    BY <1>2, QueueAssumption, SMT
  <2>2. alive \in BOOLEAN
    BY <1>2, Zenon
  <2>3. op \in [Threads -> Requests \cup {NONE}]
    BY <1>3
  <2> QED BY <1>1, <1>2, <1>3, <2>1, <2>2, <2>3, Zenon DEF TypeOK, MonitorInv
<1> QED BY <1>1, <1>2, <1>3, <1>4
        DEF QueueInv, MonitorInv, CallsKnown, PushCounter, WaitsKnown,
            EmptyWaitersReleased, Waiters

\* Steps that change only the monitor and the calls.
LEMMA MonitorStep ==
  ASSUME QueueInv, NEW t \in Threads, UNCHANGED queueVars,
         \/ ThreadLock(t) \/ Reacquire(t) \/ ThreadUnlock(t) \/ Interrupt(t)
  PROVE  QueueInv'
<1>1. MonitorInv'
  BY ThreadLockOK, ReacquireOK, ThreadUnlockOK, InterruptOK
     DEF QueueInv, TypeOK, MonitorInv
<1>2. q' = q /\ alive' = alive /\ pushed' = pushed
  BY DEF queueVars
<1>3. op' \in [Threads -> Requests \cup {NONE}] /\ DOMAIN ret' = Threads
  BY DEF QueueInv, TypeOK, ThreadLock, Reacquire, ThreadUnlock, Interrupt,
         Expire, SpuriousWakeup
<1>4. TypeOK'
  BY <1>1, <1>2, <1>3 DEF TypeOK, MonitorInv, QueueInv
<1>5. CallsKnown'
  BY <1>2 DEF QueueInv, CallsKnown, TypeOK, MonitorTypeOK, ThreadLock, Reacquire,
              ThreadUnlock, Interrupt, Expire, SpuriousWakeup
<1>6. PushCounter'
  <2> SUFFICES ASSUME pushed # 0 PROVE \E u \in Threads : PushedBy(u)'
    BY <1>2 DEF PushCounter
  <2>1. PICK u \in Threads : PushedBy(u)
    BY DEF QueueInv, PushCounter
  <2>2. lock = u
    BY <2>1 DEF QueueInv, MutualExclusion, PushedBy, In, Holding
  <2>3. u # t \/ pc[t] \in {"body", "recheck"}
    BY <2>1 DEF PushedBy, In
  <2>4. pc'[u] = pc[u] /\ op'[u] = op[u]
    BY <2>1, <2>2, <2>3, NoThreadAssumption
       DEF QueueInv, TypeOK, MonitorTypeOK, ThreadLock, Reacquire, ThreadUnlock,
           Interrupt, Expire, SpuriousWakeup
  <2> QED BY <1>2, <2>1, <2>4 DEF PushedBy, In, Slot
<1>7. EmptyWaitersReleased'
  BY <1>2 DEF QueueInv, EmptyWaitersReleased, Waiters, TypeOK, MonitorTypeOK,
              ThreadLock, Reacquire, ThreadUnlock, Interrupt, Expire, SpuriousWakeup
<1>8. WaitsKnown'
  BY AdvanceWaits, InvMonitor
<1> QED BY <1>1, <1>2, <1>4, <1>5, <1>6, <1>7, <1>8 DEF QueueInv, MonitorInv

\* Blocking on a condition: never on cond_empty while the queue is empty.
LEMMA WaitStep ==
  ASSUME QueueInv, NEW t \in Threads, pc[t] \in Holding, ~In(t, "push"),
         pc[t] # "unlock", NEW c \in Conds, ThreadWait(t, c), UNCHANGED queueVars,
         op[t].kind \in {"pop", "wait_empty"}, c = "non_empty" => op[t].kind = "pop",
         c = "empty" => q.size # 0
  PROVE  QueueInv'
<1>1. MonitorInv'
  BY ThreadWaitOK DEF QueueInv, TypeOK, MonitorInv
<1>2. q' = q /\ alive' = alive /\ pushed' = pushed /\ op' = op /\ ret' = ret
      /\ pc' = [pc EXCEPT ![t] = "wait"] /\ cond' = [cond EXCEPT ![t] = c]
  BY DEF queueVars, ThreadWait
<1>3. pushed = 0
  BY CounterIdle
<1>4. TypeOK'
  BY <1>1, <1>2 DEF TypeOK, MonitorInv, QueueInv
<1>5. CallsKnown'
  BY <1>2 DEF QueueInv, CallsKnown, TypeOK, MonitorTypeOK, Holding
<1>6. EmptyWaitersReleased'
  BY <1>2 DEF QueueInv, EmptyWaitersReleased, Waiters, TypeOK, MonitorTypeOK
<1>7. WaitsKnown'
  BY ThreadWaitWaits, InvMonitor
<1> QED BY <1>1, <1>2, <1>3, <1>4, <1>5, <1>6, <1>7
        DEF QueueInv, MonitorInv, PushCounter

\* Creating a queue.
LEMMA NewStep ==
  ASSUME QueueInv, NEW c \in InitialCapacities, ThreadedQueueNew(c)
  PROVE  QueueInv'
<1>1. MonitorInv'
  BY MonitorStutterOK DEF QueueInv, TypeOK, MonitorInv, ThreadedQueueNew
<1>2. pushed' = pushed /\ op' = op /\ ret' = ret /\ pc' = pc /\ cond' = cond
  BY DEF ThreadedQueueNew, monitorVars
<1>3. GoodQueue(q')
  BY NewQueueGood, QueueAssumption DEF ThreadedQueueNew
<1>4. AllIdle
  BY DEF ThreadedQueueNew
<1>5. alive' = TRUE
  BY DEF ThreadedQueueNew
<1>6. TypeOK'
  <2>1. alive' \in BOOLEAN
    BY <1>5, Zenon
  <2> QED BY <2>1, <1>1, <1>2, <1>3 DEF TypeOK, MonitorInv, QueueInv, GoodQueue
<1>7. PushCounter'
  <2>1. pushed = 0
    BY <1>4 DEF QueueInv, PushCounter, PushedBy, In, AllIdle
  <2> QED BY <2>1, <1>2 DEF PushCounter
<1> QED BY <1>1, <1>2, <1>3, <1>4, <1>6, <1>7
        DEF QueueInv, MonitorInv, CallsKnown, AllIdle, WaitsKnown, EmptyWaitersReleased,
            Waiters

\* Entering a call.
LEMMA CallStep ==
  ASSUME QueueInv, NEW t \in Threads, NEW r \in Requests, Call(t, r)
  PROVE  QueueInv'
<1>1. MonitorInv'
  BY EnterOK DEF QueueInv, TypeOK, MonitorInv, Call
<1>2. q' = q /\ alive' = alive /\ pushed' = pushed /\ ret' = ret /\ cond' = cond
      /\ pc' = [pc EXCEPT ![t] = "lock"] /\ op' = [op EXCEPT ![t] = r]
      /\ pc[t] = "idle" /\ alive
  BY DEF Call, Enter, queueVars
<1>3. TypeOK'
  BY <1>1, <1>2 DEF TypeOK, MonitorInv, QueueInv
<1>4. CallsKnown'
  BY <1>2 DEF QueueInv, CallsKnown, TypeOK, MonitorTypeOK
<1>5. PushCounter'
  <2> SUFFICES ASSUME pushed # 0 PROVE \E u \in Threads : PushedBy(u)'
    BY <1>2 DEF PushCounter
  <2>1. PICK u \in Threads : PushedBy(u)
    BY DEF QueueInv, PushCounter
  <2>2. pc'[u] = pc[u] /\ op'[u] = op[u]
    BY <1>2, <2>1 DEF QueueInv, TypeOK, MonitorTypeOK, PushedBy, In
  <2> QED BY <1>2, <2>1, <2>2 DEF PushedBy, In, Slot
<1>6. EmptyWaitersReleased'
  BY <1>2 DEF QueueInv, EmptyWaitersReleased, Waiters, TypeOK, MonitorTypeOK
<1>7. WaitsKnown'
  BY EnterWaits, InvMonitor DEF Call
<1> QED BY <1>1, <1>2, <1>3, <1>4, <1>5, <1>6, <1>7 DEF QueueInv, MonitorInv

\* One iteration of the loop of PushN.
LEMMA PushIteration ==
  ASSUME QueueInv, NEW t \in Threads, PushStep(t)
  PROVE  QueueInv'
<1>1. MonitorInv'
  BY MonitorStutterOK DEF QueueInv, TypeOK, MonitorInv, PushStep
<1>2. /\ In(t, "push") /\ pushed < Len(op[t].items)
      /\ q' = PushItem(q, op[t].items[pushed + 1]) /\ pushed' = pushed + 1
      /\ alive' = alive /\ pc' = pc /\ op' = op /\ cond' = cond /\ ret' = ret
  BY DEF PushStep, monitorVars
<1>3. op[t] \in Requests /\ alive /\ op[t].kind = "push"
  BY <1>2 DEF QueueInv, CallsKnown, In
<1>4. /\ Len(op[t].items) \in 0..MaxPushN
      /\ \A i \in 1..Len(op[t].items) : op[t].items[i] \in Items
  BY <1>3, RequestFields, ArrayFields
<1>5. pushed \in Nat
  BY DEF QueueInv, TypeOK
<1>g. GoodQueue(q) /\ q.size \in Nat
  BY <1>3, InvMonitor DEF QueueInv
<1>6. /\ GoodQueue(q') /\ q'.size = q.size + 1
      /\ \A i \in 1..q.size : q'.data[Slot(q', i)] = q.data[Slot(q, i)]
      /\ q'.data[Slot(q', q'.size)] = op[t].items[pushed + 1]
  <2> DEFINE x == op[t].items[pushed + 1]
  <2>1. x \in Items
    BY <1>2, <1>4, <1>5
  <2>2. q' = PushItem(q, x)
    BY <1>2
  <2> HIDE DEF x
  <2>3. /\ GoodQueue(q') /\ q'.size = q.size + 1
        /\ \A i \in 1..q.size : q'.data[Slot(q', i)] = q.data[Slot(q, i)]
        /\ q'.data[Slot(q', q'.size)] = x
    BY <2>1, <2>2, <1>g, PushGood
  <2> QED BY <2>3 DEF x
<1>7. TypeOK'
  <2>1. pushed' \in 0..MaxPushN
    BY <1>2, <1>4, <1>5, QueueAssumption
  <2> QED BY <1>1, <1>2, <1>6, <2>1 DEF TypeOK, MonitorInv, QueueInv, GoodQueue
<1>8. PushCounter'
  <2>1. pushed' <= Len(op[t].items) /\ pushed <= q.size
    BY <1>2, <1>4, <1>5, <1>g, PushingNow
  <2>2. pushed' <= q'.size /\ pushed' = pushed + 1
    BY <2>1, <1>2, <1>5, <1>6, <1>g
  <2>3. ASSUME NEW i \in 1..pushed'
        PROVE  q'.data[Slot(q', q'.size - pushed' + i)] = op'[t].items[i]
    <3>1. q'.size - pushed' + i = q.size - pushed + i
      <4>1. q'.size = q.size + 1 /\ pushed' = pushed + 1 /\ q.size \in Nat /\ i \in Int
        BY <1>2, <1>6, <1>g, <2>2
      <4> QED BY <4>1, <1>5
    <3>2. CASE i = pushed + 1
      <4>1. q.size - pushed + i = q'.size
        BY <3>2, <1>5, <1>6, <1>g
      <4> QED BY <3>1, <3>2, <4>1, <1>2, <1>6
    <3>3. CASE i # pushed + 1
      <4>1. i \in 1..pushed /\ q.size - pushed + i \in 1..q.size
        BY <3>3, <2>1, <2>2, <1>5, <1>g
      <4>2. q.data[Slot(q, q.size - pushed + i)] = op[t].items[i]
        BY <4>1, <1>2, PushingNow
      <4>3. q'.data[Slot(q', q.size - pushed + i)] = q.data[Slot(q, q.size - pushed + i)]
        BY <4>1, <1>6
      <4> QED BY <3>1, <4>2, <4>3, <1>2
    <3> QED BY <3>2, <3>3
  <2>4. In(t, "push")'
    BY <1>2 DEF In
  <2>5. PushedBy(t)'
    <3>1. pushed' <= Len(op'[t].items)
      BY <2>1, <1>2
    <3> QED BY <2>2, <2>3, <2>4, <3>1 DEF PushedBy, Slot
  <2> QED BY <2>5 DEF PushCounter
<1>9. EmptyWaitersReleased'
  <2>1. q.size \in Nat
    BY DEF QueueInv, TypeOK, QueueType
  <2> QED BY <2>1, <1>6 DEF EmptyWaitersReleased
<1> QED BY <1>1, <1>2, <1>6, <1>7, <1>8, <1>9 DEF QueueInv, MonitorInv, CallsKnown, WaitsKnown

\* Pop, PopN and PopNIntoArray.
LEMMA PopStep ==
  ASSUME QueueInv, NEW t \in Threads, ThreadedQueuePop(t)
  PROVE  QueueInv'
<1> DEFINE n == IF op[t].num < q.size THEN op[t].num ELSE q.size
           woken == IF q.size = n THEN Broadcast("empty") ELSE {}
           result == Result(q.size > 0, n, Front(q, n))
<1>1. /\ In(t, "pop") /\ q' = DropFront(q, n) /\ Finish(t, result, woken)
      /\ alive' = alive /\ pushed' = pushed
  BY DEF ThreadedQueuePop
<1>2. op[t] \in Requests /\ alive /\ op[t].kind = "pop"
  BY <1>1 DEF QueueInv, CallsKnown, In
<1>3. op[t].num \in Nat /\ q.size \in Nat
  BY <1>2, RequestFields DEF QueueInv, TypeOK, QueueType
<1>4. n \in 0..q.size
  BY <1>3
<1>5. woken \subseteq Waiters("empty")
  BY DEF Broadcast
<1> HIDE DEF n, result
<1>6. GoodQueue(q') /\ q'.size = q.size - n
  BY <1>1, <1>2, <1>4, DropFrontGood DEF QueueInv
<1>7. q'.size = 0 => Waiters("empty") \subseteq woken
  BY <1>3, <1>4, <1>6 DEF Broadcast
<1>8. pc[t] \in Holding /\ ~In(t, "push")
  BY <1>1 DEF In, Holding
<1>9. pushed' = 0
  BY <1>1, <1>8, CounterIdle
<1> HIDE DEF woken
<1> QED BY <1>1, <1>5, <1>6, <1>7, <1>8, <1>9, FinishStep DEF GoodQueue

\* The end of Push and PushN.
LEMMA PushEnd ==
  ASSUME QueueInv, NEW t \in Threads, ThreadedQueuePush(t)
  PROVE  QueueInv'
<1>1. /\ In(t, "push") /\ pushed = Len(op[t].items)
      /\ pushed' = 0 /\ q' = q /\ alive' = alive
  BY DEF ThreadedQueuePush
<1>2. PICK woken \in Signal("non_empty") : Finish(t, Result(TRUE, q.size, <<>>), woken)
  BY DEF ThreadedQueuePush
<1>3. woken \subseteq Waiters("non_empty")
  BY SignalWaiters
<1>4. pc[t] \in Holding /\ alive
  BY <1>1 DEF In, Holding, QueueInv, CallsKnown
<1>5. QueueType(q') /\ (alive => GoodQueue(q'))
  BY <1>1 DEF QueueInv, TypeOK
<1>6. q'.size = 0 => Waiters("empty") \subseteq woken
  BY <1>1 DEF QueueInv, EmptyWaitersReleased
<1> DEFINE result == Result(TRUE, q.size, <<>>)
<1>7. Finish(t, result, woken)
  BY <1>2
<1> HIDE DEF result
<1> QED BY <1>1, <1>3, <1>4, <1>5, <1>6, <1>7, FinishStep

\* Critical sections that only look at the queue, and the early return of a
\* timeout.
LEMMA QuietFinish ==
  ASSUME QueueInv, NEW t \in Threads, pc[t] \in Holding, ~In(t, "push"),
         NEW result, Finish(t, result, {}), UNCHANGED queueVars
  PROVE  QueueInv'
<1>1. q' = q /\ alive' = alive /\ pushed' = pushed
  BY DEF queueVars
<1>2. pushed' = 0
  BY <1>1, CounterIdle
<1>3. QueueType(q') /\ (alive => GoodQueue(q'))
  BY <1>1 DEF QueueInv, TypeOK
<1>4. q'.size = 0 => Waiters("empty") \subseteq {}
  BY <1>1 DEF QueueInv, EmptyWaitersReleased
<1>5. {} \subseteq Waiters("empty")
  OBVIOUS
<1> QED BY <1>1, <1>2, <1>3, <1>4, <1>5, FinishStep

\* ThreadedQueueClear.
LEMMA ClearStep ==
  ASSUME QueueInv, NEW t \in Threads, ThreadedQueueClear(t)
  PROVE  QueueInv'
<1> DEFINE result == Result(TRUE, 0, Destroyed(q))
           woken  == Broadcast("empty")
<1>1. /\ In(t, "clear") /\ q' = ClearQueue(q) /\ Finish(t, result, woken)
      /\ alive' = alive /\ pushed' = pushed
  BY DEF ThreadedQueueClear
<1>2. alive /\ pc[t] \in Holding /\ ~In(t, "push")
  BY <1>1 DEF QueueInv, CallsKnown, In, Holding
<1>3. GoodQueue(q')
  BY <1>1, <1>2, ClearGood DEF QueueInv
<1>4. pushed' = 0
  BY <1>1, <1>2, CounterIdle
<1>5. woken = Waiters("empty")
  BY DEF Broadcast
<1> HIDE DEF result, woken
<1> QED BY <1>1, <1>2, <1>3, <1>4, <1>5, FinishStep DEF GoodQueue

\* ThreadedQueueClearAndPush: the queue is never empty outside the mutex.
LEMMA ClearAndPushStep ==
  ASSUME QueueInv, NEW t \in Threads, ThreadedQueueClearAndPush(t)
  PROVE  QueueInv'
<1> DEFINE result == Result(TRUE, q'.size, Destroyed(q))
<1>1. /\ In(t, "clear_and_push")
      /\ q' = PushItem(ClearQueue(q), op[t].items[1])
      /\ alive' = alive /\ pushed' = pushed
  BY DEF ThreadedQueueClearAndPush
<1>2. PICK woken \in Signal("non_empty") : Finish(t, result, woken)
  BY DEF ThreadedQueueClearAndPush
<1>3. /\ alive /\ pc[t] \in Holding /\ ~In(t, "push")
      /\ op[t] \in Requests /\ op[t].kind = "clear_and_push"
  BY <1>1 DEF QueueInv, CallsKnown, In, Holding
<1>4. op[t].items[1] \in Items
  <2>1. PICK x \in Items : op[t].items = <<x>>
    BY <1>3, RequestFields
  <2> QED BY <2>1
<1>5. GoodQueue(q') /\ q'.size = 0 + 1
  BY <1>1, <1>3, <1>4, ClearGood, PushGood DEF QueueInv
<1>6. pushed' = 0
  BY <1>1, <1>3, CounterIdle
<1>7. woken \subseteq Waiters("non_empty")
  BY SignalWaiters
<1>8. q'.size = 0 => Waiters("empty") \subseteq woken
  BY <1>5
<1> HIDE DEF result
<1> QED BY <1>1, <1>2, <1>3, <1>5, <1>6, <1>7, <1>8, FinishStep DEF GoodQueue

\* ThreadedQueueDestroy and ThreadedQueueSoftDestroy.
LEMMA DestroyStep ==
  ASSUME QueueInv, NEW t \in Threads, ThreadedQueueDestroy(t)
  PROVE  QueueInv'
<1>1. /\ alive /\ AllIdle /\ lock' = t /\ pc' = [pc EXCEPT ![t] = "unlock"]
      /\ q' = DestroyRange(q) \/ q' = q
      /\ cond' = cond /\ op' = op /\ pushed' = pushed
      /\ DOMAIN ret' = DOMAIN ret
  BY DEF ThreadedQueueDestroy
<1>2. alive' = FALSE
  BY DEF ThreadedQueueDestroy
<1>3. MonitorInv'
  BY <1>1, DestroyOK DEF QueueInv, TypeOK, MonitorInv
<1>4. QueueType(q')
  <2>1. QueueType(q) /\ Shape(q)
    BY <1>1 DEF QueueInv, GoodQueue
  <2>2. Visited(q) = q.size
    BY <2>1, VisitedAll
  <2>3. DestroyRange(q) = [q EXCEPT !.size = 0]
    BY <2>1, <2>2, SMT DEF DestroyRange, QueueType
  <2> QED BY <2>1, <2>3, <1>1 DEF QueueType
<1>5. TypeOK'
  <2>1. alive' \in BOOLEAN
    BY <1>2, Zenon
  <2> QED BY <2>1, <1>1, <1>3, <1>4 DEF TypeOK, MonitorInv, QueueInv
<1>6. \A u \in Threads : pc'[u] \in {"idle", "unlock"}
  BY <1>1 DEF AllIdle, QueueInv, TypeOK, MonitorTypeOK
<1>7. PushCounter'
  <2>1. pushed = 0
    BY <1>1 DEF QueueInv, PushCounter, PushedBy, In, AllIdle
  <2> QED BY <2>1, <1>1 DEF PushCounter
<1>8. EmptyWaitersReleased' /\ CallsKnown' /\ WaitsKnown'
  BY <1>6 DEF EmptyWaitersReleased, Waiters, CallsKnown, WaitsKnown
<1> QED BY <1>2, <1>3, <1>5, <1>7, <1>8 DEF QueueInv, MonitorInv

\* Every step of the queue keeps the invariant.
LEMMA QueueStep == QueueInv /\ [Next]_vars => QueueInv'
<1> SUFFICES ASSUME QueueInv, [Next]_vars PROVE QueueInv'
  OBVIOUS
<1>1. ASSUME NEW c \in InitialCapacities, ThreadedQueueNew(c) PROVE QueueInv'
  BY <1>1, NewStep
<1>2. ASSUME NEW t \in Threads, NEW r \in Requests, Call(t, r) PROVE QueueInv'
  BY <1>2, CallStep
<1>3. ASSUME NEW t \in Threads, Advance(t), UNCHANGED queueVars PROVE QueueInv'
  <2>1. CASE GiveUp(t)
    <3> DEFINE result == Result(FALSE, 0, <<>>)
    <3>1. pc[t] \in Holding /\ ~In(t, "push") /\ Finish(t, result, {})
      BY <2>1 DEF GiveUp, Holding, In
    <3> HIDE DEF result
    <3> QED BY <3>1, <1>3, QuietFinish
  <2> QED BY <1>3, <2>1, MonitorStep DEF Advance
<1>4. ASSUME NEW t \in Threads, PopWait(t) PROVE QueueInv'
  <2>1. /\ pc[t] \in Holding /\ ~In(t, "push") /\ pc[t] # "unlock"
        /\ ThreadWait(t, "non_empty") /\ UNCHANGED queueVars /\ op[t].kind = "pop"
    BY <1>4 DEF PopWait, In, Holding
  <2>2. "non_empty" \in Conds
    BY DEF Conds
  <2> QED BY <2>1, <2>2, WaitStep
<1>5. ASSUME NEW t \in Threads, WaitEmptyWait(t) PROVE QueueInv'
  <2>1. /\ pc[t] \in Holding /\ ~In(t, "push") /\ pc[t] # "unlock"
        /\ ThreadWait(t, "empty") /\ UNCHANGED queueVars /\ q.size # 0
        /\ op[t].kind = "wait_empty"
    BY <1>5 DEF WaitEmptyWait, In, Holding
  <2>2. "empty" \in Conds
    BY DEF Conds
  <2> QED BY <2>1, <2>2, WaitStep
<1>6. ASSUME NEW t \in Threads,
             \/ ThreadedQueueWaitEmpty(t) \/ ThreadedQueueCount(t)
             \/ ThreadedQueueCapacity(t) \/ ThreadedQueueCopy(t)
      PROVE  QueueInv'
  <2>1. /\ pc[t] \in Holding /\ ~In(t, "push") /\ UNCHANGED queueVars
        /\ \E result : Finish(t, result, {})
    BY <1>6 DEF ThreadedQueueWaitEmpty, ThreadedQueueCount, ThreadedQueueCapacity,
                ThreadedQueueCopy, In, Holding
  <2> QED BY <2>1, QuietFinish
<1>7. ASSUME NEW t \in Threads, Step(t) PROVE QueueInv'
  BY <1>3, <1>4, <1>5, <1>6, <1>7, PopStep, PushIteration, PushEnd, ClearStep,
     ClearAndPushStep DEF Step
<1>8. ASSUME NEW t \in Threads, Interrupt(t), UNCHANGED queueVars PROVE QueueInv'
  BY <1>8, MonitorStep
<1>9. ASSUME NEW t \in Threads, ThreadedQueueDestroy(t) PROVE QueueInv'
  BY <1>9, DestroyStep
<1>10. CASE UNCHANGED vars
  BY <1>10 DEF vars, monitorVars, queueVars, QueueInv, TypeOK, MonitorTypeOK,
               MutualExclusion, CallsKnown, PushCounter, PushedBy, In, WaitsKnown,
               EmptyWaitersReleased, Waiters, Slot
<1> QED BY <1>1, <1>2, <1>7, <1>8, <1>9, <1>10 DEF Next

-----------------------------------------------------------------------------
(***************************************************************************)
(* The theorems.                                                           *)
(***************************************************************************)

\* The inductive invariant holds in every reachable state.
THEOREM QueueInvariant == Spec => []QueueInv
BY QueueInit, QueueStep, PTL DEF Spec

\* Type correctness of threaded_queue.c, for every number of threads and
\* items: in particular size and the loop counter of PushN never wrap.
THEOREM QueueTypeCorrect == Spec => []TypeOK
<1>1. QueueInv => TypeOK
  BY DEF QueueInv
<1> QED BY <1>1, QueueInvariant, PTL

\* The mutex protects the critical sections, timeouts and wakeups included.
THEOREM QueueMutualExclusion == Spec => []MutualExclusion
<1>1. QueueInv => MutualExclusion
  BY DEF QueueInv
<1> QED BY <1>1, QueueInvariant, PTL

\* head, tail, size and capacity agree in every reachable state.
THEOREM QueueRingShape == Spec => []RingShape
<1>1. QueueInv => RingShape
  BY DEF QueueInv, GoodQueue, RingShape
<1> QED BY <1>1, QueueInvariant, PTL

\* No stored slot is uninitialized or already popped.
THEOREM QueueStoredSlots == Spec => []StoredSlotsHoldItems
<1>1. QueueInv => StoredSlotsHoldItems
  BY DEF QueueInv, GoodQueue, StoredSlotsHoldItems
<1> QED BY <1>1, QueueInvariant, PTL

\* DestroyRange terminates and destroys every stored item exactly once.
THEOREM QueueDestroyRange == Spec => []DestroyRangeExact
<1>1. QueueInv => DestroyRangeExact
  <2> SUFFICES ASSUME QueueInv, alive, q.size > 0
               PROVE  q.tail # 0 /\ Visited(q) = q.size
    BY DEF DestroyRangeExact
  <2>1. QueueType(q) /\ Shape(q)
    BY DEF QueueInv, GoodQueue
  <2>2. q.tail # 0
    BY <2>1 DEF Shape, QueueType
  <2> QED BY <2>1, <2>2, VisitedAll
<1> QED BY <1>1, QueueInvariant, PTL

\* Nobody stays blocked in ThreadedQueueWaitEmpty on an empty queue.
THEOREM QueueEmptyWaiters == Spec => []EmptyWaitersReleased
<1>1. QueueInv => EmptyWaitersReleased
  BY DEF QueueInv
<1> QED BY <1>1, QueueInvariant, PTL

-----------------------------------------------------------------------------
(***************************************************************************)
(* What the critical sections do to the items outside a PushN.             *)
(***************************************************************************)

\* What a thread in the critical section of a call has.
LEMMA InCall ==
  ASSUME QueueInv, NEW t \in Threads, NEW k, In(t, k)
  PROVE  /\ pc[t] \in Holding \ {"unlock"} /\ op[t] \in Requests /\ op[t].kind = k
         /\ alive /\ GoodQueue(q) /\ q.size \in Nat
         /\ k # "push" => pushed = 0
<1>1. pc[t] \in Holding \ {"unlock"} /\ op[t] \in Requests /\ op[t].kind = k /\ alive
  BY DEF QueueInv, CallsKnown, In, Holding
<1>2. k # "push" => pushed = 0
  <2>1. k # "push" => ~In(t, "push")
    BY DEF In
  <2> QED BY <1>1, <2>1, CounterIdle
<1> QED BY <1>1, <1>2, InvMonitor DEF QueueInv

\* A pop asks for one of the numbers in PopCounts, or for one item.
LEMMA PopAsks ==
  ASSUME NEW r \in Requests, r.kind = "pop"
  PROVE  r.num \in PopCounts \cup {1}
BY DEF Requests, Pops, Pushes, Replaces, WaitEmptys, Others, Request

\* Pushes go to the right and pops come from the left; an array is a sequence.
LEMMA PushSide ==
  ASSUME NEW r \in Requests, r.kind = "push"
  PROVE  r.side = "right" /\ (r.items \in Arrays(MaxPushN) => r.items \in Seq(Items))
<1>1. r.side = "right"
  BY DEF Requests, Pops, Pushes, Replaces, WaitEmptys, Others, Request
<1>2. ASSUME r.items \in Arrays(MaxPushN) PROVE r.items \in Seq(Items)
  <2>1. PICK k \in 0..MaxPushN : r.items \in [1..k -> Items]
    BY <1>2 DEF Arrays
  <2>2. k \in Nat
    BY QueueAssumption
  <2> QED BY <2>1, <2>2
<1> QED BY <1>1, <1>2

LEMMA PopSide ==
  ASSUME NEW r \in Requests, r.kind = "pop"
  PROVE  r.side = "left"
BY DEF Requests, Pops, Pushes, Replaces, WaitEmptys, Others, Request

\* One iteration of the loop of PushN.
LEMMA PushItemSize ==
  ASSUME QueueInv, NEW t \in Threads, PushStep(t)
  PROVE  /\ q'.size = q.size + 1 /\ GoodQueue(q')
         /\ \A i \in 1..q.size : q'.data[Slot(q', i)] = q.data[Slot(q, i)]
<1> DEFINE x == op[t].items[pushed + 1]
<1>1. In(t, "push") /\ pushed < Len(op[t].items) /\ q' = PushItem(q, x)
  BY DEF PushStep
<1>2. GoodQueue(q) /\ op[t] \in Requests /\ op[t].kind = "push" /\ pushed \in Nat
  BY <1>1, InCall, InvMonitor
<1>3. /\ Len(op[t].items) \in 0..MaxPushN
      /\ \A i \in 1..Len(op[t].items) : op[t].items[i] \in Items
  BY <1>2, RequestFields, ArrayFields
<1>4. x \in Items
  BY <1>1, <1>2, <1>3
<1> HIDE DEF x
<1> QED BY <1>1, <1>2, <1>4, PushGood

\* Pops.
LEMMA PopEffect ==
  ASSUME QueueInv, NEW t \in Threads, ThreadedQueuePop(t)
  PROVE  \E n \in 0..q.size :
           /\ n = (IF op[t].num < q.size THEN op[t].num ELSE q.size)
           /\ q.size > 0 /\ op[t].num # 0 => n > 0
           /\ q' = DropFront(q, n) /\ q'.size = q.size - n /\ GoodQueue(q')
           /\ pushed' = 0 /\ alive' = alive
           /\ \E woken : /\ woken \subseteq Waiters("empty")
                         /\ Finish(t, Result(q.size > 0, n, Front(q, n)), woken)
<1> DEFINE n == IF op[t].num < q.size THEN op[t].num ELSE q.size
           woken == IF q.size = n THEN Broadcast("empty") ELSE {}
<1>1. /\ In(t, "pop") /\ q' = DropFront(q, n) /\ alive' = alive /\ pushed' = pushed
      /\ Finish(t, Result(q.size > 0, n, Front(q, n)), woken)
  BY DEF ThreadedQueuePop
<1>2. op[t].num \in Nat /\ q.size \in Nat /\ GoodQueue(q) /\ pushed = 0
  BY <1>1, InCall, RequestFields
<1>3. n \in 0..q.size /\ (q.size > 0 /\ op[t].num # 0 => n > 0)
  BY <1>2
<1>4. woken \subseteq Waiters("empty")
  BY DEF Broadcast
<1>5. n = (IF op[t].num < q.size THEN op[t].num ELSE q.size)
  OBVIOUS
<1> HIDE DEF n, woken
<1>6. GoodQueue(q') /\ q'.size = q.size - n
  BY <1>1, <1>2, <1>3, DropFrontGood
<1> QED BY <1>1, <1>2, <1>3, <1>4, <1>5, <1>6

\* Clear, and ClearAndPush up to its push.
LEMMA ReplaceEffect ==
  ASSUME QueueInv, NEW t \in Threads, ThreadedQueueClearAndPush(t)
  PROVE  /\ In(t, "clear_and_push") /\ GoodQueue(q') /\ q'.size = 1
         /\ pushed = 0 /\ pushed' = 0 /\ alive' = alive
         /\ \E x \in Items : op[t].items = <<x>> /\ q'.data[Slot(q', 1)] = x
<1>1. /\ In(t, "clear_and_push") /\ q' = PushItem(ClearQueue(q), op[t].items[1])
      /\ alive' = alive /\ pushed' = pushed
  BY DEF ThreadedQueueClearAndPush
<1>2. GoodQueue(q) /\ op[t] \in Requests /\ op[t].kind = "clear_and_push" /\ pushed = 0
  BY <1>1, InCall
<1>3. PICK x \in Items : op[t].items = <<x>>
  BY <1>2, RequestFields
<1>4. GoodQueue(ClearQueue(q)) /\ ClearQueue(q).size = 0
  BY <1>2, ClearGood
<1>5. q' = PushItem(ClearQueue(q), x)
  BY <1>1, <1>3
<1>6. GoodQueue(q') /\ q'.size = 0 + 1 /\ q'.data[Slot(q', q'.size)] = x
  BY <1>4, <1>5, PushGood
<1> QED BY <1>1, <1>2, <1>3, <1>6

\* Critical sections that only look at the queue, and the early return of a
\* timeout.
Quiet(t) ==
  \/ ThreadedQueueCount(t) \/ ThreadedQueueCapacity(t) \/ ThreadedQueueWaitEmpty(t)
  \/ ThreadedQueueCopy(t) \/ (GiveUp(t) /\ UNCHANGED queueVars)

LEMMA QuietEffect ==
  ASSUME NEW t \in Threads, Quiet(t)
  PROVE  /\ pc[t] \in Holding \ {"unlock"} /\ ~OnItsWay(t)
         /\ UNCHANGED queueVars /\ \E result : Finish(t, result, {})
BY DEF Quiet, ThreadedQueueCount, ThreadedQueueCapacity, ThreadedQueueWaitEmpty,
       ThreadedQueueCopy, GiveUp, In, Holding, OnItsWay

\* The disjuncts of the next-state relation, grouped by what they do.
LEMMA NextCases ==
  ASSUME Next
  PROVE  \/ \E c \in InitialCapacities : ThreadedQueueNew(c)
         \/ \E t \in Threads :
              \/ \E r \in Requests : Call(t, r)
              \/ UNCHANGED queueVars /\ (ThreadLock(t) \/ Reacquire(t) \/ Interrupt(t))
              \/ UNCHANGED queueVars /\ ThreadUnlock(t)
              \/ PopWait(t) \/ WaitEmptyWait(t) \/ Quiet(t)
              \/ ThreadedQueuePop(t) \/ PushStep(t) \/ ThreadedQueuePush(t)
              \/ ThreadedQueueClear(t) \/ ThreadedQueueClearAndPush(t)
              \/ ThreadedQueueDestroy(t)
BY DEF Next, Step, Advance, Quiet

-----------------------------------------------------------------------------
(***************************************************************************)
(* No signal is lost, when PushN is given at most one item.                *)
(***************************************************************************)

\* The items that are not part of a PushN under way.
Settled == q.size - pushed

LEMMA SettledNat == QueueInv => Settled \in Nat
<1> SUFFICES ASSUME QueueInv PROVE Settled \in Nat
  OBVIOUS
<1>1. pushed \in Nat /\ q.size \in Nat
  BY InvMonitor
<1>2. pushed <= q.size
  BY <1>1 DEF QueueInv, PushCounter, PushedBy
<1> QED BY <1>1, <1>2 DEF Settled

LEMMA StrandedSize ==
  ASSUME NEW n, NotStranded(n)', Settled' = n
  PROVE  NotStranded(Settled)'
BY DEF NotStranded

LEMMA StrandedStep ==
  ASSUME ~TimeoutTakesSignal, 0 \notin PopCounts, MaxPushN <= 1, QueueInv, NotStranded(Settled), [Next]_vars
  PROVE  NotStranded(Settled)'
<1>1. PICK n \in Nat : n = Settled
  BY SettledNat
<1>2. NotStranded(n) /\ MonitorTypeOK /\ WaitsKnown /\ DOMAIN op = Threads
  BY <1>1, InvMonitor
<1>3. ASSUME \A u \in Threads : pc'[u] # "wait" PROVE NotStranded(Settled)'
  BY <1>3 DEF NotStranded, Waiters
<1>4. ASSUME NEW c \in InitialCapacities, ThreadedQueueNew(c) PROVE NotStranded(Settled)'
  BY <1>3, <1>4 DEF ThreadedQueueNew, AllIdle, monitorVars
<1>5. ASSUME NEW t \in Threads, ThreadedQueueDestroy(t) PROVE NotStranded(Settled)'
  <2>1. \A u \in Threads : pc'[u] \in {"idle", "unlock"}
    BY <1>2, <1>5 DEF ThreadedQueueDestroy, AllIdle, MonitorTypeOK
  <2> QED BY <1>3, <2>1
<1>6. ASSUME NEW t \in Threads, UNCHANGED queueVars,
             \/ ThreadLock(t) \/ Reacquire(t) \/ ThreadUnlock(t) \/ Interrupt(t)
             \/ (\E r : Enter(t, r)) \/ (ThreadWait(t, "empty") /\ op[t].kind # "pop")
      PROVE  NotStranded(Settled)'
  <2>1. NotStranded(n)'
    BY <1>2, <1>6, AdvanceStranded
  <2> QED BY <1>1, <1>6, <2>1, StrandedSize DEF queueVars, Settled
<1>7. ASSUME NEW t \in Threads, WaitEmptyWait(t) PROVE NotStranded(Settled)'
  <2>1. UNCHANGED queueVars /\ ThreadWait(t, "empty") /\ op[t].kind # "pop"
    BY <1>7 DEF WaitEmptyWait, In
  <2> QED BY <1>6, <2>1
<1>8. ASSUME NEW t \in Threads, NEW r \in Requests, Call(t, r) PROVE NotStranded(Settled)'
  BY <1>6, <1>8 DEF Call
<1>z. ASSUME Settled' = 0 PROVE NotStranded(Settled)'
  BY <1>z, OnTheirWayFinite DEF NotStranded
<1>9. ASSUME NEW t \in Threads, PopWait(t) PROVE NotStranded(Settled)'
  <2>1. q.size = 0 /\ UNCHANGED queueVars /\ In(t, "pop")
    BY <1>9 DEF PopWait
  <2>2. pushed = 0
    BY <2>1, InCall
  <2>3. Settled' = 0
    BY <2>1, <2>2 DEF queueVars, Settled
  <2> QED BY <2>3, <1>z
<1>10. ASSUME NEW t \in Threads, Quiet(t) PROVE NotStranded(Settled)'
  <2>1. PICK result : Finish(t, result, {})
    BY <1>10, QuietEffect
  <2>2. ~OnItsWay(t) /\ {} \subseteq Waiters("empty")
    BY <1>10, QuietEffect
  <2>3. NotStranded(n)'
    BY <1>2, <2>1, <2>2, FinishStranded
  <2>4. Settled' = n
    BY <1>1, <1>10, QuietEffect DEF queueVars, Settled
  <2> QED BY <2>3, <2>4, StrandedSize
<1>11. ASSUME NEW t \in Threads, ThreadedQueuePop(t) PROVE NotStranded(Settled)'
  <2>0. In(t, "pop") /\ pushed = 0
    BY <1>11, InCall DEF ThreadedQueuePop
  <2>1. q.size = n
    BY <1>1, <2>0, InvMonitor DEF Settled
  <2>2. PICK k \in 0..n :
          /\ n > 0 /\ op[t].num # 0 => k > 0
          /\ q'.size = n - k /\ pushed' = 0
          /\ \E result, woken : woken \subseteq Waiters("empty") /\ Finish(t, result, woken)
    BY <1>11, <2>1, PopEffect
  <2>3. PICK result, woken : Finish(t, result, woken) /\ woken \subseteq Waiters("empty")
    BY <2>2
  <2>4. op[t].num # 0
    BY <2>0, InCall, PopAsks
  <2>5. n > 0 => k > 0
    BY <2>2, <2>4
  <2>6. NotStranded(n - k)'
    BY <1>2, <2>3, <2>5, PopStranded
  <2>7. Settled' = n - k
    BY <2>2 DEF Settled
  <2> QED BY <2>6, <2>7, StrandedSize
<1>12. ASSUME NEW t \in Threads, PushStep(t) PROVE NotStranded(Settled)'
  <2>1. Settled' = Settled /\ UNCHANGED monitorVars
    <3>1. q'.size = q.size + 1 /\ pushed' = pushed + 1 /\ UNCHANGED monitorVars
      BY <1>12, PushItemSize DEF PushStep
    <3> QED BY <3>1, InvMonitor DEF Settled
  <2> QED BY <2>1 DEF monitorVars, NotStranded, Waiters, OnTheirWay, OnItsWay
<1>13. ASSUME NEW t \in Threads, ThreadedQueuePush(t) PROVE NotStranded(Settled)'
  <2>1. /\ In(t, "push") /\ pushed = Len(op[t].items) /\ pushed' = 0 /\ q' = q
        /\ \E result, woken : woken \in Signal("non_empty") /\ Finish(t, result, woken)
    BY <1>13 DEF ThreadedQueuePush
  <2>2. PICK result, woken : woken \in Signal("non_empty") /\ Finish(t, result, woken)
    BY <2>1
  <2>3. pc[t] \in Holding /\ op[t].kind # "pop"
    BY <2>1, InCall
  <2>4. NotStranded(n + 1)'
    BY <1>2, <2>2, <2>3, PushStranded
  <2>5. pushed \in 0..1
    BY QueueAssumption DEF QueueInv, TypeOK
  <2>6. Settled' \in Nat /\ Settled' <= n + 1
    <3>1. q.size \in Nat /\ n = q.size - pushed
      BY <1>1, InvMonitor DEF Settled
    <3>2. Settled' = q.size - 0
      BY <2>1 DEF Settled
    <3> QED BY <3>1, <3>2, <2>5
  <2> QED BY <2>4, <2>6, OnTheirWayFinite DEF NotStranded
<1>14. ASSUME NEW t \in Threads, ThreadedQueueClear(t) PROVE NotStranded(Settled)'
  <2>1. In(t, "clear") /\ q' = ClearQueue(q) /\ pushed' = pushed
    BY <1>14 DEF ThreadedQueueClear
  <2>2. pushed = 0 /\ GoodQueue(q)
    BY <2>1, InCall
  <2>3. Settled' = 0
    BY <2>1, <2>2, ClearGood DEF Settled
  <2> QED BY <2>3, <1>z
<1>15. ASSUME NEW t \in Threads, ThreadedQueueClearAndPush(t) PROVE NotStranded(Settled)'
  <2>1. PICK result, woken : woken \in Signal("non_empty") /\ Finish(t, result, woken)
    BY <1>15 DEF ThreadedQueueClearAndPush
  <2>2. In(t, "clear_and_push") /\ q'.size = 1 /\ pushed' = 0
    BY <1>15, ReplaceEffect
  <2>3. pc[t] \in Holding /\ op[t].kind # "pop"
    BY <2>2, InCall
  <2>4. PICK z \in Nat : z = 0
    OBVIOUS
  <2>5. NotStranded(z)
    BY <2>4, OnTheirWayFinite DEF NotStranded
  <2>6. NotStranded(z + 1)'
    BY <1>2, <2>1, <2>3, <2>5, PushStranded
  <2>7. Settled' = z + 1
    BY <2>2, <2>4 DEF Settled
  <2> QED BY <2>6, <2>7, StrandedSize
<1>16. CASE UNCHANGED vars
  BY <1>16 DEF vars, monitorVars, queueVars, NotStranded, Waiters, OnTheirWay, OnItsWay, Settled
<1>17. CASE Next
  BY <1>4, <1>5, <1>6, <1>7, <1>8, <1>9, <1>10, <1>11, <1>12, <1>13, <1>14, <1>15, <1>17,
     NextCases
<1> QED BY <1>16, <1>17

\* No consumer is stranded, for any number of threads, as long as PushN is
\* given at most one item (it signals once), nobody asks for zero items and a
\* wait that times out does not use up a signal:
\* whoever waits for items while some are stored has that many woken consumers
\* before it.
THEOREM QueueConsumersNotStranded ==
  ASSUME ~TimeoutTakesSignal, 0 \notin PopCounts, MaxPushN <= 1
  PROVE  Spec => []ConsumersNotStranded
<1>1. Init => NotStranded(Settled)
  BY DEF Init, MonitorInit, NotStranded, Waiters
<1>2. QueueInv /\ NotStranded(Settled) /\ [Next]_vars => NotStranded(Settled)'
  BY StrandedStep
<1>3. QueueInv /\ NotStranded(Settled) => ConsumersNotStranded
  <2> SUFFICES ASSUME QueueInv, Settled <= Cardinality(OnTheirWay)
               PROVE  q.size <= pushed + Cardinality(OnTheirWay)
    BY DEF NotStranded, OnTheirWay, ConsumersNotStranded
  <2> QED BY OnTheirWayFinite, InvMonitor DEF Settled
<1> QED BY <1>1, <1>2, <1>3, QueueInvariant, PTL DEF Spec

-----------------------------------------------------------------------------
(***************************************************************************)
(* The items of the queue, as the sequence its callers see.                *)
(***************************************************************************)
LEMMA FrontIsSeq ==
  ASSUME NEW s, GoodQueue(s), NEW n \in 0..s.size
  PROVE  /\ Front(s, n) \in Seq(Items) /\ Len(Front(s, n)) = n
         /\ \A i \in 1..n : Front(s, n)[i] = s.data[Slot(s, i)]
<1>1. s.size \in Nat /\ \A i \in 1..s.size : s.data[Slot(s, i)] \in Items
  BY DEF GoodQueue, QueueType, Stored
<1>2. Front(s, n) = [i \in 1..n |-> s.data[Slot(s, i)]]
  BY DEF Front
<1>3. n \in Nat /\ \A i \in 1..n : s.data[Slot(s, i)] \in Items
  BY <1>1
<1> QED BY <1>2, <1>3

LEMMA RowIsSeq ==
  ASSUME NEW s, GoodQueue(s)
  PROVE  /\ Front(s, s.size) \in Seq(Items) /\ Len(Front(s, s.size)) = s.size
         /\ s.size \in Nat
         /\ \A i \in 1..s.size : Front(s, s.size)[i] = s.data[Slot(s, i)]
<1>1. s.size \in Nat /\ s.size \in 0..s.size
  BY DEF GoodQueue, QueueType
<1> QED BY <1>1, FrontIsSeq

LEMMA RowEmpty ==
  ASSUME NEW s, GoodQueue(s)
  PROVE  Front(s, s.size) = <<>> <=> s.size = 0
<1>1. Front(s, s.size) \in Seq(Items) /\ Len(Front(s, s.size)) = s.size
  BY RowIsSeq
<1> QED BY <1>1

\* What a pop takes, and what it leaves.
LEMMA RowDrop ==
  ASSUME NEW s, GoodQueue(s), NEW n \in 0..s.size
  PROVE  LET row == Front(s, s.size)
             p   == DropFront(s, n)
         IN  /\ Front(p, p.size) = SubSeq(row, n + 1, Len(row))
             /\ Front(s, n) = SubSeq(row, 1, n)
<1> DEFINE p   == DropFront(s, n)
           a   == Front(s, s.size)
           b   == Front(p, p.size)
           c   == Front(s, n)
<1>1. /\ GoodQueue(p) /\ p.size = s.size - n
      /\ \A i \in 1..p.size : p.data[Slot(p, i)] = s.data[Slot(s, i + n)]
  BY DropFrontGood
<1> HIDE DEF p
<1>2. /\ a \in Seq(Items) /\ Len(a) = s.size /\ s.size \in Nat
      /\ \A i \in 1..s.size : a[i] = s.data[Slot(s, i)]
  BY RowIsSeq
<1>3. /\ b \in Seq(Items) /\ Len(b) = p.size
      /\ \A i \in 1..p.size : b[i] = p.data[Slot(p, i)]
  BY <1>1, RowIsSeq
<1>4. /\ c \in Seq(Items) /\ Len(c) = n
      /\ \A i \in 1..n : c[i] = s.data[Slot(s, i)]
  BY FrontIsSeq
<1> HIDE DEF a, b, c
<1>5. ASSUME NEW i \in 1..p.size PROVE b[i] = a[i + n]
  <2>1. i + n \in 1..s.size
    BY <1>1, <1>2
  <2> QED BY <2>1, <1>1, <1>2, <1>3
<1>6. b = SubSeq(a, n + 1, Len(a))
  BY <1>1, <1>2, <1>3, <1>5, DropFirst
<1>7. ASSUME NEW i \in 1..n PROVE c[i] = a[i]
  <2>1. i \in 1..s.size
    BY <1>2
  <2> QED BY <2>1, <1>2, <1>4
<1>8. n \in 0..Len(a)
  BY <1>2
<1>9. c = SubSeq(a, 1, n)
  BY <1>2, <1>4, <1>7, <1>8, KeepFirst
<1> QED BY <1>6, <1>9 DEF a, b, c, p

-----------------------------------------------------------------------------
(***************************************************************************)
(* The refinement: every step of the queue is a step of BlockingDeque, or  *)
(* changes nothing that its callers see.                                   *)
(***************************************************************************)
LEMMA ContentsRow ==
  ASSUME QueueInv, alive, pushed = 0
  PROVE  /\ Contents = Front(q, q.size) /\ Len(Contents) = q.size
         /\ (Contents = <<>>) <=> (q.size = 0)
<1>1. GoodQueue(q) /\ q.size - pushed = q.size
  BY InvMonitor DEF QueueInv
<1>2. Contents = Front(q, q.size)
  BY <1>1 DEF Contents
<1> QED BY <1>1, <1>2, RowIsSeq, RowEmpty

LEMMA ContentsAfter ==
  ASSUME alive', pushed' = 0, GoodQueue(q')
  PROVE  Contents' = Front(q', q'.size)
<1>1. q'.size - pushed' = q'.size
  BY DEF GoodQueue, QueueType
<1> QED BY <1>1 DEF Contents, Front, Slot

LEMMA ContentsKept ==
  ASSUME UNCHANGED queueVars
  PROVE  Contents' = Contents
BY DEF Contents, queueVars

\* A critical section, as BlockingDeque sees it.
LEMMA FinishEffect ==
  ASSUME QueueInv, NEW t \in Threads, pc[t] \in Holding \ {"unlock"},
         NEW result, NEW woken, NEW c, woken \subseteq Waiters(c), Finish(t, result, woken)
  PROVE  /\ Phase[t] = "pending" /\ Phase' = [Phase EXCEPT ![t] = "done"]
         /\ ret' = [ret EXCEPT ![t] = result] /\ op' = op
<1>1. ret' = [ret EXCEPT ![t] = result] /\ op' = op
  BY DEF Finish
<1> QED BY <1>1, PhaseFinish, InvMonitor

\* The loop of PushN does not show.
LEMMA PushStepImplements ==
  ASSUME QueueInv, NEW t \in Threads, PushStep(t)
  PROVE  UNCHANGED Abstract!vars
<1>1. /\ In(t, "push") /\ pushed' = pushed + 1 /\ alive' = alive
      /\ op' = op /\ ret' = ret /\ pc' = pc
  BY DEF PushStep, monitorVars
<1>2. Phase' = Phase
  BY <1>1 DEF Phase
<1>3. /\ q'.size = q.size + 1
      /\ \A i \in 1..q.size : q'.data[Slot(q', i)] = q.data[Slot(q, i)]
  BY PushItemSize
<1>4. pushed \in Nat /\ q.size \in Nat /\ pushed <= q.size /\ alive
  BY <1>1, InvMonitor, PushingNow, InCall
<1>5. q'.size - pushed' = q.size - pushed /\ q.size - pushed \in 0..q.size
  BY <1>1, <1>3, <1>4
<1>6. Contents' = [i \in 1..(q.size - pushed) |-> q'.data[Slot(q', i)]]
  BY <1>1, <1>4, <1>5 DEF Contents, Front, Slot
<1>7. Contents = [i \in 1..(q.size - pushed) |-> q.data[Slot(q, i)]]
  BY <1>4 DEF Contents, Front
<1>8. \A i \in 1..(q.size - pushed) : q'.data[Slot(q', i)] = q.data[Slot(q, i)]
  BY <1>3, <1>4
<1>9. Contents' = Contents
  BY <1>6, <1>7, <1>8
<1> QED BY <1>1, <1>2, <1>9 DEF Abstract!vars

\* The end of PushN makes the whole array visible.
LEMMA PushImplements ==
  ASSUME QueueInv, NEW t \in Threads, ThreadedQueuePush(t)
  PROVE  Abstract!Push(t)
<1>1. /\ In(t, "push") /\ pushed = Len(op[t].items) /\ pushed' = 0
      /\ q' = q /\ alive' = alive
  BY DEF ThreadedQueuePush
<1>2. /\ alive /\ GoodQueue(q) /\ op[t] \in Requests /\ op[t].kind = "push"
      /\ pc[t] \in Holding \ {"unlock"}
  BY <1>1, InCall
<1>3. op[t].items \in Arrays(MaxPushN)
  BY <1>2, RequestFields
<1>4. op[t].items \in Seq(Items) /\ op[t].side = "right"
  BY <1>2, <1>3, PushSide
<1>5. /\ q.size \in Nat /\ pushed \in Nat /\ pushed <= q.size
      /\ \A i \in 1..pushed : q.data[Slot(q, q.size - pushed + i)] = op[t].items[i]
  BY <1>1, InvMonitor, PushingNow
<1> DEFINE a == Front(q, q.size - pushed)
           b == op[t].items
           c == Front(q, q.size)
<1>6. Contents = a /\ Contents' = c
  BY <1>1, <1>2, ContentsAfter DEF Contents
<1>7. /\ c \in Seq(Items) /\ Len(c) = q.size
      /\ \A i \in 1..q.size : c[i] = q.data[Slot(q, i)]
  BY <1>2, RowIsSeq
<1>8. /\ a \in Seq(Items) /\ Len(a) = q.size - pushed
      /\ \A i \in 1..(q.size - pushed) : a[i] = q.data[Slot(q, i)]
  <2> DEFINE m == q.size - pushed
  <2>1. m \in 0..q.size
    BY <1>5
  <2> HIDE DEF m
  <2>2. Front(q, m) \in Seq(Items) /\ Len(Front(q, m)) = m
        /\ \A i \in 1..m : Front(q, m)[i] = q.data[Slot(q, i)]
    BY <1>2, <2>1, FrontIsSeq
  <2> QED BY <2>2 DEF m
<1> HIDE DEF a, c
<1>9. Len(b) = pushed /\ Len(c) = Len(a) + Len(b)
  BY <1>1, <1>5, <1>7, <1>8
<1>10. ASSUME NEW i \in 1..Len(a) PROVE c[i] = a[i]
  <2>1. i \in 1..(q.size - pushed) /\ i \in 1..q.size
    BY <1>5, <1>8
  <2> QED BY <2>1, <1>7, <1>8
<1>11. ASSUME NEW i \in 1..Len(b) PROVE c[Len(a) + i] = b[i]
  <2>1. Len(a) + i \in 1..q.size /\ i \in 1..pushed
    BY <1>5, <1>8, <1>9
  <2>2. Len(a) + i = q.size - pushed + i
    BY <1>8
  <2> QED BY <2>1, <2>2, <1>5, <1>7
<1>12. c = a \o b
  BY <1>4, <1>7, <1>8, <1>9, <1>10, <1>11, JoinTwo
<1> DEFINE result == Result(TRUE, q.size, <<>>)
<1>13. PICK woken \in Signal("non_empty") : Finish(t, result, woken)
  BY DEF ThreadedQueuePush
<1>14. woken \subseteq Waiters("non_empty")
  BY SignalWaiters
<1>15. /\ Phase[t] = "pending" /\ Phase' = [Phase EXCEPT ![t] = "done"]
       /\ ret' = [ret EXCEPT ![t] = result] /\ op' = op
  <2> HIDE DEF result
  <2> QED BY <1>2, <1>13, <1>14, FinishEffect
<1>16. Contents' = Contents \o op[t].items /\ Len(Contents') = q.size
  BY <1>6, <1>7, <1>12
<1> QED BY <1>1, <1>2, <1>4, <1>15, <1>16
        DEF Abstract!Push, Abstract!Pending, Abstract!Effect, Abstract!Result, Result

\* Pop, PopN and PopNIntoArray.
LEMMA PopImplements ==
  ASSUME QueueInv, NEW t \in Threads, ThreadedQueuePop(t)
  PROVE  Abstract!Pop(t)
<1>0. In(t, "pop") /\ (MayWait(t) => q.size # 0)
  BY DEF ThreadedQueuePop
<1>1. /\ alive /\ GoodQueue(q) /\ op[t] \in Requests /\ op[t].kind = "pop"
      /\ pc[t] \in Holding \ {"unlock"} /\ pushed = 0 /\ q.size \in Nat
  BY <1>0, InCall
<1>2. PICK n \in 0..q.size :
        /\ n = (IF op[t].num < q.size THEN op[t].num ELSE q.size)
        /\ q' = DropFront(q, n) /\ GoodQueue(q') /\ pushed' = 0 /\ alive' = alive
        /\ \E woken : /\ woken \subseteq Waiters("empty")
                      /\ Finish(t, Result(q.size > 0, n, Front(q, n)), woken)
  BY PopEffect
<1>3. /\ Contents = Front(q, q.size) /\ Len(Contents) = q.size
      /\ (Contents = <<>>) <=> (q.size = 0)
      /\ Contents' = Front(q', q'.size)
  BY <1>1, <1>2, ContentsRow, ContentsAfter
<1>4. /\ Contents' = SubSeq(Contents, n + 1, Len(Contents))
      /\ Front(q, n) = SubSeq(Contents, 1, n)
  BY <1>1, <1>2, <1>3, RowDrop
<1>5. n = Abstract!Lesser(op[t].num, Len(Contents))
  BY <1>2, <1>3 DEF Abstract!Lesser
<1>6. op[t].timeout # "none" => Contents # <<>>
  BY <1>0, <1>3 DEF MayWait
<1>7. op[t].side = "left"
  BY <1>1, PopSide
<1> DEFINE result == Result(q.size > 0, n, Front(q, n))
<1>8. PICK woken : woken \subseteq Waiters("empty") /\ Finish(t, result, woken)
  BY <1>2
<1>9. result = Result(Contents # <<>>, n, SubSeq(Contents, 1, n))
  <2>1. (q.size > 0) = (Contents # <<>>)
    BY <1>1, <1>3
  <2> QED BY <2>1, <1>4
<1>10. /\ Phase[t] = "pending" /\ Phase' = [Phase EXCEPT ![t] = "done"]
       /\ ret' = [ret EXCEPT ![t] = result] /\ op' = op
  <2> HIDE DEF result
  <2> QED BY <1>1, <1>8, FinishEffect
<1> HIDE DEF result
<1> QED BY <1>1, <1>2, <1>4, <1>5, <1>6, <1>7, <1>9, <1>10
        DEF Abstract!Pop, Abstract!Pending, Abstract!Effect, Abstract!Result, Result,
            Abstract!Leftmost

\* The early return of a timeout.
LEMMA GiveUpImplements ==
  ASSUME QueueInv, NEW t \in Threads, GiveUp(t), UNCHANGED queueVars
  PROVE  Abstract!GiveUp(t)
<1>1. pc[t] = "expired" /\ pc[t] \in Holding \ {"unlock"} /\ alive' = alive
  BY DEF GiveUp, Holding, queueVars
<1>2. op[t].kind \in {"pop", "wait_empty"} /\ op[t].timeout = "seconds"
  BY <1>1 DEF QueueInv, WaitsKnown
<1> DEFINE result == Result(FALSE, 0, <<>>)
<1>3. Finish(t, result, {}) /\ {} \subseteq Waiters("empty")
  BY DEF GiveUp
<1>4. /\ Phase[t] = "pending" /\ Phase' = [Phase EXCEPT ![t] = "done"]
      /\ ret' = [ret EXCEPT ![t] = result] /\ op' = op
  <2>1. ret' = [ret EXCEPT ![t] = result] /\ op' = op
    BY <1>3 DEF Finish
  <2>2. Phase[t] = "pending" /\ Phase' = [Phase EXCEPT ![t] = "done"]
    <3> HIDE DEF result
    <3> QED BY <1>1, <1>3, PhaseFinish, InvMonitor
  <2> QED BY <2>1, <2>2
<1> QED BY <1>1, <1>2, <1>4, ContentsKept
        DEF Abstract!GiveUp, Abstract!Pending, Abstract!Effect, Abstract!Result, Result

\* Count, Capacity, WaitEmpty and Copy.
LEMMA LookImplements ==
  ASSUME QueueInv, NEW t \in Threads,
         \/ ThreadedQueueCount(t) \/ ThreadedQueueCapacity(t) \/ ThreadedQueueWaitEmpty(t)
         \/ ThreadedQueueCopy(t)
  PROVE  Abstract!Count(t) \/ Abstract!Capacity(t) \/ Abstract!WaitEmpty(t) \/ Abstract!Copy(t)
<1>1. UNCHANGED queueVars /\ Contents' = Contents /\ alive' = alive
  BY ContentsKept DEF ThreadedQueueCount, ThreadedQueueCapacity, ThreadedQueueWaitEmpty,
                      ThreadedQueueCopy, queueVars
<1>2. ASSUME NEW k, In(t, k), k # "push"
      PROVE  /\ op[t].kind = k /\ Contents = Front(q, q.size) /\ Len(Contents) = q.size
             /\ (q.size = 0) = (Contents = <<>>)
  BY <1>2, InCall, ContentsRow
<1>3. ASSUME NEW k, In(t, k), NEW result, Finish(t, result, {})
      PROVE  /\ Phase[t] = "pending" /\ Phase' = [Phase EXCEPT ![t] = "done"]
             /\ ret' = [ret EXCEPT ![t] = result] /\ op' = op
  <2>1. {} \subseteq Waiters("empty")
    OBVIOUS
  <2>2. pc[t] \in Holding \ {"unlock"}
    BY <1>3, InCall
  <2> QED BY <1>3, <2>1, <2>2, FinishEffect
<1>4. CASE ThreadedQueueCount(t)
  <2> DEFINE result == Result(q.size = 0, q.size, <<>>)
  <2>1. In(t, "count") /\ Finish(t, result, {})
    BY <1>4 DEF ThreadedQueueCount
  <2>2. result = Result(Contents = <<>>, Len(Contents), <<>>)
    BY <1>2, <2>1
  <2>3. /\ Phase[t] = "pending" /\ Phase' = [Phase EXCEPT ![t] = "done"]
        /\ ret' = [ret EXCEPT ![t] = result] /\ op' = op
    <3> HIDE DEF result
    <3> QED BY <1>3, <2>1
  <2> QED BY <1>1, <1>2, <2>1, <2>2, <2>3
          DEF Abstract!Count, Abstract!Pending, Abstract!Effect, Abstract!Result, Result
<1>5. CASE ThreadedQueueWaitEmpty(t)
  <2> DEFINE result == Result(q.size = 0, 0, <<>>)
  <2>1. In(t, "wait_empty") /\ Finish(t, result, {})
    BY <1>5 DEF ThreadedQueueWaitEmpty
  <2>2. result = Result(Contents = <<>>, 0, <<>>)
    BY <1>2, <2>1
  <2>3. /\ Phase[t] = "pending" /\ Phase' = [Phase EXCEPT ![t] = "done"]
        /\ ret' = [ret EXCEPT ![t] = result] /\ op' = op
    <3> HIDE DEF result
    <3> QED BY <1>3, <2>1
  <2>4. op[t].timeout # "none" => Contents = <<>>
    BY <1>2, <1>5, <2>1 DEF ThreadedQueueWaitEmpty, MayWait
  <2> QED BY <1>1, <1>2, <2>1, <2>2, <2>3, <2>4
          DEF Abstract!WaitEmpty, Abstract!Pending, Abstract!Effect, Abstract!Result, Result
<1>6. CASE ThreadedQueueCapacity(t)
  <2> DEFINE result == Result(TRUE, q.capacity, <<>>)
  <2>1. In(t, "capacity") /\ Finish(t, result, {})
    BY <1>6 DEF ThreadedQueueCapacity
  <2>2. /\ Phase[t] = "pending" /\ Phase' = [Phase EXCEPT ![t] = "done"]
        /\ ret' = [ret EXCEPT ![t] = result] /\ op' = op
    <3> HIDE DEF result
    <3> QED BY <1>3, <2>1
  <2>3. ret'[t] = result
    <3> HIDE DEF result
    <3> QED BY <2>2, InvMonitor
  <2>4. ret'[t] = Result(TRUE, ret'[t].n, <<>>) /\ ret'[t].n = q.capacity
    BY <2>3 DEF Result
  <2>5. q.capacity >= Len(Contents)
    BY <1>2, <2>1, InvMonitor, InCall DEF GoodQueue, QueueType, Shape
  <2>6. Abstract!Effect(t, ret'[t], Contents)
    BY <1>1, <2>2, <2>3 DEF Abstract!Effect
  <2> QED BY <1>2, <2>1, <2>2, <2>4, <2>5, <2>6
          DEF Abstract!Capacity, Abstract!Pending, Abstract!Result, Result
<1>7. CASE ThreadedQueueCopy(t)
  <2>1. In(t, "copy")
    BY <1>7 DEF ThreadedQueueCopy
  <2>2. Front(q, q.size) = Contents
    BY <1>2, <2>1
  <2>3. CASE Finish(t, Result(TRUE, 0, Front(q, q.size)), {})
    <3> DEFINE result == Result(TRUE, 0, Contents)
    <3>1. Finish(t, result, {})
      BY <2>2, <2>3
    <3>2. /\ Phase[t] = "pending" /\ Phase' = [Phase EXCEPT ![t] = "done"]
          /\ ret' = [ret EXCEPT ![t] = result] /\ op' = op
      <4> HIDE DEF result
      <4> QED BY <1>3, <2>1, <3>1
    <3> QED BY <1>1, <1>2, <2>1, <3>2
            DEF Abstract!Copy, Abstract!Pending, Abstract!Effect, Abstract!Result, Result
  <2>4. CASE Finish(t, Result(FALSE, 0, <<>>), {})
    <3> DEFINE result == Result(FALSE, 0, <<>>)
    <3>1. Finish(t, result, {})
      BY <2>4
    <3>2. /\ Phase[t] = "pending" /\ Phase' = [Phase EXCEPT ![t] = "done"]
          /\ ret' = [ret EXCEPT ![t] = result] /\ op' = op
      <4> HIDE DEF result
      <4> QED BY <1>3, <2>1, <3>1
    <3> QED BY <1>1, <1>2, <2>1, <3>2
            DEF Abstract!Copy, Abstract!Pending, Abstract!Effect, Abstract!Result, Result
  <2> QED BY <1>7, <2>3, <2>4 DEF ThreadedQueueCopy
<1> QED BY <1>4, <1>5, <1>6, <1>7

\* Clear and ClearAndPush destroy every item, in order.
LEMMA ClearImplements ==
  ASSUME QueueInv, NEW t \in Threads, ThreadedQueueClear(t)
  PROVE  Abstract!Clear(t)
<1> DEFINE result == Result(TRUE, 0, Destroyed(q))
           woken  == Broadcast("empty")
<1>1. /\ In(t, "clear") /\ q' = ClearQueue(q) /\ alive' = alive /\ pushed' = pushed
      /\ Finish(t, result, woken) /\ woken \subseteq Waiters("empty")
  BY DEF ThreadedQueueClear, Broadcast
<1>2. /\ alive /\ GoodQueue(q) /\ op[t].kind = "clear"
      /\ pc[t] \in Holding \ {"unlock"} /\ pushed = 0
  BY <1>1, InCall
<1>3. GoodQueue(q') /\ q'.size = 0
  BY <1>1, <1>2, ClearGood
<1>4. Contents' = <<>> /\ Contents = Front(q, q.size)
  BY <1>1, <1>2, <1>3, ContentsRow, ContentsAfter, RowEmpty
<1>5. Destroyed(q) = Contents
  BY <1>2, <1>4, VisitedAll DEF Destroyed, GoodQueue
<1>6. /\ Phase[t] = "pending" /\ Phase' = [Phase EXCEPT ![t] = "done"]
      /\ ret' = [ret EXCEPT ![t] = result] /\ op' = op
  <2> HIDE DEF result, woken
  <2> QED BY <1>1, <1>2, FinishEffect
<1> QED BY <1>1, <1>2, <1>4, <1>5, <1>6
        DEF Abstract!Clear, Abstract!Pending, Abstract!Effect, Abstract!Result, Result

LEMMA ReplaceImplements ==
  ASSUME QueueInv, NEW t \in Threads, ThreadedQueueClearAndPush(t)
  PROVE  Abstract!ClearAndPush(t)
<1>1. /\ In(t, "clear_and_push") /\ GoodQueue(q') /\ q'.size = 1
      /\ pushed = 0 /\ pushed' = 0 /\ alive' = alive
  BY ReplaceEffect
<1>2. PICK x \in Items : op[t].items = <<x>> /\ q'.data[Slot(q', 1)] = x
  BY ReplaceEffect
<1>3. /\ alive /\ GoodQueue(q) /\ op[t].kind = "clear_and_push"
      /\ pc[t] \in Holding \ {"unlock"}
  BY <1>1, InCall
<1>4. Contents = Front(q, q.size) /\ Contents' = Front(q', q'.size)
  BY <1>1, <1>3, ContentsRow, ContentsAfter
<1>5. Contents' = op[t].items
  <2>1. Contents' = [i \in 1..1 |-> q'.data[Slot(q', i)]]
    BY <1>1, <1>4 DEF Front
  <2>2. Contents' = [i \in 1..1 |-> x]
    BY <2>1, <1>2
  <2> QED BY <2>2, <1>2
<1>6. Destroyed(q) = Contents
  BY <1>3, <1>4, VisitedAll DEF Destroyed, GoodQueue
<1> DEFINE result == Result(TRUE, q'.size, Destroyed(q))
<1>7. PICK woken \in Signal("non_empty") : Finish(t, result, woken)
  BY DEF ThreadedQueueClearAndPush
<1>8. woken \subseteq Waiters("non_empty")
  BY SignalWaiters
<1>9. /\ Phase[t] = "pending" /\ Phase' = [Phase EXCEPT ![t] = "done"]
      /\ ret' = [ret EXCEPT ![t] = result] /\ op' = op
  <2> HIDE DEF result
  <2> QED BY <1>3, <1>7, <1>8, FinishEffect
<1> QED BY <1>1, <1>3, <1>5, <1>6, <1>9
        DEF Abstract!ClearAndPush, Abstract!Pending, Abstract!Effect, Abstract!Result, Result

\* Creating, calling, returning and destroying.
LEMMA CreateImplements ==
  ASSUME QueueInv, NEW c \in InitialCapacities, ThreadedQueueNew(c)
  PROVE  Abstract!Create
<1>1. GoodQueue(q') /\ q'.size = 0
  BY NewQueueGood, QueueAssumption DEF ThreadedQueueNew
<1>2. ~alive /\ alive' = TRUE /\ op' = op /\ ret' = ret /\ Phase' = Phase
  BY DEF ThreadedQueueNew, monitorVars, Phase
<1>3. pushed' = 0
  BY DEF ThreadedQueueNew, AllIdle, QueueInv, PushCounter, PushedBy, In
<1>4. Contents' = <<>>
  BY <1>1, <1>2, <1>3, ContentsAfter, RowEmpty
<1> QED BY <1>2, <1>4 DEF Abstract!Create

LEMMA CallImplements ==
  ASSUME QueueInv, NEW t \in Threads, NEW r \in Requests, Call(t, r)
  PROVE  Abstract!Invoke(t, r)
<1>1. Phase[t] = "idle" /\ Phase' = [Phase EXCEPT ![t] = "pending"]
  BY PhaseEnter, InvMonitor DEF Call
<1>2. alive /\ alive' = alive /\ op' = [op EXCEPT ![t] = r] /\ ret' = ret /\ Contents' = Contents
  BY ContentsKept DEF Call, Enter, queueVars
<1> QED BY <1>1, <1>2 DEF Abstract!Invoke

LEMMA ReturnImplements ==
  ASSUME QueueInv, NEW t \in Threads, ThreadUnlock(t), UNCHANGED queueVars
  PROVE  Abstract!Return(t)
<1>1. Phase[t] = "done" /\ Phase' = [Phase EXCEPT ![t] = "idle"]
  BY PhaseReturn, InvMonitor
<1>2. /\ alive' = alive /\ Contents' = Contents
      /\ op' = [op EXCEPT ![t] = NONE] /\ ret' = [ret EXCEPT ![t] = NONE]
  BY ContentsKept DEF ThreadUnlock, queueVars
<1> QED BY <1>1, <1>2 DEF Abstract!Return

LEMMA DestroyImplements ==
  ASSUME QueueInv, NEW t \in Threads, ThreadedQueueDestroy(t)
  PROVE  Abstract!Destroy(t)
<1>1. /\ alive /\ AllIdle /\ pc' = [pc EXCEPT ![t] = "unlock"] /\ op' = op
      /\ \E xs \in {Destroyed(q), <<>>} : ret' = [ret EXCEPT ![t] = Result(TRUE, 0, xs)]
      /\ pushed = 0
  BY DEF QueueInv, PushCounter, PushedBy, In, AllIdle, ThreadedQueueDestroy
<1>2. alive' = FALSE
  BY DEF ThreadedQueueDestroy
<1>3. Contents' = <<>>
  BY <1>2 DEF Contents
<1>4. Destroyed(q) = Contents
  BY <1>1, VisitedAll, ContentsRow DEF Destroyed, GoodQueue, QueueInv
<1>5. \A u \in Threads : Phase[u] = "idle"
  BY <1>1, PhaseValue DEF AllIdle
<1>6. Phase' = [Phase EXCEPT ![t] = "done"]
  <2>1. pc'[t] = "unlock" /\ \A u \in Threads : u # t => pc'[u] = pc[u]
    BY <1>1, InvMonitor DEF MonitorTypeOK
  <2> QED BY <2>1, PhaseMoves
<1> QED BY <1>1, <1>2, <1>3, <1>4, <1>5, <1>6 DEF Abstract!Destroy, Abstract!Result, Result

\* Waiting, waking up, timing out and taking the mutex are not seen.
LEMMA StutterImplements ==
  ASSUME QueueInv, NEW t \in Threads,
         \/ UNCHANGED queueVars /\ (ThreadLock(t) \/ Reacquire(t) \/ Interrupt(t))
         \/ PopWait(t) \/ WaitEmptyWait(t)
  PROVE  UNCHANGED Abstract!vars
<1>1. UNCHANGED queueVars /\ op' = op /\ ret' = ret
  BY DEF ThreadLock, Reacquire, Interrupt, Expire, SpuriousWakeup, PopWait, WaitEmptyWait,
         ThreadWait
<1>2. \/ ThreadLock(t) \/ Reacquire(t) \/ Interrupt(t)
      \/ ((\E c : ThreadWait(t, c)) /\ pc[t] \in Holding \ {"unlock"})
  BY DEF PopWait, WaitEmptyWait, In, Holding
<1>3. Phase' = Phase
  BY <1>2, PhaseKept, InvMonitor
<1> QED BY <1>1, <1>3, ContentsKept DEF Abstract!vars, queueVars

LEMMA StepImplements ==
  QueueInv /\ [Next]_vars => [Abstract!Next]_(Abstract!vars)
<1> SUFFICES ASSUME QueueInv, [Next]_vars PROVE Abstract!Next \/ UNCHANGED Abstract!vars
  OBVIOUS
<1>1. CASE UNCHANGED vars
  BY <1>1 DEF vars, monitorVars, queueVars, Abstract!vars, Contents, Phase
<1>2. ASSUME NEW c \in InitialCapacities, ThreadedQueueNew(c) PROVE Abstract!Next
  BY <1>2, CreateImplements DEF Abstract!Next
<1>3. ASSUME NEW t \in Threads, NEW r \in Requests, Call(t, r) PROVE Abstract!Next
  BY <1>3, CallImplements DEF Abstract!Next
<1>4. ASSUME NEW t \in Threads, Quiet(t) PROVE Abstract!Next
  <2>1. \/ Abstract!GiveUp(t) \/ Abstract!Count(t) \/ Abstract!Capacity(t)
        \/ Abstract!WaitEmpty(t) \/ Abstract!Copy(t)
    BY <1>4, GiveUpImplements, LookImplements DEF Quiet
  <2> QED BY <2>1 DEF Abstract!Next
<1>5. ASSUME NEW t \in Threads, ThreadedQueuePop(t) \/ ThreadedQueuePush(t)
      PROVE  Abstract!Next
  BY <1>5, PopImplements, PushImplements DEF Abstract!Next
<1>6. ASSUME NEW t \in Threads, ThreadedQueueClear(t) \/ ThreadedQueueClearAndPush(t)
      PROVE  Abstract!Next
  BY <1>6, ClearImplements, ReplaceImplements DEF Abstract!Next
<1>7. ASSUME NEW t \in Threads, ThreadUnlock(t), UNCHANGED queueVars PROVE Abstract!Next
  BY <1>7, ReturnImplements DEF Abstract!Next
<1>8. ASSUME NEW t \in Threads, ThreadedQueueDestroy(t) PROVE Abstract!Next
  BY <1>8, DestroyImplements DEF Abstract!Next
<1>9. CASE Next
  BY <1>2, <1>3, <1>4, <1>5, <1>6, <1>7, <1>8, <1>9, NextCases, StutterImplements,
     PushStepImplements
<1> QED BY <1>1, <1>9

\* The queue implements BlockingDeque, for any number of threads and items:
\* whatever the interleaving, timeouts and wakeups, every call takes effect at
\* once, in FIFO order, with a result that the sequence of items allows.
THEOREM QueueImplements == Spec => ImplementsBlockingDeque
<1>1. Init => Abstract!Init
  <2> SUFFICES ASSUME Init PROVE Abstract!Init
    OBVIOUS
  <2>1. alive = FALSE /\ Contents = <<>>
    BY DEF Init, Contents
  <2>2. Phase = [t \in Threads |-> "idle"] /\ op = [t \in Threads |-> NONE]
        /\ ret = [t \in Threads |-> NONE]
    BY DEF Init, MonitorInit, Phase
  <2> QED BY <2>1, <2>2 DEF Abstract!Init
<1>2. QueueInv /\ [Next]_vars => [Abstract!Next]_(Abstract!vars)
  BY StepImplements
<1> QED BY <1>1, <1>2, QueueInvariant, PTL DEF Spec, ImplementsBlockingDeque, Abstract!Spec

=============================================================================
