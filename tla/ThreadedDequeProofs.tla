------------------------ MODULE ThreadedDequeProofs ------------------------
(***************************************************************************)
(* Proofs about ThreadedDeque for any number of threads and items and any  *)
(* initial capacities: the circular array, the waiting threads, and that   *)
(* the deque implements BlockingDeque.                                     *)
(***************************************************************************)
EXTENDS ThreadedDeque, MonitorProofs

-----------------------------------------------------------------------------
\* The deque as the proofs see it: its fields agree and its slots are filled.
GoodDeque(s) == DequeType(s) /\ Shape(s) /\ Stored(s)

\* What the fields of a good deque are, in plain numbers.
LEMMA DequeNumbers ==
  ASSUME NEW s, DequeType(s), Shape(s)
  PROVE  /\ s.capacity \in Nat \ {0} /\ s.left \in Nat /\ s.right \in Nat /\ s.size \in Nat
         /\ s.left < s.capacity /\ s.right < s.capacity /\ s.size <= s.capacity
         /\ s.right = s.left + s.size \/ s.right + s.capacity = s.left + s.size
BY DEF DequeType, Shape

\* The slot of the i-th item from the left: no division is left.
LEMMA SlotValue ==
  ASSUME NEW s, DequeType(s), Shape(s), NEW i \in 1..s.capacity
  PROVE  /\ LeftSlot(s, i) = IF s.left + i - 1 < s.capacity
                               THEN s.left + i - 1
                               ELSE s.left + i - 1 - s.capacity
         /\ LeftSlot(s, i) \in 0..(s.capacity - 1)
<1>1. s.left \in Nat /\ s.capacity \in Nat \ {0} /\ s.left < s.capacity
  BY DEF DequeType, Shape
<1> QED BY <1>1, RingIndex, Zenon DEF LeftSlot

\* Different items are in different slots.
LEMMA SlotsDiffer ==
  ASSUME NEW s, DequeType(s), Shape(s), NEW i \in 1..s.capacity, NEW j \in 1..s.capacity, i # j
  PROVE  LeftSlot(s, i) # LeftSlot(s, j)
<1>1. s.left \in Nat /\ s.capacity \in Nat \ {0} /\ s.left < s.capacity
  BY DEF DequeType, Shape
<1>2. LeftSlot(s, i) = IF s.left + i - 1 < s.capacity THEN s.left + i - 1
                                                      ELSE s.left + i - 1 - s.capacity
  BY SlotValue
<1>3. LeftSlot(s, j) = IF s.left + j - 1 < s.capacity THEN s.left + j - 1
                                                      ELSE s.left + j - 1 - s.capacity
  BY SlotValue
<1> QED BY <1>1, <1>2, <1>3, SMT

\* Counting from the right reaches the same slots as counting from the left.
LEMMA RightSlotValue ==
  ASSUME NEW s, DequeType(s), Shape(s), NEW i \in 1..s.size
  PROVE  /\ s.size - i + 1 \in 1..s.size
         /\ RightSlot(s, i) = LeftSlot(s, s.size - i + 1)
<1>1. /\ s.capacity \in Nat \ {0} /\ s.left \in Nat /\ s.right \in Nat /\ s.size \in Nat
      /\ s.left < s.capacity /\ s.right < s.capacity /\ s.size <= s.capacity
      /\ s.right = s.left + s.size \/ s.right + s.capacity = s.left + s.size
  BY DequeNumbers
<1> DEFINE j == s.size - i + 1
<1>2. j \in 1..s.size /\ j \in 1..s.capacity
  BY <1>1
<1>3. LeftSlot(s, j) = IF s.left + j - 1 < s.capacity THEN s.left + j - 1
                                                      ELSE s.left + j - 1 - s.capacity
  <2> HIDE DEF j
  <2> QED BY <1>2, SlotValue
<1>4. RightSlot(s, i) = LeftSlot(s, j)
  BY <1>1, <1>2, <1>3, SMT DEF RightSlot
<1> QED BY <1>2, <1>4

\* A deque from ThreadedDequeNew is well formed and empty.
LEMMA NewDequeGood ==
  ASSUME NEW c \in Nat
  PROVE  GoodDeque(NewDeque(c)) /\ NewDeque(c).size = 0
BY DequeAssumption, SMT DEF GoodDeque, DequeType, Shape, Stored, NewDeque, Values

\* After ExpandIfNecessary there is a free slot at right, and every stored item
\* is where left and the new capacity say it is.
LEMMA ExpandGood ==
  ASSUME NEW s, GoodDeque(s)
  PROVE  LET e == ExpandIfNecessary(s) IN
         /\ DequeType(e) /\ Shape(e)
         /\ e.left = s.left /\ e.size = s.size /\ e.size < e.capacity
         /\ \A i \in 1..s.size : e.data[LeftSlot(e, i)] = s.data[LeftSlot(s, i)]
<1> DEFINE full    == s.size = s.capacity
           wrapped == full /\ s.right <= s.left
           c       == IF full THEN s.capacity * EXPAND_FACTOR ELSE s.capacity
           end     == IF wrapped THEN s.right + s.capacity ELSE s.right
           moved   == [i \in 0..(c - 1) |->
                         IF i < s.capacity THEN s.data[i]
                         ELSE IF wrapped /\ i < end THEN s.data[i - s.capacity]
                         ELSE Garbage]
           e       == [s EXCEPT !.data = moved, !.capacity = c, !.right = end]
<1>e. ExpandIfNecessary(s) = e
  BY DEF ExpandIfNecessary
<1>t. DequeType(s) /\ Shape(s) /\ Stored(s)
  BY DEF GoodDeque
<1>1. /\ DOMAIN e = {"data", "left", "right", "size", "capacity"}
      /\ e.data = moved /\ e.capacity = c /\ e.right = end
      /\ e.left = s.left /\ e.size = s.size
  BY <1>t DEF DequeType
<1>n. /\ s.capacity \in Nat \ {0} /\ s.left \in Nat /\ s.right \in Nat /\ s.size \in Nat
      /\ s.left < s.capacity /\ s.right < s.capacity /\ s.size <= s.capacity
      /\ s.right = s.left + s.size \/ s.right + s.capacity = s.left + s.size
  BY <1>t, DequeNumbers
<1>2. /\ c \in Nat \ {0} /\ end \in Nat /\ end < c /\ s.capacity <= c
      /\ s.left < c /\ s.size < c
      /\ end = s.left + s.size \/ end + c = s.left + s.size
  BY <1>n, SMT DEF EXPAND_FACTOR
<1>5. moved \in [0..(c - 1) -> Values]
  <2>1. \A k \in 0..(s.capacity - 1) : s.data[k] \in Values
    BY <1>t DEF DequeType
  <2>2. ASSUME NEW j \in 0..(c - 1) PROVE moved[j] \in Values
    <3>1. CASE j < s.capacity
      <4>1. j \in 0..(s.capacity - 1) /\ moved[j] = s.data[j]
        BY <3>1, <1>n, <1>2
      <4> QED BY <4>1, <2>1
    <3>2. CASE ~(j < s.capacity) /\ wrapped /\ j < end
      <4>1. j - s.capacity \in 0..(s.capacity - 1)
        BY <3>2, <1>n, <1>2
      <4>2. moved[j] = s.data[j - s.capacity]
        BY <3>2
      <4> QED BY <4>1, <4>2, <2>1
    <3>3. CASE ~(j < s.capacity) /\ ~(wrapped /\ j < end)
      BY <3>3 DEF Values
    <3> QED BY <3>1, <3>2, <3>3
  <2> QED BY <2>2
<1>8. DequeType(e)
  BY <1>1, <1>2, <1>5, <1>n DEF DequeType
<1>s. Shape(e) /\ e.size < e.capacity
  BY <1>1, <1>2, <1>n DEF Shape
<1>9. ASSUME NEW i \in 1..s.size
      PROVE  moved[LeftSlot(e, i)] = s.data[LeftSlot(s, i)]
  <2>1. i \in 1..s.capacity /\ i \in 1..c
    BY <1>n, <1>2, SMT
  <2>2. LeftSlot(s, i) = IF s.left + i - 1 < s.capacity THEN s.left + i - 1
                         ELSE s.left + i - 1 - s.capacity
    BY <2>1, <1>t, SlotValue
  <2>3. LeftSlot(e, i) = (s.left + i - 1) % c
    BY <1>1 DEF LeftSlot
  <2>4. /\ LeftSlot(e, i) = IF s.left + i - 1 < c THEN s.left + i - 1
                                                  ELSE s.left + i - 1 - c
        /\ LeftSlot(e, i) \in 0..(c - 1)
    <3>1. s.left \in Nat /\ c \in Nat \ {0} /\ i \in 1..c /\ s.left < c
      BY <2>1, <1>2, <1>n
    <3> HIDE DEF c, e
    <3>2. /\ (s.left + i - 1) % c = IF s.left + i - 1 < c THEN s.left + i - 1
                                                     ELSE s.left + i - 1 - c
          /\ (s.left + i - 1) % c \in 0..(c - 1)
      BY <3>1, RingIndex, Zenon
    <3> QED BY <2>3, <3>2, Zenon
  <2>m. ASSUME NEW k \in 0..(c - 1), k < s.capacity PROVE moved[k] = s.data[k]
    BY <2>m
  <2>5. CASE ~full
    <3>1. LeftSlot(e, i) = LeftSlot(s, i) /\ LeftSlot(e, i) < s.capacity
      BY <2>1, <2>2, <2>4, <2>5, <1>n, SMT
    <3> HIDE DEF moved, c, e
    <3> QED BY <3>1, <2>4, <2>m
  <2>6. CASE full /\ s.left + i - 1 < s.capacity
    <3>1. LeftSlot(e, i) = LeftSlot(s, i) /\ LeftSlot(e, i) < s.capacity
      BY <2>1, <2>2, <2>4, <2>6, <1>2, <1>n, SMT
    <3> HIDE DEF moved, c, e
    <3> QED BY <3>1, <2>4, <2>m
  <2>7. CASE full /\ ~(s.left + i - 1 < s.capacity)
    <3>1. wrapped /\ s.right = s.left
      BY <2>1, <2>7, <1>n, SMT
    <3>2. LeftSlot(e, i) = s.left + i - 1 /\ LeftSlot(s, i) = s.left + i - 1 - s.capacity
      BY <2>1, <2>2, <2>4, <2>7, <1>n, SMT DEF EXPAND_FACTOR
    <3>3. s.left + i - 1 < end /\ s.left + i - 1 \in 0..(c - 1)
      BY <3>1, <2>1, <2>7, <1>n, SMT DEF EXPAND_FACTOR
    <3>4. moved[s.left + i - 1] = s.data[s.left + i - 1 - s.capacity]
      BY <3>1, <3>3, <2>7, <1>n, SMT
    <3> QED BY <3>2, <3>4
  <2> QED BY <2>5, <2>6, <2>7
<1> HIDE DEF c, end, moved, e
<1> QED BY <1>e, <1>1, <1>s, <1>8, <1>9

\* Pushing at the right keeps the deque well formed; the items that were there
\* keep their positions and the new one comes last.
LEMMA PushRightGood ==
  ASSUME NEW s, GoodDeque(s), NEW x \in Items
  PROVE  LET p == PushRight(s, x) IN
         /\ GoodDeque(p)
         /\ p.size = s.size + 1
         /\ \A i \in 1..s.size : p.data[LeftSlot(p, i)] = s.data[LeftSlot(s, i)]
         /\ p.data[LeftSlot(p, s.size + 1)] = x
<1> DEFINE e == ExpandIfNecessary(s)
           p == PushRight(s, x)
<1>1. /\ DequeType(e) /\ Shape(e)
      /\ e.left = s.left /\ e.size = s.size /\ e.size < e.capacity
      /\ \A i \in 1..s.size : e.data[LeftSlot(e, i)] = s.data[LeftSlot(s, i)]
  BY ExpandGood
<1>2. /\ DOMAIN p = {"data", "left", "right", "size", "capacity"}
      /\ p.data = [e.data EXCEPT ![e.right] = x]
      /\ p.right = (e.right + 1) % e.capacity /\ p.size = e.size + 1
      /\ p.left = e.left /\ p.capacity = e.capacity
  <2> HIDE DEF e
  <2>1. p = [e EXCEPT !.data  = [e.data EXCEPT ![e.right] = x],
                      !.right = (e.right + 1) % e.capacity,
                      !.size  = e.size + 1]
    BY DEF PushRight, e
  <2> QED BY <2>1, <1>1 DEF DequeType
<1> HIDE DEF e, p
<1>n. /\ e.capacity \in Nat \ {0} /\ e.left \in Nat /\ e.right \in Nat /\ e.size \in Nat
      /\ e.left < e.capacity /\ e.right < e.capacity /\ e.size < e.capacity
      /\ e.right = e.left + e.size \/ e.right + e.capacity = e.left + e.size
  BY <1>1, DequeNumbers
<1>r. p.right = IF e.right + 1 < e.capacity THEN e.right + 1 ELSE e.right + 1 - e.capacity
  <2>1. 1 \in 0..e.capacity
    BY <1>n
  <2> QED BY <2>1, <1>2, <1>n, RingAdvance
<1>3. DequeType(p) /\ Shape(p)
  <2>1. x \in Values
    BY DEF Values
  <2>2. p.data \in [0..(p.capacity - 1) -> Values]
    BY <2>1, <1>1, <1>2 DEF DequeType
  <2>3. /\ p.left \in Nat /\ p.right \in Nat /\ p.size \in Nat
        /\ p.capacity \in Nat \ {0}
    BY <1>r, <1>2, <1>n, SMT
  <2>4. p.left < p.capacity /\ p.right < p.capacity /\ p.size <= p.capacity
    BY <1>r, <1>2, <1>n, SMT
  <2>5. p.right = p.left + p.size \/ p.right + p.capacity = p.left + p.size
    <3>1. CASE e.right = e.left + e.size
      BY <3>1, <1>r, <1>2, <1>n, SMT
    <3>2. CASE e.right + e.capacity = e.left + e.size
      <4>1. e.right + 1 < e.capacity
        BY <3>2, <1>n, SMT
      <4>2. p.right = e.right + 1
        BY <4>1, <1>r
      <4> QED BY <4>2, <3>2, <1>2, <1>n, SMT
    <3> QED BY <3>1, <3>2, <1>n
  <2> QED BY <2>2, <2>3, <2>4, <2>5, <1>2 DEF DequeType, Shape
<1>4. ASSUME NEW i \in 1..e.capacity
      PROVE  /\ LeftSlot(p, i) = IF e.left + i - 1 < e.capacity
                                   THEN e.left + i - 1
                                   ELSE e.left + i - 1 - e.capacity
             /\ LeftSlot(p, i) = LeftSlot(e, i)
             /\ LeftSlot(p, i) \in 0..(e.capacity - 1)
  BY <1>2, <1>3, SlotValue, Zenon DEF LeftSlot
<1>5. s.size + 1 \in 1..e.capacity /\ p.size = s.size + 1
  BY <1>1, <1>2, <1>n, SMT
<1>6. LeftSlot(p, s.size + 1) = e.right
  <2>1. LeftSlot(p, s.size + 1) = IF e.left + (s.size + 1) - 1 < e.capacity
                                    THEN e.left + (s.size + 1) - 1
                                    ELSE e.left + (s.size + 1) - 1 - e.capacity
    BY <1>4, <1>5
  <2> QED BY <2>1, <1>1, <1>n, SMT
<1>7. p.data[LeftSlot(p, s.size + 1)] = x
  BY <1>1, <1>2, <1>6, <1>n, SMT DEF DequeType
<1>8. ASSUME NEW i \in 1..s.size
      PROVE  p.data[LeftSlot(p, i)] = s.data[LeftSlot(s, i)]
  <2>1. i \in 1..e.capacity /\ i \in 1..e.size
    BY <1>1, <1>n, SMT
  <2>2. LeftSlot(p, i) # e.right
    <3>1. LeftSlot(p, i) = IF e.left + i - 1 < e.capacity THEN e.left + i - 1
                                                          ELSE e.left + i - 1 - e.capacity
      BY <2>1, <1>4
    <3> QED BY <3>1, <2>1, <1>n, SMT
  <2>3. p.data[LeftSlot(p, i)] = e.data[LeftSlot(e, i)]
    BY <2>1, <2>2, <1>1, <1>2, <1>4 DEF DequeType
  <2> QED BY <2>3, <1>1
<1>9. Stored(p)
  <2> SUFFICES ASSUME NEW i \in 1..p.size PROVE p.data[LeftSlot(p, i)] \in Items
    BY DEF Stored
  <2>1. CASE i = s.size + 1
    BY <2>1, <1>7
  <2>2. CASE i # s.size + 1
    <3>1. i \in 1..s.size
      BY <2>2, <1>1, <1>2, <1>n, SMT
    <3> QED BY <3>1, <1>8 DEF GoodDeque, Stored
  <2> QED BY <2>1, <2>2
<1> QED BY <1>3, <1>5, <1>7, <1>8, <1>9 DEF GoodDeque, p

\* Pushing at the left keeps the deque well formed; the new item comes first
\* and the others move up by one.
LEMMA PushLeftGood ==
  ASSUME NEW s, GoodDeque(s), NEW x \in Items
  PROVE  LET p == PushLeft(s, x) IN
         /\ GoodDeque(p)
         /\ p.size = s.size + 1
         /\ \A i \in 1..s.size : p.data[LeftSlot(p, i + 1)] = s.data[LeftSlot(s, i)]
         /\ p.data[LeftSlot(p, 1)] = x
<1> DEFINE e == ExpandIfNecessary(s)
           l == Before(e, e.left)
           p == PushLeft(s, x)
<1>1. /\ DequeType(e) /\ Shape(e)
      /\ e.left = s.left /\ e.size = s.size /\ e.size < e.capacity
      /\ \A i \in 1..s.size : e.data[LeftSlot(e, i)] = s.data[LeftSlot(s, i)]
  BY ExpandGood
<1>2. /\ DOMAIN p = {"data", "left", "right", "size", "capacity"}
      /\ p.data = [e.data EXCEPT ![l] = x]
      /\ p.left = l /\ p.size = e.size + 1
      /\ p.right = e.right /\ p.capacity = e.capacity
  <2> HIDE DEF e
  <2>1. p = [e EXCEPT !.data = [e.data EXCEPT ![l] = x], !.left = l, !.size = e.size + 1]
    BY DEF PushLeft, e
  <2> HIDE DEF l
  <2> QED BY <2>1, <1>1 DEF DequeType
<1> HIDE DEF e
<1>n. /\ e.capacity \in Nat \ {0} /\ e.left \in Nat /\ e.right \in Nat /\ e.size \in Nat
      /\ e.left < e.capacity /\ e.right < e.capacity /\ e.size < e.capacity
      /\ e.right = e.left + e.size \/ e.right + e.capacity = e.left + e.size
  BY <1>1, DequeNumbers
<1>l. l = (IF e.left = 0 THEN e.capacity - 1 ELSE e.left - 1)
  BY DEF Before
<1> HIDE DEF l, p
<1>3. DequeType(p) /\ Shape(p)
  <2>1. x \in Values
    BY DEF Values
  <2>2. p.data \in [0..(p.capacity - 1) -> Values]
    BY <2>1, <1>1, <1>2 DEF DequeType
  <2>3. /\ p.left \in Nat /\ p.right \in Nat /\ p.size \in Nat
        /\ p.capacity \in Nat \ {0}
    BY <1>l, <1>2, <1>n, SMT
  <2>4. p.left < p.capacity /\ p.right < p.capacity /\ p.size <= p.capacity
    BY <1>l, <1>2, <1>n, SMT
  <2>5. p.right = p.left + p.size \/ p.right + p.capacity = p.left + p.size
    BY <1>l, <1>2, <1>n, SMT
  <2> QED BY <2>2, <2>3, <2>4, <2>5, <1>2 DEF DequeType, Shape
<1>4. ASSUME NEW i \in 1..e.capacity
      PROVE  LeftSlot(p, i) = IF l + i - 1 < e.capacity THEN l + i - 1
                                                        ELSE l + i - 1 - e.capacity
  BY <1>2, <1>3, SlotValue, Zenon
<1>5. p.size = s.size + 1 /\ 1 \in 1..e.capacity
  BY <1>1, <1>2, <1>n, SMT
<1>6. LeftSlot(p, 1) = l
  BY <1>4, <1>5, <1>l, <1>n, SMT
<1>7. p.data[LeftSlot(p, 1)] = x
  BY <1>1, <1>2, <1>6, <1>n, <1>l, SMT DEF DequeType
<1>8. ASSUME NEW i \in 1..s.size
      PROVE  p.data[LeftSlot(p, i + 1)] = s.data[LeftSlot(s, i)]
  <2>1. i \in 1..e.capacity /\ i \in 1..e.size /\ i + 1 \in 1..e.capacity
    BY <1>1, <1>n, SMT
  <2>2. /\ LeftSlot(e, i) = IF e.left + i - 1 < e.capacity THEN e.left + i - 1
                                                           ELSE e.left + i - 1 - e.capacity
        /\ LeftSlot(e, i) \in 0..(e.capacity - 1)
    BY <2>1, <1>1, SlotValue
  <2>3. LeftSlot(p, i + 1) = IF l + (i + 1) - 1 < e.capacity THEN l + (i + 1) - 1
                                                             ELSE l + (i + 1) - 1 - e.capacity
    BY <2>1, <1>4
  <2>4. LeftSlot(p, i + 1) = LeftSlot(e, i)
    BY <2>1, <2>2, <2>3, <1>l, <1>n, SMT
  <2>5. LeftSlot(e, i) # l
    BY <2>1, <2>2, <1>l, <1>n, SMT
  <2>6. p.data[LeftSlot(p, i + 1)] = e.data[LeftSlot(e, i)]
    BY <2>2, <2>4, <2>5, <1>1, <1>2 DEF DequeType
  <2> QED BY <2>6, <1>1
<1>9. Stored(p)
  <2> SUFFICES ASSUME NEW i \in 1..p.size PROVE p.data[LeftSlot(p, i)] \in Items
    BY DEF Stored
  <2>1. CASE i = 1
    BY <2>1, <1>7
  <2>2. CASE i # 1
    <3>1. i - 1 \in 1..s.size /\ (i - 1) + 1 = i
      BY <2>2, <1>1, <1>2, <1>n, SMT
    <3>2. p.data[LeftSlot(p, (i - 1) + 1)] \in Items
      BY <3>1, <1>8 DEF GoodDeque, Stored
    <3> QED BY <3>1, <3>2
  <2> QED BY <2>1, <2>2
<1> QED BY <1>3, <1>5, <1>7, <1>8, <1>9 DEF GoodDeque, p

\* Taking n items from the left keeps the deque well formed, and the others
\* move up by n.
LEMMA DropLeftGood ==
  ASSUME NEW s, GoodDeque(s), NEW n \in 0..s.size
  PROVE  LET p == DropLeft(s, n) IN
         /\ GoodDeque(p)
         /\ p.size = s.size - n
         /\ \A i \in 1..p.size : p.data[LeftSlot(p, i)] = s.data[LeftSlot(s, i + n)]
<1> DEFINE slots == {LeftSlot(s, i) : i \in 1..n}
           data  == Reset(s.data, slots)
           p     == DropLeft(s, n)
<1>t. DequeType(s) /\ Shape(s) /\ Stored(s)
  BY DEF GoodDeque
<1>1. /\ DOMAIN p = {"data", "left", "right", "size", "capacity"}
      /\ p.data = data
      /\ p.right = s.right /\ p.size = s.size - n
      /\ p.left = (s.left + n) % s.capacity /\ p.capacity = s.capacity
  BY <1>t DEF DequeType, DropLeft
<1> HIDE DEF p
<1>n. /\ s.capacity \in Nat \ {0} /\ s.left \in Nat /\ s.right \in Nat /\ s.size \in Nat
      /\ s.left < s.capacity /\ s.right < s.capacity /\ s.size <= s.capacity
      /\ s.right = s.left + s.size \/ s.right + s.capacity = s.left + s.size
      /\ n \in Nat /\ n <= s.size /\ n \in 0..s.capacity
  BY <1>t, DequeNumbers
<1>2. p.left = IF s.left + n < s.capacity THEN s.left + n ELSE s.left + n - s.capacity
  BY <1>1, <1>n, RingAdvance
<1>3. data \in [0..(s.capacity - 1) -> Values]
  BY <1>t DEF DequeType, Values, Reset
<1>4. DequeType(p) /\ Shape(p)
  <2> HIDE DEF data
  <2>1. /\ p.left \in Nat /\ p.right \in Nat /\ p.size \in Nat
        /\ p.capacity \in Nat \ {0}
        /\ p.left < p.capacity /\ p.right < p.capacity /\ p.size <= p.capacity
    BY <1>1, <1>2, <1>n, SMT
  <2>2. p.right = p.left + p.size \/ p.right + p.capacity = p.left + p.size
    <3>1. p.right = s.right /\ p.size = s.size - n /\ p.capacity = s.capacity
      BY <1>1
    <3>2. CASE s.left + n < s.capacity
      <4>1. p.left = s.left + n
        BY <3>2, <1>2
      <4> QED BY <4>1, <3>1, <1>n
    <3>3. CASE ~(s.left + n < s.capacity)
      <4>1. p.left = s.left + n - s.capacity
        BY <3>3, <1>2
      <4>2. s.right + s.capacity = s.left + s.size
        BY <3>3, <1>n
      <4>3. s.right = s.left + s.size - s.capacity
        BY <4>2, <1>n
      <4>4. p.left + p.size = s.left + s.size - s.capacity
        BY <4>1, <3>1, <1>n
      <4> QED BY <4>3, <4>4, <3>1
    <3> QED BY <3>2, <3>3
  <2> QED BY <2>1, <2>2, <1>1, <1>3 DEF DequeType, Shape
<1>6. ASSUME NEW i \in 1..p.size
      PROVE  p.data[LeftSlot(p, i)] = s.data[LeftSlot(s, i + n)]
  <2>1. i \in 1..p.capacity /\ i + n \in 1..s.capacity
    BY <1>n, <1>1, SMT
  <2>2. LeftSlot(p, i) = IF p.left + i - 1 < p.capacity
                           THEN p.left + i - 1
                           ELSE p.left + i - 1 - p.capacity
    BY <1>4, <2>1, SlotValue
  <2>s. /\ LeftSlot(s, i + n) = IF s.left + (i + n) - 1 < s.capacity
                                  THEN s.left + (i + n) - 1
                                  ELSE s.left + (i + n) - 1 - s.capacity
        /\ LeftSlot(s, i + n) \in 0..(s.capacity - 1)
    BY <2>1, <1>t, SlotValue
  <2>3. LeftSlot(p, i) = LeftSlot(s, i + n)
    <3>1. CASE s.left + n < s.capacity
      <4>1. p.left = s.left + n /\ p.capacity = s.capacity
        BY <3>1, <1>1, <1>2
      <4> QED BY <4>1, <2>1, <2>2, <2>s, <1>n, SMT
    <3>2. CASE ~(s.left + n < s.capacity)
      <4>1. p.left = s.left + n - s.capacity /\ p.capacity = s.capacity
        BY <3>2, <1>1, <1>2
      <4> QED BY <4>1, <3>2, <2>1, <2>2, <2>s, <1>n, SMT
    <3> QED BY <3>1, <3>2
  <2>4. ASSUME NEW k \in 1..n PROVE LeftSlot(s, k) # LeftSlot(s, i + n)
    <3>1. k \in 1..s.capacity /\ k # i + n
      BY <1>n
    <3> QED BY <3>1, <2>1, <1>t, SlotsDiffer
  <2>5. LeftSlot(s, i + n) \in DOMAIN s.data
    BY <2>s, <1>t DEF DequeType
  <2> QED BY <2>3, <2>4, <2>5, <1>1 DEF Reset
<1>7. Stored(p)
  <2> SUFFICES ASSUME NEW i \in 1..p.size PROVE p.data[LeftSlot(p, i)] \in Items
    BY DEF Stored
  <2>1. i + n \in 1..s.size
    BY <1>n, <1>1, SMT
  <2> QED BY <2>1, <1>6, <1>t DEF Stored
<1> QED BY <1>1, <1>4, <1>6, <1>7 DEF GoodDeque, p

\* Taking n items from the right keeps the deque well formed, and the others
\* where they were.
LEMMA DropRightGood ==
  ASSUME NEW s, GoodDeque(s), NEW n \in 0..s.size
  PROVE  LET p == DropRight(s, n) IN
         /\ GoodDeque(p)
         /\ p.size = s.size - n
         /\ \A i \in 1..p.size : p.data[LeftSlot(p, i)] = s.data[LeftSlot(s, i)]
<1> DEFINE slots == {RightSlot(s, i) : i \in 1..n}
           data  == Reset(s.data, slots)
           p     == DropRight(s, n)
<1>t. DequeType(s) /\ Shape(s) /\ Stored(s)
  BY DEF GoodDeque
<1>1. /\ DOMAIN p = {"data", "left", "right", "size", "capacity"}
      /\ p.data = data
      /\ p.left = s.left /\ p.size = s.size - n
      /\ p.right = IF n = 0 THEN s.right ELSE RightSlot(s, n)
      /\ p.capacity = s.capacity
  BY <1>t DEF DequeType, DropRight
<1> HIDE DEF p
<1>n. /\ s.capacity \in Nat \ {0} /\ s.left \in Nat /\ s.right \in Nat /\ s.size \in Nat
      /\ s.left < s.capacity /\ s.right < s.capacity /\ s.size <= s.capacity
      /\ s.right = s.left + s.size \/ s.right + s.capacity = s.left + s.size
      /\ n \in Nat /\ n <= s.size /\ n \in 0..s.capacity
  BY <1>t, DequeNumbers
<1>2. p.right = IF s.right >= n THEN s.right - n ELSE s.right + s.capacity - n
  BY <1>1, <1>n, SMT DEF RightSlot
<1>3. data \in [0..(s.capacity - 1) -> Values]
  BY <1>t DEF DequeType, Values, Reset
<1>4. DequeType(p) /\ Shape(p)
  <2> HIDE DEF data
  <2>1. /\ p.left \in Nat /\ p.right \in Nat /\ p.size \in Nat
        /\ p.capacity \in Nat \ {0}
        /\ p.left < p.capacity /\ p.right < p.capacity /\ p.size <= p.capacity
    BY <1>1, <1>2, <1>n, SMT
  <2>2. p.right = p.left + p.size \/ p.right + p.capacity = p.left + p.size
    <3>1. CASE s.right >= n
      BY <3>1, <1>1, <1>2, <1>n, SMT
    <3>2. CASE ~(s.right >= n)
      <4>1. p.right = s.right + s.capacity - n
        BY <3>2, <1>2
      <4> QED BY <4>1, <3>2, <1>1, <1>n, SMT
    <3> QED BY <3>1, <3>2
  <2> QED BY <2>1, <2>2, <1>1, <1>3 DEF DequeType, Shape
<1>6. ASSUME NEW i \in 1..p.size
      PROVE  p.data[LeftSlot(p, i)] = s.data[LeftSlot(s, i)]
  <2>1. i \in 1..s.capacity
    BY <1>n, <1>1, SMT
  <2>2. LeftSlot(p, i) = LeftSlot(s, i)
    BY <1>1 DEF LeftSlot
  <2>4. ASSUME NEW k \in 1..n PROVE RightSlot(s, k) # LeftSlot(s, i)
    <3>1. k \in 1..s.size
      BY <1>n
    <3>2. s.size - k + 1 \in 1..s.size /\ RightSlot(s, k) = LeftSlot(s, s.size - k + 1)
      BY <3>1, <1>t, RightSlotValue
    <3>3. s.size - k + 1 \in 1..s.capacity /\ s.size - k + 1 # i
      BY <3>2, <1>n, <1>1, SMT
    <3> QED BY <3>2, <3>3, <2>1, <1>t, SlotsDiffer
  <2>5. LeftSlot(s, i) \in DOMAIN s.data
    BY <2>1, <1>t, SlotValue DEF DequeType
  <2> QED BY <2>2, <2>4, <2>5, <1>1 DEF Reset
<1>7. Stored(p)
  <2> SUFFICES ASSUME NEW i \in 1..p.size PROVE p.data[LeftSlot(p, i)] \in Items
    BY DEF Stored
  <2>1. i \in 1..s.size
    BY <1>n, <1>1, SMT
  <2> QED BY <2>1, <1>6, <1>t DEF Stored
<1> QED BY <1>1, <1>4, <1>6, <1>7 DEF GoodDeque, p

\* DestroyRange(left, right) visits exactly the stored items.
LEMMA VisitedAll ==
  ASSUME NEW s, DequeType(s), Shape(s)
  PROVE  Visited(s) = s.size
BY DequeNumbers, SMT DEF Visited

-----------------------------------------------------------------------------
(***************************************************************************)
(* Calls.                                                                  *)
(***************************************************************************)

\* What a request of each kind carries.
LEMMA RequestFields ==
  ASSUME NEW r \in Requests
  PROVE  /\ r.kind = "push" => \E x \in Items : r.items = <<x>>
         /\ r.kind = "pop" => r.num \in PopCounts \cup {1} /\ r.num \in Nat
         /\ r.side \in Sides
<1>1. r \in Pops \/ r \in Pushes \/ r \in WaitEmptys \/ r \in Others
  BY DEF Requests
<1>2. CASE r \in Pops
  <2>1. r.kind = "pop" /\ r.num \in PopCounts \cup {1} /\ r.side \in Sides
    BY <1>2 DEF Pops, Request
  <2>2. r.num \in Nat
    <3>1. 1 \in Nat
      OBVIOUS
    <3> QED BY <2>1, <3>1, DequeAssumption, Zenon
  <2> QED BY <2>1, <2>2
<1>3. CASE r \in Pushes
  <2>1. PICK e \in Sides, x \in Items : r = Request("push", e, <<x>>, 0, "none")
    BY <1>3 DEF Pushes
  <2> QED BY <2>1 DEF Request
<1>4. CASE r \in WaitEmptys
  BY <1>4 DEF WaitEmptys, Request, Sides
<1>5. CASE r \in Others
  BY <1>5 DEF Others, Request, Sides
<1> QED BY <1>1, <1>2, <1>3, <1>4, <1>5

-----------------------------------------------------------------------------
(***************************************************************************)
(* The inductive invariant.                                                *)
(***************************************************************************)

\* A thread that is inside a call has a request, and the deque exists.
CallsKnown ==
  \A t \in Threads : pc[t] \notin {"idle", "unlock"} => op[t] \in Requests /\ alive

\* Nobody waits for an empty deque to become empty.
EmptyReleased == d.size = 0 => Waiters("empty") = {}

DequeInv ==
  /\ TypeOK
  /\ MutualExclusion
  /\ GoodDeque(d)
  /\ CallsKnown
  /\ WaitsKnown
  /\ EmptyReleased

\* What the invariant says of the monitor, for the lemmas of MonitorProofs.
LEMMA InvMonitor ==
  DequeInv => /\ MonitorInv /\ MonitorTypeOK /\ WaitsKnown
              /\ DOMAIN op = Threads /\ DOMAIN ret = Threads
              /\ GoodDeque(d) /\ DequeType(d) /\ Shape(d) /\ d.size \in Nat
BY DEF DequeInv, TypeOK, MonitorInv, GoodDeque, DequeType

\* What a thread in the critical section of a call has.
LEMMA InCall ==
  ASSUME DequeInv, NEW t \in Threads, NEW k, In(t, k)
  PROVE  /\ pc[t] \in Holding /\ pc[t] # "unlock" /\ pc[t] # "idle"
         /\ op[t] \in Requests /\ op[t].kind = k /\ alive
BY DEF DequeInv, CallsKnown, In, Holding

\* The invariant holds of the initial state.
LEMMA DequeInit == Init => DequeInv
<1> SUFFICES ASSUME Init PROVE DequeInv
  OBVIOUS
<1>1. MonitorInv
  BY MonitorInitOK DEF Init
<1>2. GoodDeque(d) /\ alive = FALSE
  BY NewDequeGood DEF Init
<1>3. pc = [t \in Threads |-> "idle"] /\ op = [t \in Threads |-> NONE]
      /\ DOMAIN ret = Threads
  BY DEF Init, MonitorInit
<1>4. TypeOK
  <2>1. alive \in BOOLEAN
    BY <1>2, Zenon
  <2>2. op \in [Threads -> Requests \cup {NONE}]
    BY <1>3
  <2> QED BY <1>1, <1>2, <1>3, <2>1, <2>2, Zenon DEF TypeOK, MonitorInv, GoodDeque
<1> QED BY <1>1, <1>2, <1>3, <1>4
        DEF DequeInv, MonitorInv, CallsKnown, WaitsKnown, EmptyReleased, Waiters

\* Steps that change only the monitor and the calls.
LEMMA MonitorStep ==
  ASSUME DequeInv, NEW t \in Threads, UNCHANGED dequeVars,
         \/ ThreadLock(t) \/ Reacquire(t) \/ ThreadUnlock(t) \/ Interrupt(t)
  PROVE  DequeInv'
<1>1. MonitorInv'
  BY ThreadLockOK, ReacquireOK, ThreadUnlockOK, InterruptOK, InvMonitor
<1>2. d' = d /\ alive' = alive
  BY DEF dequeVars
<1>3. op' \in [Threads -> Requests \cup {NONE}] /\ DOMAIN ret' = Threads
  BY DEF DequeInv, TypeOK, ThreadLock, Reacquire, ThreadUnlock, Interrupt,
         Expire, SpuriousWakeup
<1>4. TypeOK'
  BY <1>1, <1>2, <1>3 DEF TypeOK, MonitorInv, DequeInv
<1>5. CallsKnown'
  BY <1>2 DEF DequeInv, CallsKnown, TypeOK, MonitorTypeOK, ThreadLock, Reacquire,
              ThreadUnlock, Interrupt, Expire, SpuriousWakeup
<1>6. WaitsKnown'
  BY AdvanceWaits, InvMonitor
<1>7. EmptyReleased'
  BY <1>2 DEF DequeInv, EmptyReleased, Waiters, TypeOK, MonitorTypeOK,
              ThreadLock, Reacquire, ThreadUnlock, Interrupt, Expire, SpuriousWakeup
<1> QED BY <1>1, <1>2, <1>4, <1>5, <1>6, <1>7 DEF DequeInv, MonitorInv

\* Blocking on a condition: never on cond_empty while the deque is empty.
LEMMA WaitStep ==
  ASSUME DequeInv, NEW t \in Threads, NEW k \in {"pop", "wait_empty"}, In(t, k),
         NEW c \in Conds, ThreadWait(t, c), UNCHANGED dequeVars,
         c = "empty" => d.size # 0, c = "non_empty" => k = "pop"
  PROVE  DequeInv'
<1>0. pc[t] \in Holding /\ op[t].kind = k /\ op[t] \in Requests /\ alive
  BY InCall
<1>1. MonitorInv'
  BY <1>0, ThreadWaitOK, InvMonitor
<1>2. d' = d /\ alive' = alive /\ op' = op /\ ret' = ret
      /\ pc' = [pc EXCEPT ![t] = "wait"] /\ cond' = [cond EXCEPT ![t] = c]
  BY DEF dequeVars, ThreadWait
<1>4. TypeOK'
  BY <1>1, <1>2 DEF TypeOK, MonitorInv, DequeInv
<1>5. CallsKnown'
  BY <1>0, <1>2 DEF DequeInv, CallsKnown, TypeOK, MonitorTypeOK
<1>6. WaitsKnown'
  BY <1>0, ThreadWaitWaits, InvMonitor
<1>7. EmptyReleased'
  BY <1>2 DEF DequeInv, EmptyReleased, Waiters, TypeOK, MonitorTypeOK
<1> QED BY <1>1, <1>2, <1>4, <1>5, <1>6, <1>7 DEF DequeInv, MonitorInv

\* The end of a critical section keeps the invariant, provided the deque is
\* well formed and, if it is empty, every thread in WaitEmpty is woken.
LEMMA FinishStep ==
  ASSUME DequeInv, NEW t \in Threads, pc[t] \in Holding,
         NEW result, NEW woken, NEW c, woken \subseteq Waiters(c),
         Finish(t, result, woken),
         alive' = alive, GoodDeque(d'),
         d'.size = 0 => Waiters("empty") \subseteq woken
  PROVE  DequeInv'
<1>1. MonitorInv'
  BY FinishOK, InvMonitor
<1>2. op' = op /\ pc' = [u \in Threads |-> IF u = t THEN "unlock"
                                            ELSE IF u \in woken THEN "woken" ELSE pc[u]]
      /\ cond' = [u \in Threads |-> IF u \in woken THEN "none" ELSE cond[u]]
      /\ DOMAIN ret' = DOMAIN ret
  BY DEF Finish
<1>3. TypeOK'
  BY <1>1, <1>2 DEF TypeOK, MonitorInv, DequeInv, GoodDeque
<1>4. CallsKnown'
  BY <1>2 DEF DequeInv, CallsKnown, Waiters
<1>5. WaitsKnown'
  BY FinishWaits, InvMonitor
<1>6. EmptyReleased'
  BY <1>2 DEF EmptyReleased, Waiters
<1> QED BY <1>1, <1>3, <1>4, <1>5, <1>6 DEF DequeInv, MonitorInv

\* Creating a deque.
LEMMA NewStep ==
  ASSUME DequeInv, NEW c \in InitialCapacities, ThreadedDequeNew(c)
  PROVE  DequeInv' /\ d'.size = 0
<1>1. MonitorInv'
  BY MonitorStutterOK, InvMonitor DEF ThreadedDequeNew
<1>2. op' = op /\ ret' = ret /\ pc' = pc /\ cond' = cond
  BY DEF ThreadedDequeNew, monitorVars
<1>3. GoodDeque(d') /\ d'.size = 0
  BY NewDequeGood, DequeAssumption DEF ThreadedDequeNew
<1>4. AllIdle /\ alive' = TRUE
  BY DEF ThreadedDequeNew
<1>6. TypeOK'
  <2>1. alive' \in BOOLEAN
    BY <1>4, Zenon
  <2> QED BY <2>1, <1>1, <1>2, <1>3 DEF TypeOK, MonitorInv, DequeInv, GoodDeque
<1> QED BY <1>1, <1>2, <1>3, <1>4, <1>6
        DEF DequeInv, MonitorInv, CallsKnown, WaitsKnown, AllIdle, EmptyReleased, Waiters

\* Entering a call.
LEMMA CallStep ==
  ASSUME DequeInv, NEW t \in Threads, NEW r \in Requests, Call(t, r)
  PROVE  DequeInv'
<1>1. MonitorInv'
  BY EnterOK, InvMonitor DEF Call
<1>2. d' = d /\ alive' = alive /\ ret' = ret /\ cond' = cond
      /\ pc' = [pc EXCEPT ![t] = "lock"] /\ op' = [op EXCEPT ![t] = r]
      /\ pc[t] = "idle" /\ alive
  BY DEF Call, Enter, dequeVars
<1>3. TypeOK'
  BY <1>1, <1>2 DEF TypeOK, MonitorInv, DequeInv
<1>4. CallsKnown'
  BY <1>2 DEF DequeInv, CallsKnown, TypeOK, MonitorTypeOK
<1>5. WaitsKnown'
  BY EnterWaits, InvMonitor DEF Call
<1>6. EmptyReleased'
  BY <1>2 DEF DequeInv, EmptyReleased, Waiters, TypeOK, MonitorTypeOK
<1> QED BY <1>1, <1>2, <1>3, <1>4, <1>5, <1>6 DEF DequeInv, MonitorInv

-----------------------------------------------------------------------------
(***************************************************************************)
(* What the critical sections do to the deque.                             *)
(***************************************************************************)

\* The four pops: n items leave, and a pop that empties the deque wakes every
\* thread in WaitEmpty.
LEMMA PopEffect ==
  ASSUME DequeInv, NEW t \in Threads,
         ThreadedDequePopLeft(t) \/ ThreadedDequePopRight(t)
  PROVE  /\ In(t, "pop") /\ alive' = alive
         /\ PopCount(t) \in 0..d.size
         /\ d.size > 0 /\ op[t].num # 0 => PopCount(t) > 0
         /\ GoodDeque(d') /\ d'.size = d.size - PopCount(t)
         /\ \E result, woken : /\ Finish(t, result, woken)
                               /\ woken \subseteq Waiters("empty")
                               /\ d'.size = 0 => Waiters("empty") \subseteq woken
<1> DEFINE n == PopCount(t)
<1>1. In(t, "pop") /\ alive' = alive
  BY DEF ThreadedDequePopLeft, ThreadedDequePopRight, PopFinish
<1>2. op[t].num \in Nat /\ d.size \in Nat
  BY <1>1, InCall, RequestFields, InvMonitor
<1>3. n \in 0..d.size /\ (d.size > 0 /\ op[t].num # 0 => n > 0)
  BY <1>2 DEF PopCount
<1>4. d' = DropLeft(d, n) \/ d' = DropRight(d, n)
  BY DEF ThreadedDequePopLeft, ThreadedDequePopRight
<1>5. PICK xs : PopFinish(t, n, xs)
  BY DEF ThreadedDequePopLeft, ThreadedDequePopRight
<1> HIDE DEF n
<1>6. GoodDeque(d') /\ d'.size = d.size - n
  BY <1>3, <1>4, DropLeftGood, DropRightGood, InvMonitor
<1> DEFINE woken  == IF d.size = n THEN Broadcast("empty") ELSE {}
           result == Result(d.size > 0, n, xs)
<1>7. Finish(t, result, woken) /\ woken \subseteq Waiters("empty")
  BY <1>5 DEF PopFinish, Broadcast
<1>8. d'.size = 0 => Waiters("empty") \subseteq woken
  BY <1>2, <1>3, <1>6 DEF Broadcast
<1> HIDE DEF woken, result
<1> QED BY <1>1, <1>3, <1>6, <1>7, <1>8 DEF n

\* The two pushes: one item more, and one consumer is signalled.
LEMMA PushEffect ==
  ASSUME DequeInv, NEW t \in Threads,
         ThreadedDequePushLeft(t) \/ ThreadedDequePushRight(t)
  PROVE  /\ In(t, "push") /\ alive' = alive
         /\ GoodDeque(d') /\ d'.size = d.size + 1
         /\ \E result, woken : woken \in Signal("non_empty") /\ Finish(t, result, woken)
<1>1. In(t, "push") /\ alive' = alive
  BY DEF ThreadedDequePushLeft, ThreadedDequePushRight, PushFinish
<1>2. op[t].items[1] \in Items
  <2>1. PICK x \in Items : op[t].items = <<x>>
    BY <1>1, InCall, RequestFields
  <2> QED BY <2>1
<1>3. \/ d' = PushLeft(d, op[t].items[1]) \/ d' = PushRight(d, op[t].items[1])
  BY DEF ThreadedDequePushLeft, ThreadedDequePushRight
<1>4. GoodDeque(d') /\ d'.size = d.size + 1
  BY <1>2, <1>3, PushLeftGood, PushRightGood, InvMonitor
<1>5. \E result, woken : woken \in Signal("non_empty") /\ Finish(t, result, woken)
  BY DEF ThreadedDequePushLeft, ThreadedDequePushRight, PushFinish
<1> QED BY <1>1, <1>4, <1>5

\* Critical sections that only look at the deque, and the early return of a
\* timeout.
Quiet(t) ==
  \/ ThreadedDequeCount(t) \/ ThreadedDequeCapacity(t) \/ ThreadedDequeWaitEmpty(t)
  \/ ThreadedDequeCopy(t) \/ (GiveUp(t) /\ UNCHANGED dequeVars)

LEMMA QuietEffect ==
  ASSUME NEW t \in Threads, Quiet(t)
  PROVE  /\ pc[t] \in Holding \ {"unlock"} /\ ~OnItsWay(t)
         /\ d' = d /\ alive' = alive /\ \E result : Finish(t, result, {})
BY DEF Quiet, ThreadedDequeCount, ThreadedDequeCapacity, ThreadedDequeWaitEmpty,
       ThreadedDequeCopy, GiveUp, In, Holding, OnItsWay, dequeVars

LEMMA PopStep ==
  ASSUME DequeInv, NEW t \in Threads, ThreadedDequePopLeft(t) \/ ThreadedDequePopRight(t)
  PROVE  DequeInv'
BY PopEffect, InCall, FinishStep

LEMMA PushStep ==
  ASSUME DequeInv, NEW t \in Threads, ThreadedDequePushLeft(t) \/ ThreadedDequePushRight(t)
  PROVE  DequeInv'
<1>1. PICK result, woken : woken \in Signal("non_empty") /\ Finish(t, result, woken)
  BY PushEffect
<1>2. woken \subseteq Waiters("non_empty")
  BY <1>1, SignalWaiters
<1>3. pc[t] \in Holding /\ alive' = alive /\ GoodDeque(d')
  BY PushEffect, InCall
<1>4. d'.size # 0
  BY PushEffect, InvMonitor
<1> QED BY <1>1, <1>2, <1>3, <1>4, FinishStep

LEMMA QuietStep ==
  ASSUME DequeInv, NEW t \in Threads, Quiet(t)
  PROVE  DequeInv'
<1>1. PICK result : Finish(t, result, {})
  BY QuietEffect
<1>2. pc[t] \in Holding /\ alive' = alive /\ d' = d
  BY QuietEffect
<1>3. {} \subseteq Waiters("empty") /\ (d'.size = 0 => Waiters("empty") \subseteq {})
  BY <1>2 DEF DequeInv, EmptyReleased
<1>4. GoodDeque(d')
  BY <1>2, InvMonitor
<1> QED BY <1>1, <1>2, <1>3, <1>4, FinishStep

\* ThreadedDequeDestroy and ThreadedDequeSoftDestroy.
LEMMA DestroyStep ==
  ASSUME DequeInv, NEW t \in Threads, ThreadedDequeDestroy(t)
  PROVE  DequeInv'
<1>1. /\ alive /\ AllIdle /\ lock' = t /\ pc' = [pc EXCEPT ![t] = "unlock"]
      /\ d' = d /\ cond' = cond /\ op' = op /\ DOMAIN ret' = DOMAIN ret
  BY DEF ThreadedDequeDestroy
<1>2. alive' = FALSE
  BY DEF ThreadedDequeDestroy
<1>3. MonitorInv'
  BY <1>1, DestroyOK, InvMonitor
<1>5. TypeOK'
  <2>1. alive' \in BOOLEAN
    BY <1>2, Zenon
  <2> QED BY <2>1, <1>1, <1>3 DEF TypeOK, MonitorInv, DequeInv
<1>6. \A u \in Threads : pc'[u] \in {"idle", "unlock"}
  BY <1>1 DEF AllIdle, DequeInv, TypeOK, MonitorTypeOK
<1>8. EmptyReleased' /\ CallsKnown' /\ WaitsKnown'
  BY <1>6 DEF EmptyReleased, Waiters, CallsKnown, WaitsKnown
<1> QED BY <1>1, <1>3, <1>5, <1>8 DEF DequeInv, MonitorInv

\* The disjuncts of the next-state relation, grouped by what they do.
LEMMA NextCases ==
  ASSUME Next
  PROVE  \/ \E c \in InitialCapacities : ThreadedDequeNew(c)
         \/ \E t \in Threads :
              \/ \E r \in Requests : Call(t, r)
              \/ UNCHANGED dequeVars /\ (ThreadLock(t) \/ Reacquire(t) \/ Interrupt(t))
              \/ UNCHANGED dequeVars /\ ThreadUnlock(t)
              \/ PopWait(t) \/ WaitEmptyWait(t) \/ Quiet(t)
              \/ ThreadedDequePopLeft(t) \/ ThreadedDequePopRight(t)
              \/ ThreadedDequePushLeft(t) \/ ThreadedDequePushRight(t)
              \/ ThreadedDequeDestroy(t)
BY DEF Next, Step, Advance, Quiet

\* Every step of the deque keeps the invariant.
LEMMA DequeStep == DequeInv /\ [Next]_vars => DequeInv'
<1> SUFFICES ASSUME DequeInv, [Next]_vars PROVE DequeInv'
  OBVIOUS
<1>1. ASSUME NEW t \in Threads, PopWait(t) PROVE DequeInv'
  <2>1. In(t, "pop") /\ ThreadWait(t, "non_empty") /\ UNCHANGED dequeVars
    BY <1>1 DEF PopWait
  <2>2. "non_empty" \in Conds
    BY DEF Conds
  <2> QED BY <2>1, <2>2, WaitStep
<1>2. ASSUME NEW t \in Threads, WaitEmptyWait(t) PROVE DequeInv'
  <2>1. In(t, "wait_empty") /\ ThreadWait(t, "empty") /\ UNCHANGED dequeVars /\ d.size # 0
    BY <1>2 DEF WaitEmptyWait
  <2>2. "empty" \in Conds
    BY DEF Conds
  <2> QED BY <2>1, <2>2, WaitStep
<1>3. CASE UNCHANGED vars
  BY <1>3 DEF vars, monitorVars, dequeVars, DequeInv, TypeOK, MonitorTypeOK,
              MutualExclusion, CallsKnown, WaitsKnown, EmptyReleased, Waiters
<1>4. CASE Next
  BY <1>1, <1>2, <1>4, NextCases, NewStep, CallStep, MonitorStep, QuietStep, PopStep,
     PushStep, DestroyStep
<1> QED BY <1>3, <1>4

-----------------------------------------------------------------------------
(***************************************************************************)
(* The theorems about states.                                              *)
(***************************************************************************)

\* The inductive invariant holds in every reachable state.
THEOREM DequeInvariant == Spec => []DequeInv
BY DequeInit, DequeStep, PTL DEF Spec

\* left, right, size and capacity agree in every reachable state, whatever
\* sequence of pushes, pops and expansions at the two ends led to it; no stored
\* slot is uninitialized or already popped; DestroyRange visits the stored
\* slots and no other.
THEOREM DequeRingShape == Spec => []RingShape
<1>1. DequeInv => RingShape
  BY VisitedAll DEF DequeInv, GoodDeque, RingShape
<1> QED BY <1>1, DequeInvariant, PTL

\* The mutex protects the critical sections, timeouts and wakeups included.
THEOREM DequeMutualExclusion == Spec => []MutualExclusion
<1>1. DequeInv => MutualExclusion
  BY DEF DequeInv
<1> QED BY <1>1, DequeInvariant, PTL

-----------------------------------------------------------------------------
(***************************************************************************)
(* No signal is lost.                                                      *)
(***************************************************************************)

\* Nothing is said of a number but that it is the size after the step.
LEMMA StrandedSize ==
  ASSUME NEW n, NotStranded(n)', d'.size = n
  PROVE  NotStranded(d.size)'
BY DEF NotStranded

\* Every stored item keeps its consumer, as long as no call pops zero items.
LEMMA StrandedStep ==
  ASSUME ~TimeoutTakesSignal, 0 \notin PopCounts, DequeInv, NotStranded(d.size), [Next]_vars
  PROVE  NotStranded(d.size)'
<1>1. PICK n \in Nat : n = d.size
  BY InvMonitor
<1>2. NotStranded(n) /\ MonitorTypeOK /\ WaitsKnown /\ DOMAIN op = Threads
  BY <1>1, InvMonitor
<1>3. ASSUME \A u \in Threads : pc'[u] # "wait" PROVE NotStranded(d.size)'
  BY <1>3 DEF NotStranded, Waiters
<1>4. ASSUME NEW c \in InitialCapacities, ThreadedDequeNew(c) PROVE NotStranded(d.size)'
  BY <1>3, <1>4 DEF ThreadedDequeNew, AllIdle, monitorVars
<1>5. ASSUME NEW t \in Threads, ThreadedDequeDestroy(t) PROVE NotStranded(d.size)'
  <2>1. \A u \in Threads : pc'[u] \in {"idle", "unlock"}
    BY <1>2, <1>5 DEF ThreadedDequeDestroy, AllIdle, MonitorTypeOK
  <2> QED BY <1>3, <2>1
<1>6. ASSUME NEW t \in Threads, UNCHANGED dequeVars,
             \/ ThreadLock(t) \/ Reacquire(t) \/ ThreadUnlock(t) \/ Interrupt(t)
             \/ (\E r : Enter(t, r)) \/ (ThreadWait(t, "empty") /\ op[t].kind # "pop")
      PROVE  NotStranded(d.size)'
  <2>1. NotStranded(n)'
    BY <1>2, <1>6, AdvanceStranded
  <2> QED BY <1>1, <1>6, <2>1, StrandedSize DEF dequeVars
<1>7. ASSUME NEW t \in Threads, WaitEmptyWait(t) PROVE NotStranded(d.size)'
  <2>1. UNCHANGED dequeVars /\ ThreadWait(t, "empty") /\ op[t].kind # "pop"
    BY <1>7 DEF WaitEmptyWait, In
  <2> QED BY <1>6, <2>1
<1>8. ASSUME NEW t \in Threads, NEW r \in Requests, Call(t, r) PROVE NotStranded(d.size)'
  BY <1>6, <1>8 DEF Call
<1>9. ASSUME NEW t \in Threads, PopWait(t) PROVE NotStranded(d.size)'
  <2>1. d'.size = 0
    BY <1>9 DEF PopWait, dequeVars
  <2> QED BY <2>1, OnTheirWayFinite DEF NotStranded
<1>10. ASSUME NEW t \in Threads, Quiet(t) PROVE NotStranded(d.size)'
  <2>1. PICK result : Finish(t, result, {})
    BY <1>10, QuietEffect
  <2>2. ~OnItsWay(t) /\ {} \subseteq Waiters("empty")
    BY <1>10, QuietEffect
  <2>3. NotStranded(n)'
    BY <1>2, <2>1, <2>2, FinishStranded
  <2> QED BY <1>1, <1>10, <2>3, StrandedSize, QuietEffect
<1>11. ASSUME NEW t \in Threads, ThreadedDequePopLeft(t) \/ ThreadedDequePopRight(t)
       PROVE  NotStranded(d.size)'
  <2>1. PICK k \in 0..n : k = PopCount(t)
    BY <1>1, <1>11, PopEffect
  <2>2. PICK result, woken : Finish(t, result, woken) /\ woken \subseteq Waiters("empty")
    BY <1>11, PopEffect
  <2>3. op[t].num # 0
    BY <1>11, PopEffect, InCall, RequestFields
  <2>4. n > 0 => k > 0
    BY <1>1, <1>11, <2>1, <2>3, PopEffect
  <2>5. NotStranded(n - k)'
    BY <1>2, <2>2, <2>4, PopStranded
  <2>6. d'.size = n - k
    BY <1>1, <1>11, <2>1, PopEffect
  <2> QED BY <2>5, <2>6, StrandedSize
<1>12. ASSUME NEW t \in Threads, ThreadedDequePushLeft(t) \/ ThreadedDequePushRight(t)
       PROVE  NotStranded(d.size)'
  <2>1. PICK result, woken : woken \in Signal("non_empty") /\ Finish(t, result, woken)
    BY <1>12, PushEffect
  <2>2. pc[t] \in Holding /\ op[t].kind # "pop"
    BY <1>12, PushEffect, InCall
  <2>3. NotStranded(n + 1)'
    BY <1>2, <2>1, <2>2, PushStranded
  <2>4. d'.size = n + 1
    BY <1>1, <1>12, PushEffect
  <2> QED BY <2>3, <2>4, StrandedSize
<1>13. CASE UNCHANGED vars
  BY <1>13 DEF vars, monitorVars, dequeVars, NotStranded, Waiters, OnTheirWay, OnItsWay
<1>14. CASE Next
  BY <1>4, <1>5, <1>6, <1>7, <1>8, <1>9, <1>10, <1>11, <1>12, <1>14, NextCases
<1> QED BY <1>13, <1>14

\* No consumer is stranded, for any number of threads, as long as nobody asks
\* for zero items and a wait that times out uses up no signal: whoever waits for items while some are stored has that many
\* woken consumers before it; and nobody waits for the emptiness of an empty
\* deque.
THEOREM DequeWaitersNotStranded ==
  ASSUME ~TimeoutTakesSignal, 0 \notin PopCounts
  PROVE  Spec => []WaitersNotStranded
<1>1. Init => NotStranded(d.size)
  BY DEF Init, MonitorInit, NotStranded, Waiters
<1>2. DequeInv /\ NotStranded(d.size) /\ [Next]_vars => NotStranded(d.size)'
  BY StrandedStep
<1>3. DequeInv /\ NotStranded(d.size) => WaitersNotStranded
  BY DEF NotStranded, OnTheirWay, WaitersNotStranded, DequeInv, EmptyReleased
<1> QED BY <1>1, <1>2, <1>3, DequeInvariant, PTL DEF Spec

-----------------------------------------------------------------------------
(***************************************************************************)
(* The items of the deque, as the sequence its callers see.                *)
(***************************************************************************)
Row(s) == Leftmost(s, s.size)

LEMMA RowIsSeq ==
  ASSUME NEW s, GoodDeque(s)
  PROVE  /\ Row(s) \in Seq(Items) /\ Len(Row(s)) = s.size /\ s.size \in Nat
         /\ \A i \in 1..s.size : Row(s)[i] = s.data[LeftSlot(s, i)]
<1>1. s.size \in Nat /\ \A i \in 1..s.size : s.data[LeftSlot(s, i)] \in Items
  BY DEF GoodDeque, DequeType, Stored
<1>2. Row(s) = [i \in 1..s.size |-> s.data[LeftSlot(s, i)]]
  BY DEF Row, Leftmost
<1> QED BY <1>1, <1>2

LEMMA RowEmpty ==
  ASSUME NEW s, GoodDeque(s)
  PROVE  Row(s) = <<>> <=> s.size = 0
<1>1. Row(s) \in Seq(Items) /\ Len(Row(s)) = s.size
  BY RowIsSeq
<1> HIDE DEF Row
<1> QED BY <1>1

LEMMA RowPushRight ==
  ASSUME NEW s, GoodDeque(s), NEW x \in Items
  PROVE  Row(PushRight(s, x)) = Row(s) \o <<x>>
<1> DEFINE p == PushRight(s, x)
<1>1. /\ GoodDeque(p) /\ p.size = s.size + 1
      /\ \A i \in 1..s.size : p.data[LeftSlot(p, i)] = s.data[LeftSlot(s, i)]
      /\ p.data[LeftSlot(p, s.size + 1)] = x
  BY PushRightGood
<1> HIDE DEF p
<1>2. /\ Row(s) \in Seq(Items) /\ Len(Row(s)) = s.size /\ s.size \in Nat
      /\ \A i \in 1..s.size : Row(s)[i] = s.data[LeftSlot(s, i)]
  BY RowIsSeq
<1>3. /\ Row(p) \in Seq(Items) /\ Len(Row(p)) = s.size + 1
      /\ \A i \in 1..(s.size + 1) : Row(p)[i] = p.data[LeftSlot(p, i)]
  BY <1>1, RowIsSeq
<1>4. \A i \in 1..s.size : Row(p)[i] = Row(s)[i]
  BY <1>1, <1>2, <1>3
<1>5. Row(p)[s.size + 1] = x
  BY <1>1, <1>2, <1>3
<1>6. Row(p) = Row(s) \o <<x>>
  BY <1>2, <1>3, <1>4, <1>5, AppendOne
<1> QED BY <1>6 DEF p

LEMMA RowPushLeft ==
  ASSUME NEW s, GoodDeque(s), NEW x \in Items
  PROVE  Row(PushLeft(s, x)) = <<x>> \o Row(s)
<1> DEFINE p == PushLeft(s, x)
<1>1. /\ GoodDeque(p) /\ p.size = s.size + 1
      /\ \A i \in 1..s.size : p.data[LeftSlot(p, i + 1)] = s.data[LeftSlot(s, i)]
      /\ p.data[LeftSlot(p, 1)] = x
  BY PushLeftGood
<1> HIDE DEF p
<1>2. /\ Row(s) \in Seq(Items) /\ Len(Row(s)) = s.size /\ s.size \in Nat
      /\ \A i \in 1..s.size : Row(s)[i] = s.data[LeftSlot(s, i)]
  BY RowIsSeq
<1>3. /\ Row(p) \in Seq(Items) /\ Len(Row(p)) = s.size + 1
      /\ \A i \in 1..(s.size + 1) : Row(p)[i] = p.data[LeftSlot(p, i)]
  BY <1>1, RowIsSeq
<1>4. ASSUME NEW i \in 1..s.size PROVE Row(p)[i + 1] = Row(s)[i]
  <2>1. i + 1 \in 1..(s.size + 1)
    BY <1>2
  <2> QED BY <2>1, <1>1, <1>2, <1>3
<1>5. Row(p)[1] = x
  BY <1>1, <1>2, <1>3
<1>6. Row(p) = <<x>> \o Row(s)
  <2>1. /\ Len(Row(p)) = Len(Row(s)) + 1
        /\ \A i \in 1..Len(Row(s)) : Row(p)[i + 1] = Row(s)[i]
    BY <1>2, <1>3, <1>4
  <2>2. Row(p) \in Seq(Items) /\ Row(s) \in Seq(Items)
    BY <1>2, <1>3
  <2> QED BY <2>1, <2>2, <1>5, PrependOne, Zenon
<1> QED BY <1>6 DEF p

LEMMA RowDropLeft ==
  ASSUME NEW s, GoodDeque(s), NEW n \in 0..s.size
  PROVE  Row(DropLeft(s, n)) = SubSeq(Row(s), n + 1, Len(Row(s)))
<1> DEFINE p == DropLeft(s, n)
<1>1. /\ GoodDeque(p) /\ p.size = s.size - n
      /\ \A i \in 1..p.size : p.data[LeftSlot(p, i)] = s.data[LeftSlot(s, i + n)]
  BY DropLeftGood
<1> HIDE DEF p
<1>2. /\ Row(s) \in Seq(Items) /\ Len(Row(s)) = s.size /\ s.size \in Nat
      /\ \A i \in 1..s.size : Row(s)[i] = s.data[LeftSlot(s, i)]
  BY RowIsSeq
<1>3. /\ Row(p) \in Seq(Items) /\ Len(Row(p)) = p.size
      /\ \A i \in 1..p.size : Row(p)[i] = p.data[LeftSlot(p, i)]
  BY <1>1, RowIsSeq
<1>4. ASSUME NEW i \in 1..p.size PROVE Row(p)[i] = Row(s)[i + n]
  <2>1. i + n \in 1..s.size
    BY <1>1, <1>2
  <2> QED BY <2>1, <1>1, <1>2, <1>3
<1>6. Row(p) = SubSeq(Row(s), n + 1, Len(Row(s)))
  BY <1>1, <1>2, <1>3, <1>4, DropFirst
<1> QED BY <1>6 DEF p

LEMMA RowDropRight ==
  ASSUME NEW s, GoodDeque(s), NEW n \in 0..s.size
  PROVE  Row(DropRight(s, n)) = SubSeq(Row(s), 1, Len(Row(s)) - n)
<1> DEFINE p == DropRight(s, n)
<1>1. /\ GoodDeque(p) /\ p.size = s.size - n
      /\ \A i \in 1..p.size : p.data[LeftSlot(p, i)] = s.data[LeftSlot(s, i)]
  BY DropRightGood
<1> HIDE DEF p
<1>2. /\ Row(s) \in Seq(Items) /\ Len(Row(s)) = s.size /\ s.size \in Nat
      /\ \A i \in 1..s.size : Row(s)[i] = s.data[LeftSlot(s, i)]
  BY RowIsSeq
<1>3. /\ Row(p) \in Seq(Items) /\ Len(Row(p)) = p.size
      /\ \A i \in 1..p.size : Row(p)[i] = p.data[LeftSlot(p, i)]
  BY <1>1, RowIsSeq
<1>4. ASSUME NEW i \in 1..p.size PROVE Row(p)[i] = Row(s)[i]
  <2>1. i \in 1..s.size
    BY <1>1, <1>2
  <2> QED BY <2>1, <1>1, <1>2, <1>3
<1>5. p.size \in 0..Len(Row(s))
  BY <1>1, <1>2
<1>6. Row(p) = SubSeq(Row(s), 1, p.size)
  BY <1>2, <1>3, <1>4, <1>5, KeepFirst
<1> QED BY <1>1, <1>2, <1>6 DEF p

\* The items a pop hands to its caller.
LEMMA RowLeftmost ==
  ASSUME NEW s, GoodDeque(s), NEW n \in 0..s.size
  PROVE  Leftmost(s, n) = SubSeq(Row(s), 1, n)
<1>1. /\ Row(s) \in Seq(Items) /\ Len(Row(s)) = s.size /\ s.size \in Nat
      /\ \A i \in 1..s.size : Row(s)[i] = s.data[LeftSlot(s, i)]
  BY RowIsSeq
<1> DEFINE b == Leftmost(s, n)
<1>2. b = [i \in 1..n |-> Row(s)[i]]
  BY <1>1 DEF Leftmost
<1>3. b \in Seq(Items) /\ Len(b) = n /\ \A i \in 1..n : b[i] = Row(s)[i]
  BY <1>1, <1>2
<1> HIDE DEF b
<1>4. b = SubSeq(Row(s), 1, n)
  BY <1>1, <1>3, KeepFirst
<1> QED BY <1>4 DEF b

LEMMA RowRightmost ==
  ASSUME NEW s, GoodDeque(s), NEW n \in 0..s.size
  PROVE  Rightmost(s, n) = [i \in 1..n |-> Row(s)[Len(Row(s)) - i + 1]]
<1>1. /\ Len(Row(s)) = s.size /\ s.size \in Nat
      /\ \A i \in 1..s.size : Row(s)[i] = s.data[LeftSlot(s, i)]
  BY RowIsSeq
<1>2. ASSUME NEW i \in 1..n PROVE s.data[RightSlot(s, i)] = Row(s)[s.size - i + 1]
  <2>1. i \in 1..s.size
    BY <1>1
  <2>2. s.size - i + 1 \in 1..s.size /\ RightSlot(s, i) = LeftSlot(s, s.size - i + 1)
    BY <2>1, RightSlotValue DEF GoodDeque
  <2> QED BY <2>2, <1>1
<1> QED BY <1>1, <1>2 DEF Rightmost

-----------------------------------------------------------------------------
(***************************************************************************)
(* The refinement: every step of the deque is a step of BlockingDeque, or  *)
(* changes nothing that its callers see.                                   *)
(***************************************************************************)
LEMMA ContentsRow ==
  ASSUME DequeInv, alive
  PROVE  /\ Contents = Row(d) /\ Len(Contents) = d.size
         /\ (Contents = <<>>) <=> (d.size = 0)
BY RowIsSeq, RowEmpty, InvMonitor DEF Contents, Row

LEMMA ContentsAfter ==
  ASSUME alive', GoodDeque(d')
  PROVE  Contents' = Row(d') /\ Len(Contents') = d'.size
BY RowIsSeq DEF Contents, Row, Leftmost, LeftSlot

LEMMA ContentsKept ==
  ASSUME UNCHANGED dequeVars
  PROVE  Contents' = Contents
BY DEF Contents, dequeVars

\* A critical section, as BlockingDeque sees it.
LEMMA FinishEffect ==
  ASSUME DequeInv, NEW t \in Threads, NEW k, In(t, k),
         NEW result, NEW woken, NEW c, woken \subseteq Waiters(c), Finish(t, result, woken)
  PROVE  /\ Phase[t] = "pending" /\ Phase' = [Phase EXCEPT ![t] = "done"]
         /\ ret' = [ret EXCEPT ![t] = result] /\ op' = op
<1>1. pc[t] \in Holding \ {"unlock"}
  BY InCall
<1> QED BY <1>1, PhaseFinish, InvMonitor DEF Finish

LEMMA PushImplements ==
  ASSUME DequeInv, NEW t \in Threads, ThreadedDequePushLeft(t) \/ ThreadedDequePushRight(t)
  PROVE  Abstract!Push(t)
<1>1. In(t, "push") /\ alive' = alive /\ GoodDeque(d') /\ d'.size = d.size + 1
  BY PushEffect
<1>2. PICK x \in Items : op[t].items = <<x>>
  BY <1>1, InCall, RequestFields
<1>3. alive /\ op[t].kind = "push"
  BY <1>1, InCall
<1>4. Contents = Row(d) /\ Contents' = Row(d') /\ Len(Contents') = d'.size
  BY <1>1, <1>3, ContentsRow, ContentsAfter
<1>5. \/ op[t].side = "right" /\ Contents' = Contents \o op[t].items
      \/ op[t].side = "left"  /\ Contents' = op[t].items \o Contents
  <2>1. \/ op[t].side = "right" /\ d' = PushRight(d, x)
        \/ op[t].side = "left"  /\ d' = PushLeft(d, x)
    BY <1>2 DEF ThreadedDequePushLeft, ThreadedDequePushRight
  <2> QED BY <1>2, <1>4, <2>1, RowPushRight, RowPushLeft, InvMonitor
<1> DEFINE result == Result(TRUE, d'.size, <<>>)
<1>6. PICK woken \in Signal("non_empty") : Finish(t, result, woken)
  BY DEF ThreadedDequePushLeft, ThreadedDequePushRight, PushFinish
<1>7. woken \subseteq Waiters("non_empty")
  BY SignalWaiters
<1>8. /\ Phase[t] = "pending" /\ Phase' = [Phase EXCEPT ![t] = "done"]
      /\ ret' = [ret EXCEPT ![t] = result] /\ op' = op
  <2> HIDE DEF result
  <2> QED BY <1>1, <1>6, <1>7, FinishEffect
<1> QED BY <1>1, <1>3, <1>4, <1>5, <1>8
        DEF Abstract!Push, Abstract!Pending, Abstract!Effect, Abstract!Result, Result

\* A pop from either end.
LEMMA PopImplements ==
  ASSUME DequeInv, NEW t \in Threads, ThreadedDequePopLeft(t) \/ ThreadedDequePopRight(t)
  PROVE  Abstract!Pop(t)
<1> DEFINE n == PopCount(t)
<1>1. /\ In(t, "pop") /\ alive' = alive /\ GoodDeque(d') /\ n \in 0..d.size
      /\ d.size \in Nat
  BY PopEffect, InvMonitor
<1>2. alive /\ op[t].kind = "pop"
  BY <1>1, InCall
<1>3. /\ Contents = Row(d) /\ Contents' = Row(d') /\ Len(Contents) = d.size
      /\ (Contents = <<>>) <=> (d.size = 0)
  BY <1>1, <1>2, ContentsRow, ContentsAfter
<1>4. n = Abstract!Lesser(op[t].num, Len(Contents))
  BY <1>3 DEF PopCount, Abstract!Lesser
<1>5. op[t].timeout # "none" => Contents # <<>>
  BY <1>3 DEF ThreadedDequePopLeft, ThreadedDequePopRight, MayWait
<1> HIDE DEF n
<1>6. \/ /\ op[t].side = "left"
         /\ Contents' = SubSeq(Contents, n + 1, Len(Contents))
         /\ PopFinish(t, n, SubSeq(Contents, 1, n))
      \/ /\ op[t].side = "right"
         /\ Contents' = SubSeq(Contents, 1, Len(Contents) - n)
         /\ PopFinish(t, n, [i \in 1..n |-> Contents[Len(Contents) - i + 1]])
  <2>1. CASE ThreadedDequePopLeft(t)
    <3>1. op[t].side = "left" /\ d' = DropLeft(d, n) /\ PopFinish(t, n, Leftmost(d, n))
      BY <2>1 DEF ThreadedDequePopLeft, n
    <3> QED BY <3>1, <1>1, <1>3, RowDropLeft, RowLeftmost, InvMonitor
  <2>2. CASE ThreadedDequePopRight(t)
    <3>1. op[t].side = "right" /\ d' = DropRight(d, n) /\ PopFinish(t, n, Rightmost(d, n))
      BY <2>2 DEF ThreadedDequePopRight, n
    <3>2. Contents' = SubSeq(Contents, 1, Len(Contents) - n)
      BY <3>1, <1>1, <1>3, RowDropRight, InvMonitor
    <3>3. Rightmost(d, n) = [i \in 1..n |-> Contents[Len(Contents) - i + 1]]
      <4>1. GoodDeque(d)
        BY InvMonitor
      <4>2. Rightmost(d, n) = [i \in 1..n |-> Row(d)[Len(Row(d)) - i + 1]]
        BY <1>1, <4>1, RowRightmost, Zenon
      <4> QED BY <4>2, <1>3, Zenon
    <3> QED BY <3>1, <3>2, <3>3
  <2> QED BY <2>1, <2>2
<1>7. ASSUME NEW xs, PopFinish(t, n, xs)
      PROVE  /\ Phase[t] = "pending" /\ Phase' = [Phase EXCEPT ![t] = "done"]
             /\ ret' = [ret EXCEPT ![t] = Result(Contents # <<>>, n, xs)] /\ op' = op
  <2> DEFINE result == Result(d.size > 0, n, xs)
             woken  == IF d.size = n THEN Broadcast("empty") ELSE {}
  <2>1. Finish(t, result, woken) /\ woken \subseteq Waiters("empty")
    BY <1>7 DEF PopFinish, Broadcast
  <2>2. (d.size > 0) = (Contents # <<>>)
    BY <1>1, <1>3
  <2>3. result = Result(Contents # <<>>, n, xs)
    BY <2>2
  <2> HIDE DEF result, woken
  <2> QED BY <1>1, <2>1, <2>3, FinishEffect
<1>8. CASE op[t].side = "left"
  <2> DEFINE xs == SubSeq(Contents, 1, n)
  <2>1. PopFinish(t, n, xs) /\ Contents' = SubSeq(Contents, n + 1, Len(Contents))
    BY <1>6, <1>8
  <2>2. /\ Phase[t] = "pending" /\ Phase' = [Phase EXCEPT ![t] = "done"]
        /\ ret' = [ret EXCEPT ![t] = Result(Contents # <<>>, n, xs)] /\ op' = op
    <3> HIDE DEF xs
    <3> QED BY <1>7, <2>1
  <2> QED BY <1>1, <1>2, <1>4, <1>5, <1>8, <2>1, <2>2
          DEF Abstract!Pop, Abstract!Pending, Abstract!Effect, Abstract!Result, Result,
              Abstract!Leftmost
<1>9. CASE op[t].side # "left"
  <2> DEFINE xs == [i \in 1..n |-> Contents[Len(Contents) - i + 1]]
  <2>1. PopFinish(t, n, xs) /\ Contents' = SubSeq(Contents, 1, Len(Contents) - n)
    BY <1>6, <1>9
  <2>2. /\ Phase[t] = "pending" /\ Phase' = [Phase EXCEPT ![t] = "done"]
        /\ ret' = [ret EXCEPT ![t] = Result(Contents # <<>>, n, xs)] /\ op' = op
    <3> HIDE DEF xs
    <3> QED BY <1>7, <2>1
  <2> QED BY <1>1, <1>2, <1>4, <1>5, <1>9, <2>1, <2>2
          DEF Abstract!Pop, Abstract!Pending, Abstract!Effect, Abstract!Result, Result,
              Abstract!Rightmost
<1> QED BY <1>8, <1>9

\* The early return of a timeout.
LEMMA GiveUpImplements ==
  ASSUME DequeInv, NEW t \in Threads, GiveUp(t), UNCHANGED dequeVars
  PROVE  Abstract!GiveUp(t)
<1>1. pc[t] = "expired" /\ pc[t] \in Holding \ {"unlock"} /\ alive' = alive
  BY DEF GiveUp, Holding, dequeVars
<1>2. op[t].kind \in {"pop", "wait_empty"} /\ op[t].timeout = "seconds"
  BY <1>1 DEF DequeInv, WaitsKnown
<1> DEFINE result == Result(FALSE, 0, <<>>)
<1>3. Finish(t, result, {}) /\ {} \subseteq Waiters("empty")
  BY DEF GiveUp
<1>4. /\ Phase[t] = "pending" /\ Phase' = [Phase EXCEPT ![t] = "done"]
      /\ ret' = [ret EXCEPT ![t] = result] /\ op' = op
  <2>1. ret' = [ret EXCEPT ![t] = result] /\ op' = op
    BY <1>3 DEF Finish
  <2>2. Phase[t] = "pending" /\ Phase' = [Phase EXCEPT ![t] = "done"]
    <3> HIDE DEF result
    <3> QED BY <1>1, <1>3, PhaseFinish, InvMonitor
  <2> QED BY <2>1, <2>2
<1> QED BY <1>1, <1>2, <1>4, ContentsKept
        DEF Abstract!GiveUp, Abstract!Pending, Abstract!Effect, Abstract!Result, Result

\* Count, Capacity, WaitEmpty and Copy.
LEMMA LookImplements ==
  ASSUME DequeInv, NEW t \in Threads,
         \/ ThreadedDequeCount(t) \/ ThreadedDequeCapacity(t) \/ ThreadedDequeWaitEmpty(t)
         \/ ThreadedDequeCopy(t)
  PROVE  Abstract!Count(t) \/ Abstract!Capacity(t) \/ Abstract!WaitEmpty(t) \/ Abstract!Copy(t)
<1>1. UNCHANGED dequeVars /\ Contents' = Contents /\ alive' = alive
  BY ContentsKept DEF ThreadedDequeCount, ThreadedDequeCapacity, ThreadedDequeWaitEmpty,
                      ThreadedDequeCopy, dequeVars
<1>2. ASSUME NEW k, In(t, k)
      PROVE  /\ op[t].kind = k /\ Contents = Row(d) /\ Len(Contents) = d.size
             /\ (d.size = 0) = (Contents = <<>>)
  BY <1>2, InCall, ContentsRow
<1>3. ASSUME NEW k, In(t, k), NEW result, Finish(t, result, {})
      PROVE  /\ Phase[t] = "pending" /\ Phase' = [Phase EXCEPT ![t] = "done"]
             /\ ret' = [ret EXCEPT ![t] = result] /\ op' = op
  <2>1. {} \subseteq Waiters("empty")
    OBVIOUS
  <2> QED BY <1>3, <2>1, FinishEffect
<1>4. CASE ThreadedDequeCount(t)
  <2> DEFINE result == Result(d.size = 0, d.size, <<>>)
  <2>1. In(t, "count") /\ Finish(t, result, {})
    BY <1>4 DEF ThreadedDequeCount
  <2>2. result = Result(Contents = <<>>, Len(Contents), <<>>)
    BY <1>2, <2>1
  <2>3. /\ Phase[t] = "pending" /\ Phase' = [Phase EXCEPT ![t] = "done"]
        /\ ret' = [ret EXCEPT ![t] = result] /\ op' = op
    <3> HIDE DEF result
    <3> QED BY <1>3, <2>1
  <2> QED BY <1>1, <1>2, <2>1, <2>2, <2>3
          DEF Abstract!Count, Abstract!Pending, Abstract!Effect, Abstract!Result, Result
<1>5. CASE ThreadedDequeWaitEmpty(t)
  <2> DEFINE result == Result(d.size = 0, 0, <<>>)
  <2>1. In(t, "wait_empty") /\ Finish(t, result, {})
    BY <1>5 DEF ThreadedDequeWaitEmpty
  <2>2. result = Result(Contents = <<>>, 0, <<>>)
    BY <1>2, <2>1
  <2>3. /\ Phase[t] = "pending" /\ Phase' = [Phase EXCEPT ![t] = "done"]
        /\ ret' = [ret EXCEPT ![t] = result] /\ op' = op
    <3> HIDE DEF result
    <3> QED BY <1>3, <2>1
  <2>4. op[t].timeout # "none" => Contents = <<>>
    BY <1>2, <1>5, <2>1 DEF ThreadedDequeWaitEmpty, MayWait
  <2> QED BY <1>1, <1>2, <2>1, <2>2, <2>3, <2>4
          DEF Abstract!WaitEmpty, Abstract!Pending, Abstract!Effect, Abstract!Result, Result
<1>6. CASE ThreadedDequeCapacity(t)
  <2> DEFINE result == Result(TRUE, d.capacity, <<>>)
  <2>1. In(t, "capacity") /\ Finish(t, result, {})
    BY <1>6 DEF ThreadedDequeCapacity
  <2>2. /\ Phase[t] = "pending" /\ Phase' = [Phase EXCEPT ![t] = "done"]
        /\ ret' = [ret EXCEPT ![t] = result] /\ op' = op
    <3> HIDE DEF result
    <3> QED BY <1>3, <2>1
  <2>3. ret'[t] = result
    <3> HIDE DEF result
    <3> QED BY <2>2, InvMonitor
  <2>4. ret'[t] = Result(TRUE, ret'[t].n, <<>>) /\ ret'[t].n = d.capacity
    BY <2>3 DEF Result
  <2>5. d.capacity >= Len(Contents)
    BY <1>2, <2>1, InvMonitor, DequeNumbers
  <2>6. Abstract!Effect(t, ret'[t], Contents)
    BY <1>1, <2>2, <2>3 DEF Abstract!Effect
  <2> QED BY <1>2, <2>1, <2>2, <2>4, <2>5, <2>6
          DEF Abstract!Capacity, Abstract!Pending, Abstract!Result, Result
<1>7. CASE ThreadedDequeCopy(t)
  <2>1. In(t, "copy")
    BY <1>7 DEF ThreadedDequeCopy
  <2>2. Leftmost(d, d.size) = Contents
    BY <1>2, <2>1 DEF Row
  <2>3. CASE Finish(t, Result(TRUE, 0, Leftmost(d, d.size)), {})
    <3> DEFINE result == Result(TRUE, 0, Contents)
    <3>1. Finish(t, result, {})
      BY <2>2, <2>3
    <3>2. /\ Phase[t] = "pending" /\ Phase' = [Phase EXCEPT ![t] = "done"]
          /\ ret' = [ret EXCEPT ![t] = result] /\ op' = op
      <4> HIDE DEF result
      <4> QED BY <1>3, <2>1, <3>1
    <3> QED BY <1>1, <1>2, <2>1, <3>2
            DEF Abstract!Copy, Abstract!Pending, Abstract!Effect, Abstract!Result, Result
  <2>4. CASE Finish(t, Result(FALSE, 0, <<>>), {})
    <3> DEFINE result == Result(FALSE, 0, <<>>)
    <3>1. Finish(t, result, {})
      BY <2>4
    <3>2. /\ Phase[t] = "pending" /\ Phase' = [Phase EXCEPT ![t] = "done"]
          /\ ret' = [ret EXCEPT ![t] = result] /\ op' = op
      <4> HIDE DEF result
      <4> QED BY <1>3, <2>1, <3>1
    <3> QED BY <1>1, <1>2, <2>1, <3>2
            DEF Abstract!Copy, Abstract!Pending, Abstract!Effect, Abstract!Result, Result
  <2> QED BY <1>7, <2>3, <2>4 DEF ThreadedDequeCopy
<1> QED BY <1>4, <1>5, <1>6, <1>7

\* Creating, calling, returning and destroying.
LEMMA CreateImplements ==
  ASSUME DequeInv, NEW c \in InitialCapacities, ThreadedDequeNew(c)
  PROVE  Abstract!Create
<1>1. DequeInv' /\ d'.size = 0
  BY NewStep
<1>2. ~alive /\ alive' = TRUE /\ op' = op /\ ret' = ret /\ Phase' = Phase
  BY DEF ThreadedDequeNew, monitorVars, Phase
<1>3. GoodDeque(d')
  BY <1>1 DEF DequeInv
<1>4. Contents' = <<>>
  BY <1>1, <1>2, <1>3, ContentsAfter, RowEmpty
<1> QED BY <1>2, <1>4 DEF Abstract!Create

LEMMA CallImplements ==
  ASSUME DequeInv, NEW t \in Threads, NEW r \in Requests, Call(t, r)
  PROVE  Abstract!Invoke(t, r)
<1>1. Phase[t] = "idle" /\ Phase' = [Phase EXCEPT ![t] = "pending"]
  BY PhaseEnter, InvMonitor DEF Call
<1>2. alive /\ alive' = alive /\ op' = [op EXCEPT ![t] = r] /\ ret' = ret /\ Contents' = Contents
  BY ContentsKept DEF Call, Enter, dequeVars
<1> QED BY <1>1, <1>2 DEF Abstract!Invoke

LEMMA ReturnImplements ==
  ASSUME DequeInv, NEW t \in Threads, ThreadUnlock(t), UNCHANGED dequeVars
  PROVE  Abstract!Return(t)
<1>1. Phase[t] = "done" /\ Phase' = [Phase EXCEPT ![t] = "idle"]
  BY PhaseReturn, InvMonitor
<1>2. /\ alive' = alive /\ Contents' = Contents
      /\ op' = [op EXCEPT ![t] = NONE] /\ ret' = [ret EXCEPT ![t] = NONE]
  BY ContentsKept DEF ThreadUnlock, dequeVars
<1> QED BY <1>1, <1>2 DEF Abstract!Return

LEMMA DestroyImplements ==
  ASSUME DequeInv, NEW t \in Threads, ThreadedDequeDestroy(t)
  PROVE  Abstract!Destroy(t)
<1>1. /\ alive /\ AllIdle /\ pc' = [pc EXCEPT ![t] = "unlock"] /\ op' = op
      /\ \E xs \in {Destroyed(d), <<>>} : ret' = [ret EXCEPT ![t] = Result(TRUE, 0, xs)]
  BY DEF ThreadedDequeDestroy
<1>2. alive' = FALSE
  BY DEF ThreadedDequeDestroy
<1>3. Contents' = <<>>
  BY <1>2 DEF Contents
<1>4. Destroyed(d) = Contents
  BY <1>1, VisitedAll, ContentsRow, InvMonitor DEF Destroyed, Row
<1>5. \A u \in Threads : Phase[u] = "idle"
  BY <1>1, PhaseValue DEF AllIdle
<1>6. Phase' = [Phase EXCEPT ![t] = "done"]
  <2>1. pc'[t] = "unlock" /\ \A u \in Threads : u # t => pc'[u] = pc[u]
    BY <1>1, InvMonitor DEF MonitorTypeOK
  <2> QED BY <2>1, PhaseMoves
<1> QED BY <1>1, <1>2, <1>3, <1>4, <1>5, <1>6 DEF Abstract!Destroy, Abstract!Result, Result

\* Waiting, waking up, timing out and taking the mutex are not seen.
LEMMA StutterImplements ==
  ASSUME DequeInv, NEW t \in Threads,
         \/ UNCHANGED dequeVars /\ (ThreadLock(t) \/ Reacquire(t) \/ Interrupt(t))
         \/ PopWait(t) \/ WaitEmptyWait(t)
  PROVE  UNCHANGED Abstract!vars
<1>1. UNCHANGED dequeVars /\ op' = op /\ ret' = ret
  BY DEF ThreadLock, Reacquire, Interrupt, Expire, SpuriousWakeup, PopWait, WaitEmptyWait,
         ThreadWait
<1>2. \/ ThreadLock(t) \/ Reacquire(t) \/ Interrupt(t)
      \/ ((\E c : ThreadWait(t, c)) /\ pc[t] \in Holding \ {"unlock"})
  BY DEF PopWait, WaitEmptyWait, In, Holding
<1>3. Phase' = Phase
  BY <1>2, PhaseKept, InvMonitor
<1> QED BY <1>1, <1>3, ContentsKept DEF Abstract!vars, dequeVars

LEMMA StepImplements ==
  DequeInv /\ [Next]_vars => [Abstract!Next]_(Abstract!vars)
<1> SUFFICES ASSUME DequeInv, [Next]_vars PROVE Abstract!Next \/ UNCHANGED Abstract!vars
  OBVIOUS
<1>1. CASE UNCHANGED vars
  BY <1>1 DEF vars, monitorVars, dequeVars, Abstract!vars, Contents, Phase
<1>2. ASSUME NEW c \in InitialCapacities, ThreadedDequeNew(c) PROVE Abstract!Next
  BY <1>2, CreateImplements DEF Abstract!Next
<1>3. ASSUME NEW t \in Threads, NEW r \in Requests, Call(t, r) PROVE Abstract!Next
  BY <1>3, CallImplements DEF Abstract!Next
<1>4. ASSUME NEW t \in Threads, Quiet(t) PROVE Abstract!Next
  <2>1. \/ Abstract!GiveUp(t) \/ Abstract!Count(t) \/ Abstract!Capacity(t)
        \/ Abstract!WaitEmpty(t) \/ Abstract!Copy(t)
    BY <1>4, GiveUpImplements, LookImplements DEF Quiet
  <2> QED BY <2>1 DEF Abstract!Next
<1>5. ASSUME NEW t \in Threads, ThreadedDequePopLeft(t) \/ ThreadedDequePopRight(t)
      PROVE  Abstract!Next
  BY <1>5, PopImplements DEF Abstract!Next
<1>6. ASSUME NEW t \in Threads, ThreadedDequePushLeft(t) \/ ThreadedDequePushRight(t)
      PROVE  Abstract!Next
  BY <1>6, PushImplements DEF Abstract!Next
<1>7. ASSUME NEW t \in Threads, ThreadUnlock(t), UNCHANGED dequeVars PROVE Abstract!Next
  BY <1>7, ReturnImplements DEF Abstract!Next
<1>8. ASSUME NEW t \in Threads, ThreadedDequeDestroy(t) PROVE Abstract!Next
  BY <1>8, DestroyImplements DEF Abstract!Next
<1>9. CASE Next
  BY <1>2, <1>3, <1>4, <1>5, <1>6, <1>7, <1>8, <1>9, NextCases, StutterImplements
<1> QED BY <1>1, <1>9

\* The deque implements BlockingDeque, for any number of threads and items:
\* whatever the interleaving, timeouts and wakeups, every call takes effect at
\* once, at the end it names, with a result that the sequence of items allows.
THEOREM DequeImplements == Spec => ImplementsBlockingDeque
<1>1. Init => Abstract!Init
  <2> SUFFICES ASSUME Init PROVE Abstract!Init
    OBVIOUS
  <2>1. alive = FALSE /\ Contents = <<>>
    BY DEF Init, Contents
  <2>2. Phase = [t \in Threads |-> "idle"] /\ op = [t \in Threads |-> NONE]
        /\ ret = [t \in Threads |-> NONE]
    BY DEF Init, MonitorInit, Phase
  <2> QED BY <2>1, <2>2 DEF Abstract!Init
<1>2. DequeInv /\ [Next]_vars => [Abstract!Next]_(Abstract!vars)
  BY StepImplements
<1> QED BY <1>1, <1>2, DequeInvariant, PTL DEF Spec, ImplementsBlockingDeque, Abstract!Spec

=============================================================================
