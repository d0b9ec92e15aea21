--------------------------- MODULE ThreadedDeque ---------------------------
(***************************************************************************)
(* libutils/threaded_deque.c: a thread-safe double-ended queue on a        *)
(* circular array that doubles when it is full.  The fields of struct      *)
(* ThreadedDeque_ are the record d.                                        *)
(***************************************************************************)
EXTENDS Monitor

CONSTANTS Items,             \* the pointers callers push
          NULL,              \* what a popped slot is reset to
          Garbage,           \* contents of memory from xmalloc or xrealloc
          DEFAULT_CAPACITY,  \* 16 in the code
          InitialCapacities, \* arguments of ThreadedDequeNew
          Kinds,             \* the operations the threads call
          PopCounts,         \* values of num given to PopLeftN and PopRightN
          MaxItems           \* bound: items stored and being pushed

EXPAND_FACTOR == 2

ASSUME DequeAssumption ==
  /\ DEFAULT_CAPACITY \in Nat \ {0}
  /\ InitialCapacities \subseteq Nat
  /\ PopCounts \subseteq Nat
  /\ MaxItems \in Nat
  /\ NULL \notin Items
  /\ Garbage \notin Items

VARIABLES d,       \* left, right, size, capacity and data of the deque
          alive    \* between ThreadedDequeNew and ThreadedDeque(Soft)Destroy

dequeVars == <<d, alive>>
vars      == <<monitorVars, dequeVars>>

-----------------------------------------------------------------------------
Values == Items \cup {NULL, Garbage}

NewDeque(initial_capacity) ==
  LET c == IF initial_capacity = 0 THEN DEFAULT_CAPACITY ELSE initial_capacity
  IN  [data |-> [i \in 0..(c - 1) |-> Garbage],
       left |-> 0, right |-> 0, size |-> 0, capacity |-> c]

\* Mutant: the expansion forgets "right += old_capacity".
ExpandKeepsRight(s) ==
  LET c == IF s.size = s.capacity THEN s.capacity * EXPAND_FACTOR ELSE s.capacity
  IN  [s EXCEPT !.data = [i \in 0..(c - 1) |->
                            IF i < s.capacity THEN s.data[i]
                            ELSE IF i - s.capacity < s.right THEN s.data[i - s.capacity]
                            ELSE Garbage],
                !.capacity = c]

(***************************************************************************)
(* Doubles a full array.  "Move the data that has wrapped around to the    *)
(* newly allocated part of the deque, since we need a continuous block".   *)
(***************************************************************************)
ExpandIfNecessary(s) ==
  LET full    == s.size = s.capacity
      wrapped == full /\ s.right <= s.left
      c       == IF full THEN s.capacity * EXPAND_FACTOR ELSE s.capacity
      end     == IF wrapped THEN s.right + s.capacity ELSE s.right
      moved   == [i \in 0..(c - 1) |->
                    IF i < s.capacity THEN s.data[i]
                    ELSE IF wrapped /\ i < end THEN s.data[i - s.capacity]
                    ELSE Garbage]
  IN  [s EXCEPT !.data = moved, !.capacity = c, !.right = end]

\* One position to the left, around the front of the array.
Before(s, i) == IF i = 0 THEN s.capacity - 1 ELSE i - 1

PushLeft(s, x) ==
  LET e == ExpandIfNecessary(s)
      l == Before(e, e.left)
  IN  [e EXCEPT !.data = [e.data EXCEPT ![l] = x],
                !.left = l, !.size = e.size + 1]

PushRight(s, x) ==
  LET e == ExpandIfNecessary(s)
  IN  [e EXCEPT !.data  = [e.data EXCEPT ![e.right] = x],
                !.right = (e.right + 1) % e.capacity,
                !.size  = e.size + 1]

\* Mutant: right is taken for the last stored slot instead of the one after it.
RightSlotInclusive(s, i) == (s.right + s.capacity - i + 1) % s.capacity

\* The slot of the i-th item from the left, and from the right, from 1.
LeftSlot(s, i)  == (s.left + i - 1) % s.capacity
RightSlot(s, i) == IF s.right >= i THEN s.right - i ELSE s.right + s.capacity - i

Leftmost(s, n)  == [i \in 1..n |-> s.data[LeftSlot(s, i)]]
Rightmost(s, n) == [i \in 1..n |-> s.data[RightSlot(s, i)]]

\* Slots read by a pop are reset.
Reset(data, slots) == [j \in DOMAIN data |-> IF j \in slots THEN NULL ELSE data[j]]

DropLeft(s, n) ==
  [s EXCEPT !.data = Reset(s.data, {LeftSlot(s, i) : i \in 1..n}),
            !.left = (s.left + n) % s.capacity,
            !.size = s.size - n]

DropRight(s, n) ==
  [s EXCEPT !.data  = Reset(s.data, {RightSlot(s, i) : i \in 1..n}),
            !.right = IF n = 0 THEN s.right ELSE RightSlot(s, n),
            !.size  = s.size - n]

\* DestroyRange(left, right): the number of slots its do-while loop visits;
\* left = right with items stored means a full array.
Visited(s) ==
  IF s.size = 0 \/ s.left > s.capacity \/ s.right > s.capacity THEN 0
  ELSE IF s.right > s.left THEN s.right - s.left
  ELSE s.right + s.capacity - s.left

Destroyed(s) == Leftmost(s, Visited(s))

-----------------------------------------------------------------------------
Sides == {"left", "right"}

\* PopLeft and PopRight are PopLeftN and PopRightN of one item.
Pops       == {Request("pop", e, <<>>, n, w) : e \in Sides,
                                               n \in PopCounts \cup {1},
                                               w \in Timeouts}
Pushes     == {Request("push", e, <<x>>, 0, "none") : e \in Sides, x \in Items}
WaitEmptys == {Request("wait_empty", "right", <<>>, 0, w) : w \in Timeouts}
Others     == {Request(k, "right", <<>>, 0, "none") :
                 k \in {"count", "capacity", "copy"}}
Requests   == {r \in Pops \cup Pushes \cup WaitEmptys \cup Others :
                 r.kind \in Kinds}

\* Bound: room for one more item next to what is stored or being pushed.
WithinBounds ==
  d.size + Cardinality({t \in Threads : op[t] # NONE /\ op[t].kind = "push"})
    < MaxItems

Init ==
  /\ MonitorInit
  /\ d = NewDeque(0)
  /\ alive = FALSE

-----------------------------------------------------------------------------
\* A failure to initialize the mutex or a condition returns NULL and leaves
\* no deque behind; that is the step not taken.
ThreadedDequeNew(c) ==
  /\ ~alive /\ AllIdle
  /\ d' = NewDeque(c)
  /\ alive' = TRUE
  /\ UNCHANGED monitorVars

Call(t, r) ==
  /\ alive
  /\ r.kind = "push" => WithinBounds
  /\ Enter(t, r)
  /\ UNCHANGED dequeVars

\* A pop on an empty deque, allowed to wait.
PopWait(t) ==
  /\ In(t, "pop")
  /\ d.size = 0 /\ MayWait(t)
  /\ ThreadWait(t, "non_empty")
  /\ UNCHANGED dequeVars

\* The common end of the four pops.
PopFinish(t, n, xs) ==
  /\ Finish(t, Result(d.size > 0, n, xs),
            IF d.size = n THEN Broadcast("empty") ELSE {})
  /\ UNCHANGED alive

PopCount(t) == IF op[t].num < d.size THEN op[t].num ELSE d.size

ThreadedDequePopLeft(t) ==
  /\ In(t, "pop") /\ op[t].side = "left"
  /\ ~(d.size = 0 /\ MayWait(t))
  /\ d' = DropLeft(d, PopCount(t))
  /\ PopFinish(t, PopCount(t), Leftmost(d, PopCount(t)))

ThreadedDequePopRight(t) ==
  /\ In(t, "pop") /\ op[t].side = "right"
  /\ ~(d.size = 0 /\ MayWait(t))
  /\ d' = DropRight(d, PopCount(t))
  /\ PopFinish(t, PopCount(t), Rightmost(d, PopCount(t)))

\* Mutant: a push signals the condition of the emptied deque.
PushFinishWrongCond(t) ==
  /\ \E woken \in Signal("empty") :
       Finish(t, Result(TRUE, d'.size, <<>>), woken)
  /\ UNCHANGED alive

\* The common end of the two pushes.
PushFinish(t) ==
  /\ \E woken \in Signal("non_empty") :
       Finish(t, Result(TRUE, d'.size, <<>>), woken)
  /\ UNCHANGED alive

ThreadedDequePushLeft(t) ==
  /\ In(t, "push") /\ op[t].side = "left"
  /\ d' = PushLeft(d, op[t].items[1])
  /\ PushFinish(t)

ThreadedDequePushRight(t) ==
  /\ In(t, "push") /\ op[t].side = "right"
  /\ d' = PushRight(d, op[t].items[1])
  /\ PushFinish(t)

\* ThreadedDequeCount and ThreadedDequeIsEmpty.
ThreadedDequeCount(t) ==
  /\ In(t, "count")
  /\ Finish(t, Result(d.size = 0, d.size, <<>>), {})
  /\ UNCHANGED dequeVars

ThreadedDequeCapacity(t) ==
  /\ In(t, "capacity")
  /\ Finish(t, Result(TRUE, d.capacity, <<>>), {})
  /\ UNCHANGED dequeVars

WaitEmptyWait(t) ==
  /\ In(t, "wait_empty")
  /\ d.size # 0 /\ MayWait(t)
  /\ ThreadWait(t, "empty")
  /\ UNCHANGED dequeVars

ThreadedDequeWaitEmpty(t) ==
  /\ In(t, "wait_empty")
  /\ ~(d.size # 0 /\ MayWait(t))
  /\ Finish(t, Result(d.size = 0, 0, <<>>), {})
  /\ UNCHANGED dequeVars

\* The copy has its own data array with the same positions; the call fails
\* when a mutex or a condition of the copy cannot be initialized.
ThreadedDequeCopy(t) ==
  /\ In(t, "copy")
  /\ \/ Finish(t, Result(TRUE, 0, Leftmost(d, d.size)), {})
     \/ Finish(t, Result(FALSE, 0, <<>>), {})
  /\ UNCHANGED dequeVars

\* Destroy does not take the mutex, and relies on all threads being joined;
\* the thread that frees the deque is the only one left.  SoftDestroy leaves
\* the items to the caller.
ThreadedDequeDestroy(t) ==
  /\ alive /\ AllIdle
  /\ lock' = t
  /\ pc' = [pc EXCEPT ![t] = "unlock"]
  /\ \E xs \in {Destroyed(d), <<>>} :
       ret' = [ret EXCEPT ![t] = Result(TRUE, 0, xs)]
  /\ alive' = FALSE
  /\ UNCHANGED <<cond, op, d>>

\* What a thread inside a call does next, on its own.
Step(t) ==
  \/ Advance(t) /\ UNCHANGED dequeVars
  \/ PopWait(t) \/ ThreadedDequePopLeft(t) \/ ThreadedDequePopRight(t)
  \/ ThreadedDequePushLeft(t) \/ ThreadedDequePushRight(t)
  \/ WaitEmptyWait(t) \/ ThreadedDequeWaitEmpty(t)
  \/ ThreadedDequeCount(t) \/ ThreadedDequeCapacity(t) \/ ThreadedDequeCopy(t)

Next ==
  \/ \E c \in InitialCapacities : ThreadedDequeNew(c)
  \/ \E t \in Threads :
       \/ \E r \in Requests : Call(t, r)
       \/ Step(t)
       \/ Interrupt(t) /\ UNCHANGED dequeVars
       \/ ThreadedDequeDestroy(t)

Spec == Init /\ [][Next]_vars

-----------------------------------------------------------------------------
\* The fields of struct ThreadedDeque_.
DequeType(s) ==
  /\ DOMAIN s = {"data", "left", "right", "size", "capacity"}
  /\ s.capacity \in Nat \ {0}
  /\ s.data \in [0..(s.capacity - 1) -> Values]
  /\ s.left \in Nat /\ s.right \in Nat /\ s.size \in Nat

\* left, right, size and capacity agree: the stored items are the size slots
\* that start at left and end before right, around the end of the array.
Shape(s) ==
  /\ s.left < s.capacity /\ s.right < s.capacity /\ s.size <= s.capacity
  /\ \/ s.right = s.left + s.size
     \/ s.right + s.capacity = s.left + s.size

Stored(s) == \A i \in 1..s.size : s.data[LeftSlot(s, i)] \in Items

\* Types of the variables.
TypeOK ==
  /\ MonitorTypeOK
  /\ DequeType(d)
  /\ alive \in BOOLEAN
  /\ op \in [Threads -> Requests \cup {NONE}]
  /\ DOMAIN ret = Threads

\* left, right, size and capacity agree, whatever sequence of pushes and pops
\* at the two ends and of expansions produced them; in particular left =
\* right means empty or full, and size tells which.  A stored slot never holds
\* uninitialized memory or the NULL of a popped slot, and DestroyRange visits
\* exactly the stored slots.  The variables have their types.
RingShape == TypeOK /\ Shape(d) /\ Stored(d) /\ Visited(d) = d.size

\* While a consumer is blocked on cond_non_empty, every stored item has a
\* woken consumer on its way to it: no signal is lost between the producers,
\* consumers that time out, and consumers that arrive without waiting.  (This
\* needs that nobody pops zero items, as such a pop can wait, and takes the signal
\* and no item, and that no wait that times out uses up a signal.)  Nobody is left blocked in
\* ThreadedDequeWaitEmpty once the deque is empty: every pop that empties it
\* broadcasts cond_empty before it unlocks.
WaitersNotStranded ==
  /\ \/ Waiters("non_empty") = {}
     \/ d.size <= Cardinality({t \in Threads : OnItsWay(t)})
  /\ d.size = 0 => Waiters("empty") = {}

Contents == IF alive THEN Leftmost(d, d.size) ELSE <<>>

Abstract == INSTANCE BlockingDeque
              WITH items <- Contents, phase <- Phase,
                   NoRequest <- NONE, NoResult <- NONE

\* The deque implements the linearizable container of BlockingDeque: calls
\* take effect atomically at the ends they name, with the results it allows.
ImplementsBlockingDeque == Abstract!Spec

=============================================================================
