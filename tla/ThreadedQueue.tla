--------------------------- MODULE ThreadedQueue ---------------------------
(***************************************************************************)
(* libutils/threaded_queue.c: a thread-safe FIFO queue on a circular array *)
(* that doubles when it is full.  Consumers can block until the queue is   *)
(* non-empty, and other threads until it is empty.                         *)
(*                                                                         *)
(* The fields of struct ThreadedQueue_ are the record q; everything in it  *)
(* is read and written with the mutex held.  Each operation is one or more *)
(* steps between ThreadLock and ThreadUnlock of module Monitor.            *)
(***************************************************************************)
EXTENDS Monitor

CONSTANTS Items,             \* the pointers callers push
          NULL,              \* what a popped slot is reset to
          Garbage,           \* contents of memory from xmalloc or xrealloc
          DEFAULT_CAPACITY,  \* 16 in the code
          InitialCapacities, \* arguments of ThreadedQueueNew
          Kinds,             \* the operations the threads call
          PopCounts,         \* values of num given to PopN
          MaxPushN,          \* bound: the longest array given to PushN
          MaxItems           \* bound: items queued and being pushed

EXPAND_FACTOR == 2

ASSUME QueueAssumption ==
  /\ DEFAULT_CAPACITY \in Nat \ {0}
  /\ InitialCapacities \subseteq Nat
  /\ PopCounts \subseteq Nat
  /\ MaxPushN \in Nat
  /\ MaxItems \in Nat
  /\ NULL \notin Items
  /\ Garbage \notin Items

VARIABLES q,       \* head, tail, size, capacity and data of the queue
          alive,   \* between ThreadedQueueNew and ThreadedQueue(Soft)Destroy
          pushed   \* loop counter i of the PushN that holds the mutex

queueVars == <<q, alive, pushed>>
vars      == <<monitorVars, queueVars>>

-----------------------------------------------------------------------------
(***************************************************************************)
(* The circular array.                                                     *)
(***************************************************************************)
Values == Items \cup {NULL, Garbage}

NewQueue(initial_capacity) ==
  LET c == IF initial_capacity = 0 THEN DEFAULT_CAPACITY ELSE initial_capacity
  IN  [data |-> [i \in 0..(c - 1) |-> Garbage],
       head |-> 0, tail |-> 0, size |-> 0, capacity |-> c]

\* Mutant: the expansion forgets "tail += old_capacity".
ExpandKeepsTail(s) ==
  LET c == IF s.size = s.capacity THEN s.capacity * EXPAND_FACTOR ELSE s.capacity
  IN  [s EXCEPT !.data = [i \in 0..(c - 1) |->
                            IF i < s.capacity THEN s.data[i]
                            ELSE IF i - s.capacity < s.tail THEN s.data[i - s.capacity]
                            ELSE Garbage],
                !.capacity = c, !.tail = s.tail % c]

\* Mutant: the expansion forgets the memmove.
ExpandWithoutMove(s) ==
  LET full == s.size = s.capacity
      c    == IF full THEN s.capacity * EXPAND_FACTOR ELSE s.capacity
      end  == IF full /\ s.tail <= s.head THEN s.tail + s.capacity ELSE s.tail
  IN  [s EXCEPT !.data = [i \in 0..(c - 1) |-> IF i < s.capacity THEN s.data[i]
                                                                 ELSE Garbage],
                !.capacity = c, !.tail = end % c]

(***************************************************************************)
(* Doubles a full array.  The part that had wrapped around to the front is *)
(* copied behind the old end; the rest of the new half is uninitialized.   *)
(* tail may be equal to the capacity until the next call reduces it here.  *)
(***************************************************************************)
ExpandIfNecessary(s) ==
  LET full    == s.size = s.capacity
      wrapped == full /\ s.tail <= s.head
      c       == IF full THEN s.capacity * EXPAND_FACTOR ELSE s.capacity
      end     == IF wrapped THEN s.tail + s.capacity ELSE s.tail
      moved   == [i \in 0..(c - 1) |->
                    IF i < s.capacity THEN s.data[i]
                    ELSE IF wrapped /\ i < end THEN s.data[i - s.capacity]
                    ELSE Garbage]
  IN  [s EXCEPT !.data = moved, !.capacity = c, !.tail = end % c]

\* The body of the loop of PushN, and of Push.
PushItem(s, x) ==
  LET e == ExpandIfNecessary(s)
  IN  [e EXCEPT !.data = [e.data EXCEPT ![e.tail] = x],
                !.tail = e.tail + 1,
                !.size = e.size + 1]

\* The slot of the i-th item, counting from 1.
Slot(s, i) == (s.head + i - 1) % s.capacity

\* The n items at the head of the queue.
Front(s, n) == [i \in 1..n |-> s.data[Slot(s, i)]]

\* Removing them: every slot read is reset, head moves past them.
DropFront(s, n) ==
  [s EXCEPT !.data = [j \in DOMAIN s.data |->
                        IF \E i \in 1..n : j = Slot(s, i) THEN NULL
                                                          ELSE s.data[j]],
            !.head = (s.head + n) % s.capacity,
            !.size = s.size - n]

\* Mutant: start = end is taken for an empty range.
VisitedHalfOpen(s) == IF s.size = 0 THEN 0
                      ELSE (s.tail + s.capacity - s.head) % s.capacity

(***************************************************************************)
(* DestroyRange(queue, head, tail): how many slots its loop visits from    *)
(* head until the index is tail.  With tail = 0 the loop would never see   *)
(* i = end (see DestroyRangeExact).                                    *)
(***************************************************************************)
Visited(s) ==
  IF s.size = 0 \/ s.head > s.capacity \/ s.tail > s.capacity THEN 0
  ELSE IF s.tail > s.head THEN s.tail - s.head
  ELSE s.tail + s.capacity - s.head

\* The slots given to ItemDestroy, and the queue afterwards.
Destroyed(s)    == Front(s, Visited(s))
DestroyRange(s) == [s EXCEPT !.size = s.size - Visited(s)]

\* Clear resets the positions as well.
ClearQueue(s) == [DestroyRange(s) EXCEPT !.head = 0, !.tail = 0]

-----------------------------------------------------------------------------
(***************************************************************************)
(* Calls and results.                                                      *)
(***************************************************************************)
Arrays(n) == UNION {[1..k -> Items] : k \in 0..n}

\* Pop is PopN of one item: the same critical section.
Pops       == {Request("pop", "left", <<>>, n, w) : n \in PopCounts \cup {1},
                                                    w \in Timeouts}
\* Push is PushN of one item.
Pushes     == {Request("push", "right", xs, 0, "none") : xs \in Arrays(MaxPushN)}
Replaces   == {Request("clear_and_push", "right", <<x>>, 0, "none") :
                 x \in Items}
WaitEmptys == {Request("wait_empty", "right", <<>>, 0, w) : w \in Timeouts}
Others     == {Request(k, "right", <<>>, 0, "none") :
                 k \in {"count", "capacity", "copy", "clear"}}
Requests   == {r \in Pops \cup Pushes \cup Replaces \cup WaitEmptys \cup Others :
                 r.kind \in Kinds}

Pushing(t) == op[t] # NONE /\ op[t].kind \in {"push", "clear_and_push"}

\* Bound: room for the array xs next to what is queued or being pushed.
WithinBounds(xs) ==
  q.size + MaxPushN * Cardinality({t \in Threads : Pushing(t)}) + Len(xs)
    <= MaxItems

Init ==
  /\ MonitorInit
  /\ q = NewQueue(0)
  /\ alive = FALSE
  /\ pushed = 0

-----------------------------------------------------------------------------
\* A failure to initialize the mutex or a condition returns NULL and leaves
\* no queue behind; that is the step not taken.
ThreadedQueueNew(c) ==
  /\ ~alive /\ AllIdle
  /\ q' = NewQueue(c)
  /\ alive' = TRUE
  /\ UNCHANGED <<monitorVars, pushed>>

Call(t, r) ==
  /\ alive
  /\ r.items # <<>> => WithinBounds(r.items)
  /\ Enter(t, r)
  /\ UNCHANGED queueVars

\* Pop, PopN and PopNIntoArray on an empty queue, allowed to wait.
PopWait(t) ==
  /\ In(t, "pop")
  /\ q.size = 0 /\ MayWait(t)
  /\ ThreadWait(t, "non_empty")
  /\ UNCHANGED queueVars

\* Pop, PopN and PopNIntoArray: take up to num items; tell the threads in
\* WaitEmpty when nothing is left.
ThreadedQueuePop(t) ==
  /\ In(t, "pop")
  /\ ~(q.size = 0 /\ MayWait(t))
  /\ LET n == IF op[t].num < q.size THEN op[t].num ELSE q.size IN
     /\ q' = DropFront(q, n)
     /\ Finish(t, Result(q.size > 0, n, Front(q, n)),
               IF q.size = n THEN Broadcast("empty") ELSE {})
  /\ UNCHANGED <<alive, pushed>>

\* One iteration of the loop of PushN.
PushStep(t) ==
  /\ In(t, "push")
  /\ pushed < Len(op[t].items)
  /\ q' = PushItem(q, op[t].items[pushed + 1])
  /\ pushed' = pushed + 1
  /\ UNCHANGED <<monitorVars, alive>>

\* Mutant: a push signals only when the queue was empty.
PushSignalsIfEmpty(t) ==
  /\ In(t, "push")
  /\ pushed = Len(op[t].items)
  /\ \E woken \in (IF q.size = pushed THEN Signal("non_empty") ELSE {{}}) :
       Finish(t, Result(TRUE, q.size, <<>>), woken)
  /\ pushed' = 0
  /\ UNCHANGED <<q, alive>>

\* The end of Push and PushN: one signal, however many items were pushed.
ThreadedQueuePush(t) ==
  /\ In(t, "push")
  /\ pushed = Len(op[t].items)
  /\ \E woken \in Signal("non_empty") :
       Finish(t, Result(TRUE, q.size, <<>>), woken)
  /\ pushed' = 0
  /\ UNCHANGED <<q, alive>>

\* ThreadedQueueCount and ThreadedQueueIsEmpty.
ThreadedQueueCount(t) ==
  /\ In(t, "count")
  /\ Finish(t, Result(q.size = 0, q.size, <<>>), {})
  /\ UNCHANGED queueVars

ThreadedQueueCapacity(t) ==
  /\ In(t, "capacity")
  /\ Finish(t, Result(TRUE, q.capacity, <<>>), {})
  /\ UNCHANGED queueVars

\* The copy has its own data array with the same positions; the call fails
\* when a mutex or a condition of the copy cannot be initialized.
ThreadedQueueCopy(t) ==
  /\ In(t, "copy")
  /\ \/ Finish(t, Result(TRUE, 0, Front(q, q.size)), {})
     \/ Finish(t, Result(FALSE, 0, <<>>), {})
  /\ UNCHANGED queueVars

WaitEmptyWait(t) ==
  /\ In(t, "wait_empty")
  /\ q.size # 0 /\ MayWait(t)
  /\ ThreadWait(t, "empty")
  /\ UNCHANGED queueVars

\* Mutant: the predicate is not evaluated again after a wakeup.
WaitEmptyOnce(t) ==
  /\ In(t, "wait_empty")
  /\ ~(q.size # 0 /\ MayWait(t)) \/ pc[t] = "recheck"
  /\ Finish(t, Result(MayWait(t) \/ q.size = 0, 0, <<>>), {})
  /\ UNCHANGED queueVars

ThreadedQueueWaitEmpty(t) ==
  /\ In(t, "wait_empty")
  /\ ~(q.size # 0 /\ MayWait(t))
  /\ Finish(t, Result(q.size = 0, 0, <<>>), {})
  /\ UNCHANGED queueVars

\* Mutant: Clear does not broadcast.
ClearSilent(t) ==
  /\ In(t, "clear")
  /\ q' = ClearQueue(q)
  /\ Finish(t, Result(TRUE, 0, Destroyed(q)), {})
  /\ UNCHANGED <<alive, pushed>>

ThreadedQueueClear(t) ==
  /\ In(t, "clear")
  /\ q' = ClearQueue(q)
  /\ Finish(t, Result(TRUE, 0, Destroyed(q)), Broadcast("empty"))
  /\ UNCHANGED <<alive, pushed>>

ThreadedQueueClearAndPush(t) ==
  /\ In(t, "clear_and_push")
  /\ q' = PushItem(ClearQueue(q), op[t].items[1])
  /\ \E woken \in Signal("non_empty") :
       Finish(t, Result(TRUE, q'.size, Destroyed(q)), woken)
  /\ UNCHANGED <<alive, pushed>>

\* "ThreadedQueue should only be destroyed if all threads are joined": no
\* other call is in progress.  SoftDestroy leaves the items to the caller.
ThreadedQueueDestroy(t) ==
  /\ alive /\ AllIdle
  /\ lock' = t
  /\ pc' = [pc EXCEPT ![t] = "unlock"]
  /\ \/ /\ q' = DestroyRange(q)
        /\ ret' = [ret EXCEPT ![t] = Result(TRUE, 0, Destroyed(q))]
     \/ /\ UNCHANGED q
        /\ ret' = [ret EXCEPT ![t] = Result(TRUE, 0, <<>>)]
  /\ alive' = FALSE
  /\ UNCHANGED <<cond, op, pushed>>

\* What a thread inside a call does next, on its own.
Step(t) ==
  \/ Advance(t) /\ UNCHANGED queueVars
  \/ PopWait(t) \/ ThreadedQueuePop(t)
  \/ PushStep(t) \/ ThreadedQueuePush(t)
  \/ WaitEmptyWait(t) \/ ThreadedQueueWaitEmpty(t)
  \/ ThreadedQueueCount(t) \/ ThreadedQueueCapacity(t) \/ ThreadedQueueCopy(t)
  \/ ThreadedQueueClear(t) \/ ThreadedQueueClearAndPush(t)

Next ==
  \/ \E c \in InitialCapacities : ThreadedQueueNew(c)
  \/ \E t \in Threads :
       \/ \E r \in Requests : Call(t, r)
       \/ Step(t)
       \/ Interrupt(t) /\ UNCHANGED queueVars
       \/ ThreadedQueueDestroy(t)

Spec == Init /\ [][Next]_vars

-----------------------------------------------------------------------------
(***************************************************************************)
(* Properties.                                                             *)
(***************************************************************************)

\* The fields of struct ThreadedQueue_.
QueueType(s) ==
  /\ DOMAIN s = {"data", "head", "tail", "size", "capacity"}
  /\ s.capacity \in Nat \ {0}
  /\ s.data \in [0..(s.capacity - 1) -> Values]
  /\ s.head \in Nat /\ s.tail \in Nat /\ s.size \in Nat

\* Types of the variables: every index stays a natural number (size_t never
\* wraps below zero), the array has capacity slots, and the loop counter of
\* PushN stays within the array it was given.
TypeOK ==
  /\ MonitorTypeOK
  /\ QueueType(q)
  /\ alive \in BOOLEAN
  /\ op \in [Threads -> Requests \cup {NONE}]
  /\ pushed \in 0..MaxPushN
  /\ DOMAIN ret = Threads

\* head, tail, size and capacity agree, whatever sequence of pushes, pops,
\* clears and expansions produced them: the stored items are the size slots
\* that start at head and end before tail, taken around the end of the array.
\* An empty queue has tail = head, or head = 0 and tail one past the end.  The
\* variables have their types.
Shape(s) ==
  /\ s.head < s.capacity /\ s.tail <= s.capacity /\ s.size <= s.capacity
  /\ \/ s.tail = s.head + s.size
     \/ s.tail + s.capacity = s.head + s.size
     \/ s.size = 0 /\ s.head = 0 /\ s.tail = s.capacity
  /\ s.size > 0 => s.tail > 0
RingShape == TypeOK /\ (alive => Shape(q))

\* DestroyRange(head, tail) visits exactly the stored items: its loop meets
\* its end (it would not with tail = 0), the size it counts down is zero
\* afterwards, as ThreadedQueueClear asserts, and no slot is destroyed twice.
DestroyRangeExact == alive /\ q.size > 0 => q.tail # 0 /\ Visited(q) = q.size

\* A stored slot never holds uninitialized memory or the NULL of a popped
\* slot, also right after xrealloc moved a queue that had wrapped around.
Stored(s) == \A i \in 1..s.size : s.data[Slot(s, i)] \in Items
StoredSlotsHoldItems == alive => Stored(q)

\* Nobody is left blocked in ThreadedQueueWaitEmpty once the queue is empty:
\* every operation that empties it broadcasts cond_empty before it unlocks.
EmptyWaitersReleased == q.size = 0 => Waiters("empty") = {}

\* No consumer stays blocked on cond_non_empty while there are items, unless
\* as many woken consumers are on their way to them or a push that has not
\* signalled yet still holds the mutex.  (Holds when PushN pushes at most one
\* item, as it signals once, nobody pops zero items, as such a pop takes the
\* signal and no item, and no wait that times out uses up a signal, as the call
\* then returns without another look at the queue.)
ConsumersNotStranded ==
  Waiters("non_empty") = {}
    \/ q.size <= pushed + Cardinality({t \in Threads : OnItsWay(t)})

\* threaded_queue.c says of cond_non_empty "Blocking condition if empty": a
\* consumer is blocked on it only while the queue is empty, or while someone
\* who will take or announce the items is running.
BlockedOnlyIfEmpty ==
  Waiters("non_empty") # {} /\ q.size > 0 =>
    \E t \in Threads : pc[t] \in Holding \/ OnItsWay(t)

-----------------------------------------------------------------------------
(***************************************************************************)
(* Every behaviour of the queue is one of the abstract container: calls    *)
(* take effect atomically, in FIFO order, with the results it allows.  The *)
(* items a PushN in progress has already stored become visible when it     *)
(* finishes.                                                               *)
(***************************************************************************)
Contents == IF alive THEN Front(q, q.size - pushed) ELSE <<>>

Abstract == INSTANCE BlockingDeque
              WITH items <- Contents, phase <- Phase,
                   NoRequest <- NONE, NoResult <- NONE

\* The queue implements the linearizable container of BlockingDeque.
ImplementsBlockingDeque == Abstract!Spec

-----------------------------------------------------------------------------
(***************************************************************************)
(* Liveness.  A thread inside a call keeps running, a mutex that is free   *)
(* again and again is not refused to the same thread forever, and a wait   *)
(* that is not interrupted reaches its deadline.  Callers owe nothing:     *)
(* there is no fairness on Call, SpuriousWakeup or Destroy.                *)
(***************************************************************************)
Fairness ==
  \A t \in Threads : /\ WF_vars(Step(t))
                     /\ SF_vars(ThreadLock(t) /\ UNCHANGED queueVars)
                     /\ SF_vars(Reacquire(t) /\ UNCHANGED queueVars)
                     /\ WF_vars(Expire(t) /\ UNCHANGED queueVars)

FairSpec == Spec /\ Fairness

\* A call that never waits returns: no path of any operation, a timeout's
\* early return included, keeps the mutex or the caller forever.  A pop returns,
\* or finds the queue empty at some later moment: it is never passed over for
\* ever while there is something to take.
CallsReturn ==
  \A t \in Threads :
    /\ (op[t] # NONE /\ op[t].timeout = "none") ~> pc[t] = "idle"
    /\ (op[t] # NONE /\ op[t].kind = "pop") ~> (pc[t] = "idle" \/ q.size = 0)

=============================================================================
