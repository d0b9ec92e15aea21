--------------------------- MODULE ThreadedStack ---------------------------
(***************************************************************************)
(* libutils/stack_base.c, stack.c and threaded_stack.c: a stack on an      *)
(* array that doubles when it is full, and its thread-safe form, which     *)
(* runs the operations of the plain one under a mutex and never waits.     *)
(* The fields of struct Stack_ are the record s.                           *)
(***************************************************************************)
EXTENDS Monitor

CONSTANTS Items,             \* the pointers callers push
          NULL,              \* what a popped slot is reset to
          Garbage,           \* contents of memory from xrealloc
          DEFAULT_CAPACITY,  \* 16 in the code
          InitialCapacities, \* arguments of ThreadedStackNew
          MaxItems           \* bound: items stored and being pushed

EXPAND_FACTOR == 2

ASSUME StackAssumption ==
  /\ DEFAULT_CAPACITY \in Nat \ {0}
  /\ InitialCapacities \subseteq Nat
  /\ MaxItems \in Nat
  /\ NULL \notin Items
  /\ Garbage \notin Items

VARIABLES s,       \* data, size and capacity of the stack
          alive    \* between ThreadedStackNew and ThreadedStack(Soft)Destroy

stackVars == <<s, alive>>
vars      == <<monitorVars, stackVars>>

-----------------------------------------------------------------------------
\* The array comes from xcalloc.
StackInit(initial_capacity) ==
  LET c == IF initial_capacity = 0 THEN DEFAULT_CAPACITY ELSE initial_capacity
  IN  [data |-> [i \in 0..(c - 1) |-> NULL], size |-> 0, capacity |-> c]

\* Mutant: the new array is not filled from the old one.
ExpandForgets(k) ==
  LET c == IF k.size = k.capacity THEN k.capacity * EXPAND_FACTOR ELSE k.capacity
  IN  [k EXCEPT !.data = [i \in 0..(c - 1) |->
                            IF c = k.capacity THEN k.data[i] ELSE Garbage],
                !.capacity = c]

ExpandIfNecessary(k) ==
  LET c == IF k.size = k.capacity THEN k.capacity * EXPAND_FACTOR ELSE k.capacity
  IN  [k EXCEPT !.data = [i \in 0..(c - 1) |->
                            IF i < k.capacity THEN k.data[i] ELSE Garbage],
                !.capacity = c]

StackPush(k, x) ==
  LET e == ExpandIfNecessary(k)
  IN  [e EXCEPT !.data = [e.data EXCEPT ![e.size] = x], !.size = e.size + 1]

StackPop(k) ==
  IF k.size = 0 THEN k
  ELSE [k EXCEPT !.data = [k.data EXCEPT ![k.size - 1] = NULL],
                 !.size = k.size - 1]

\* StackTop, and the item StackPop returns: NULL on an empty stack.
StackTop(k) == IF k.size = 0 THEN NULL ELSE k.data[k.size - 1]

\* StackCopy copies size slots into an array of the same capacity.
StackCopy(k) == [k EXCEPT !.data = [i \in DOMAIN k.data |->
                                      IF i < k.size THEN k.data[i] ELSE Garbage]]

\* The slots from the bottom; DestroyRange(0, size) visits them in this order.
Bottom(k) == [i \in 1..k.size |-> k.data[i - 1]]

-----------------------------------------------------------------------------
Pushes   == {Request("push", "right", <<x>>, 0, "none") : x \in Items}
Others   == {Request(k, "right", <<>>, 1, "none") :
               k \in {"pop", "count", "capacity", "copy"}}
Requests == Pushes \cup Others

\* Bound: room for one more item next to what is stored or being pushed.
WithinBounds ==
  s.size + Cardinality({t \in Threads : op[t] # NONE /\ op[t].kind = "push"})
    < MaxItems

Init ==
  /\ MonitorInit
  /\ s = StackInit(0)
  /\ alive = FALSE

\* A failure to initialize the mutex returns NULL and leaves no stack behind.
ThreadedStackNew(c) ==
  /\ ~alive /\ AllIdle
  /\ s' = StackInit(c)
  /\ alive' = TRUE
  /\ UNCHANGED monitorVars

Call(t, r) ==
  /\ alive
  /\ r.kind = "push" => WithinBounds
  /\ Enter(t, r)
  /\ UNCHANGED stackVars

ThreadedStackPop(t) ==
  /\ In(t, "pop")
  /\ s' = StackPop(s)
  /\ Finish(t, IF StackTop(s) = NULL THEN Result(FALSE, 0, <<>>)
                                     ELSE Result(TRUE, 1, <<StackTop(s)>>), {})
  /\ UNCHANGED alive

\* ThreadedStackPush, and ThreadedStackPushReportCount, which returns the size.
ThreadedStackPush(t) ==
  /\ In(t, "push")
  /\ s' = StackPush(s, op[t].items[1])
  /\ Finish(t, Result(TRUE, s'.size, <<>>), {})
  /\ UNCHANGED alive

\* ThreadedStackCount and ThreadedStackIsEmpty.
ThreadedStackCount(t) ==
  /\ In(t, "count")
  /\ Finish(t, Result(s.size = 0, s.size, <<>>), {})
  /\ UNCHANGED stackVars

ThreadedStackCapacity(t) ==
  /\ In(t, "capacity")
  /\ Finish(t, Result(TRUE, s.capacity, <<>>), {})
  /\ UNCHANGED stackVars

\* The mutex of the copy may fail to initialize.
ThreadedStackCopy(t) ==
  /\ In(t, "copy")
  /\ \/ Finish(t, Result(TRUE, 0, Bottom(StackCopy(s))), {})
     \/ Finish(t, Result(FALSE, 0, <<>>), {})
  /\ UNCHANGED stackVars

\* Destroy gives every stored item to ItemDestroy; SoftDestroy none.
ThreadedStackDestroy(t) ==
  /\ alive /\ AllIdle
  /\ lock' = t
  /\ pc' = [pc EXCEPT ![t] = "unlock"]
  /\ \E xs \in {Bottom(s), <<>>} :
       ret' = [ret EXCEPT ![t] = Result(TRUE, 0, xs)]
  /\ alive' = FALSE
  /\ UNCHANGED <<cond, op, s>>

Step(t) ==
  \/ (ThreadLock(t) \/ ThreadUnlock(t)) /\ UNCHANGED stackVars
  \/ ThreadedStackPop(t) \/ ThreadedStackPush(t)
  \/ ThreadedStackCount(t) \/ ThreadedStackCapacity(t) \/ ThreadedStackCopy(t)

Next ==
  \/ \E c \in InitialCapacities : ThreadedStackNew(c)
  \/ \E t \in Threads :
       \/ \E r \in Requests : Call(t, r)
       \/ Step(t)
       \/ ThreadedStackDestroy(t)

Spec == Init /\ [][Next]_vars

-----------------------------------------------------------------------------
\* Types of the variables, and the bound of the array: no slot at or above
\* the capacity is ever written.
TypeOK ==
  /\ MonitorTypeOK
  /\ s.capacity \in Nat \ {0}
  /\ s.data \in [0..(s.capacity - 1) -> Items \cup {NULL, Garbage}]
  /\ s.size \in 0..s.capacity
  /\ alive \in BOOLEAN
  /\ op \in [Threads -> Requests \cup {NONE}]

\* The items, the one pushed last on the right.
StackContents == IF alive THEN Bottom(s) ELSE <<>>

Abstract == INSTANCE BlockingDeque
              WITH items <- StackContents, phase <- Phase,
                   NoRequest <- NONE, NoResult <- NONE

\* The stack implements the container of BlockingDeque with pushes and pops
\* on the right: a pop returns the last item pushed and not yet popped, and
\* the NULL of a pop on an empty stack is never mistaken for an item.
ImplementsBlockingDeque == Abstract!Spec

=============================================================================
