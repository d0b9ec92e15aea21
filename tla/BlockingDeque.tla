--------------------------- MODULE BlockingDeque ---------------------------
(***************************************************************************)
(* What a threaded container promises its callers: a double-ended sequence *)
(* of items whose operations are linearizable.  An operation is invoked,   *)
(* takes effect in one step, and returns; nothing about locks, condition   *)
(* variables, circular arrays or capacities is visible.  ThreadedQueue     *)
(* uses it with pushes on the right and pops on the left only;             *)
(* ThreadedDeque uses both sides.                                          *)
(***************************************************************************)
EXTENDS Naturals, Sequences

CONSTANTS Threads, Requests, NoRequest, NoResult

VARIABLES items,   \* the contents, leftmost first
          alive,   \* the container exists
          phase,   \* of every thread: "idle", "pending" or "done"
          op,      \* the request of a thread that is not idle
          ret      \* the result of a thread that is "done"

vars == <<items, alive, phase, op, ret>>

\* A result: did the call succeed, the number it reports, and the items it
\* hands to the caller (or to ItemDestroy, in that order).
Result(ok, n, xs) == [ok |-> ok, n |-> n, xs |-> xs]

Lesser(a, b) == IF a < b THEN a ELSE b

Leftmost(n)  == SubSeq(items, 1, n)
Rightmost(n) == [i \in 1..n |-> items[Len(items) - i + 1]]

-----------------------------------------------------------------------------
Init ==
  /\ items = <<>>
  /\ alive = FALSE
  /\ phase = [t \in Threads |-> "idle"]
  /\ op    = [t \in Threads |-> NoRequest]
  /\ ret   = [t \in Threads |-> NoResult]

\* Creating the container; nobody can use it before.
Create ==
  /\ ~alive
  /\ alive' = TRUE
  /\ items' = <<>>
  /\ UNCHANGED <<phase, op, ret>>

Invoke(t, r) ==
  /\ alive
  /\ phase[t] = "idle"
  /\ phase' = [phase EXCEPT ![t] = "pending"]
  /\ op'    = [op EXCEPT ![t] = r]
  /\ UNCHANGED <<items, alive, ret>>

Pending(t, kind) == phase[t] = "pending" /\ op[t].kind = kind

\* The one step in which the operation of t takes effect.
Effect(t, result, contents) ==
  /\ phase' = [phase EXCEPT ![t] = "done"]
  /\ ret'   = [ret EXCEPT ![t] = result]
  /\ items' = contents
  /\ UNCHANGED <<alive, op>>

Push(t) ==
  /\ Pending(t, "push")
  /\ LET new == IF op[t].side = "right" THEN items \o op[t].items
                                        ELSE op[t].items \o items
     IN  Effect(t, Result(TRUE, Len(new), <<>>), new)

\* A pop takes as many items as it asked for, or all there are.  A pop that
\* may wait never takes effect on an empty container: it stays pending.
Pop(t) ==
  /\ Pending(t, "pop")
  /\ op[t].timeout # "none" => items # <<>>
  /\ LET n == Lesser(op[t].num, Len(items)) IN
     IF op[t].side = "left"
       THEN Effect(t, Result(items # <<>>, n, Leftmost(n)),
                   SubSeq(items, n + 1, Len(items)))
       ELSE Effect(t, Result(items # <<>>, n, Rightmost(n)),
                   SubSeq(items, 1, Len(items) - n))

\* A call with a finite timeout may give up at any time, having changed nothing.
GiveUp(t) ==
  /\ Pending(t, "pop") \/ Pending(t, "wait_empty")
  /\ op[t].timeout = "seconds"
  /\ Effect(t, Result(FALSE, 0, <<>>), items)

\* Waiting for emptiness reports TRUE only in a state where nothing is left.
WaitEmpty(t) ==
  /\ Pending(t, "wait_empty")
  /\ op[t].timeout # "none" => items = <<>>
  /\ Effect(t, Result(items = <<>>, 0, <<>>), items)

Count(t) ==
  /\ Pending(t, "count")
  /\ Effect(t, Result(items = <<>>, Len(items), <<>>), items)

\* The capacity is never less than what the container holds.
Capacity(t) ==
  /\ Pending(t, "capacity")
  /\ Effect(t, ret'[t], items)
  /\ ret'[t] = Result(TRUE, ret'[t].n, <<>>)
  /\ ret'[t].n >= Len(items)

\* A copy holds the same items in the same order, unless making it failed.
Copy(t) ==
  /\ Pending(t, "copy")
  /\ \/ Effect(t, Result(TRUE, 0, items), items)
     \/ Effect(t, Result(FALSE, 0, <<>>), items)

\* Every item is destroyed exactly once, leftmost first.
Clear(t) ==
  /\ Pending(t, "clear")
  /\ Effect(t, Result(TRUE, 0, items), <<>>)

ClearAndPush(t) ==
  /\ Pending(t, "clear_and_push")
  /\ Effect(t, Result(TRUE, 1, items), op[t].items)

Return(t) ==
  /\ phase[t] = "done"
  /\ phase' = [phase EXCEPT ![t] = "idle"]
  /\ op'    = [op EXCEPT ![t] = NoRequest]
  /\ ret'   = [ret EXCEPT ![t] = NoResult]
  /\ UNCHANGED <<items, alive>>

\* The container is freed by the last thread that uses it: its items are all
\* destroyed, in order, or (SoftDestroy) all left to the caller.
Destroy(t) ==
  /\ alive
  /\ \A u \in Threads : phase[u] = "idle"
  /\ alive' = FALSE
  /\ items' = <<>>
  /\ phase' = [phase EXCEPT ![t] = "done"]
  /\ \E xs \in {items, <<>>} : ret' = [ret EXCEPT ![t] = Result(TRUE, 0, xs)]
  /\ UNCHANGED op

Next ==
  \/ Create
  \/ \E t \in Threads :
       \/ \E r \in Requests : Invoke(t, r)
       \/ Push(t) \/ Pop(t) \/ GiveUp(t) \/ WaitEmpty(t)
       \/ Count(t) \/ Capacity(t) \/ Copy(t)
       \/ Clear(t) \/ ClearAndPush(t) \/ Destroy(t) \/ Return(t)

Spec == Init /\ [][Next]_vars
=============================================================================
