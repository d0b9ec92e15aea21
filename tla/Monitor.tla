------------------------------ MODULE Monitor ------------------------------
(***************************************************************************)
(* The locking layer under the threaded containers: one error-checking     *)
(* mutex, its condition variables, and the wrappers ThreadLock,            *)
(* ThreadUnlock and ThreadWait of libutils/mutex.c.  A thread that runs a  *)
(* container operation goes through these control states:                  *)
(*                                                                         *)
(*   idle      not inside an operation                                     *)
(*   lock      in pthread_mutex_lock at the head of the operation          *)
(*   body      holds the mutex, has not waited in this operation           *)
(*   wait      in pthread_cond_(timed)wait, the mutex released             *)
(*   woken     signalled (or woken spuriously), wants the mutex back       *)
(*   timedout  the timeout expired, wants the mutex back                   *)
(*   recheck   holds the mutex again, ThreadWait returned 0                *)
(*   expired   holds the mutex again, ThreadWait returned ETIMEDOUT        *)
(*   unlock    holds the mutex, the result is known, about to release it   *)
(*                                                                         *)
(* The wrappers end the process when pthread reports any other error; that *)
(* is the end of the behaviour and is not modelled.                        *)
(***************************************************************************)
EXTENDS Integers, Sequences, FiniteSets

CONSTANTS Threads,  \* the threads that share the container
          NoThread, \* the value of lock when nobody holds the mutex
          NONE,     \* no call, no result
          TimeoutTakesSignal \* whether a wait that times out may use up a signal

ASSUME TimeoutAssumption == TimeoutTakesSignal \in BOOLEAN
ASSUME NoThreadAssumption == NoThread \notin Threads
ASSUME ThreadsAssumption == IsFiniteSet(Threads)

VARIABLES lock,     \* the thread that holds the mutex, or NoThread
          pc,       \* the control state of every thread
          cond,     \* the condition variable a waiting thread is blocked on
          op,       \* the call a thread is executing
          ret       \* what that call is about to return

monitorVars == <<lock, pc, cond, op, ret>>

PCs == {"idle", "lock", "body", "wait", "woken", "timedout",
        "recheck", "expired", "unlock"}

\* The control states in which a thread owns the mutex.
Holding == {"body", "recheck", "expired", "unlock"}

\* The two condition variables of a container, and "none" for a thread that
\* is not blocked on either.
Conds == {"none", "non_empty", "empty"}

\* A timeout argument: 0, THREAD_BLOCK_INDEFINITELY, or a number of seconds.
Timeouts == {"none", "forever", "seconds"}

\* A call: the operation, the end of the container it works on, the items it
\* brings, how many it asks for, and its timeout.
Request(kind, side, xs, num, timeout) ==
  [kind |-> kind, side |-> side, items |-> xs, num |-> num, timeout |-> timeout]

\* What a call returns: success, a number, and items handed to the caller or
\* to ItemDestroy, in that order.
Result(ok, n, xs) == [ok |-> ok, n |-> n, xs |-> xs]

MonitorInit ==
  /\ lock = NoThread
  /\ pc   = [t \in Threads |-> "idle"]
  /\ cond = [t \in Threads |-> "none"]
  /\ op   = [t \in Threads |-> NONE]
  /\ ret  = [t \in Threads |-> NONE]

\* Threads blocked on condition variable c.
Waiters(c) == {t \in Threads : pc[t] = "wait" /\ cond[t] = c}

\* The sets of threads one pthread_cond_signal may wake.  Waking more than
\* one, which POSIX allows, is SpuriousWakeup.
Signal(c) == IF Waiters(c) = {} THEN {{}} ELSE {{t} : t \in Waiters(c)}

\* pthread_cond_broadcast wakes them all.
Broadcast(c) == Waiters(c)

\* t is in the critical section of a call of this kind, its predicate about
\* to be evaluated.
In(t, kind) == pc[t] \in {"body", "recheck"} /\ op[t].kind = kind

MayWait(t) == op[t].timeout # "none"

-----------------------------------------------------------------------------
\* Entering an operation: the thread calls ThreadLock.
Enter(t, r) ==
  /\ pc[t] = "idle"
  /\ pc' = [pc EXCEPT ![t] = "lock"]
  /\ op' = [op EXCEPT ![t] = r]
  /\ UNCHANGED <<lock, cond, ret>>

ThreadLock(t) ==
  /\ pc[t] = "lock"
  /\ lock = NoThread
  /\ lock' = t
  /\ pc' = [pc EXCEPT ![t] = "body"]
  /\ UNCHANGED <<cond, op, ret>>

\* Blocking: the mutex is released and the thread queued in one step.
ThreadWait(t, c) ==
  /\ lock' = NoThread
  /\ pc'   = [pc EXCEPT ![t] = "wait"]
  /\ cond' = [cond EXCEPT ![t] = c]
  /\ UNCHANGED <<op, ret>>

\* A wakeup that no signal caused.
SpuriousWakeup(t) ==
  /\ pc[t] = "wait"
  /\ pc'   = [pc EXCEPT ![t] = "woken"]
  /\ cond' = [cond EXCEPT ![t] = "none"]
  /\ UNCHANGED <<lock, op, ret>>

\* pthread_cond_timedwait reaches its deadline.  POSIX lets it report so also
\* when a signal reached it at the same time ("may consume a condition signal
\* directed concurrently at the condition variable"); that is the second case.
Expire(t) ==
  /\ \/ pc[t] = "wait"
     \/ TimeoutTakesSignal /\ pc[t] = "woken"
  /\ op[t].timeout = "seconds"
  /\ pc'   = [pc EXCEPT ![t] = "timedout"]
  /\ cond' = [cond EXCEPT ![t] = "none"]
  /\ UNCHANGED <<lock, op, ret>>

\* Mutant: ThreadWait returns from a timeout without the mutex.
ReacquireUnlocked(t) ==
  /\ pc[t] \in {"woken", "timedout"}
  /\ IF pc[t] = "woken" THEN lock = NoThread /\ lock' = t ELSE UNCHANGED lock
  /\ pc' = [pc EXCEPT ![t] = IF pc[t] = "woken" THEN "recheck" ELSE "expired"]
  /\ UNCHANGED <<cond, op, ret>>

\* ThreadWait returns: in every case with the mutex held again.
Reacquire(t) ==
  /\ pc[t] \in {"woken", "timedout"}
  /\ lock = NoThread
  /\ lock' = t
  /\ pc' = [pc EXCEPT ![t] = IF pc[t] = "woken" THEN "recheck" ELSE "expired"]
  /\ UNCHANGED <<cond, op, ret>>

\* The critical section of t is over; the threads in woken are woken by it.
Finish(t, result, woken) ==
  /\ pc' = [u \in Threads |-> IF u = t THEN "unlock"
                              ELSE IF u \in woken THEN "woken" ELSE pc[u]]
  /\ cond' = [u \in Threads |-> IF u \in woken THEN "none" ELSE cond[u]]
  /\ ret' = [ret EXCEPT ![t] = result]
  /\ UNCHANGED <<lock, op>>

\* Mutant: the early return of a timeout forgets ThreadUnlock.
GiveUpLocked(t) ==
  /\ pc[t] = "expired"
  /\ pc'  = [pc EXCEPT ![t] = "idle"]
  /\ op'  = [op EXCEPT ![t] = NONE]
  /\ ret' = [ret EXCEPT ![t] = NONE]
  /\ UNCHANGED <<lock, cond>>

\* ThreadWait returned ETIMEDOUT: the call gives up, having taken nothing.
GiveUp(t) ==
  /\ pc[t] = "expired"
  /\ Finish(t, Result(FALSE, 0, <<>>), {})

\* The mutex is released and the call returns.
ThreadUnlock(t) ==
  /\ pc[t] = "unlock"
  /\ lock' = NoThread
  /\ pc'  = [pc EXCEPT ![t] = "idle"]
  /\ op'  = [op EXCEPT ![t] = NONE]
  /\ ret' = [ret EXCEPT ![t] = NONE]
  /\ UNCHANGED cond

\* The steps that do not touch the container.
Advance(t)   == ThreadLock(t) \/ Reacquire(t) \/ GiveUp(t) \/ ThreadUnlock(t)
Interrupt(t) == Expire(t) \/ SpuriousWakeup(t)

\* A container is freed when every thread that used it is joined.
AllIdle == \A t \in Threads : pc[t] = "idle"

-----------------------------------------------------------------------------
MonitorTypeOK ==
  /\ lock \in Threads \cup {NoThread}
  /\ pc   \in [Threads -> PCs]
  /\ cond \in [Threads -> Conds]

\* The mutex protects what it should: exactly the thread that owns it is
\* between ThreadLock and ThreadUnlock, also after ThreadWait returned and
\* on the early returns of a timeout ("Lock is reacquired even when timed
\* out, so it needs to be released again").
MutualExclusion == \A t \in Threads : pc[t] \in Holding <=> lock = t

\* A consumer that was woken for an item and has not yet looked at the
\* container.
OnItsWay(t) == pc[t] \in {"woken", "recheck"} /\ op[t].kind = "pop"

\* The phases of a call as its caller sees them.
Phase == [t \in Threads |-> CASE pc[t] = "idle"   -> "idle"
                              [] pc[t] = "unlock" -> "done"
                              [] OTHER            -> "pending"]

=============================================================================
