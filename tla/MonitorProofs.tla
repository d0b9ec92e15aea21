--------------------------- MODULE MonitorProofs ---------------------------
(***************************************************************************)
(* The steps of module Monitor keep the ownership of the mutex and the     *)
(* control states of the threads consistent.  The threaded containers are  *)
(* built from these steps, and their proofs cite these lemmas.             *)
(***************************************************************************)
EXTENDS Monitor, FiniteSetTheorems, SequenceTheorems, TLAPS

\* The part of every container's invariant that speaks of the mutex.
MonitorInv == MonitorTypeOK /\ MutualExclusion

\* Initially nobody owns the mutex.
LEMMA MonitorInitOK == MonitorInit => MonitorInv
BY NoThreadAssumption
   DEF MonitorInit, MonitorInv, MonitorTypeOK, MutualExclusion, PCs, Conds, Holding

\* Nothing changes when no variable of the monitor does.
LEMMA MonitorStutterOK == MonitorInv /\ UNCHANGED monitorVars => MonitorInv'
BY DEF MonitorInv, MonitorTypeOK, MutualExclusion, monitorVars

\* The owner of the mutex is the only thread in a critical section.
LEMMA OneOwner ==
  ASSUME MonitorInv, NEW t \in Threads, NEW u \in Threads,
         pc[t] \in Holding, pc[u] \in Holding
  PROVE  t = u
BY DEF MonitorInv, MutualExclusion

\* When every thread is idle the mutex is free.
LEMMA IdleUnlocked == MonitorInv /\ AllIdle => lock = NoThread
BY DEF MonitorInv, MonitorTypeOK, MutualExclusion, AllIdle, Holding

\* Entering a call leaves the mutex alone.
LEMMA EnterOK ==
  ASSUME MonitorInv, NEW t \in Threads, NEW r, Enter(t, r)
  PROVE  MonitorInv'
BY DEF MonitorInv, MonitorTypeOK, MutualExclusion, Enter, PCs, Holding

\* ThreadLock hands the free mutex to one thread.
LEMMA ThreadLockOK ==
  ASSUME MonitorInv, NEW t \in Threads, ThreadLock(t)
  PROVE  MonitorInv'
BY NoThreadAssumption
   DEF MonitorInv, MonitorTypeOK, MutualExclusion, ThreadLock, PCs, Holding

\* ThreadWait, called by the owner, frees the mutex and blocks.
LEMMA ThreadWaitOK ==
  ASSUME MonitorInv, NEW t \in Threads, pc[t] \in Holding,
         NEW c \in Conds, ThreadWait(t, c)
  PROVE  MonitorInv'
BY NoThreadAssumption
   DEF MonitorInv, MonitorTypeOK, MutualExclusion, ThreadWait, PCs, Holding

\* Wakeups and timeouts leave the mutex alone.
LEMMA InterruptOK ==
  ASSUME MonitorInv, NEW t \in Threads, Interrupt(t)
  PROVE  MonitorInv'
BY DEF MonitorInv, MonitorTypeOK, MutualExclusion, Interrupt, Expire,
       SpuriousWakeup, PCs, Conds, Holding

\* A woken or timed out thread gets the mutex back before it goes on.
LEMMA ReacquireOK ==
  ASSUME MonitorInv, NEW t \in Threads, Reacquire(t)
  PROVE  MonitorInv'
BY NoThreadAssumption
   DEF MonitorInv, MonitorTypeOK, MutualExclusion, Reacquire, PCs, Holding

\* The owner ends its critical section; the threads it wakes do not own it.
LEMMA FinishOK ==
  ASSUME MonitorInv, NEW t \in Threads, pc[t] \in Holding,
         NEW result, NEW woken, NEW c, woken \subseteq Waiters(c),
         Finish(t, result, woken)
  PROVE  MonitorInv'
BY DEF MonitorInv, MonitorTypeOK, MutualExclusion, Finish, Waiters,
       PCs, Conds, Holding

\* A call that timed out reaches its ThreadUnlock with the mutex held.
LEMMA GiveUpOK ==
  ASSUME MonitorInv, NEW t \in Threads, GiveUp(t)
  PROVE  MonitorInv'
BY DEF MonitorInv, MonitorTypeOK, MutualExclusion, GiveUp, Finish, PCs, Holding

\* ThreadUnlock frees the mutex.
LEMMA ThreadUnlockOK ==
  ASSUME MonitorInv, NEW t \in Threads, ThreadUnlock(t)
  PROVE  MonitorInv'
BY NoThreadAssumption
   DEF MonitorInv, MonitorTypeOK, MutualExclusion, ThreadUnlock, PCs, Holding

\* All the steps that do not touch the container.
LEMMA AdvanceOK ==
  ASSUME MonitorInv, NEW t \in Threads, Advance(t)
  PROVE  MonitorInv'
BY ThreadLockOK, ReacquireOK, GiveUpOK, ThreadUnlockOK DEF Advance

\* One signal or a broadcast only wakes threads that wait on that condition.
LEMMA SignalWaiters ==
  ASSUME NEW c, NEW woken \in Signal(c)
  PROVE  woken \subseteq Waiters(c)
BY DEF Signal

\* The owner that frees a container nobody uses.
LEMMA DestroyOK ==
  ASSUME MonitorInv, NEW t \in Threads, AllIdle,
         lock' = t, pc' = [pc EXCEPT ![t] = "unlock"], cond' = cond
  PROVE  MonitorInv'
BY IdleUnlocked, NoThreadAssumption
   DEF MonitorInv, MonitorTypeOK, MutualExclusion, AllIdle, PCs, Holding

-----------------------------------------------------------------------------
(***************************************************************************)
(* Reducing an index modulo the capacity.                                  *)
(***************************************************************************)

\* An index below the capacity is not changed by "%= capacity"; one that ran
\* past the end once comes back to the front.
LEMMA ModCapacity ==
  ASSUME NEW a \in Nat, NEW c \in Nat \ {0}, a < 2 * c
  PROVE  a % c = IF a < c THEN a ELSE a - c
BY SMT

\* The slot of the i-th item from head h, in plain numbers.
LEMMA RingIndex ==
  ASSUME NEW h \in Nat, NEW c \in Nat \ {0}, NEW i \in 1..c, h < c
  PROVE  /\ (h + i - 1) % c = IF h + i - 1 < c THEN h + i - 1 ELSE h + i - 1 - c
         /\ (h + i - 1) % c \in 0..(c - 1)
<1> DEFINE a == h + i - 1
<1>1. a \in Nat /\ a < 2 * c
  BY SMT
<1>2. a % c = IF a < c THEN a ELSE a - c
  <2> HIDE DEF a
  <2> QED BY <1>1, ModCapacity, Zenon
<1> QED BY <1>1, <1>2, SMT

\* A head that moves past n items.
LEMMA RingAdvance ==
  ASSUME NEW h \in Nat, NEW c \in Nat \ {0}, NEW n \in 0..c, h < c
  PROVE  (h + n) % c = IF h + n < c THEN h + n ELSE h + n - c
<1> DEFINE a == h + n
<1>1. a \in Nat /\ a < 2 * c
  BY SMT
<1>2. a % c = IF a < c THEN a ELSE a - c
  <2> HIDE DEF a
  <2> QED BY <1>1, ModCapacity, Zenon
<1> QED BY <1>1, <1>2, SMT

-----------------------------------------------------------------------------
(***************************************************************************)
(* Who waits.                                                              *)
(***************************************************************************)

\* Only pops wait for items, only pops and WaitEmpty wait at all, and only with
\* a timeout; only a wait in seconds expires.
WaitsKnown ==
  \A t \in Threads :
    /\ pc[t] \in {"wait", "woken"} => op[t].kind \in {"pop", "wait_empty"}
    /\ pc[t] = "wait" /\ cond[t] = "non_empty" => op[t].kind = "pop"
    /\ pc[t] \in {"timedout", "expired"} =>
         op[t].kind \in {"pop", "wait_empty"} /\ op[t].timeout = "seconds"

LEMMA AdvanceWaits ==
  ASSUME MonitorTypeOK, WaitsKnown, NEW t \in Threads, DOMAIN op = Threads,
         \/ ThreadLock(t) \/ Reacquire(t) \/ ThreadUnlock(t) \/ Interrupt(t)
  PROVE  WaitsKnown'
BY DEF WaitsKnown, MonitorTypeOK, PCs, Conds, ThreadLock, Reacquire, ThreadUnlock, Interrupt,
       Expire, SpuriousWakeup

LEMMA EnterWaits ==
  ASSUME MonitorTypeOK, WaitsKnown, NEW t \in Threads, NEW r, Enter(t, r), DOMAIN op = Threads
  PROVE  WaitsKnown'
BY DEF WaitsKnown, MonitorTypeOK, Enter

LEMMA ThreadWaitWaits ==
  ASSUME MonitorTypeOK, WaitsKnown, NEW t \in Threads, NEW c, ThreadWait(t, c),
         op[t].kind \in {"pop", "wait_empty"}, c = "non_empty" => op[t].kind = "pop"
  PROVE  WaitsKnown'
BY DEF WaitsKnown, MonitorTypeOK, ThreadWait

LEMMA FinishWaits ==
  ASSUME MonitorTypeOK, WaitsKnown, NEW t \in Threads, NEW result, NEW woken,
         NEW c, woken \subseteq Waiters(c), Finish(t, result, woken)
  PROVE  WaitsKnown'
BY DEF WaitsKnown, MonitorTypeOK, Finish, Waiters

-----------------------------------------------------------------------------
(***************************************************************************)
(* Counting the consumers that are on their way.                           *)
(***************************************************************************)
OnTheirWay == {t \in Threads : OnItsWay(t)}

\* If somebody waits for items, n of them have a consumer on its way.
NotStranded(n) == Waiters("non_empty") = {} \/ n <= Cardinality(OnTheirWay)

LEMMA OnTheirWayFinite ==
  /\ IsFiniteSet(OnTheirWay) /\ Cardinality(OnTheirWay) \in Nat
  /\ IsFiniteSet(OnTheirWay') /\ Cardinality(OnTheirWay') \in Nat
<1>1. OnTheirWay \subseteq Threads /\ OnTheirWay' \subseteq Threads
  BY DEF OnTheirWay
<1> QED BY <1>1, ThreadsAssumption, FS_Subset, FS_CardinalityType

\* Nobody new waits and nobody turns back.
LEMMA StrandedKept ==
  ASSUME NEW n \in Nat, NotStranded(n),
         Waiters("non_empty")' \subseteq Waiters("non_empty"),
         OnTheirWay \subseteq OnTheirWay'
  PROVE  NotStranded(n)'
<1>1. Cardinality(OnTheirWay) <= Cardinality(OnTheirWay')
  BY OnTheirWayFinite, FS_Subset
<1> QED BY <1>1, OnTheirWayFinite DEF NotStranded

\* Steps of the locking layer: a thread that is woken, for whatever reason, comes,
\* when a timeout does not take its signal.
LEMMA AdvanceStranded ==
  ASSUME ~TimeoutTakesSignal,
         MonitorTypeOK, NEW n \in Nat, NotStranded(n), NEW t \in Threads, DOMAIN op = Threads,
         \/ ThreadLock(t) \/ Reacquire(t) \/ ThreadUnlock(t) \/ Interrupt(t)
         \/ (\E r : Enter(t, r)) \/ (ThreadWait(t, "empty") /\ op[t].kind # "pop")
  PROVE  NotStranded(n)'
<1>1. Waiters("non_empty")' \subseteq Waiters("non_empty")
  BY DEF Waiters, MonitorTypeOK, ThreadLock, Reacquire, ThreadUnlock, Interrupt, Expire,
         SpuriousWakeup, Enter, ThreadWait
<1>2. OnTheirWay \subseteq OnTheirWay'
  BY DEF OnTheirWay, OnItsWay, MonitorTypeOK, ThreadLock, Reacquire, ThreadUnlock, Interrupt,
         Expire, SpuriousWakeup, Enter, ThreadWait
<1> QED BY <1>1, <1>2, StrandedKept

\* The critical section of a call that takes no items, or that times out.
LEMMA FinishStranded ==
  ASSUME MonitorTypeOK, NEW n \in Nat, NotStranded(n), NEW t \in Threads, ~OnItsWay(t),
         NEW result, NEW woken, NEW c, woken \subseteq Waiters(c), Finish(t, result, woken)
  PROVE  NotStranded(n)'
<1>1. Waiters("non_empty")' \subseteq Waiters("non_empty")
  BY DEF Waiters, MonitorTypeOK, Finish
<1>2. OnTheirWay \subseteq OnTheirWay'
  BY DEF OnTheirWay, OnItsWay, MonitorTypeOK, Finish, Waiters
<1> QED BY <1>1, <1>2, StrandedKept

\* A push of one item signals one of the waiting consumers, if there are any.
LEMMA PushStranded ==
  ASSUME MonitorTypeOK, WaitsKnown, NEW n \in Nat, NotStranded(n), NEW t \in Threads,
         pc[t] \in Holding, op[t].kind # "pop",
         NEW result, NEW woken \in Signal("non_empty"), Finish(t, result, woken)
  PROVE  NotStranded(n + 1)'
<1>1. CASE Waiters("non_empty") = {}
  <2>1. Waiters("non_empty")' = {}
    BY <1>1 DEF Waiters, MonitorTypeOK, Finish
  <2> QED BY <2>1 DEF NotStranded
<1>2. CASE Waiters("non_empty") # {}
  <2>1. PICK u \in Waiters("non_empty") : woken = {u}
    BY <1>2 DEF Signal
  <2>2. u \in Threads /\ pc[u] = "wait" /\ op[u].kind = "pop" /\ u # t
    BY DEF Waiters, WaitsKnown, Holding
  <2>3. u \notin OnTheirWay
    BY <2>2 DEF OnTheirWay, OnItsWay
  <2>4. OnTheirWay \cup {u} \subseteq OnTheirWay'
    BY <2>1, <2>2 DEF OnTheirWay, OnItsWay, Finish
  <2>5. Cardinality(OnTheirWay \cup {u}) = Cardinality(OnTheirWay) + 1
    BY <2>3, OnTheirWayFinite, FS_AddElement
  <2>6. Cardinality(OnTheirWay \cup {u}) <= Cardinality(OnTheirWay')
    BY <2>4, OnTheirWayFinite, FS_Subset
  <2>7. n <= Cardinality(OnTheirWay)
    BY <1>2 DEF NotStranded
  <2> QED BY <2>5, <2>6, <2>7, OnTheirWayFinite DEF NotStranded
<1> QED BY <1>1, <1>2

\* A consumer takes items: one that was on its way takes at least one.
LEMMA PopStranded ==
  ASSUME MonitorTypeOK, NEW n \in Nat, NotStranded(n), NEW t \in Threads,
         NEW k \in 0..n, OnItsWay(t) /\ n > 0 => k > 0,
         NEW result, NEW woken, NEW c, woken \subseteq Waiters(c), Finish(t, result, woken)
  PROVE  NotStranded(n - k)'
<1>1. Waiters("non_empty")' \subseteq Waiters("non_empty")
  BY DEF Waiters, MonitorTypeOK, Finish
<1>2. OnTheirWay \ {t} \subseteq OnTheirWay'
  BY DEF OnTheirWay, OnItsWay, MonitorTypeOK, Finish, Waiters
<1>3. Cardinality(OnTheirWay \ {t}) <= Cardinality(OnTheirWay')
  BY <1>2, OnTheirWayFinite, FS_Subset
<1>4. Cardinality(OnTheirWay \ {t}) = IF t \in OnTheirWay THEN Cardinality(OnTheirWay) - 1
                                                          ELSE Cardinality(OnTheirWay)
  BY OnTheirWayFinite, FS_RemoveElement
<1>5. t \in OnTheirWay <=> OnItsWay(t)
  BY DEF OnTheirWay
<1>6. CASE Waiters("non_empty") = {}
  BY <1>1, <1>6 DEF NotStranded
<1>7. CASE n <= Cardinality(OnTheirWay)
  <2> DEFINE was == Cardinality(OnTheirWay)
             now == Cardinality(OnTheirWay')
  <2>1. was \in Nat /\ now \in Nat /\ n <= was
    BY <1>7, OnTheirWayFinite
  <2>2. now >= was - 1 /\ (~OnItsWay(t) => now >= was)
    BY <1>3, <1>4, <1>5, OnTheirWayFinite
  <2> HIDE DEF was, now
  <2>3. CASE OnItsWay(t) /\ n > 0
    <3>1. n - k <= now
      BY <2>1, <2>2, <2>3
    <3> QED BY <3>1 DEF NotStranded, now
  <2>4. CASE ~OnItsWay(t) \/ n = 0
    <3>1. n - k <= now
      BY <2>1, <2>2, <2>4
    <3> QED BY <3>1 DEF NotStranded, now
  <2> QED BY <2>3, <2>4
<1> QED BY <1>6, <1>7 DEF NotStranded

-----------------------------------------------------------------------------
(***************************************************************************)
(* The phases of a call.                                                   *)
(***************************************************************************)
LEMMA PhaseValue ==
  ASSUME NEW t \in Threads
  PROVE  Phase[t] = IF pc[t] = "idle" THEN "idle" ELSE IF pc[t] = "unlock" THEN "done" ELSE "pending"
BY DEF Phase

\* Waiting, waking up and taking the mutex do not show.
LEMMA PhaseKept ==
  ASSUME MonitorTypeOK, NEW t \in Threads,
         \/ ThreadLock(t) \/ Reacquire(t) \/ Interrupt(t)
         \/ ((\E c : ThreadWait(t, c)) /\ pc[t] \in Holding \ {"unlock"})
  PROVE  Phase' = Phase
<1> SUFFICES ASSUME NEW u \in Threads PROVE Phase'[u] = Phase[u]
  BY DEF Phase
<1>1. Phase'[u] = IF pc'[u] = "idle" THEN "idle" ELSE IF pc'[u] = "unlock" THEN "done" ELSE "pending"
  BY DEF Phase
<1>2. pc'[u] = "idle" <=> pc[u] = "idle"
  BY DEF MonitorTypeOK, ThreadLock, Reacquire, Interrupt, Expire, SpuriousWakeup, ThreadWait, Holding
<1>3. pc'[u] = "unlock" <=> pc[u] = "unlock"
  BY DEF MonitorTypeOK, ThreadLock, Reacquire, Interrupt, Expire, SpuriousWakeup, ThreadWait, Holding
<1> QED BY <1>1, <1>2, <1>3, PhaseValue

\* A step of t that changes the phase of t alone.
LEMMA PhaseMoves ==
  ASSUME NEW t \in Threads, NEW to,
         to = IF pc'[t] = "idle" THEN "idle" ELSE IF pc'[t] = "unlock" THEN "done" ELSE "pending",
         \A u \in Threads : u # t => /\ pc'[u] = "idle" <=> pc[u] = "idle"
                                     /\ pc'[u] = "unlock" <=> pc[u] = "unlock"
  PROVE  Phase' = [Phase EXCEPT ![t] = to]
<1>1. Phase' = [u \in Threads |-> Phase'[u]] /\ Phase = [u \in Threads |-> Phase[u]]
  BY DEF Phase
<1>2. Phase'[t] = to
  BY DEF Phase
<1>3. ASSUME NEW u \in Threads, u # t PROVE Phase'[u] = Phase[u]
  <2>1. Phase'[u] = IF pc'[u] = "idle" THEN "idle" ELSE IF pc'[u] = "unlock" THEN "done" ELSE "pending"
    BY DEF Phase
  <2> QED BY <1>3, <2>1, PhaseValue
<1> QED BY <1>1, <1>2, <1>3

\* The end of a critical section is where a call takes effect.
LEMMA PhaseFinish ==
  ASSUME MonitorTypeOK, NEW t \in Threads, pc[t] \in Holding \ {"unlock"},
         NEW result, NEW woken, NEW c, woken \subseteq Waiters(c), Finish(t, result, woken)
  PROVE  Phase[t] = "pending" /\ Phase' = [Phase EXCEPT ![t] = "done"]
<1>1. Phase[t] = "pending"
  BY PhaseValue DEF Holding
<1>2. pc'[t] = "unlock"
  BY DEF Finish
<1>3. \A u \in Threads : u # t => /\ pc'[u] = "idle" <=> pc[u] = "idle"
                                  /\ pc'[u] = "unlock" <=> pc[u] = "unlock"
  BY DEF Finish, Waiters
<1> QED BY <1>1, <1>2, <1>3, PhaseMoves

\* Calling and returning.
LEMMA PhaseEnter ==
  ASSUME MonitorTypeOK, NEW t \in Threads, NEW r, Enter(t, r)
  PROVE  Phase[t] = "idle" /\ Phase' = [Phase EXCEPT ![t] = "pending"]
<1>1. Phase[t] = "idle" /\ pc'[t] = "lock"
  BY PhaseValue DEF Enter, MonitorTypeOK
<1>2. \A u \in Threads : u # t => pc'[u] = pc[u]
  BY DEF Enter, MonitorTypeOK
<1> QED BY <1>1, <1>2, PhaseMoves

LEMMA PhaseReturn ==
  ASSUME MonitorTypeOK, NEW t \in Threads, ThreadUnlock(t)
  PROVE  Phase[t] = "done" /\ Phase' = [Phase EXCEPT ![t] = "idle"]
<1>1. Phase[t] = "done" /\ pc'[t] = "idle"
  BY PhaseValue DEF ThreadUnlock, MonitorTypeOK
<1>2. \A u \in Threads : u # t => pc'[u] = pc[u]
  BY DEF ThreadUnlock, MonitorTypeOK
<1> QED BY <1>1, <1>2, PhaseMoves

-----------------------------------------------------------------------------
(***************************************************************************)
(* Items of a container, as a sequence: one more at either end, and fewer  *)
(* at either end.                                                          *)
(***************************************************************************)
LEMMA AppendOne ==
  ASSUME NEW S, NEW a \in Seq(S), NEW b \in Seq(S), NEW x \in S, Len(b) = Len(a) + 1,
         \A i \in 1..Len(a) : b[i] = a[i], b[Len(a) + 1] = x
  PROVE  b = a \o <<x>>
<1> DEFINE c == a \o <<x>>
<1>1. <<x>> \in Seq(S) /\ Len(<<x>>) = 1 /\ <<x>>[1] = x
  OBVIOUS
<1>2. /\ c \in Seq(S) /\ Len(c) = Len(a) + 1
      /\ \A i \in 1..(Len(a) + 1) : c[i] = IF i <= Len(a) THEN a[i] ELSE <<x>>[i - Len(a)]
  BY <1>1, ConcatProperties
<1> HIDE DEF c
<1>3. ASSUME NEW i \in 1..Len(b) PROVE b[i] = c[i]
  <2>1. Len(a) \in Nat
    OBVIOUS
  <2>2. CASE i <= Len(a)
    BY <1>2, <2>1, <2>2
  <2>3. CASE ~(i <= Len(a))
    <3>1. i = Len(a) + 1 /\ i - Len(a) = 1
      BY <2>1, <2>3
    <3> QED BY <1>1, <1>2, <2>3, <3>1
  <2> QED BY <2>2, <2>3
<1>4. b = c
  BY <1>2, <1>3, SeqEqual
<1> QED BY <1>4 DEF c

LEMMA PrependOne ==
  ASSUME NEW S, NEW a \in Seq(S), NEW b \in Seq(S), NEW x \in S, Len(b) = Len(a) + 1,
         \A i \in 1..Len(a) : b[i + 1] = a[i], b[1] = x
  PROVE  b = <<x>> \o a
<1> DEFINE c == <<x>> \o a
<1>0. Len(a) \in Nat
  OBVIOUS
<1>1. <<x>> \in Seq(S) /\ Len(<<x>>) = 1 /\ <<x>>[1] = x
  OBVIOUS
<1>2. /\ c \in Seq(S) /\ Len(c) = 1 + Len(a)
      /\ \A i \in 1..(1 + Len(a)) : c[i] = IF i <= 1 THEN <<x>>[i] ELSE a[i - 1]
  BY <1>1, ConcatProperties
<1> HIDE DEF c
<1>3. ASSUME NEW i \in 1..Len(b) PROVE b[i] = c[i]
  <2>1. i \in 1..(1 + Len(a))
    BY <1>0
  <2>2. CASE i = 1
    BY <1>1, <1>2, <2>1, <2>2
  <2>3. CASE i # 1
    <3>1. i - 1 \in 1..Len(a) /\ (i - 1) + 1 = i /\ ~(i <= 1)
      BY <2>1, <2>3, <1>0
    <3>2. b[(i - 1) + 1] = a[i - 1]
      BY <3>1
    <3>3. c[i] = a[i - 1]
      BY <1>2, <2>1, <3>1
    <3> QED BY <3>1, <3>2, <3>3
  <2> QED BY <2>2, <2>3
<1>4. b = c
  BY <1>0, <1>2, <1>3, SeqEqual
<1> QED BY <1>4 DEF c

LEMMA JoinTwo ==
  ASSUME NEW S, NEW a \in Seq(S), NEW b \in Seq(S), NEW c \in Seq(S),
         Len(c) = Len(a) + Len(b), \A i \in 1..Len(a) : c[i] = a[i],
         \A i \in 1..Len(b) : c[Len(a) + i] = b[i]
  PROVE  c = a \o b
<1> DEFINE e == a \o b
<1>0. Len(a) \in Nat /\ Len(b) \in Nat
  OBVIOUS
<1>1. /\ e \in Seq(S) /\ Len(e) = Len(a) + Len(b)
      /\ \A i \in 1..(Len(a) + Len(b)) : e[i] = IF i <= Len(a) THEN a[i] ELSE b[i - Len(a)]
  BY ConcatProperties
<1> HIDE DEF e
<1>2. ASSUME NEW i \in 1..Len(c) PROVE c[i] = e[i]
  <2>1. CASE i <= Len(a)
    BY <1>0, <1>1, <2>1
  <2>2. CASE ~(i <= Len(a))
    <3>1. i - Len(a) \in 1..Len(b) /\ Len(a) + (i - Len(a)) = i
      BY <1>0, <2>2
    <3>2. c[Len(a) + (i - Len(a))] = b[i - Len(a)]
      BY <3>1
    <3>3. e[i] = b[i - Len(a)]
      BY <1>1, <2>2
    <3> QED BY <3>1, <3>2, <3>3
  <2> QED BY <2>1, <2>2
<1>3. c = e
  BY <1>1, <1>2, SeqEqual
<1> QED BY <1>3 DEF e

LEMMA DropFirst ==
  ASSUME NEW S, NEW a \in Seq(S), NEW b \in Seq(S), NEW n \in 0..Len(a),
         Len(b) = Len(a) - n, \A i \in 1..Len(b) : b[i] = a[i + n]
  PROVE  b = SubSeq(a, n + 1, Len(a))
<1> DEFINE c == SubSeq(a, n + 1, Len(a))
<1>0. Len(a) \in Nat /\ n \in Nat
  OBVIOUS
<1>1. /\ c \in Seq(S) /\ Len(c) = Len(a) - n
      /\ \A i \in 1..(Len(a) - n) : c[i] = a[n + i]
  BY <1>0
<1> HIDE DEF c
<1>2. ASSUME NEW i \in 1..Len(b) PROVE b[i] = c[i]
  <2>1. i \in 1..(Len(a) - n) /\ n + i = i + n
    BY <1>0
  <2>2. b[i] = a[i + n] /\ c[i] = a[n + i]
    BY <1>1, <2>1
  <2> QED BY <2>1, <2>2
<1>3. b = c
  BY <1>1, <1>2, SeqEqual
<1> QED BY <1>3 DEF c

LEMMA KeepFirst ==
  ASSUME NEW S, NEW a \in Seq(S), NEW b \in Seq(S), NEW n \in 0..Len(a),
         Len(b) = n, \A i \in 1..n : b[i] = a[i]
  PROVE  b = SubSeq(a, 1, n)
<1> DEFINE c == SubSeq(a, 1, n)
<1>0. Len(a) \in Nat /\ n \in Nat
  OBVIOUS
<1>1. /\ c \in Seq(S) /\ Len(c) = n
      /\ \A i \in 1..n : c[i] = a[i]
  BY <1>0
<1> HIDE DEF c
<1>2. b = c
  BY <1>1, SeqEqual
<1> QED BY <1>2 DEF c

=============================================================================
