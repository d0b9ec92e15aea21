-------------------------- MODULE MCThreadedDeque --------------------------
(* ThreadedDeque with small sets of threads and items for TLC.  A behaviour  *)
(* is about one of two questions: what happens to the array, with every      *)
(* operation and two of the threads in calls at a time; or who waits, with   *)
(* all threads, operations that block or end a wait at one end, items that   *)
(* need not be told apart, and no pop of zero items, which uses up a wakeup  *)
(* and takes nothing.                                                        *)
EXTENDS ThreadedDeque, Functions, TLC

VARIABLE about

Calling == {t \in Threads : op[t] # NONE}
Known   == Items \cap (Range(d.data) \cup UNION {Range(op[t].items) : t \in Calling})

MayCall(r) ==
  \/ about = "array" /\ Cardinality(Calling) < 2
  \/ /\ about = "waits"
     /\ r.kind \in {"push", "pop", "wait_empty"} /\ r.side = "right"
     /\ r.kind = "pop" => r.num # 0
     /\ r.kind = "push" => /\ d.size + Cardinality({t \in Calling : op[t].kind = "push"}) < MaxItems - 1
                           /\ Cardinality(Known \cup Range(r.items)) = 1

MCInit == Init /\ about \in {"array", "waits"}

MCNext ==
  /\ UNCHANGED about
  /\ \/ \E c \in InitialCapacities : (about = "waits" => c = 1) /\ ThreadedDequeNew(c)
     \/ \E t \in Threads :
          \/ \E r \in Requests : MayCall(r) /\ Call(t, r)
          \/ Step(t)
          \/ Interrupt(t) /\ UNCHANGED dequeVars
          \/ ThreadedDequeDestroy(t)

MCSpec == MCInit /\ [][MCNext]_<<vars, about>>

\* Threads and items are only compared for equality.
Symmetry == Permutations(Threads) \cup Permutations(Items)
=============================================================================
