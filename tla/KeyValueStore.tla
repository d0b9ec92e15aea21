---------------------------- MODULE KeyValueStore ----------------------------
(***************************************************************************)
(* What map.h and set.h promise: a map is a partial function from keys to  *)
(* the objects last inserted for them, an insertion tells whether the key  *)
(* was there, a removal whether there was something to remove, and joining *)
(* a set to another adds copies of all its elements.                       *)
(***************************************************************************)
EXTENDS FiniteSets

CONSTANTS Maps, Keys, Objects, None, Absent

VARIABLES store,  \* for each map the object of every key, or Absent
          ret     \* what the last operation returned

Exists(m) == store[m] # Absent
Empty     == [k \in Keys |-> None]
KeysOf(m) == {k \in Keys : store[m][k] # None}

Init == store = [m \in Maps |-> Absent] /\ ret = FALSE

New(m)     == ~Exists(m) /\ store' = [store EXCEPT ![m] = Empty] /\ UNCHANGED ret
Clear(m)   == Exists(m) /\ store' = [store EXCEPT ![m] = Empty] /\ UNCHANGED ret
Destroy(m) == Exists(m) /\ store' = [store EXCEPT ![m] = Absent] /\ UNCHANGED ret

Insert(m, k, o) ==
  /\ Exists(m)
  /\ store' = [store EXCEPT ![m][k] = o]
  /\ ret' = (k \in KeysOf(m))

Remove(m, k) ==
  /\ Exists(m)
  /\ store' = [store EXCEPT ![m][k] = None]
  /\ ret' = (k \in KeysOf(m))

\* The keys of n get objects of their own in m; the other keys keep theirs.
Join(m, n) ==
  /\ Exists(m) /\ Exists(n) /\ m # n
  /\ \A k \in Keys \ KeysOf(n) : store'[m][k] = store[m][k]
  /\ \A k \in KeysOf(n) : /\ store'[m][k] \in Objects
                          /\ \A x \in Maps : Exists(x) => \A j \in Keys :
                               store[x][j] # store'[m][k]
  /\ store' = [store EXCEPT ![m] = store'[m]]
  /\ UNCHANGED ret

Next ==
  \E m \in Maps :
    \/ New(m) \/ Clear(m) \/ Destroy(m)
    \/ \E k \in Keys : Remove(m, k) \/ \E o \in Objects : Insert(m, k, o)
    \/ \E n \in Maps : Join(m, n)

Spec == Init /\ [][Next]_<<store, ret>>
=============================================================================
