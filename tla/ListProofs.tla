----------------------------- MODULE ListProofs -----------------------------
(***************************************************************************)
(* The lists that share their nodes, for any number of lists, copies and   *)
(* changes: their reference counts are exact, their nodes are linked and   *)
(* owned, their iterators stay with them, and they implement sequences     *)
(* that know nothing of each other.                                        *)
(***************************************************************************)
EXTENDS List, NumberProofs

\* The value that stands for no list is none of the records that stand for one.
AbsentIsNoList ==
  \A f, g, n, s, r :
    [first |-> f, last |-> g, node_count |-> n, state |-> s, ref |-> r] # Absent

\* Every list refers to a RefCount.
RefsType ==
  /\ lists = [l \in Lists |-> lists[l]]
  /\ \A l \in Lists : Live(l) => lists[l].ref \in Refs
  /\ refs \in [Refs -> [user_count : Nat, users : SUBSET Lists]]

RefsInv == RefsType /\ RefsExact

Users(r) == {l \in Lists : Live(l) /\ lists[l].ref = r}

-----------------------------------------------------------------------------
\* One user more, one user fewer.
LEMMA UserCounts ==
  ASSUME NEW U \in SUBSET Lists, NEW l \in Lists
  PROVE  /\ Cardinality(U) \in Nat
         /\ l \notin U => Cardinality(U \cup {l}) = Cardinality(U) + 1
         /\ l \in U => Cardinality(U \ {l}) = Cardinality(U) - 1
         /\ Cardinality(U) = 0 <=> U = {}
         /\ Cardinality({l}) = 1 /\ Cardinality({}) = 0
<1>1. IsFiniteSet(U)
  BY ListAssumption, FS_Subset
<1> QED BY <1>1, FS_CardinalityType, FS_AddElement, FS_RemoveElement, FS_EmptySet, FS_Singleton

\* There are as many RefCounts as lists, so one is free while a list has none
\* or shares its own.
LEMMA RefLeft ==
  ASSUME NEW l \in Lists, \A r \in Refs : \E k \in Lists \ {l} : lists[k].ref = r
  PROVE  FALSE
<1> DEFINE n == Cardinality(Lists)
           f == [r \in Refs |-> CHOOSE k \in Lists \ {l} : lists[k].ref = r]
<1>1. IsFiniteSet(Lists) /\ n \in Nat
  BY ListAssumption, FS_CardinalityType
<1>2. IsFiniteSet(Lists \ {l}) /\ Cardinality(Lists \ {l}) = n - 1
  BY <1>1, FS_RemoveElement
<1>3. IsFiniteSet(Refs) /\ Cardinality(Refs) = n
  <2>1. IsFiniteSet(1..n) /\ Cardinality(1..n) = IF 1 > n THEN 0 ELSE n - 1 + 1
    BY <1>1, FS_Interval
  <2> QED BY <2>1, <1>1 DEF Refs
<1>4. ASSUME NEW r \in Refs PROVE f[r] \in Lists \ {l} /\ lists[f[r]].ref = r
  <2>1. \E k \in Lists \ {l} : lists[k].ref = r
    OBVIOUS
  <2> QED BY <2>1, Zenon
<1>5. f \in [Refs -> Lists \ {l}]
  BY <1>4
<1> HIDE DEF f
<1>6. Cardinality(Lists \ {l}) < Cardinality(Refs)
  BY <1>1, <1>2, <1>3
<1>7. \E x, y \in Refs : x # y /\ f[x] = f[y]
  <2> DEFINE S == Refs
             T == Lists \ {l}
  <2>1. IsFiniteSet(S) /\ IsFiniteSet(T) /\ Cardinality(T) < Cardinality(S) /\ f \in [S -> T]
    BY <1>2, <1>3, <1>5, <1>6
  <2> HIDE DEF S, T
  <2>2. \E x, y \in S : x # y /\ f[x] = f[y]
    BY <2>1, FS_PigeonHole
  <2> QED BY <2>2 DEF S
<1> QED BY <1>4, <1>7, Zenon

\* RefCountNew finds a free RefCount for a list that is made, or that shares its own.
LEMMA FreeRefFound ==
  ASSUME RefsInv, NEW l \in Lists,
         ~Live(l) \/ RefCountIsShared(l)
  PROVE  /\ FreeRef \in Refs /\ refs[FreeRef] = RefCountNew
         /\ Live(l) => FreeRef # lists[l].ref
<1> DEFINE F == {r \in Refs : refs[r] = RefCountNew}
<1>0. RefsType /\ RefsExact
  BY DEF RefsInv
<1>1. F # {}
  <2> SUFFICES ASSUME F = {} PROVE FALSE
    OBVIOUS
  <2>1. ASSUME NEW r \in Refs PROVE \E k \in Lists \ {l} : lists[k].ref = r
    <3>1. /\ refs[r].users = Users(r) /\ refs[r].user_count = Cardinality(Users(r))
          /\ refs[r] \in [user_count : Nat, users : SUBSET Lists]
          /\ refs[r] # RefCountNew
      BY <1>0 DEF RefsType, RefsExact, Users
    <3>2. Users(r) \in SUBSET Lists
      BY DEF Users
    <3>3. Users(r) # {}
      <4> SUFFICES ASSUME Users(r) = {} PROVE FALSE
        OBVIOUS
      <4>1. refs[r].user_count = 0
        BY <3>1, <3>2, UserCounts
      <4> QED BY <3>1, <4>1 DEF RefCountNew
    <3>4. CASE ~Live(l)
      BY <3>3, <3>4 DEF Users
    <3>5. CASE RefCountIsShared(l) /\ Live(l)
      <4>1. CASE lists[l].ref = r
        <5>1. Cardinality(Users(r)) > 1 /\ l \in Users(r)
          BY <3>1, <3>5, <4>1 DEF RefCountIsShared, Users
        <5>2. Cardinality(Users(r)) \in Nat /\ Cardinality(Users(r) \ {l}) = Cardinality(Users(r)) - 1
          BY <5>1, <3>2, UserCounts, Zenon
        <5>3. Users(r) \ {l} # {}
          <6>1. Cardinality(Users(r) \ {l}) # 0
            BY <5>1, <5>2
          <6>2. Cardinality({}) = 0
            BY UserCounts
          <6> QED BY <6>1, <6>2, Zenon
        <5> QED BY <5>3 DEF Users
      <4>2. CASE lists[l].ref # r
        BY <3>3, <4>2 DEF Users
      <4> QED BY <4>1, <4>2
    <3> QED BY <3>4, <3>5
  <2> QED BY <2>1, RefLeft
<1>2. F \in SUBSET Nat
  BY DEF Refs
<1>3. FreeRef \in F
  BY <1>1, <1>2, LeastNumber DEF FreeRef
<1>4. ASSUME Live(l) PROVE FreeRef # lists[l].ref
  <2>1. refs[lists[l].ref].user_count > 1
    BY <1>4 DEF RefCountIsShared
  <2>2. refs[FreeRef].user_count = 0
    BY <1>3 DEF RefCountNew
  <2> QED BY <2>1, <2>2
<1> QED BY <1>3, <1>4

-----------------------------------------------------------------------------
\* A list l gets a record that refers to RefCount r, and the counts of its old
\* and new RefCount are those without and with it.
LEMMA RefsFollow ==
  ASSUME RefsInv, NEW l \in Lists, NEW e,
         lists' = [lists EXCEPT ![l] = e],
         e # Absent => e.ref \in Refs,
         refs' = [r \in Refs |-> refs'[r]],
         \A r \in Refs :
            IF e # Absent /\ e.ref = r THEN /\ refs'[r] = [user_count |-> Cardinality(Users(r) \cup {l}),
                                                        users |-> Users(r) \cup {l}]
            ELSE refs'[r] = [user_count |-> Cardinality(Users(r) \ {l}), users |-> Users(r) \ {l}]
  PROVE  RefsInv'
<1>0. RefsType /\ RefsExact
  BY DEF RefsInv
<1>1. /\ DOMAIN lists' = Lists /\ lists'[l] = e
      /\ \A k \in Lists : k # l => lists'[k] = lists[k]
  BY <1>0 DEF RefsType
<1>2. ASSUME NEW r \in Refs
      PROVE  /\ refs'[r] \in [user_count : Nat, users : SUBSET Lists]
             /\ refs'[r].users = {k \in Lists : Live(k)' /\ lists'[k].ref = r}
             /\ refs'[r].user_count = Cardinality(refs'[r].users)
  <2> DEFINE U == {k \in Lists : Live(k)' /\ lists'[k].ref = r}
  <2>1. CASE e # Absent /\ e.ref = r
    <3>1. U = Users(r) \cup {l}
      BY <1>1, <2>1 DEF Users, Live
    <3>2. Users(r) \cup {l} \in SUBSET Lists
      BY DEF Users
    <3>3. Cardinality(Users(r) \cup {l}) \in Nat
      BY <3>2, UserCounts
    <3>4. refs'[r] = [user_count |-> Cardinality(Users(r) \cup {l}), users |-> Users(r) \cup {l}]
      BY <2>1
    <3> QED BY <3>1, <3>2, <3>3, <3>4
  <2>2. CASE ~(e # Absent /\ e.ref = r)
    <3>1. U = Users(r) \ {l}
      BY <1>1, <2>2 DEF Users, Live
    <3>2. Users(r) \ {l} \in SUBSET Lists
      BY DEF Users
    <3>3. Cardinality(Users(r) \ {l}) \in Nat
      BY <3>2, UserCounts
    <3>4. refs'[r] = [user_count |-> Cardinality(Users(r) \ {l}), users |-> Users(r) \ {l}]
      BY <2>2
    <3> QED BY <3>1, <3>2, <3>3, <3>4
  <2> QED BY <2>1, <2>2
<1>3. RefsType'
  <2>1. refs' \in [Refs -> [user_count : Nat, users : SUBSET Lists]]
    <3>1. \A r \in Refs : refs'[r] \in [user_count : Nat, users : SUBSET Lists]
      BY <1>2
    <3> QED BY <3>1
  <2>2. \A k \in Lists : Live(k)' => lists'[k].ref \in Refs
    BY <1>0, <1>1 DEF RefsType, Live
  <2> QED BY <1>1, <2>1, <2>2 DEF RefsType
<1>4. RefsExact'
  BY <1>2 DEF RefsExact
<1> QED BY <1>3, <1>4 DEF RefsInv

\* What the invariant says of one RefCount.
LEMMA RefIs ==
  ASSUME RefsInv, NEW r \in Refs
  PROVE  /\ refs[r] = [user_count |-> Cardinality(Users(r)), users |-> Users(r)]
         /\ Users(r) \in SUBSET Lists /\ Cardinality(Users(r)) \in Nat
         /\ refs = [x \in Refs |-> refs[x]]
<1>1. /\ refs[r] \in [user_count : Nat, users : SUBSET Lists]
      /\ refs = [x \in Refs |-> refs[x]]
      /\ refs[r].users = Users(r) /\ refs[r].user_count = Cardinality(refs[r].users)
  BY DEF RefsInv, RefsType, RefsExact, Users
<1> QED BY <1>1

\* ListNew takes a free RefCount.
LEMMA NewKeeps ==
  ASSUME RefsInv, AbsentIsNoList, NEW l \in Lists, ListNew(l)
  PROVE  RefsInv'
<1> DEFINE e == [first |-> NULL, last |-> NULL, node_count |-> 0, state |-> 0, ref |-> FreeRef]
<1>1. ~Live(l) /\ lists' = [lists EXCEPT ![l] = e] /\ refs' = RefCountAttach(refs, FreeRef, l)
  BY DEF ListNew
<1>2. FreeRef \in Refs /\ refs[FreeRef] = RefCountNew
  BY <1>1, FreeRefFound
<1>3. e # Absent /\ e.ref = FreeRef
  BY DEF AbsentIsNoList
<1> HIDE DEF e
<1>4. Users(FreeRef) = {}
  <2>1. refs[FreeRef].users = Users(FreeRef)
    BY <1>2 DEF RefsInv, RefsExact, Users
  <2> QED BY <2>1, <1>2 DEF RefCountNew
<1>5. refs' = [r \in Refs |-> refs'[r]]
  BY <1>1, <1>2, RefIs DEF RefCountAttach
<1>6. ASSUME NEW r \in Refs
      PROVE  IF e # Absent /\ e.ref = r
             THEN refs'[r] = [user_count |-> Cardinality(Users(r) \cup {l}), users |-> Users(r) \cup {l}]
             ELSE refs'[r] = [user_count |-> Cardinality(Users(r) \ {l}), users |-> Users(r) \ {l}]
  <2>1. CASE r = FreeRef
    <3>1. refs'[r] = [user_count |-> 0 + 1, users |-> {} \cup {l}]
      <4>1. DOMAIN refs = Refs /\ refs[r].user_count = 0 /\ refs[r].users = {}
        BY <1>2, <2>1 DEF RefsInv, RefsType, RefCountNew
      <4> QED BY <1>1, <2>1, <4>1 DEF RefCountAttach
    <3>2. Users(r) \cup {l} = {l} /\ Cardinality({l}) = 1
      BY <1>4, <2>1, UserCounts
    <3> QED BY <1>3, <2>1, <3>1, <3>2
  <2>2. CASE r # FreeRef
    <3>1. refs'[r] = refs[r]
      BY <1>1, <1>2, <2>2, RefIs DEF RefCountAttach
    <3>2. Users(r) \ {l} = Users(r)
      BY <1>1 DEF Users
    <3> QED BY <1>3, <2>2, <3>1, <3>2, RefIs
  <2> QED BY <2>1, <2>2
<1> QED BY <1>1, <1>2, <1>3, <1>5, <1>6, RefsFollow

\* ListCopy adds a user.
LEMMA CopyKeeps ==
  ASSUME RefsInv, NEW o \in Lists, NEW d \in Lists, ListCopy(o, d)
  PROVE  RefsInv'
<1> DEFINE e == lists[o]
<1>1. /\ Live(o) /\ ~Live(d) /\ lists' = [lists EXCEPT ![d] = e]
      /\ refs' = RefCountAttach(refs, e.ref, d)
  BY DEF ListCopy
<1>2. e # Absent /\ e.ref \in Refs
  BY <1>1 DEF Live, RefsInv, RefsType
<1> HIDE DEF e
<1>3. refs' = [r \in Refs |-> refs'[r]]
  BY <1>1, <1>2, RefIs DEF RefCountAttach
<1>4. ASSUME NEW r \in Refs
      PROVE  IF e # Absent /\ e.ref = r
             THEN refs'[r] = [user_count |-> Cardinality(Users(r) \cup {d}), users |-> Users(r) \cup {d}]
             ELSE refs'[r] = [user_count |-> Cardinality(Users(r) \ {d}), users |-> Users(r) \ {d}]
  <2>1. d \notin Users(r)
    BY <1>1 DEF Users
  <2>2. CASE r = e.ref
    <3>1. refs'[r] = [user_count |-> Cardinality(Users(r)) + 1, users |-> Users(r) \cup {d}]
      <4>1. /\ DOMAIN refs = Refs /\ refs[r].user_count = Cardinality(Users(r))
            /\ refs[r].users = Users(r)
        BY DEF RefsInv, RefsType, RefsExact, Users
      <4> QED BY <1>1, <2>2, <4>1 DEF RefCountAttach
    <3>2. Cardinality(Users(r) \cup {d}) = Cardinality(Users(r)) + 1
      BY <2>1, RefIs, UserCounts
    <3> QED BY <1>2, <2>2, <3>1, <3>2
  <2>3. CASE r # e.ref
    <3>1. refs'[r] = refs[r]
      BY <1>1, <1>2, <2>3, RefIs DEF RefCountAttach
    <3>2. Users(r) \ {d} = Users(r)
      BY <2>1
    <3> QED BY <2>3, <3>1, <3>2, RefIs
  <2> QED BY <2>2, <2>3
<1> QED BY <1>1, <1>2, <1>3, <1>4, RefsFollow

\* RefCountDetach takes a user from a RefCount that has others, and no other RefCount.
LEMMA DetachTakes ==
  ASSUME RefsInv, NEW l \in Lists, Live(l), RefCountIsShared(l)
  PROVE  LET rs == RefCountDetach(refs, lists[l].ref, l)
         IN  /\ rs = [r \in Refs |-> rs[r]]
             /\ \A r \in Refs : rs[r] = [user_count |-> Cardinality(Users(r) \ {l}), users |-> Users(r) \ {l}]
<1> DEFINE q  == lists[l].ref
           rs == RefCountDetach(refs, q, l)
<1>1. q \in Refs /\ l \in Users(q) /\ refs[q].user_count > 1
  BY DEF RefsInv, RefsType, Users, RefCountIsShared
<1>2. Users(q) \in SUBSET Lists /\ Cardinality(Users(q)) \in Nat /\ refs[q].user_count = Cardinality(Users(q))
  <2>1. Users(q) \in SUBSET Lists /\ refs[q].user_count = Cardinality(Users(q))
    BY <1>1 DEF RefsInv, RefsExact, Users
  <2> QED BY <2>1, UserCounts
<1>3. rs = [refs EXCEPT ![q] = [user_count |-> @.user_count - 1, users |-> @.users \ {l}]]
  BY <1>1, <1>2 DEF RefCountDetach
<1> HIDE DEF rs
<1>4. ASSUME NEW r \in Refs
      PROVE  rs[r] = [user_count |-> Cardinality(Users(r) \ {l}), users |-> Users(r) \ {l}]
  <2>1. CASE r = q
    <3>1. rs[r] = [user_count |-> Cardinality(Users(r)) - 1, users |-> Users(r) \ {l}]
      <4>1. /\ DOMAIN refs = Refs /\ refs[r].user_count = Cardinality(Users(r))
            /\ refs[r].users = Users(r)
        BY DEF RefsInv, RefsType, RefsExact, Users
      <4> QED BY <1>3, <2>1, <4>1
    <3>2. Cardinality(Users(r) \ {l}) = Cardinality(Users(r)) - 1
      BY <1>1, <1>2, <2>1, UserCounts, Zenon
    <3> QED BY <3>1, <3>2
  <2>2. CASE r # q
    <3>1. rs[r] = refs[r]
      BY <1>1, <1>3, <2>2, RefIs
    <3>2. Users(r) \ {l} = Users(r)
      BY <2>2 DEF Users
    <3> QED BY <3>1, <3>2, RefIs
  <2> QED BY <2>1, <2>2
<1>5. rs = [r \in Refs |-> rs[r]]
  BY <1>1, <1>3, RefIs
<1> QED BY <1>4, <1>5 DEF rs

\* ListDestroy gives up a RefCount with its last user, and leaves it to the others.
LEMMA DestroyKeeps ==
  ASSUME RefsInv, NEW l \in Lists, ListDestroy(l)
  PROVE  RefsInv'
<1> DEFINE q == lists[l].ref
<1>1. Live(l) /\ lists' = [lists EXCEPT ![l] = Absent]
  BY DEF ListDestroy
<1>2. /\ q \in Refs /\ l \in Users(q) /\ Users(q) \in SUBSET Lists
      /\ refs[q].user_count = Cardinality(Users(q)) /\ DOMAIN refs = Refs
  BY <1>1 DEF RefsInv, RefsType, RefsExact, Users
<1>3. /\ refs' = [r \in Refs |-> refs'[r]]
      /\ \A r \in Refs : refs'[r] = [user_count |-> Cardinality(Users(r) \ {l}), users |-> Users(r) \ {l}]
  <2>1. CASE RefCountIsShared(l)
    <3>1. refs' = RefCountDetach(refs, q, l)
      BY <2>1 DEF ListDestroy
    <3> QED BY <1>1, <2>1, <3>1, DetachTakes
  <2>2. CASE ~RefCountIsShared(l)
    <3>1. refs' = [refs EXCEPT ![q] = RefCountNew]
      BY <2>2 DEF ListDestroy
    <3>2. /\ Cardinality(Users(q)) \in Nat /\ Users(q) \ {l} \in SUBSET Lists
          /\ Cardinality(Users(q) \ {l}) = Cardinality(Users(q)) - 1
      BY <1>2, UserCounts, Zenon
    <3>3. Cardinality(Users(q)) <= 1
      BY <1>2, <2>2, <3>2 DEF RefCountIsShared
    <3>4. Cardinality(Users(q) \ {l}) \in Nat
      BY <3>2, UserCounts, Zenon
    <3>5. Cardinality(Users(q) \ {l}) = 0
      BY <3>2, <3>3, <3>4
    <3>6. Users(q) \ {l} = {}
      BY <3>2, <3>5, UserCounts, Zenon
    <3>7. ASSUME NEW r \in Refs
          PROVE  refs'[r] = [user_count |-> Cardinality(Users(r) \ {l}), users |-> Users(r) \ {l}]
      <4>1. CASE r = q
        <5>1. refs'[r] = RefCountNew
          BY <1>2, <3>1, <4>1
        <5> QED BY <3>5, <3>6, <4>1, <5>1 DEF RefCountNew
      <4>2. CASE r # q
        <5>1. refs'[r] = refs[r]
          BY <1>2, <3>1, <4>2
        <5>2. Users(r) \ {l} = Users(r)
          BY <4>2 DEF Users
        <5> QED BY <5>1, <5>2, RefIs
      <4> QED BY <4>1, <4>2
    <3>8. refs' = [r \in Refs |-> refs'[r]]
      BY <1>2, <3>1
    <3> QED BY <3>7, <3>8
  <2> QED BY <2>1, <2>2
<1>4. PICK e : e = Absent
  OBVIOUS
<1> QED BY <1>1, <1>3, <1>4, RefsFollow

\* A change moves a list that shares its RefCount to a free one; a list that has
\* it for itself keeps it.
LEMMA UpdateKeeps ==
  ASSUME RefsInv, AbsentIsNoList, NEW l \in Lists, Live(l),
         NEW v, NEW count, NEW state, Update(l, v, count, state)
  PROVE  RefsInv'
<1> DEFINE e == [first |-> v.first, last |-> v.last, node_count |-> count, state |-> state,
                 ref |-> NewRef(l)]
           q == lists[l].ref
<1>1. lists' = [lists EXCEPT ![l] = e] /\ refs' = DetachedRefs(l)
  BY DEF Update
<1>2. e # Absent /\ e.ref = NewRef(l)
  BY DEF AbsentIsNoList
<1> HIDE DEF e
<1>3. q \in Refs /\ l \in Users(q) /\ refs = [x \in Refs |-> refs[x]]
  BY DEF RefsInv, RefsType, Users
<1>4. /\ e.ref \in Refs /\ refs' = [r \in Refs |-> refs'[r]]
      /\ \A r \in Refs :
           IF e # Absent /\ e.ref = r
           THEN refs'[r] = [user_count |-> Cardinality(Users(r) \cup {l}), users |-> Users(r) \cup {l}]
           ELSE refs'[r] = [user_count |-> Cardinality(Users(r) \ {l}), users |-> Users(r) \ {l}]
  <2>1. CASE RefCountIsShared(l)
    <3> DEFINE rs == RefCountDetach(refs, q, l)
    <3>1. /\ rs = [r \in Refs |-> rs[r]]
          /\ \A r \in Refs : rs[r] = [user_count |-> Cardinality(Users(r) \ {l}), users |-> Users(r) \ {l}]
      BY <2>1, DetachTakes
    <3>2. /\ FreeRef \in Refs /\ refs[FreeRef] = RefCountNew /\ FreeRef # q
          /\ e.ref = FreeRef
      BY <1>2, <2>1, FreeRefFound DEF NewRef
    <3>3. Users(FreeRef) = {}
      <4>1. refs[FreeRef].users = Users(FreeRef)
        BY <3>2 DEF RefsInv, RefsExact, Users
      <4> QED BY <4>1, <3>2 DEF RefCountNew
    <3>4. refs' = RefCountAttach(rs, FreeRef, l)
      BY <1>1, <2>1 DEF DetachedRefs
    <3> HIDE DEF rs
    <3>5. rs[FreeRef] = [user_count |-> 0, users |-> {}]
      <4>1. Users(FreeRef) \ {l} = {} /\ Cardinality({}) = 0
        BY <3>3, UserCounts
      <4> QED BY <3>1, <3>2, <4>1
    <3>6. ASSUME NEW r \in Refs
          PROVE  IF e # Absent /\ e.ref = r
                 THEN refs'[r] = [user_count |-> Cardinality(Users(r) \cup {l}), users |-> Users(r) \cup {l}]
                 ELSE refs'[r] = [user_count |-> Cardinality(Users(r) \ {l}), users |-> Users(r) \ {l}]
      <4>1. CASE r = FreeRef
        <5>1. refs'[r] = [user_count |-> 0 + 1, users |-> {} \cup {l}]
          BY <3>1, <3>4, <3>5, <4>1 DEF RefCountAttach
        <5>2. Users(r) \cup {l} = {l} /\ Cardinality({l}) = 1
          BY <3>3, <4>1, UserCounts
        <5> QED BY <1>2, <3>2, <4>1, <5>1, <5>2
      <4>2. CASE r # FreeRef
        <5>1. refs'[r] = rs[r]
          BY <3>1, <3>4, <4>2 DEF RefCountAttach
        <5> QED BY <3>1, <3>2, <4>2, <5>1
      <4> QED BY <4>1, <4>2
    <3>7. refs' = [r \in Refs |-> refs'[r]]
      BY <3>1, <3>4 DEF RefCountAttach
    <3> QED BY <3>2, <3>6, <3>7
  <2>2. CASE ~RefCountIsShared(l)
    <3>1. e.ref = q /\ refs' = refs
      BY <1>1, <1>2, <2>2 DEF NewRef, DetachedRefs
    <3>2. ASSUME NEW r \in Refs
          PROVE  IF e # Absent /\ e.ref = r
                 THEN refs'[r] = [user_count |-> Cardinality(Users(r) \cup {l}), users |-> Users(r) \cup {l}]
                 ELSE refs'[r] = [user_count |-> Cardinality(Users(r) \ {l}), users |-> Users(r) \ {l}]
      <4>1. refs'[r] = [user_count |-> Cardinality(Users(r)), users |-> Users(r)]
        BY <3>1, RefIs
      <4>2. CASE r = q
        <5>1. Users(r) \cup {l} = Users(r)
          BY <1>3, <4>2
        <5> QED BY <1>2, <3>1, <4>1, <4>2, <5>1
      <4>3. CASE r # q
        <5>1. Users(r) \ {l} = Users(r)
          BY <4>3 DEF Users
        <5> QED BY <3>1, <4>1, <4>3, <5>1
      <4> QED BY <4>2, <4>3
    <3> QED BY <1>3, <3>1, <3>2
  <2> QED BY <2>1, <2>2
<1> QED BY <1>1, <1>4, RefsFollow

-----------------------------------------------------------------------------
\* The additions and removals are updates of a list.
LEMMA ChangeIsUpdate ==
  ASSUME NEW l \in Lists, NEW x,
         \/ ListPrepend(l, x) \/ ListAppend(l, x) \/ ListRemove(l, x)
         \/ ListMutableIteratorPrepend(l, x) \/ ListMutableIteratorAppend(l, x)
         \/ ListMutableIteratorRemove(l)
  PROVE  Live(l) /\ \E v, count, state : Update(l, v, count, state)
<1>1. CASE ListPrepend(l, x)
  BY <1>1 DEF ListPrepend, Added, MayGrow
<1>2. CASE ListAppend(l, x)
  BY <1>2 DEF ListAppend, Added, MayGrow
<1>3. CASE ListRemove(l, x)
  BY <1>3 DEF ListRemove, Removed, MayShrink
<1>4. CASE ListMutableIteratorPrepend(l, x)
  BY <1>4 DEF ListMutableIteratorPrepend, Added, MayGrow
<1>5. CASE ListMutableIteratorAppend(l, x)
  BY <1>5 DEF ListMutableIteratorAppend, Added, MayGrow
<1>6. CASE ListMutableIteratorRemove(l)
  BY <1>6 DEF ListMutableIteratorRemove, Removed, MayShrink
<1> QED BY <1>1, <1>2, <1>3, <1>4, <1>5, <1>6

LEMMA RefsStep ==
  ASSUME AbsentIsNoList, RefsInv, [Next]_vars
  PROVE  RefsInv'
<1>1. ASSUME UNCHANGED <<lists, refs>> PROVE RefsInv'
  BY <1>1 DEF RefsInv, RefsType, RefsExact, Live
<1>2. ASSUME NEW l \in Lists, NEW v, NEW count, NEW state, Live(l), Update(l, v, count, state)
      PROVE  RefsInv'
  BY <1>2, UpdateKeeps
<1>3. CASE ListIteratorDestroy \/ MoveLight
  BY <1>1, <1>3 DEF ListIteratorDestroy, MoveLight
<1>4. CASE UNCHANGED vars
  BY <1>1, <1>4 DEF vars
<1>5. ASSUME NEW l \in Lists,
             \/ ListIteratorGet(l) \/ ListMutableIteratorGet(l)
             \/ ListMutableIteratorRelease(l) \/ MoveMutable(l)
      PROVE  RefsInv'
  BY <1>1, <1>5 DEF ListIteratorGet, ListMutableIteratorGet, ListMutableIteratorRelease, MoveMutable
<1>6. ASSUME NEW l \in Lists, NEW x,
             \/ ListPrepend(l, x) \/ ListAppend(l, x) \/ ListRemove(l, x)
             \/ ListMutableIteratorPrepend(l, x) \/ ListMutableIteratorAppend(l, x)
             \/ ListMutableIteratorRemove(l)
      PROVE  RefsInv'
  <2>1. Live(l) /\ \E v, count, state : Update(l, v, count, state)
    BY <1>6, ChangeIsUpdate
  <2> QED BY <2>1, <1>2
<1> QED BY <1>3, <1>4, <1>5, <1>6, NewKeeps, DestroyKeeps, CopyKeeps DEF Next

\* The inductive invariant holds of every reachable state of list.c.
THEOREM RefsInvariant ==
  ASSUME AbsentIsNoList
  PROVE  Spec => []RefsInv
<1>1. Init => RefsInv
  <2> SUFFICES ASSUME Init PROVE RefsInv
    OBVIOUS
  <2>1. /\ lists = [l \in Lists |-> Absent] /\ refs = [r \in Refs |-> RefCountNew]
    BY DEF Init
  <2>2. Cardinality({}) = 0
    BY FS_EmptySet
  <2> QED BY <2>1, <2>2 DEF RefsInv, RefsType, RefsExact, Live, RefCountNew
<1>2. RefsInv /\ [Next]_vars => RefsInv'
  BY RefsStep
<1> QED BY <1>1, <1>2, PTL DEF Spec

\* The reference counts of refcount.c are exact in every reachable state, however
\* many lists were copied, changed and destroyed.
THEOREM RefsAreExact ==
  ASSUME AbsentIsNoList
  PROVE  Spec => []RefsExact
<1>1. RefsInv => RefsExact
  BY DEF RefsInv
<1> QED BY <1>1, RefsInvariant, PTL

\* RefCountIsShared, which decides whether ListDetach copies the nodes before a
\* change and whether ListDestroy leaves them alone, tells exactly whether another
\* list has the same RefCount.
SharedExactly ==
  \A l \in Lists : Live(l) =>
    (RefCountIsShared(l) <=> \E k \in Lists \ {l} : Live(k) /\ lists[k].ref = lists[l].ref)

LEMMA RefsInvShared == RefsInv => SharedExactly
<1> SUFFICES ASSUME RefsInv, NEW l \in Lists, Live(l)
             PROVE  RefCountIsShared(l) <=> \E k \in Lists \ {l} : Live(k) /\ lists[k].ref = lists[l].ref
  BY DEF SharedExactly
<1> DEFINE q == lists[l].ref
           U == Users(q) \ {l}
<1>1. /\ l \in Users(q) /\ Users(q) \in SUBSET Lists
      /\ refs[q].user_count = Cardinality(Users(q))
  BY DEF RefsInv, RefsType, RefsExact, Users
<1>2. /\ Cardinality(Users(q)) \in Nat /\ Cardinality(U) = Cardinality(Users(q)) - 1
  BY <1>1, UserCounts, Zenon
<1>3. Cardinality(U) \in Nat /\ (Cardinality(U) = 0 <=> U = {})
  <2>1. U \in SUBSET Lists
    BY <1>1
  <2> HIDE DEF U
  <2> QED BY <2>1, UserCounts, Zenon
<1>4. RefCountIsShared(l) <=> U # {}
  <2>1. RefCountIsShared(l) <=> Cardinality(Users(q)) > 1
    BY <1>1 DEF RefCountIsShared
  <2> HIDE DEF U
  <2> QED BY <2>1, <1>2, <1>3
<1> QED BY <1>4 DEF Users

\* A change copies the nodes exactly when another list has the same RefCount, and
\* a list that is destroyed frees them exactly when no other has it.
THEOREM DetachedWhenShared ==
  ASSUME AbsentIsNoList
  PROVE  Spec => []SharedExactly
BY RefsInvariant, RefsInvShared, PTL

-----------------------------------------------------------------------------
(***************************************************************************)
(* Chains.  A chain is described by the sequence of its nodes; walking     *)
(* along next gives that sequence back.                                    *)
(***************************************************************************)
Cells == [payload : Payloads \cup {Garbage}, next : Nodes \cup {NULL}, previous : Nodes \cup {NULL}]
Heaps == [Nodes -> Cells]

Once(s) == \A i, j \in 1..Len(s) : s[i] = s[j] => i = j

Linked(h, first, last, s) ==
  /\ s \in Seq(Nodes) /\ Once(s)
  /\ first = IF Len(s) = 0 THEN NULL ELSE s[1]
  /\ last  = IF Len(s) = 0 THEN NULL ELSE s[Len(s)]
  /\ \A i \in 1..Len(s) : /\ h[s[i]].next = IF i = Len(s) THEN NULL ELSE s[i + 1]
                          /\ h[s[i]].previous = IF i = 1 THEN NULL ELSE s[i - 1]

LEMMA NodeFacts ==
  /\ Nodes \in SUBSET Nat /\ IsFiniteSet(Nodes) /\ Cardinality(Nodes) \in Nat /\ NULL \notin Nodes
  /\ MaxLen \in Nat /\ MaxState \in Nat
  /\ \A b \in Bounds : /\ b.len \in Nat /\ b.lists \in Nat \ {0} /\ b.removals \in Nat
                       /\ b.payloads \in SUBSET Payloads
                       /\ b.len <= MaxLen /\ b.removals <= MaxState
                       /\ b.len * b.lists <= Cardinality(Nodes)
<1>1. \A b \in Bounds : /\ b.len \in Nat /\ b.lists \in Nat \ {0} /\ b.removals \in Nat
                        /\ b.payloads \in SUBSET Payloads
  BY ListAssumption, FS_CardinalityType
<1> DEFINE f == [b \in Bounds |-> b.len * b.lists]
           g == [b \in Bounds |-> b.len]
           r == [b \in Bounds |-> b.removals]
<1>2. f \in [Bounds -> Nat] /\ g \in [Bounds -> Nat] /\ r \in [Bounds -> Nat]
  <2>1. \A b \in Bounds : b.len * b.lists \in Nat
    BY <1>1
  <2> QED BY <1>1, <2>1
<1>3. IsFiniteSet(Bounds) /\ Bounds # {}
  BY ListAssumption
<1>4. /\ {f[b] : b \in Bounds} = {b.len * b.lists : b \in Bounds}
      /\ {g[b] : b \in Bounds} = {b.len : b \in Bounds}
      /\ {r[b] : b \in Bounds} = {b.removals : b \in Bounds}
  OBVIOUS
<1>5. /\ \A b \in Bounds : f[b] = b.len * b.lists /\ g[b] = b.len /\ r[b] = b.removals
  OBVIOUS
<1> HIDE DEF f, g, r
<1> DEFINE M == Max({b.len * b.lists : b \in Bounds})
<1>6. M \in Nat /\ \A b \in Bounds : f[b] <= M
  <2>1. Max({f[k] : k \in Bounds}) \in Nat /\ \A k \in Bounds : f[k] <= Max({f[k2] : k2 \in Bounds})
    BY <1>2, <1>3, GreatestNumber
  <2> QED BY <2>1, <1>4, Zenon
<1>7. MaxLen \in Nat /\ \A b \in Bounds : g[b] <= MaxLen
  <2>1. Max({g[k] : k \in Bounds}) \in Nat /\ \A k \in Bounds : g[k] <= Max({g[k2] : k2 \in Bounds})
    BY <1>2, <1>3, GreatestNumber
  <2> QED BY <2>1, <1>4, Zenon DEF MaxLen
<1>8. MaxState \in Nat /\ \A b \in Bounds : r[b] <= MaxState
  <2>1. Max({r[k] : k \in Bounds}) \in Nat /\ \A k \in Bounds : r[k] <= Max({r[k2] : k2 \in Bounds})
    BY <1>2, <1>3, GreatestNumber
  <2> QED BY <2>1, <1>4, Zenon DEF MaxState
<1>9. Nodes = 1..M
  BY DEF Nodes
<1> HIDE DEF M
<1>10. IsFiniteSet(Nodes) /\ Cardinality(Nodes) = M
  <2>1. 1 \in Int /\ M \in Int
    BY <1>6
  <2>2. IsFiniteSet(1..M) /\ Cardinality(1..M) = IF 1 > M THEN 0 ELSE M - 1 + 1
    BY <2>1, FS_Interval
  <2> QED BY <2>2, <1>6, <1>9
<1>11. NULL \notin Nodes /\ Nodes \in SUBSET Nat
  BY <1>9, <1>6, ListAssumption
<1> QED BY <1>1, <1>5, <1>6, <1>7, <1>8, <1>10, <1>11

LEMMA RangeOf ==
  ASSUME NEW s \in Seq(Nodes)
  PROVE  /\ Range(s) \subseteq Nodes /\ Len(s) \in Nat
         /\ \A p : p \in Range(s) <=> \E i \in 1..Len(s) : s[i] = p
         /\ \A i \in 1..Len(s) : s[i] \in Nodes
<1>1. DOMAIN s = 1..Len(s) /\ Len(s) \in Nat /\ \A i \in 1..Len(s) : s[i] \in Nodes
  OBVIOUS
<1>2. \A p : p \in Range(s) <=> \E i \in 1..Len(s) : s[i] = p
  BY <1>1 DEF Range
<1> QED BY <1>1, <1>2

\* A chain is no longer than the heap, and has as many nodes as it is long.
LEMMA ChainLength ==
  ASSUME NEW s \in Seq(Nodes), Once(s)
  PROVE  /\ Len(s) <= Cardinality(Nodes)
         /\ IsFiniteSet(Range(s)) /\ Cardinality(Range(s)) = Len(s)
<1> DEFINE n == Len(s)
           S == 1..n
           T == Range(s)
<1>1. n \in Nat /\ IsFiniteSet(S) /\ Cardinality(S) = n
  <2>1. n \in Nat /\ 1 \in Int /\ n \in Int
    OBVIOUS
  <2> HIDE DEF n
  <2>2. IsFiniteSet(1..n) /\ Cardinality(1..n) = IF 1 > n THEN 0 ELSE n - 1 + 1
    BY <2>1, FS_Interval
  <2> QED BY <2>1, <2>2
<1>2. s \in [S -> T] /\ \A p \in T : \E i \in S : s[i] = p
  BY RangeOf
<1>3. IsInjective(s)
  <2>1. DOMAIN s = S
    OBVIOUS
  <2> QED BY <2>1 DEF Once, IsInjective
<1> HIDE DEF n, S, T
<1>4. s \in Surjection(S, T) /\ s \in Injection(S, T)
  BY <1>2, <1>3 DEF Surjection, Injection
<1>5. IsFiniteSet(T) /\ Cardinality(T) = Cardinality(S)
  BY <1>1, <1>4, FS_Surjection
<1>6. Cardinality(T) <= Cardinality(Nodes)
  <2>1. T \in SUBSET Nodes
    BY RangeOf DEF T
  <2> QED BY <2>1, NodeFacts, FS_Subset
<1> QED BY <1>1, <1>5, <1>6 DEF n, T

\* The walk of Chain, as a function of the number of turns.
WalkTurns(w, h) ==
  w = [k \in 0..Cardinality(Nodes) |->
         [n \in Nodes \cup {NULL} |->
            IF k = 0 \/ n = NULL THEN <<>> ELSE <<n>> \o w[k - 1][h[n].next]]]

LEMMA WalkExists ==
  ASSUME NEW h \in Heaps
  PROVE  \E w \in [0..Cardinality(Nodes) -> [Nodes \cup {NULL} -> Seq(Nodes)]] : WalkTurns(w, h)
<1> DEFINE N == Cardinality(Nodes)
           NN == Nodes \cup {NULL}
           S == [NN -> Seq(Nodes)]
           a == [n \in NN |-> <<>>]
           Turn(w) == [n \in NN |-> IF n = NULL THEN <<>> ELSE <<n>> \o w[h[n].next]]
           g == [j \in 1..N |-> [w \in S |-> Turn(w)]]
<1>1. N \in Nat /\ NULL \notin Nodes
  BY NodeFacts
<1>2. a \in S
  OBVIOUS
<1>3. ASSUME NEW w \in S PROVE Turn(w) \in S
  <2> SUFFICES ASSUME NEW n \in NN PROVE (IF n = NULL THEN <<>> ELSE <<n>> \o w[h[n].next]) \in Seq(Nodes)
    OBVIOUS
  <2>1. CASE n = NULL
    BY <2>1
  <2>2. CASE n # NULL
    <3>1. n \in Nodes /\ h[n].next \in NN
      BY <2>2 DEF Heaps, Cells
    <3>2. w[h[n].next] \in Seq(Nodes)
      BY <3>1
    <3> QED BY <2>2, <3>1, <3>2
  <2> QED BY <2>1, <2>2
<1> HIDE DEF S, Turn
<1>4. g \in [1..N -> [S -> S]]
  BY <1>3
<1>5. PICK w \in [0..N -> S] : w[0] = a /\ \A j \in 1..N : w[j] = g[j][w[j - 1]]
  <2> HIDE DEF g, a, N
  <2>1. LoopRuns(N, S, a, g)
    BY <1>1, <1>2, <1>4, LoopExists
  <2> QED BY <2>1 DEF LoopRuns
<1>6. \A j \in 1..N : w[j] = Turn(w[j - 1])
  <2> TAKE j \in 1..N
  <2>1. w[j - 1] \in S
    BY <1>1, <1>5
  <2> QED BY <2>1, <1>5
<1>7. ASSUME NEW k \in 0..N
      PROVE  w[k] = [n \in NN |-> IF k = 0 \/ n = NULL THEN <<>> ELSE <<n>> \o w[k - 1][h[n].next]]
  <2>1. CASE k = 0
    BY <2>1, <1>5
  <2>2. CASE k # 0
    <3>1. k \in 1..N
      BY <2>2, <1>1
    <3> QED BY <3>1, <2>2, <1>6 DEF Turn
  <2> QED BY <2>1, <2>2
<1>8. WalkTurns(w, h)
  <2> HIDE DEF N
  <2>1. w = [k \in 0..N |-> w[k]]
    BY <1>5
  <2>2. w = [k \in 0..N |-> [n \in NN |-> IF k = 0 \/ n = NULL THEN <<>> ELSE <<n>> \o w[k - 1][h[n].next]]]
    BY <2>1, <1>7, Zenon
  <2> QED BY <2>2, Zenon DEF WalkTurns, N
<1> QED BY <1>5, <1>8 DEF S

LEMMA ChainIs ==
  ASSUME NEW h \in Heaps, NEW first, NEW last, NEW s, Linked(h, first, last, s)
  PROVE  Chain(h, first) = s
<1> DEFINE N == Cardinality(Nodes)
           NN == Nodes \cup {NULL}
           n == Len(s)
           w == CHOOSE v : WalkTurns(v, h)
<1>1. N \in Nat /\ NULL \notin Nodes
  BY NodeFacts
<1>2. WalkTurns(w, h)
  BY WalkExists, Zenon
<1>3. Chain(h, first) = w[N][first]
  BY Zenon DEF Chain, WalkTurns
<1> HIDE DEF w
<1>4. /\ s \in Seq(Nodes) /\ n \in Nat /\ n <= N /\ \A i \in 1..n : s[i] \in Nodes /\ s[i] \in NN /\ s[i] # NULL
      /\ first = IF n = 0 THEN NULL ELSE s[1]
      /\ \A i \in 1..n : h[s[i]].next = IF i = n THEN NULL ELSE s[i + 1]
  <2>1. s \in Seq(Nodes) /\ Once(s)
    BY DEF Linked
  <2>2. n <= N
    BY <2>1, ChainLength
  <2>3. n \in Nat /\ \A i \in 1..n : s[i] \in Nodes /\ s[i] \in NN /\ s[i] # NULL
    BY <2>1, <1>1
  <2>4. /\ first = IF n = 0 THEN NULL ELSE s[1]
        /\ \A i \in 1..n : h[s[i]].next = IF i = n THEN NULL ELSE s[i + 1]
    BY DEF Linked
  <2> QED BY <2>1, <2>2, <2>3, <2>4
<1>5. \A k \in 0..N : \A p \in NN : w[k][p] = IF k = 0 \/ p = NULL THEN <<>> ELSE <<p>> \o w[k - 1][h[p].next]
  <2> DEFINE R(k) == [p \in NN |-> IF k = 0 \/ p = NULL THEN <<>> ELSE <<p>> \o w[k - 1][h[p].next]]
  <2>1. w = [k \in 0..N |-> R(k)]
    BY <1>2, Zenon DEF WalkTurns
  <2>2. \A k \in 0..N : w[k] = R(k)
    <3> HIDE DEF R
    <3> QED BY <2>1, Zenon
  <2> QED BY <2>2
<1> HIDE DEF N
<1> DEFINE Walked(k) == w[k][NULL] = <<>> /\ \A i \in 1..n : (n - i) + 1 <= k => w[k][s[i]] = SubSeq(s, i, n)
           P == {k \in Nat : k <= N => Walked(k)}
<1>6. 0 \in P
  <2>1. 0 \in 0..N /\ NULL \in NN
    BY <1>1
  <2>2. \A i \in 1..n : ~((n - i) + 1 <= 0)
    BY <1>4
  <2>3. w[0][NULL] = <<>>
    BY <2>1, <1>5
  <2> QED BY <2>2, <2>3
<1>7. ASSUME NEW k \in P, k < N PROVE k + 1 \in P
  <2>1. /\ k \in Nat /\ k + 1 \in 0..N /\ k + 1 # 0 /\ (k + 1) - 1 = k /\ k <= N /\ NULL \in NN
    BY <1>1, <1>7
  <2>2. Walked(k)
    <3> HIDE DEF Walked
    <3> QED BY <1>7, <2>1
  <2>3. w[k + 1][NULL] = <<>>
    BY <2>1, <1>5
  <2>4. ASSUME NEW i \in 1..n, (n - i) + 1 <= k + 1 PROVE w[k + 1][s[i]] = SubSeq(s, i, n)
    <3>1. w[k + 1][s[i]] = <<s[i]>> \o w[k][h[s[i]].next]
      BY <2>1, <1>4, <1>5
    <3>2. CASE i = n
      <4>1. w[k][h[s[i]].next] = <<>>
        BY <2>2, <3>2, <1>4
      <4>2. <<s[i]>> \o <<>> = SubSeq(s, i, n)
        BY <3>2, <1>4
      <4> QED BY <3>1, <4>1, <4>2
    <3>3. CASE i # n
      <4>1. i + 1 \in 1..n /\ (n - (i + 1)) + 1 <= k
        BY <3>3, <2>1, <1>4, <2>4
      <4>2. w[k][h[s[i]].next] = SubSeq(s, i + 1, n)
        BY <4>1, <3>3, <2>2, <1>4
      <4>3. <<s[i]>> \o SubSeq(s, i + 1, n) = SubSeq(s, i, n)
        BY <4>1, <1>4
      <4> QED BY <3>1, <4>2, <4>3
    <3> QED BY <3>2, <3>3
  <2>5. Walked(k + 1)
    BY <2>3, <2>4
  <2> HIDE DEF Walked
  <2> QED BY <2>1, <2>5
<1>8. P \in SUBSET Nat
  OBVIOUS
<1>9. N \in P
  <2>1. 0..N \subseteq P
    <3> HIDE DEF P
    <3> QED BY <1>1, <1>6, <1>7, <1>8, UpTo
  <2> QED BY <2>1, <1>1
<1>10. CASE n = 0
  <2>1. s = <<>>
    BY <1>4, <1>10
  <2> QED BY <2>1, <1>3, <1>4, <1>9, <1>10
<1>11. CASE n # 0
  <2>1. 1 \in 1..n /\ (n - 1) + 1 <= N
    BY <1>4, <1>11
  <2>2. w[N][s[1]] = SubSeq(s, 1, n)
    BY <2>1, <1>9
  <2>3. SubSeq(s, 1, n) = s
    BY <1>4
  <2> QED BY <2>2, <2>3, <1>3, <1>4, <1>11
<1> QED BY <1>10, <1>11

-----------------------------------------------------------------------------
(***************************************************************************)
(* Additions and removals in a sequence, and in a chain.                   *)
(***************************************************************************)
\* What InsertAt and RemoveAt give, as relations of two sequences.
IsInserted(c, i, x, w) ==
  /\ Len(w) = Len(c) + 1 /\ w = [j \in 1..(Len(c) + 1) |-> w[j]]
  /\ \A j \in 1..(Len(c) + 1) : w[j] = IF j < i THEN c[j] ELSE IF j = i THEN x ELSE c[j - 1]

IsRemoved(c, i, w) ==
  /\ Len(w) = Len(c) - 1 /\ w = [j \in 1..(Len(c) - 1) |-> w[j]]
  /\ \A j \in 1..(Len(c) - 1) : w[j] = IF j < i THEN c[j] ELSE c[j + 1]

LEMMA InsertGives ==
  ASSUME NEW S, NEW s \in Seq(S), NEW i \in 1..(Len(s) + 1), NEW e \in S
  PROVE  InsertAt(s, i, e) \in Seq(S) /\ IsInserted(s, i, e, InsertAt(s, i, e))
<1> DEFINE a == SubSeq(s, 1, i - 1)
           b == SubSeq(s, i, Len(s))
           c == a \o <<e>>
<1>1. /\ a \in Seq(S) /\ Len(a) = i - 1 /\ \A j \in 1..(i - 1) : a[j] = s[j]
      /\ b \in Seq(S) /\ Len(b) = Len(s) - i + 1 /\ \A j \in 1..Len(b) : b[j] = s[i + j - 1]
      /\ Len(s) \in Nat
  OBVIOUS
<1> HIDE DEF a, b
<1>2. c \in Seq(S) /\ Len(c) = i /\ (\A j \in 1..(i - 1) : c[j] = s[j]) /\ c[i] = e
  <2>1. <<e>> \in Seq(S) /\ Len(<<e>>) = 1 /\ <<e>>[1] = e /\ 1 \in 1..1
    OBVIOUS
  <2> DEFINE u == <<e>>
  <2> HIDE DEF u
  <2>2. /\ a \o u \in Seq(S) /\ Len(a \o u) = Len(a) + Len(u)
        /\ \A j \in 1..Len(a) : (a \o u)[j] = a[j]
        /\ \A j \in 1..Len(u) : (a \o u)[Len(a) + j] = u[j]
    <3>1. a \in Seq(S) /\ u \in Seq(S)
      BY <1>1, <2>1 DEF u
    <3> QED BY <3>1
  <2>3. Len(a) + 1 = i /\ Len(u) = 1 /\ u[1] = e /\ 1 \in 1..1 /\ Len(a) = i - 1 /\ c = a \o u
    BY <1>1, <2>1 DEF u
  <2> HIDE DEF c
  <2>4. c \in Seq(S) /\ Len(c) = i /\ c[i] = e
    BY <2>2, <2>3
  <2> QED BY <1>1, <2>2, <2>3, <2>4
<1> HIDE DEF c
<1>3. /\ c \o b \in Seq(S) /\ Len(c \o b) = Len(s) + 1
      /\ \A j \in 1..i : (c \o b)[j] = c[j]
      /\ \A j \in 1..Len(b) : (c \o b)[i + j] = b[j]
  <2>1. /\ c \o b \in Seq(S) /\ Len(c \o b) = Len(c) + Len(b)
        /\ \A j \in 1..Len(c) : (c \o b)[j] = c[j]
        /\ \A j \in 1..Len(b) : (c \o b)[Len(c) + j] = b[j]
    <3>1. c \in Seq(S) /\ b \in Seq(S)
      BY <1>1, <1>2
    <3> QED BY <3>1
  <2>2. Len(c) = i /\ Len(c) + Len(b) = Len(s) + 1
    BY <1>1, <1>2
  <2> QED BY <2>1, <2>2
<1>4. InsertAt(s, i, e) = c \o b
  BY DEF InsertAt, a, b, c
<1>5. ASSUME NEW j \in 1..(Len(s) + 1)
      PROVE  (c \o b)[j] = IF j < i THEN s[j] ELSE IF j = i THEN e ELSE s[j - 1]
  <2>1. CASE j <= i
    <3>1. j \in 1..i /\ (j # i => j \in 1..(i - 1) /\ j < i)
      BY <2>1
    <3>2. (c \o b)[j] = c[j]
      BY <3>1, <1>3
    <3>3. CASE j = i
      BY <3>2, <3>3, <1>2
    <3>4. CASE j # i
      BY <3>1, <3>2, <3>4, <1>2
    <3> QED BY <3>3, <3>4
  <2>2. CASE j > i
    <3>1. j - i \in 1..Len(b) /\ i + (j - i) - 1 = j - 1 /\ i + (j - i) = j
      BY <2>2, <1>1
    <3>2. (c \o b)[j] = b[j - i] /\ b[j - i] = s[j - 1]
      BY <3>1, <1>1, <1>3
    <3> QED BY <3>2, <2>2
  <2>3. j <= i \/ j > i
    BY <1>1
  <2> QED BY <2>1, <2>2, <2>3, Zenon
<1> DEFINE w == c \o b
<1>6. /\ w \in Seq(S) /\ Len(w) = Len(s) + 1
      /\ \A j \in 1..(Len(s) + 1) : w[j] = IF j < i THEN s[j] ELSE IF j = i THEN e ELSE s[j - 1]
  BY <1>3, <1>5
<1> HIDE DEF w
<1>7. w = [j \in 1..(Len(s) + 1) |-> w[j]]
  BY <1>6
<1>8. IsInserted(s, i, e, w)
  BY <1>6, <1>7, Zenon DEF IsInserted
<1>9. InsertAt(s, i, e) = w
  BY <1>4 DEF w
<1> QED BY <1>6, <1>8, <1>9, Zenon

LEMMA InsertedAt ==
  ASSUME NEW S, NEW s \in Seq(S), NEW i \in 1..(Len(s) + 1), NEW e \in S
  PROVE  /\ InsertAt(s, i, e) \in Seq(S) /\ Len(InsertAt(s, i, e)) = Len(s) + 1
         /\ \A j \in 1..(Len(s) + 1) :
              InsertAt(s, i, e)[j] = IF j < i THEN s[j] ELSE IF j = i THEN e ELSE s[j - 1]
<1>1. InsertAt(s, i, e) \in Seq(S) /\ IsInserted(s, i, e, InsertAt(s, i, e))
  BY InsertGives, Zenon
<1> QED BY <1>1, Zenon DEF IsInserted

LEMMA InsertedLength ==
  ASSUME NEW S, NEW s \in Seq(S), NEW i \in 1..(Len(s) + 1), NEW e \in S
  PROVE  Len(InsertAt(s, i, e)) = Len(s) + 1
  BY InsertedAt

LEMMA RemoveGives ==
  ASSUME NEW S, NEW s \in Seq(S), NEW i \in 1..Len(s)
  PROVE  RemoveAt(s, i) \in Seq(S) /\ IsRemoved(s, i, RemoveAt(s, i))
<1> DEFINE a == SubSeq(s, 1, i - 1)
           b == SubSeq(s, i + 1, Len(s))
<1>1. /\ a \in Seq(S) /\ Len(a) = i - 1 /\ \A j \in 1..(i - 1) : a[j] = s[j]
      /\ b \in Seq(S) /\ Len(b) = Len(s) - i /\ \A j \in 1..Len(b) : b[j] = s[i + j]
      /\ Len(s) \in Nat
  OBVIOUS
<1> HIDE DEF a, b
<1>2. /\ a \o b \in Seq(S) /\ Len(a \o b) = Len(s) - 1
      /\ \A j \in 1..(i - 1) : (a \o b)[j] = a[j]
      /\ \A j \in 1..Len(b) : (a \o b)[(i - 1) + j] = b[j]
  <2>1. /\ a \o b \in Seq(S) /\ Len(a \o b) = Len(a) + Len(b)
        /\ \A j \in 1..Len(a) : (a \o b)[j] = a[j]
        /\ \A j \in 1..Len(b) : (a \o b)[Len(a) + j] = b[j]
    <3>1. a \in Seq(S) /\ b \in Seq(S)
      BY <1>1
    <3> QED BY <3>1
  <2> QED BY <2>1, <1>1
<1>3. RemoveAt(s, i) = a \o b
  BY DEF RemoveAt, a, b
<1>4. ASSUME NEW j \in 1..(Len(s) - 1) PROVE (a \o b)[j] = IF j < i THEN s[j] ELSE s[j + 1]
  <2>1. CASE j < i
    BY <2>1, <1>1, <1>2
  <2>2. CASE j >= i
    <3>1. j - (i - 1) \in 1..Len(b) /\ i + (j - (i - 1)) = j + 1 /\ (i - 1) + (j - (i - 1)) = j
      BY <2>2, <1>1
    <3>2. (a \o b)[j] = b[j - (i - 1)] /\ b[j - (i - 1)] = s[j + 1]
      BY <3>1, <1>1, <1>2
    <3> QED BY <3>2, <2>2
  <2> QED BY <2>1, <2>2, <1>1
<1> DEFINE w == a \o b
<1>5. /\ w \in Seq(S) /\ Len(w) = Len(s) - 1
      /\ \A j \in 1..(Len(s) - 1) : w[j] = IF j < i THEN s[j] ELSE s[j + 1]
  BY <1>2, <1>4
<1> HIDE DEF w
<1>6. w = [j \in 1..(Len(s) - 1) |-> w[j]]
  BY <1>5
<1>7. IsRemoved(s, i, w)
  BY <1>5, <1>6, Zenon DEF IsRemoved
<1>8. RemoveAt(s, i) = w
  BY <1>3 DEF w
<1> QED BY <1>5, <1>7, <1>8, Zenon

LEMMA RemovedAt ==
  ASSUME NEW S, NEW s \in Seq(S), NEW i \in 1..Len(s)
  PROVE  /\ RemoveAt(s, i) \in Seq(S) /\ Len(RemoveAt(s, i)) = Len(s) - 1
         /\ \A j \in 1..(Len(s) - 1) : RemoveAt(s, i)[j] = IF j < i THEN s[j] ELSE s[j + 1]
<1>1. RemoveAt(s, i) \in Seq(S) /\ IsRemoved(s, i, RemoveAt(s, i))
  BY RemoveGives, Zenon
<1> QED BY <1>1, Zenon DEF IsRemoved

LEMMA InsertedOnce ==
  ASSUME NEW s \in Seq(Nodes), Once(s), NEW i \in 1..(Len(s) + 1), NEW n \in Nodes \ Range(s)
  PROVE  Once(InsertAt(s, i, n))
<1> DEFINE L == Len(s)
           t == InsertAt(s, i, n)
<1>1. /\ L \in Nat /\ Len(t) = L + 1 /\ \A j \in 1..L : s[j] # n
      /\ \A j \in 1..(L + 1) : t[j] = IF j < i THEN s[j] ELSE IF j = i THEN n ELSE s[j - 1]
  <2>1. L \in Nat /\ \A j \in 1..L : s[j] # n
    BY RangeOf
  <2>2. IsInserted(s, i, n, t)
    BY InsertGives
  <2> QED BY <2>1, <2>2 DEF IsInserted
<1>2. \A j, k \in 1..L : s[j] = s[k] => j = k
  BY DEF Once
<1> HIDE DEF t, L
<1>3. ASSUME NEW j \in 1..(L + 1), NEW k \in 1..(L + 1), t[j] = t[k] PROVE j = k
  <2>1. /\ j < i => j \in 1..L /\ t[j] = s[j]
        /\ j > i => j - 1 \in 1..L /\ t[j] = s[j - 1]
        /\ j = i => t[j] = n
        /\ k < i => k \in 1..L /\ t[k] = s[k]
        /\ k > i => k - 1 \in 1..L /\ t[k] = s[k - 1]
        /\ k = i => t[k] = n
    BY <1>1 DEF L
  <2>2. i \in Nat
    BY <1>1 DEF L
  <2> QED BY <2>1, <2>2, <1>1, <1>2, <1>3
<1> QED BY <1>1, <1>3 DEF Once, t

LEMMA RemovedOnce ==
  ASSUME NEW s \in Seq(Nodes), Once(s), NEW i \in 1..Len(s)
  PROVE  Once(RemoveAt(s, i))
<1> DEFINE L == Len(s)
           t == RemoveAt(s, i)
<1>1. /\ L \in Nat /\ Len(t) = L - 1
      /\ \A j \in 1..(L - 1) : t[j] = IF j < i THEN s[j] ELSE s[j + 1]
  BY RemovedAt
<1>2. \A j, k \in 1..L : s[j] = s[k] => j = k
  BY DEF Once
<1> HIDE DEF t, L
<1>3. ASSUME NEW j \in 1..(L - 1), NEW k \in 1..(L - 1), t[j] = t[k] PROVE j = k
  <2>1. /\ j < i => j \in 1..L /\ t[j] = s[j]
        /\ ~(j < i) => j + 1 \in 1..L /\ t[j] = s[j + 1]
        /\ k < i => k \in 1..L /\ t[k] = s[k]
        /\ ~(k < i) => k + 1 \in 1..L /\ t[k] = s[k + 1]
    BY <1>1 DEF L
  <2>2. i \in Nat
    BY <1>1 DEF L
  <2> QED BY <2>1, <2>2, <1>1, <1>2, <1>3
<1> QED BY <1>1, <1>3 DEF Once, t

\* Heap g is h with another next, or previous, of p.
NextSet(h, g, p, m) ==
  /\ g \in Heaps
  /\ \A q \in Nodes : /\ g[q].payload = h[q].payload /\ g[q].previous = h[q].previous
                      /\ g[q].next = IF q = p THEN m ELSE h[q].next
                      /\ q # p => g[q] = h[q]

PreviousSet(h, g, p, m) ==
  /\ g \in Heaps
  /\ \A q \in Nodes : /\ g[q].payload = h[q].payload /\ g[q].next = h[q].next
                      /\ g[q].previous = IF q = p THEN m ELSE h[q].previous
                      /\ q # p => g[q] = h[q]

LEMMA SetNextIs ==
  ASSUME NEW h \in Heaps, NEW p \in Nodes \cup {NULL}, NEW m \in Nodes \cup {NULL}
  PROVE  NextSet(h, SetNext(h, p, m), p, m)
<1>1. CASE p = NULL
  BY <1>1, NodeFacts DEF SetNext, NextSet
<1>2. CASE p # NULL
  <2>1. p \in Nodes /\ h[p] \in Cells
    BY <1>2 DEF Heaps
  <2>2. [h[p] EXCEPT !.next = m] = [payload |-> h[p].payload, next |-> m, previous |-> h[p].previous]
    BY <2>1 DEF Cells
  <2>3. [h[p] EXCEPT !.next = m] \in Cells
    BY <2>1, <2>2 DEF Cells
  <2>4. SetNext(h, p, m) = [h EXCEPT ![p] = [h[p] EXCEPT !.next = m]]
    BY <1>2, <2>1 DEF SetNext
  <2> DEFINE c == [h[p] EXCEPT !.next = m]
  <2>5. c \in Cells /\ c.payload = h[p].payload /\ c.previous = h[p].previous /\ c.next = m
    BY <2>2, <2>3
  <2> HIDE DEF c
  <2>6. SetNext(h, p, m) \in Heaps /\ SetNext(h, p, m)[p] = c /\ \A q \in Nodes : q # p => SetNext(h, p, m)[q] = h[q]
    BY <2>1, <2>4, <2>5 DEF Heaps, c
  <2> QED BY <2>5, <2>6 DEF NextSet
<1> QED BY <1>1, <1>2

LEMMA SetPreviousIs ==
  ASSUME NEW h \in Heaps, NEW p \in Nodes \cup {NULL}, NEW m \in Nodes \cup {NULL}
  PROVE  PreviousSet(h, SetPrevious(h, p, m), p, m)
<1>1. CASE p = NULL
  BY <1>1, NodeFacts DEF SetPrevious, PreviousSet
<1>2. CASE p # NULL
  <2>1. p \in Nodes /\ h[p] \in Cells
    BY <1>2 DEF Heaps
  <2>2. [h[p] EXCEPT !.previous = m] = [payload |-> h[p].payload, next |-> h[p].next, previous |-> m]
    BY <2>1 DEF Cells
  <2>3. [h[p] EXCEPT !.previous = m] \in Cells
    BY <2>1, <2>2 DEF Cells
  <2>4. SetPrevious(h, p, m) = [h EXCEPT ![p] = [h[p] EXCEPT !.previous = m]]
    BY <1>2, <2>1 DEF SetPrevious
  <2> DEFINE c == [h[p] EXCEPT !.previous = m]
  <2>5. c \in Cells /\ c.payload = h[p].payload /\ c.next = h[p].next /\ c.previous = m
    BY <2>2, <2>3
  <2> HIDE DEF c
  <2>6. SetPrevious(h, p, m) \in Heaps /\ SetPrevious(h, p, m)[p] = c
        /\ \A q \in Nodes : q # p => SetPrevious(h, p, m)[q] = h[q]
    BY <2>1, <2>4, <2>5 DEF Heaps, c
  <2> QED BY <2>5, <2>6 DEF PreviousSet
<1> QED BY <1>1, <1>2

\* The heap of Link: a new node n between two neighbours.
LinkHeap(h, n, x, before, after) ==
  SetPrevious(SetNext([h EXCEPT ![n] = [payload |-> x, next |-> after, previous |-> before]],
                      before, n), after, n)

NodeIn(h, g, n, x, before, after) ==
  /\ g \in Heaps
  /\ g[n].payload = x /\ g[n].next = after /\ g[n].previous = before
  /\ \A q \in Nodes \ {n} : /\ g[q].payload = h[q].payload
                            /\ g[q].next = IF q = before THEN n ELSE h[q].next
                            /\ g[q].previous = IF q = after THEN n ELSE h[q].previous
                            /\ q # before /\ q # after => g[q] = h[q]

LEMMA LinkHeapIs ==
  ASSUME NEW h \in Heaps, NEW n \in Nodes, NEW x \in Payloads \cup {Garbage},
         NEW before \in Nodes \cup {NULL}, NEW after \in Nodes \cup {NULL}, before # n, after # n,
         NEW g, g = LinkHeap(h, n, x, before, after)
  PROVE  NodeIn(h, g, n, x, before, after)
<1> DEFINE c == [payload |-> x, next |-> after, previous |-> before]
           h1 == [h EXCEPT ![n] = c]
           h2 == SetNext(h1, before, n)
<1>1. c \in Cells /\ c.payload = x /\ c.next = after /\ c.previous = before
  BY DEF Cells
<1> HIDE DEF c
<1>2. h1 \in Heaps /\ h1[n] = c /\ \A q \in Nodes \ {n} : h1[q] = h[q]
  BY <1>1 DEF Heaps
<1> HIDE DEF h1
<1>3. NextSet(h1, h2, before, n)
  <2>1. h1 \in Heaps /\ n \in Nodes \cup {NULL}
    BY <1>2
  <2> QED BY <2>1, SetNextIs, Zenon
<1> HIDE DEF h2
<1>4. g = SetPrevious(h2, after, n)
  BY DEF LinkHeap, h2, h1, c
<1>5. PreviousSet(h2, g, after, n)
  <2>1. h2 \in Heaps /\ n \in Nodes \cup {NULL}
    BY <1>3 DEF NextSet
  <2> QED BY <2>1, <1>4, SetPreviousIs, Zenon
<1> QED BY <1>1, <1>2, <1>3, <1>5 DEF NodeIn, NextSet, PreviousSet

\* Link adds a node at position i of a chain.
LEMMA LinkGood ==
  ASSUME NEW h \in Heaps, NEW first, NEW last, NEW s, Linked(h, first, last, s),
         NEW n \in Nodes \ Range(s), NEW x \in Payloads \cup {Garbage}, NEW i \in 1..(Len(s) + 1),
         NEW before, before = IF i = 1 THEN NULL ELSE s[i - 1],
         NEW after, after = IF i = Len(s) + 1 THEN NULL ELSE s[i],
         NEW g, g = LinkHeap(h, n, x, before, after)
  PROVE  /\ g \in Heaps
         /\ Linked(g, IF before = NULL THEN n ELSE first, IF after = NULL THEN n ELSE last, InsertAt(s, i, n))
         /\ g[n].payload = x /\ \A q \in Nodes \ {n} : g[q].payload = h[q].payload
         /\ \A q \in Nodes \ ({n} \cup Range(s)) : g[q] = h[q]
<1> DEFINE L == Len(s)
           t == InsertAt(s, i, n)
<1>1. /\ s \in Seq(Nodes) /\ L \in Nat /\ Once(s)
      /\ \A j \in 1..L : s[j] \in Nodes /\ s[j] # n /\ s[j] # NULL /\ s[j] \in Range(s)
      /\ n # NULL
  BY RangeOf, NodeFacts DEF Linked
<1>2. /\ first = IF L = 0 THEN NULL ELSE s[1]
      /\ last  = IF L = 0 THEN NULL ELSE s[L]
      /\ \A j \in 1..L : /\ h[s[j]].next = IF j = L THEN NULL ELSE s[j + 1]
                         /\ h[s[j]].previous = IF j = 1 THEN NULL ELSE s[j - 1]
  BY DEF Linked
<1>3. /\ before \in Nodes \cup {NULL} /\ before # n /\ (before = NULL <=> i = 1)
      /\ after \in Nodes \cup {NULL} /\ after # n /\ (after = NULL <=> i = L + 1)
      /\ before # NULL => before \in Range(s)
      /\ after # NULL => after \in Range(s)
  BY <1>1
<1>4. /\ g \in Heaps
      /\ g[n].payload = x /\ g[n].next = after /\ g[n].previous = before
      /\ \A q \in Nodes \ {n} : /\ g[q].payload = h[q].payload
                                /\ g[q].next = IF q = before THEN n ELSE h[q].next
                                /\ g[q].previous = IF q = after THEN n ELSE h[q].previous
                                /\ q # before /\ q # after => g[q] = h[q]
  <2>1. before \in Nodes \cup {NULL} /\ after \in Nodes \cup {NULL} /\ before # n /\ after # n /\ n \in Nodes
    BY <1>3
  <2>2. NodeIn(h, g, n, x, before, after)
    BY <2>1, LinkHeapIs, Zenon
  <2> QED BY <2>2 DEF NodeIn
<1>5. /\ t \in Seq(Nodes) /\ Len(t) = L + 1
      /\ \A j \in 1..(L + 1) : t[j] = IF j < i THEN s[j] ELSE IF j = i THEN n ELSE s[j - 1]
  BY <1>1, InsertedAt
<1> HIDE DEF t
<1>6. Once(t)
  BY <1>1, InsertedOnce DEF t
<1>7. ASSUME NEW j \in 1..(L + 1)
      PROVE  /\ g[t[j]].next = IF j = L + 1 THEN NULL ELSE t[j + 1]
             /\ g[t[j]].previous = IF j = 1 THEN NULL ELSE t[j - 1]
  <2>1. CASE j < i
    <3>1. j \in 1..L /\ t[j] = s[j] /\ s[j] \in Nodes \ {n} /\ j + 1 \in 1..(L + 1) /\ j # L + 1
      BY <2>1, <1>1, <1>5
    <3>2. i # 1 /\ i - 1 \in 1..L /\ before = s[i - 1]
      BY <2>1, <1>1
    <3>3. s[j] = before <=> j = i - 1
      BY <3>1, <3>2, <1>1 DEF Once
    <3>4. s[j] # after
      BY <2>1, <3>1, <1>1, <1>3 DEF Once
    <3>5. g[t[j]].next = t[j + 1]
      <4>1. CASE j = i - 1
        <5>1. j + 1 = i /\ t[j + 1] = n /\ t[j] = before
          BY <4>1, <3>1, <3>3, <1>5
        <5> QED BY <5>1, <3>1, <1>4
      <4>2. CASE j # i - 1
        <5>1. j + 1 < i /\ j # L
          BY <4>2, <2>1, <1>1
        <5>2. t[j + 1] = s[j + 1] /\ h[s[j]].next = s[j + 1]
          BY <5>1, <3>1, <1>2, <1>5
        <5>3. g[s[j]].next = h[s[j]].next
          BY <4>2, <3>1, <3>3, <1>4
        <5> QED BY <5>2, <5>3, <3>1
      <4> QED BY <4>1, <4>2
    <3>6. g[t[j]].previous = IF j = 1 THEN NULL ELSE s[j - 1]
      BY <3>1, <3>4, <1>2, <1>4
    <3>7. j # 1 => t[j - 1] = s[j - 1]
      BY <2>1, <3>1, <1>1, <1>5
    <3> QED BY <3>1, <3>5, <3>6, <3>7
  <2>2. CASE j = i
    <3>1. t[j] = n
      BY <2>2, <1>5
    <3>2. j # L + 1 => t[j + 1] = s[j]
      <4>1. j # L + 1 => j + 1 \in 1..(L + 1) /\ ~(j + 1 < i) /\ j + 1 # i /\ (j + 1) - 1 = j
        BY <2>2, <1>1
      <4> QED BY <4>1, <1>5
    <3>3. j # 1 => t[j - 1] = s[j - 1]
      BY <2>2, <1>1, <1>5
    <3> QED BY <2>2, <3>1, <3>2, <3>3, <1>4
  <2>3. CASE j > i
    <3>1. j - 1 \in 1..L /\ t[j] = s[j - 1] /\ s[j - 1] \in Nodes \ {n} /\ j # 1
      BY <2>3, <1>1, <1>5
    <3>2. s[j - 1] # before
      BY <2>3, <3>1, <1>1, <1>3 DEF Once
    <3>3. i # L + 1 /\ i \in 1..L /\ after = s[i]
      BY <2>3, <1>1
    <3>4. s[j - 1] = after <=> j - 1 = i
      BY <3>1, <3>3, <1>1 DEF Once
    <3>5. g[t[j]].next = IF j - 1 = L THEN NULL ELSE s[(j - 1) + 1]
      BY <3>1, <3>2, <1>2, <1>4
    <3>6. j # L + 1 => t[j + 1] = s[j] /\ (j - 1) + 1 = j /\ j - 1 # L
      <4>1. j # L + 1 => j + 1 \in 1..(L + 1) /\ ~(j + 1 < i) /\ j + 1 # i /\ (j + 1) - 1 = j
        BY <2>3, <1>1
      <4> QED BY <4>1, <1>1, <1>5
    <3>7. g[t[j]].previous = t[j - 1]
      <4>1. CASE j - 1 = i
        <5>1. t[j - 1] = n
          BY <4>1, <1>5
        <5>2. g[s[j - 1]].previous = n
          BY <4>1, <3>1, <3>4, <1>4
        <5> QED BY <5>1, <5>2, <3>1
      <4>2. CASE j - 1 # i
        <5>1. j - 1 > i /\ j - 1 # 1 /\ j - 1 \in 1..(L + 1)
          BY <4>2, <2>3, <3>1, <1>1
        <5>2. t[j - 1] = s[(j - 1) - 1]
          BY <5>1, <1>1, <1>5
        <5>3. s[j - 1] # after
          BY <4>2, <3>4
        <5>4. g[s[j - 1]].previous = h[s[j - 1]].previous
          BY <5>3, <3>1, <1>4
        <5>5. h[s[j - 1]].previous = s[(j - 1) - 1]
          BY <5>1, <3>1, <1>2
        <5> QED BY <5>2, <5>4, <5>5, <3>1
      <4> QED BY <4>1, <4>2
    <3> QED BY <3>1, <3>5, <3>6, <3>7, <1>1
  <2> QED BY <2>1, <2>2, <2>3, <1>1
<1>8. (IF before = NULL THEN n ELSE first) = t[1]
  <2>1. 1 \in 1..(L + 1)
    BY <1>1
  <2>2. CASE i = 1
    BY <2>1, <2>2, <1>3, <1>5
  <2>3. CASE i # 1
    BY <2>1, <2>3, <1>1, <1>2, <1>3, <1>5
  <2> QED BY <2>2, <2>3
<1>9. (IF after = NULL THEN n ELSE last) = t[L + 1]
  <2>1. L + 1 \in 1..(L + 1) /\ (L + 1) - 1 = L
    BY <1>1
  <2>2. CASE i = L + 1
    BY <2>1, <2>2, <1>3, <1>5
  <2>3. CASE i # L + 1
    <3>1. L # 0 /\ ~(L + 1 < i) /\ L + 1 # i
      BY <2>3, <1>1
    <3>2. last = s[L] /\ t[L + 1] = s[L]
      BY <2>1, <3>1, <1>2, <1>5
    <3> QED BY <3>2, <2>3, <1>3
  <2> QED BY <2>2, <2>3
<1>10. Linked(g, IF before = NULL THEN n ELSE first, IF after = NULL THEN n ELSE last, t)
  <2>1. L + 1 # 0
    BY <1>1
  <2> QED BY <2>1, <1>5, <1>6, <1>7, <1>8, <1>9 DEF Linked
<1>11. \A q \in Nodes \ ({n} \cup Range(s)) : g[q] = h[q]
  BY <1>3, <1>4, NodeFacts
<1> QED BY <1>4, <1>10, <1>11 DEF t

\* The heap of Unlink: node m is taken out from between its neighbours.
UnlinkHeap(h, m) ==
  [SetPrevious(SetNext(h, h[m].previous, h[m].next), h[m].next, h[m].previous) EXCEPT ![m] = Blank]

NodeOut(h, g, m, before, after) ==
  /\ g \in Heaps /\ g[m] = Blank
  /\ \A q \in Nodes \ {m} : /\ g[q].payload = h[q].payload
                            /\ g[q].next = IF q = before THEN after ELSE h[q].next
                            /\ g[q].previous = IF q = after THEN before ELSE h[q].previous
                            /\ q # before /\ q # after => g[q] = h[q]

LEMMA UnlinkHeapIs ==
  ASSUME NEW h \in Heaps, NEW m \in Nodes,
         NEW before, before = h[m].previous, NEW after, after = h[m].next,
         NEW g, g = UnlinkHeap(h, m)
  PROVE  NodeOut(h, g, m, before, after)
<1> DEFINE h1 == SetNext(h, before, after)
           h2 == SetPrevious(h1, after, before)
<1>1. before \in Nodes \cup {NULL} /\ after \in Nodes \cup {NULL}
  BY DEF Heaps, Cells
<1>2. NextSet(h, h1, before, after)
  BY <1>1, SetNextIs, Zenon
<1> HIDE DEF h1
<1>3. PreviousSet(h1, h2, after, before)
  <2>1. h1 \in Heaps
    BY <1>2 DEF NextSet
  <2> QED BY <2>1, <1>1, SetPreviousIs, Zenon
<1>4. g = [h2 EXCEPT ![m] = Blank]
  BY DEF UnlinkHeap, h2, h1
<1> HIDE DEF h2
<1>5. Blank \in Cells
  BY DEF Blank, Cells
<1>6. g \in Heaps /\ g[m] = Blank /\ \A q \in Nodes \ {m} : g[q] = h2[q]
  <2>1. h2 \in Heaps
    BY <1>3 DEF PreviousSet
  <2> QED BY <2>1, <1>4, <1>5 DEF Heaps
<1> QED BY <1>2, <1>3, <1>6 DEF NodeOut, NextSet, PreviousSet

\* Unlink takes the node at position i out of a chain.
LEMMA UnlinkGood ==
  ASSUME NEW h \in Heaps, NEW first, NEW last, NEW s, Linked(h, first, last, s),
         NEW i \in 1..Len(s), NEW m, m = s[i],
         NEW before, before = h[m].previous, NEW after, after = h[m].next,
         NEW g, g = UnlinkHeap(h, m)
  PROVE  /\ g \in Heaps
         /\ Linked(g, IF before = NULL THEN after ELSE first, IF after = NULL THEN before ELSE last, RemoveAt(s, i))
         /\ \A q \in Nodes \ {m} : g[q].payload = h[q].payload
         /\ \A q \in Nodes \ Range(s) : g[q] = h[q]
         /\ before = IF i = 1 THEN NULL ELSE s[i - 1]
         /\ after = IF i = Len(s) THEN NULL ELSE s[i + 1]
<1> DEFINE L == Len(s)
           t == RemoveAt(s, i)
<1>1. /\ s \in Seq(Nodes) /\ L \in Nat /\ Once(s)
      /\ \A j \in 1..L : s[j] \in Nodes /\ s[j] # NULL /\ s[j] \in Range(s)
      /\ m \in Nodes
  BY RangeOf, NodeFacts DEF Linked
<1>2. /\ first = IF L = 0 THEN NULL ELSE s[1]
      /\ last  = IF L = 0 THEN NULL ELSE s[L]
      /\ \A j \in 1..L : /\ h[s[j]].next = IF j = L THEN NULL ELSE s[j + 1]
                         /\ h[s[j]].previous = IF j = 1 THEN NULL ELSE s[j - 1]
  BY DEF Linked
<1>3. /\ before = IF i = 1 THEN NULL ELSE s[i - 1]
      /\ after = IF i = L THEN NULL ELSE s[i + 1]
      /\ (before = NULL <=> i = 1) /\ (after = NULL <=> i = L)
      /\ before # NULL => before \in Range(s)
      /\ after # NULL => after \in Range(s)
  BY <1>1, <1>2
<1>4. NodeOut(h, g, m, before, after)
  BY <1>1, UnlinkHeapIs, Zenon
<1>5. /\ t \in Seq(Nodes) /\ Len(t) = L - 1 /\ L - 1 \in Nat
      /\ \A j \in 1..(L - 1) : t[j] = IF j < i THEN s[j] ELSE s[j + 1]
  BY <1>1, RemovedAt
<1> HIDE DEF t
<1>6. Once(t)
  BY <1>1, RemovedOnce DEF t
<1>7. ASSUME NEW j \in 1..(L - 1)
      PROVE  /\ g[t[j]].next = IF j = L - 1 THEN NULL ELSE t[j + 1]
             /\ g[t[j]].previous = IF j = 1 THEN NULL ELSE t[j - 1]
  <2>1. CASE j < i
    <3>1. j \in 1..L /\ t[j] = s[j] /\ s[j] \in Nodes \ {m} /\ j # L
      BY <2>1, <1>1, <1>5 DEF Once
    <3>2. i # 1 /\ i - 1 \in 1..L /\ before = s[i - 1]
      BY <2>1, <1>1, <1>3
    <3>3. s[j] = before <=> j = i - 1
      BY <3>1, <3>2, <1>1 DEF Once
    <3>4. s[j] # after
      BY <2>1, <3>1, <1>1, <1>3 DEF Once
    <3>5. g[t[j]].next = IF j = L - 1 THEN NULL ELSE t[j + 1]
      <4>1. CASE j = i - 1
        <5>1. g[t[j]].next = after
          BY <4>1, <3>1, <3>3, <1>4 DEF NodeOut
        <5>2. CASE i = L
          BY <4>1, <5>1, <5>2, <1>1, <1>3
        <5>3. CASE i # L
          <6>1. j + 1 = i /\ j # L - 1 /\ j + 1 \in 1..(L - 1) /\ ~(j + 1 < i)
            BY <4>1, <5>3, <1>1
          <6>2. t[j + 1] = s[i + 1]
            BY <6>1, <1>5
          <6> QED BY <5>1, <5>3, <6>1, <6>2, <1>3
        <5> QED BY <5>2, <5>3
      <4>2. CASE j # i - 1
        <5>1. j + 1 < i /\ j # L - 1 /\ j + 1 \in 1..(L - 1)
          BY <4>2, <2>1, <1>1
        <5>2. t[j + 1] = s[j + 1]
          BY <5>1, <1>5
        <5>3. g[t[j]].next = h[s[j]].next
          BY <4>2, <3>1, <3>3, <1>4 DEF NodeOut
        <5>4. h[s[j]].next = s[j + 1]
          BY <3>1, <1>2
        <5> QED BY <5>1, <5>2, <5>3, <5>4
      <4> QED BY <4>1, <4>2
    <3>6. g[t[j]].previous = IF j = 1 THEN NULL ELSE s[j - 1]
      BY <3>1, <3>4, <1>2, <1>4 DEF NodeOut
    <3>7. j # 1 => t[j - 1] = s[j - 1]
      BY <2>1, <3>1, <1>1, <1>5
    <3> QED BY <3>5, <3>6, <3>7
  <2>2. CASE j >= i
    <3>1. j + 1 \in 1..L /\ t[j] = s[j + 1] /\ s[j + 1] \in Nodes \ {m} /\ j + 1 # 1
      BY <2>2, <1>1, <1>5 DEF Once
    <3>2. s[j + 1] # before
      BY <2>2, <3>1, <1>1, <1>3 DEF Once
    <3>3. i # L /\ i + 1 \in 1..L /\ after = s[i + 1]
      BY <2>2, <1>1, <1>3
    <3>4. s[j + 1] = after <=> j = i
      BY <3>1, <3>3, <1>1 DEF Once
    <3>5. g[t[j]].next = IF j + 1 = L THEN NULL ELSE s[(j + 1) + 1]
      BY <3>1, <3>2, <1>2, <1>4 DEF NodeOut
    <3>6. j # L - 1 => t[j + 1] = s[(j + 1) + 1] /\ j + 1 # L
      <4>1. j # L - 1 => j + 1 \in 1..(L - 1) /\ ~(j + 1 < i) /\ j + 1 # L
        BY <2>2, <1>1
      <4> QED BY <4>1, <1>5
    <3>7. g[t[j]].previous = IF j = 1 THEN NULL ELSE t[j - 1]
      <4>1. CASE j = i
        <5>1. g[t[j]].previous = before
          BY <4>1, <3>1, <3>4, <1>4 DEF NodeOut
        <5>2. j # 1 => t[j - 1] = s[i - 1]
          BY <4>1, <1>1, <1>5
        <5> QED BY <4>1, <5>1, <5>2, <1>3
      <4>2. CASE j # i
        <5>1. j # 1 /\ j - 1 \in 1..(L - 1) /\ ~(j - 1 < i) /\ (j - 1) + 1 = j /\ (j + 1) - 1 = j
          BY <4>2, <2>2, <1>1
        <5>2. t[j - 1] = s[j]
          BY <5>1, <1>5
        <5>3. g[t[j]].previous = h[s[j + 1]].previous
          BY <4>2, <3>1, <3>4, <1>4 DEF NodeOut
        <5>4. h[s[j + 1]].previous = s[j]
          BY <3>1, <5>1, <1>2
        <5> QED BY <5>1, <5>2, <5>3, <5>4
      <4> QED BY <4>1, <4>2
    <3> QED BY <3>1, <3>5, <3>6, <3>7, <1>1
  <2> QED BY <2>1, <2>2, <1>1
<1>8. (IF before = NULL THEN after ELSE first) = IF L - 1 = 0 THEN NULL ELSE t[1]
  <2>1. CASE i = 1
    <3>1. CASE L = 1
      BY <2>1, <3>1, <1>3
    <3>2. CASE L # 1
      <4>1. 1 \in 1..(L - 1) /\ ~(1 < i) /\ L - 1 # 0
        BY <2>1, <3>2, <1>1, <1>5
      <4>2. t[1] = s[i + 1]
        BY <4>1, <2>1, <1>5
      <4> QED BY <4>1, <4>2, <2>1, <3>2, <1>3
    <3> QED BY <3>1, <3>2
  <2>2. CASE i # 1
    <3>1. 1 \in 1..(L - 1) /\ 1 < i /\ L - 1 # 0 /\ L # 0
      BY <2>2, <1>1
    <3> QED BY <3>1, <2>2, <1>2, <1>3, <1>5
  <2> QED BY <2>1, <2>2
<1>9. (IF after = NULL THEN before ELSE last) = IF L - 1 = 0 THEN NULL ELSE t[L - 1]
  <2>1. CASE i = L
    <3>1. CASE L = 1
      BY <2>1, <3>1, <1>3
    <3>2. CASE L # 1
      <4>1. L - 1 \in 1..(L - 1) /\ L - 1 < i /\ L - 1 # 0
        BY <2>1, <3>2, <1>1
      <4>2. t[L - 1] = s[i - 1]
        BY <4>1, <2>1, <1>5
      <4> QED BY <4>1, <4>2, <2>1, <3>2, <1>3
    <3> QED BY <3>1, <3>2
  <2>2. CASE i # L
    <3>1. L - 1 \in 1..(L - 1) /\ ~(L - 1 < i) /\ L - 1 # 0 /\ L # 0 /\ (L - 1) + 1 = L
      BY <2>2, <1>1
    <3>2. t[L - 1] = s[L]
      BY <3>1, <1>5
    <3> QED BY <3>1, <3>2, <2>2, <1>2, <1>3
  <2> QED BY <2>1, <2>2
<1>10. Linked(g, IF before = NULL THEN after ELSE first, IF after = NULL THEN before ELSE last, t)
  BY <1>5, <1>6, <1>7, <1>8, <1>9 DEF Linked
<1>11. \A q \in Nodes \ Range(s) : g[q] = h[q]
  BY <1>1, <1>3, <1>4, NodeFacts DEF NodeOut
<1> QED BY <1>3, <1>4, <1>10, <1>11 DEF t, NodeOut

-----------------------------------------------------------------------------
(***************************************************************************)
(* The invariant of the lists.                                             *)
(***************************************************************************)
ListRecords == [first : Nodes \cup {NULL}, last : Nodes \cup {NULL}, node_count : Nat, state : Nat, ref : Refs]
LiveLists   == {l \in Lists : Live(l)}
OwnNodes(l) == Range(NodesOf(l))

\* The nodes of every list but l.
Others(l) == UNION {OwnNodes(k) : k \in LiveLists \ {l}}

\* A list is a chain of node_count nodes, within the bounds.
GoodList(l) ==
  /\ lists[l] \in ListRecords
  /\ Linked(heap, lists[l].first, lists[l].last, NodesOf(l))
  /\ lists[l].node_count = Len(NodesOf(l))
  /\ lists[l].node_count <= bound.len /\ lists[l].state <= bound.removals

\* Lists with one RefCount are the same chain, others have no node in common,
\* and no other node is allocated.
Shape ==
  /\ heap \in Heaps /\ bound \in Bounds
  /\ Cardinality(LiveLists) <= bound.lists
  /\ \A l \in LiveLists : GoodList(l)
  /\ \A l, k \in LiveLists : lists[l].ref = lists[k].ref => lists[l] = lists[k]
  /\ \A l, k \in LiveLists : lists[l].ref # lists[k].ref => OwnNodes(l) \cap OwnNodes(k) = {}
  /\ allocated = UNION {OwnNodes(l) : l \in LiveLists}

\* Iterators are open on lists that nobody shares, and are at a node of their
\* list as long as they are valid.
IteratorsGood ==
  /\ miter \in [Lists -> [current : Nodes, valid : BOOLEAN] \cup {Absent}]
  /\ liter \in [origin : Lists, current : Nodes, state : Nat] \cup {Absent}
  /\ \A l \in Lists : miter[l] # Absent =>
       /\ Live(l) /\ ~RefCountIsShared(l)
       /\ miter[l].valid => miter[l].current \in OwnNodes(l)
  /\ liter # Absent =>
       /\ Live(liter.origin) /\ ~RefCountIsShared(liter.origin)
       /\ liter.state <= lists[liter.origin].state
       /\ liter.state = lists[liter.origin].state => liter.current \in OwnNodes(liter.origin)

ListInv == RefsInv /\ Shape /\ IteratorsGood

\* What the invariant says of one list.
LEMMA GoodListIs ==
  ASSUME Shape, NEW l \in Lists, Live(l)
  PROVE  /\ lists[l] \in ListRecords
         /\ Linked(heap, lists[l].first, lists[l].last, NodesOf(l))
         /\ NodesOf(l) \in Seq(Nodes) /\ Once(NodesOf(l))
         /\ OwnNodes(l) \subseteq Nodes /\ OwnNodes(l) \subseteq allocated
         /\ Len(NodesOf(l)) \in Nat /\ lists[l].node_count = Len(NodesOf(l))
         /\ Len(NodesOf(l)) <= bound.len /\ lists[l].state \in Nat /\ lists[l].state <= bound.removals
         /\ IsFiniteSet(OwnNodes(l)) /\ Cardinality(OwnNodes(l)) = Len(NodesOf(l))
<1>1. l \in LiveLists
  BY DEF LiveLists
<1>2. GoodList(l) /\ allocated = UNION {OwnNodes(k) : k \in LiveLists}
  BY <1>1 DEF Shape
<1>3. NodesOf(l) \in Seq(Nodes) /\ Once(NodesOf(l))
  BY <1>2 DEF GoodList, Linked
<1>4. OwnNodes(l) \subseteq Nodes /\ Len(NodesOf(l)) \in Nat
  BY <1>3, RangeOf DEF OwnNodes
<1>5. IsFiniteSet(OwnNodes(l)) /\ Cardinality(OwnNodes(l)) = Len(NodesOf(l))
  BY <1>3, ChainLength DEF OwnNodes
<1>6. OwnNodes(l) \subseteq allocated
  BY <1>1, <1>2
<1> QED BY <1>2, <1>3, <1>4, <1>5, <1>6 DEF GoodList, ListRecords

\* The nodes of the other lists leave room for one list.
LEMMA RoomLeft ==
  ASSUME Shape, NEW l \in Lists, Live(l)
  PROVE  /\ IsFiniteSet(Others(l)) /\ Others(l) \subseteq Nodes /\ Cardinality(Others(l)) \in Nat
         /\ Cardinality(Others(l)) + bound.len <= Cardinality(Nodes)
<1> DEFINE K == LiveLists \ {l}
           F == [k \in K |-> OwnNodes(k)]
           c == bound.len
<1>1. /\ c \in Nat /\ bound.lists \in Nat \ {0} /\ bound.len * bound.lists <= Cardinality(Nodes)
      /\ Cardinality(Nodes) \in Nat
  BY NodeFacts DEF Shape
<1>2. IsFiniteSet(LiveLists) /\ Cardinality(LiveLists) \in Nat /\ Cardinality(LiveLists) <= bound.lists
  <2>1. LiveLists \in SUBSET Lists /\ IsFiniteSet(Lists)
    BY ListAssumption DEF LiveLists
  <2>2. IsFiniteSet(LiveLists)
    BY <2>1, FS_Subset
  <2> QED BY <2>2, FS_CardinalityType DEF Shape
<1>3. IsFiniteSet(K) /\ Cardinality(K) = Cardinality(LiveLists) - 1 /\ Cardinality(K) \in Nat
  <2>1. l \in LiveLists
    BY DEF LiveLists
  <2>2. IsFiniteSet(K) /\ Cardinality(K) = Cardinality(LiveLists) - 1
    BY <1>2, <2>1, FS_RemoveElement
  <2> QED BY <2>2, FS_CardinalityType
<1>4. \A k \in K : IsFiniteSet(F[k]) /\ Cardinality(F[k]) <= c /\ OwnNodes(k) \subseteq Nodes
  <2> TAKE k \in K
  <2>1. k \in Lists /\ Live(k)
    BY DEF LiveLists
  <2> QED BY <2>1, GoodListIs
<1>5. Others(l) = UNION {F[k] : k \in K}
  BY DEF Others
<1>6. Others(l) \subseteq Nodes
  BY <1>4 DEF Others
<1>7. IsFiniteSet(Others(l)) /\ Cardinality(Others(l)) <= Cardinality(K) * c
  <2> HIDE DEF K, F, c
  <2>1. IsFiniteSet(UNION {F[k] : k \in K}) /\ Cardinality(UNION {F[k] : k \in K}) <= Cardinality(K) * c
    BY <1>1, <1>3, <1>4, UnionBound
  <2> QED BY <2>1, <1>5
<1>8. Cardinality(Others(l)) \in Nat
  BY <1>7, FS_CardinalityType
<1> DEFINE m == Cardinality(K)
           b == bound.lists
           d == b - 1 - m
<1>9. m \in Nat /\ b \in Nat /\ d \in Nat /\ b = (m + d) + 1
  BY <1>1, <1>2, <1>3
<1> HIDE DEF m, b, d, c
<1>10. c * b = m * c + d * c + c /\ m * c \in Nat /\ d * c \in Nat
  BY <1>9, <1>1
<1>11. m * c + c <= c * b
  BY <1>10, <1>9, <1>1
<1>12. c * b <= Cardinality(Nodes) /\ Cardinality(Others(l)) <= m * c
  BY <1>1, <1>7 DEF m, b, c
<1>13. Cardinality(Others(l)) + c <= Cardinality(Nodes)
  <2> DEFINE x == m * c
             y == c * b
  <2>1. x \in Nat /\ y \in Nat /\ x + c <= y
    BY <1>1, <1>9, <1>10, <1>11
  <2> HIDE DEF x, y
  <2> QED BY <2>1, <1>1, <1>8, <1>12 DEF x, y
<1> QED BY <1>6, <1>7, <1>8, <1>13 DEF c

-----------------------------------------------------------------------------
(***************************************************************************)
(* A view: what an operation on list l works on.  Its chain t has no node  *)
(* of another list, and the other lists' nodes are as they were.           *)
(***************************************************************************)
Result(l, v, t) ==
  /\ v.heap \in Heaps
  /\ Linked(v.heap, v.first, v.last, t)
  /\ v.allocated = Others(l) \cup Range(t)
  /\ Range(t) \cap Others(l) = {}
  /\ \A p \in Others(l) : v.heap[p] = heap[p]

\* The chain of a list that is alone with its RefCount is apart from the others;
\* the chain of a list that shares is theirs, too.
LEMMA OthersOf ==
  ASSUME RefsInv, Shape, NEW l \in Lists, Live(l)
  PROVE  /\ allocated = Others(l) \cup OwnNodes(l)
         /\ RefCountIsShared(l) => allocated = Others(l)
         /\ ~RefCountIsShared(l) => OwnNodes(l) \cap Others(l) = {}
<1>1. l \in LiveLists
  BY DEF LiveLists
<1>2. allocated = Others(l) \cup OwnNodes(l)
  BY <1>1 DEF Shape, Others
<1>3. RefCountIsShared(l) <=> \E k \in Lists \ {l} : Live(k) /\ lists[k].ref = lists[l].ref
  BY RefsInvShared DEF SharedExactly
<1>4. ASSUME RefCountIsShared(l) PROVE OwnNodes(l) \subseteq Others(l)
  <2>1. PICK k \in Lists \ {l} : Live(k) /\ lists[k].ref = lists[l].ref
    BY <1>3, <1>4
  <2>2. k \in LiveLists /\ lists[k] = lists[l]
    BY <1>1, <2>1 DEF Shape, LiveLists
  <2>3. OwnNodes(k) = OwnNodes(l)
    BY <2>2 DEF OwnNodes, NodesOf
  <2> QED BY <2>1, <2>2, <2>3 DEF Others
<1>5. ASSUME ~RefCountIsShared(l) PROVE OwnNodes(l) \cap Others(l) = {}
  <2>1. ASSUME NEW k \in LiveLists \ {l} PROVE OwnNodes(l) \cap OwnNodes(k) = {}
    <3>1. lists[k].ref # lists[l].ref
      BY <1>3, <1>5 DEF LiveLists
    <3> QED BY <1>1, <3>1 DEF Shape
  <2> QED BY <2>1 DEF Others
<1> QED BY <1>2, <1>4, <1>5

LEMMA ViewResult ==
  ASSUME RefsInv, Shape, NEW l \in Lists, Live(l), ~RefCountIsShared(l)
  PROVE  Result(l, View(l), NodesOf(l))
<1> DEFINE v == View(l)
<1>1. v.heap = heap /\ v.allocated = allocated /\ v.first = lists[l].first /\ v.last = lists[l].last
  BY DEF View
<1>2. heap \in Heaps
  BY DEF Shape
<1>3. Linked(heap, lists[l].first, lists[l].last, NodesOf(l))
  BY GoodListIs
<1>4. allocated = Others(l) \cup Range(NodesOf(l)) /\ Range(NodesOf(l)) \cap Others(l) = {}
  BY OthersOf DEF OwnNodes
<1> HIDE DEF v
<1> QED BY <1>1, <1>2, <1>3, <1>4 DEF Result, v

\* ListDetach finds a free node for every node of a shared list.
Fresh(l) == CHOOSE f \in [1..Len(NodesOf(l)) -> Nodes \ allocated] : IsInjective(f)

LEMMA FreshIs ==
  ASSUME RefsInv, Shape, NEW l \in Lists, Live(l), RefCountIsShared(l)
  PROVE  /\ Fresh(l) \in Seq(Nodes) /\ Len(Fresh(l)) = Len(NodesOf(l)) /\ Once(Fresh(l))
         /\ \A i \in 1..Len(NodesOf(l)) : Fresh(l)[i] \in Nodes \ allocated
<1> DEFINE n == Len(NodesOf(l))
           S == Nodes \ allocated
           m == Cardinality(S)
<1>1. /\ n \in Nat /\ n <= bound.len /\ bound.len \in Nat
      /\ Cardinality(allocated) \in Nat /\ Cardinality(allocated) + bound.len <= Cardinality(Nodes)
      /\ allocated \subseteq Nodes
  <2>1. allocated = Others(l)
    BY OthersOf
  <2>2. bound.len \in Nat
    BY NodeFacts DEF Shape
  <2> QED BY <2>1, <2>2, GoodListIs, RoomLeft
<1>2. m = Cardinality(Nodes) - Cardinality(allocated) /\ IsFiniteSet(S)
  <2>1. IsFiniteSet(Nodes) /\ Nodes \cap allocated = allocated
    BY <1>1, NodeFacts
  <2>2. IsFiniteSet(Nodes \ allocated) /\ Cardinality(Nodes \ allocated) = Cardinality(Nodes) - Cardinality(Nodes \cap allocated)
    BY <2>1, FS_Difference, Zenon
  <2> QED BY <2>1, <2>2, Zenon
<1>3. m \in Nat /\ n <= m
  BY <1>1, <1>2, NodeFacts
<1>4. PICK g \in [1..m -> S] : \A i, j \in 1..m : g[i] = g[j] => i = j
  <2> HIDE DEF S
  <2>1. ExistsBijection(1..m, S)
    BY <1>2, FS_CardinalityType
  <2>2. PICK g : g \in Bijection(1..m, S)
    BY <2>1 DEF ExistsBijection
  <2>3. g \in [1..m -> S] /\ IsInjective(g)
    BY <2>2 DEF Bijection, Injection
  <2>4. \A i, j \in 1..m : g[i] = g[j] => i = j
    BY <2>3 DEF IsInjective
  <2> QED BY <2>3, <2>4
<1> HIDE DEF n, m, S
<1> DEFINE f == [i \in 1..n |-> g[i]]
<1>5. \A i \in 1..n : i \in 1..m /\ g[i] \in S
  BY <1>1, <1>3, <1>4
<1>6. f \in [1..n -> S] /\ IsInjective(f)
  BY <1>4, <1>5 DEF IsInjective
<1>7. Fresh(l) \in [1..n -> S] /\ IsInjective(Fresh(l))
  <2> HIDE DEF f
  <2> QED BY <1>6, Zenon DEF Fresh, n, S
<1> DEFINE r == Fresh(l)
<1> HIDE DEF r
<1>8. r \in [1..n -> S] /\ IsInjective(r)
  BY <1>7 DEF r
<1>9. r \in Seq(Nodes) /\ Len(r) = n
  <2>1. r \in [1..n -> Nodes]
    BY <1>8 DEF S
  <2> QED BY <2>1, <1>1
<1>10. Once(r)
  <2>1. DOMAIN r = 1..n
    BY <1>8
  <2> QED BY <2>1, <1>8, <1>9 DEF Once, IsInjective
<1>11. \A i \in 1..n : r[i] \in Nodes \ allocated
  BY <1>8 DEF S
<1> QED BY <1>9, <1>10, <1>11 DEF r, n

\* ListDetach: a chain of free nodes with copies of the payloads if the list is
\* shared, the list as it is otherwise.
Copied(l, v, t) ==
  /\ Result(l, v, t)
  /\ Len(t) = Len(NodesOf(l))
  /\ ~RefCountIsShared(l) => v = View(l) /\ t = NodesOf(l)
  /\ RefCountIsShared(l) => \A i \in 1..Len(t) :
       v.heap[t[i]].payload = CopyOf(heap[NodesOf(l)[i]].payload)

LEMMA CellParts ==
  ASSUME NEW x, NEW f, NEW b, NEW c, c = [payload |-> x, next |-> f, previous |-> b]
  PROVE  /\ c.payload = x /\ c.next = f /\ c.previous = b
         /\ x \in Payloads \cup {Garbage} /\ f \in Nodes \cup {NULL} /\ b \in Nodes \cup {NULL} => c \in Cells
BY DEF Cells

LEMMA DetachShared ==
  ASSUME RefsInv, Shape, NEW l \in Lists, Live(l), RefCountIsShared(l)
  PROVE  Copied(l, Detached(l), Fresh(l))
<1> DEFINE old == NodesOf(l)
           n == Len(old)
           t == Fresh(l)
           index == [p \in Range(t) |-> CHOOSE i \in 1..n : t[i] = p]
           cell(p) == [payload  |-> CopyOf(heap[old[index[p]]].payload),
                       next     |-> IF index[p] = n THEN NULL ELSE t[index[p] + 1],
                       previous |-> IF index[p] = 1 THEN NULL ELSE t[index[p] - 1]]
           H == [p \in Nodes |-> IF p \notin Range(t) THEN heap[p] ELSE cell(p)]
           first == IF n = 0 THEN NULL ELSE t[1]
           last == IF n = 0 THEN NULL ELSE t[n]
           v == Detached(l)
<1>1. v = [heap |-> H, allocated |-> allocated \cup Range(t), first |-> first, last |-> last]
  BY Zenon DEF Detached, Fresh
<1> HIDE DEF H, first, last, v
<1>2. v.heap = H /\ v.allocated = allocated \cup Range(t) /\ v.first = first /\ v.last = last
  BY <1>1
<1>3. /\ t \in Seq(Nodes) /\ Len(t) = n /\ Once(t) /\ n \in Nat
      /\ \A i \in 1..n : t[i] \in Nodes \ allocated
  BY FreshIs, GoodListIs
<1>4. /\ old \in Seq(Nodes) /\ \A i \in 1..n : old[i] \in Nodes
      /\ heap \in Heaps /\ allocated = Others(l) /\ allocated \subseteq Nodes
  BY GoodListIs, OthersOf, RoomLeft DEF Shape
<1> HIDE DEF old, t, n
<1>5. /\ \A p : p \in Range(t) <=> \E i \in 1..n : t[i] = p
      /\ Range(t) \subseteq Nodes
  BY <1>3, RangeOf
<1>6. ASSUME NEW i \in 1..n PROVE index[t[i]] = i
  <2>1. t[i] \in Range(t)
    BY <1>5
  <2>2. index[t[i]] = CHOOSE j \in 1..n : t[j] = t[i]
    BY <2>1
  <2>3. index[t[i]] \in 1..n /\ t[index[t[i]]] = t[i]
    BY <2>2
  <2> QED BY <2>3, <1>3 DEF Once
<1>7. ASSUME NEW i \in 1..n
      PROVE  H[t[i]] = [payload  |-> CopyOf(heap[old[i]].payload),
                        next     |-> IF i = n THEN NULL ELSE t[i + 1],
                        previous |-> IF i = 1 THEN NULL ELSE t[i - 1]]
  <2>1. t[i] \in Nodes /\ t[i] \in Range(t)
    BY <1>3, <1>5
  <2>2. H[t[i]] = cell(t[i])
    BY <2>1 DEF H
  <2> HIDE DEF index
  <2> QED BY <2>2, <1>6
<1>8. ASSUME NEW p \in Nodes \ Range(t) PROVE H[p] = heap[p]
  BY DEF H
<1> DEFINE nx(i) == IF i = n THEN NULL ELSE t[i + 1]
           pv(i) == IF i = 1 THEN NULL ELSE t[i - 1]
           pl(i) == CopyOf(heap[old[i]].payload)
<1>15. ASSUME NEW i \in 1..n
       PROVE  /\ H[t[i]].payload = pl(i) /\ H[t[i]].next = nx(i) /\ H[t[i]].previous = pv(i)
              /\ pl(i) \in Payloads \cup {Garbage} /\ nx(i) \in Nodes \cup {NULL} /\ pv(i) \in Nodes \cup {NULL}
                   => H[t[i]] \in Cells
  <2>1. H[t[i]] = [payload |-> pl(i), next |-> nx(i), previous |-> pv(i)]
    BY <1>7
  <2> HIDE DEF pl, nx, pv
  <2> QED BY <2>1, CellParts, Zenon
<1>9. ASSUME NEW i \in 1..n PROVE H[t[i]] \in Cells
  <2>1. CopyOf(heap[old[i]].payload) \in Payloads \cup {Garbage}
    <3>1. heap[old[i]].payload \in Payloads \cup {Garbage}
      BY <1>4 DEF Heaps, Cells
    <3> QED BY <3>1, ListAssumption DEF CopyOf
  <2>2. (IF i = n THEN NULL ELSE t[i + 1]) \in Nodes \cup {NULL}
    BY <1>3
  <2>3. (IF i = 1 THEN NULL ELSE t[i - 1]) \in Nodes \cup {NULL}
    BY <1>3
  <2> QED BY <2>1, <2>2, <2>3, <1>15, Zenon
<1>10. H \in Heaps
  <2>1. \A p \in Nodes : H[p] \in Cells
    <3> TAKE p \in Nodes
    <3>1. CASE p \in Range(t)
      BY <3>1, <1>5, <1>9
    <3>2. CASE p \notin Range(t)
      BY <3>2, <1>4, <1>8 DEF Heaps
    <3> QED BY <3>1, <3>2
  <2>2. H = [p \in Nodes |-> H[p]]
    BY DEF H
  <2> HIDE DEF H
  <2> QED BY <2>1, <2>2 DEF Heaps
<1>11. Linked(H, first, last, t)
  <2>1. ASSUME NEW i \in 1..n
        PROVE  /\ H[t[i]].next = IF i = n THEN NULL ELSE t[i + 1]
               /\ H[t[i]].previous = IF i = 1 THEN NULL ELSE t[i - 1]
    BY <1>15
  <2> QED BY <2>1, <1>3 DEF Linked, first, last
<1>12. Range(t) \cap Others(l) = {} /\ \A p \in Others(l) : H[p] = heap[p]
  <2>1. Range(t) \cap allocated = {}
    BY <1>3, <1>5
  <2> QED BY <2>1, <1>4, <1>8
<1>13. Result(l, v, t)
  BY <1>2, <1>4, <1>10, <1>11, <1>12 DEF Result
<1>14. \A i \in 1..n : v.heap[t[i]].payload = CopyOf(heap[old[i]].payload)
  BY <1>2, <1>15, Zenon
<1> QED BY <1>3, <1>13, <1>14 DEF Copied, old, t, n, v

LEMMA DetachedIs ==
  ASSUME RefsInv, Shape, NEW l \in Lists, Live(l)
  PROVE  \E t : Copied(l, Detached(l), t)
<1>1. CASE RefCountIsShared(l)
  BY <1>1, DetachShared
<1>2. CASE ~RefCountIsShared(l)
  <2>1. Detached(l) = View(l)
    BY <1>2 DEF Detached
  <2>2. Copied(l, View(l), NodesOf(l))
    BY <1>2, ViewResult DEF Copied
  <2> QED BY <2>1, <2>2
<1> QED BY <1>1, <1>2

LEMMA InsertedRange ==
  ASSUME NEW s \in Seq(Nodes), NEW i \in 1..(Len(s) + 1), NEW n \in Nodes
  PROVE  Range(InsertAt(s, i, n)) = Range(s) \cup {n}
<1> DEFINE t == InsertAt(s, i, n)
<1>1. /\ t \in Seq(Nodes) /\ Len(t) = Len(s) + 1 /\ Len(s) \in Nat
      /\ \A j \in 1..(Len(s) + 1) : t[j] = IF j < i THEN s[j] ELSE IF j = i THEN n ELSE s[j - 1]
  BY InsertedAt
<1> HIDE DEF t
<1>2. /\ \A p : p \in Range(s) <=> \E j \in 1..Len(s) : s[j] = p
      /\ \A p : p \in Range(t) <=> \E j \in 1..Len(t) : t[j] = p
  BY <1>1, RangeOf
<1>3. ASSUME NEW p \in Range(t) PROVE p \in Range(s) \cup {n}
  <2>1. PICK j \in 1..(Len(s) + 1) : t[j] = p
    BY <1>1, <1>2
  <2>2. /\ j < i => j \in 1..Len(s) /\ p = s[j]
        /\ j > i => j - 1 \in 1..Len(s) /\ p = s[j - 1]
        /\ j = i => p = n
    BY <2>1, <1>1
  <2> QED BY <2>2, <1>2, <1>1
<1>4. ASSUME NEW p \in Range(s) PROVE p \in Range(t)
  <2>1. PICK j \in 1..Len(s) : s[j] = p
    BY <1>2
  <2>2. /\ j < i => j \in 1..Len(t) /\ t[j] = p
        /\ ~(j < i) => j + 1 \in 1..Len(t) /\ ~(j + 1 < i) /\ j + 1 # i /\ (j + 1) - 1 = j
    BY <2>1, <1>1
  <2>3. ~(j < i) => t[j + 1] = p
    BY <2>1, <2>2, <1>1
  <2> QED BY <2>2, <2>3, <1>2
<1>5. n \in Range(t)
  <2>1. i \in 1..Len(t) /\ t[i] = n
    BY <1>1
  <2> QED BY <2>1, <1>2
<1>6. Range(t) = Range(s) \cup {n}
  BY <1>3, <1>4, <1>5
<1> QED BY <1>6 DEF t

LEMMA RemovedRange ==
  ASSUME NEW s \in Seq(Nodes), Once(s), NEW i \in 1..Len(s)
  PROVE  Range(RemoveAt(s, i)) = Range(s) \ {s[i]}
<1> DEFINE t == RemoveAt(s, i)
<1>1. /\ t \in Seq(Nodes) /\ Len(t) = Len(s) - 1 /\ Len(s) \in Nat
      /\ \A j \in 1..(Len(s) - 1) : t[j] = IF j < i THEN s[j] ELSE s[j + 1]
  BY RemovedAt
<1> HIDE DEF t
<1>2. /\ \A p : p \in Range(s) <=> \E j \in 1..Len(s) : s[j] = p
      /\ \A p : p \in Range(t) <=> \E j \in 1..Len(t) : t[j] = p
  BY <1>1, RangeOf
<1>3. ASSUME NEW p \in Range(t) PROVE p \in Range(s) \ {s[i]}
  <2>1. PICK j \in 1..(Len(s) - 1) : t[j] = p
    BY <1>1, <1>2
  <2>2. /\ j < i => j \in 1..Len(s) /\ p = s[j] /\ j # i
        /\ ~(j < i) => j + 1 \in 1..Len(s) /\ p = s[j + 1] /\ j + 1 # i
    BY <2>1, <1>1
  <2>3. \E k \in 1..Len(s) : k # i /\ p = s[k]
    BY <2>2
  <2> QED BY <2>3, <1>2 DEF Once
<1>4. ASSUME NEW p \in Range(s) \ {s[i]} PROVE p \in Range(t)
  <2>1. PICK j \in 1..Len(s) : s[j] = p
    BY <1>2
  <2>2. j # i
    BY <2>1
  <2>3. /\ j < i => j \in 1..Len(t)
        /\ ~(j < i) => j - 1 \in 1..Len(t) /\ ~(j - 1 < i) /\ (j - 1) + 1 = j
    BY <2>2, <1>1
  <2>4. /\ j < i => t[j] = p
        /\ ~(j < i) => t[j - 1] = p
    BY <2>1, <2>3, <1>1
  <2> QED BY <2>3, <2>4, <1>2
<1>5. Range(t) = Range(s) \ {s[i]}
  BY <1>3, <1>4
<1> QED BY <1>5 DEF t

\* Link adds a free node at position i of the chain of a view.
Grown(l, v, w, t, i, n, x) ==
  /\ n \in Nodes \ v.allocated
  /\ Result(l, w, InsertAt(t, i, n))
  /\ w.heap[n].payload = x
  /\ \A p \in Range(t) : w.heap[p].payload = v.heap[p].payload

LEMMA LinkResult ==
  ASSUME Shape, NEW l \in Lists, Live(l), NEW v, NEW t, Result(l, v, t), Len(t) < bound.len,
         NEW x \in Payloads, NEW i \in 1..(Len(t) + 1),
         NEW before, before = IF i = 1 THEN NULL ELSE t[i - 1],
         NEW after, after = IF i = Len(t) + 1 THEN NULL ELSE t[i]
  PROVE  Grown(l, v, Link(v, x, before, after), t, i, Malloc(v.allocated), x)
<1> DEFINE n == Malloc(v.allocated)
           w == Link(v, x, before, after)
           g == LinkHeap(v.heap, n, x, before, after)
           f == IF before = NULL THEN n ELSE v.first
           b == IF after = NULL THEN n ELSE v.last
           u == InsertAt(t, i, n)
<1>1. /\ v.heap \in Heaps /\ Linked(v.heap, v.first, v.last, t)
      /\ v.allocated = Others(l) \cup Range(t) /\ Range(t) \cap Others(l) = {}
      /\ \A p \in Others(l) : v.heap[p] = heap[p]
  BY DEF Result
<1>2. t \in Seq(Nodes) /\ Once(t) /\ Range(t) \subseteq Nodes /\ Len(t) \in Nat
  BY <1>1, RangeOf DEF Linked
<1>3. /\ IsFiniteSet(Others(l)) /\ Others(l) \subseteq Nodes /\ Cardinality(Others(l)) \in Nat
      /\ Cardinality(Others(l)) + bound.len <= Cardinality(Nodes)
      /\ bound.len \in Nat /\ Cardinality(Nodes) \in Nat /\ Nodes \in SUBSET Nat
  BY RoomLeft, NodeFacts DEF Shape
<1>4. n \in Nodes \ v.allocated
  <2>1. IsFiniteSet(Range(t)) /\ Cardinality(Range(t)) = Len(t)
    BY <1>2, ChainLength
  <2>2. Cardinality(v.allocated) = Cardinality(Others(l)) + Len(t)
    <3>1. Others(l) \cap Range(t) = {}
      BY <1>1
    <3>2. Cardinality(Others(l) \cup Range(t)) = Cardinality(Others(l)) + Cardinality(Range(t)) - Cardinality(Others(l) \cap Range(t))
      BY <1>3, <2>1, FS_Union, Zenon
    <3>3. Cardinality({}) = 0
      BY FS_EmptySet
    <3>4. Cardinality(v.allocated) = Cardinality(Others(l)) + Len(t) - 0
      BY <1>1, <2>1, <3>1, <3>2, <3>3, Zenon
    <3> QED BY <3>4, <1>2, <1>3
  <2>3. Nodes \ v.allocated # {}
    <3> SUFFICES ASSUME Nodes \subseteq v.allocated PROVE FALSE
      OBVIOUS
    <3>1. v.allocated = Nodes
      BY <1>1, <1>2, <1>3
    <3>2. Cardinality(v.allocated) = Cardinality(Nodes)
      BY <3>1, Zenon
    <3> QED BY <3>2, <2>2, <1>2, <1>3
  <2>4. Nodes \ v.allocated \in SUBSET Nat
    BY <1>3
  <2> QED BY <2>3, <2>4, LeastNumber DEF Malloc
<1>5. w = [heap |-> g, allocated |-> v.allocated \cup {n}, first |-> f, last |-> b]
  BY Zenon DEF Link, LinkHeap
<1> HIDE DEF n, g, f, b, w
<1>6. w.heap = g /\ w.allocated = v.allocated \cup {n} /\ w.first = f /\ w.last = b
  BY <1>5
<1>7. n \in Nodes \ Range(t) /\ n \notin Others(l)
  BY <1>1, <1>4
<1>8. /\ g \in Heaps /\ Linked(g, f, b, u)
      /\ g[n].payload = x /\ \A q \in Nodes \ {n} : g[q].payload = v.heap[q].payload
      /\ \A q \in Nodes \ ({n} \cup Range(t)) : g[q] = v.heap[q]
  <2>1. x \in Payloads \cup {Garbage}
    OBVIOUS
  <2> DEFINE h == v.heap
             ff == v.first
             ll == v.last
  <2>2. h \in Heaps /\ Linked(h, ff, ll, t)
    BY <1>1
  <2>3. g = LinkHeap(h, n, x, before, after)
    BY DEF g
  <2>4. f = (IF before = NULL THEN n ELSE ff) /\ b = (IF after = NULL THEN n ELSE ll)
    BY DEF f, b
  <2> HIDE DEF h, ff, ll
  <2>5. /\ g \in Heaps
        /\ Linked(g, IF before = NULL THEN n ELSE ff, IF after = NULL THEN n ELSE ll, InsertAt(t, i, n))
        /\ g[n].payload = x /\ \A q \in Nodes \ {n} : g[q].payload = h[q].payload
        /\ \A q \in Nodes \ ({n} \cup Range(t)) : g[q] = h[q]
    BY <2>1, <2>2, <2>3, <1>7, LinkGood
  <2> QED BY <2>4, <2>5 DEF h
<1>9. Range(u) = Range(t) \cup {n}
  BY <1>2, <1>7, InsertedRange
<1>10. Result(l, w, u)
  <2>1. w.allocated = Others(l) \cup Range(u) /\ Range(u) \cap Others(l) = {}
    BY <1>1, <1>6, <1>7, <1>9
  <2>2. \A p \in Others(l) : w.heap[p] = heap[p]
    <3> TAKE p \in Others(l)
    <3>1. p \in Nodes \ ({n} \cup Range(t))
      BY <1>1, <1>3, <1>7
    <3> QED BY <3>1, <1>1, <1>6, <1>8
  <2> QED BY <2>1, <2>2, <1>6, <1>8 DEF Result
<1>11. \A p \in Range(t) : w.heap[p].payload = v.heap[p].payload
  <2> TAKE p \in Range(t)
  <2>1. p \in Nodes \ {n}
    BY <1>2, <1>7
  <2> QED BY <2>1, <1>6, <1>8
<1> QED BY <1>4, <1>6, <1>8, <1>10, <1>11 DEF Grown, n, w

\* Unlink takes the node at position i out of the chain of a view.
Shrunk(l, v, w, t, i) ==
  /\ Result(l, w, RemoveAt(t, i))
  /\ \A p \in Range(t) \ {t[i]} : w.heap[p].payload = v.heap[p].payload

LEMMA UnlinkResult ==
  ASSUME Shape, NEW l \in Lists, Live(l), NEW v, NEW t, Result(l, v, t), NEW i \in 1..Len(t)
  PROVE  Shrunk(l, v, Unlink(v, t[i]), t, i)
<1> DEFINE m == t[i]
           before == v.heap[m].previous
           after == v.heap[m].next
           w == Unlink(v, m)
           g == UnlinkHeap(v.heap, m)
           f == IF before = NULL THEN after ELSE v.first
           b == IF after = NULL THEN before ELSE v.last
           u == RemoveAt(t, i)
<1>1. /\ v.heap \in Heaps /\ Linked(v.heap, v.first, v.last, t)
      /\ v.allocated = Others(l) \cup Range(t) /\ Range(t) \cap Others(l) = {}
      /\ \A p \in Others(l) : v.heap[p] = heap[p]
  BY DEF Result
<1>2. t \in Seq(Nodes) /\ Once(t) /\ Range(t) \subseteq Nodes /\ Len(t) \in Nat /\ m \in Range(t)
  BY <1>1, RangeOf DEF Linked
<1>3. Others(l) \subseteq Nodes
  BY RoomLeft
<1>5. w = [heap |-> g, allocated |-> v.allocated \ {m}, first |-> f, last |-> b]
  BY Zenon DEF Unlink, UnlinkHeap
<1> HIDE DEF g, f, b, w
<1>6. w.heap = g /\ w.allocated = v.allocated \ {m} /\ w.first = f /\ w.last = b
  BY <1>5
<1>8. /\ g \in Heaps /\ Linked(g, f, b, u)
      /\ \A q \in Nodes \ {m} : g[q].payload = v.heap[q].payload
      /\ \A q \in Nodes \ Range(t) : g[q] = v.heap[q]
  <2> DEFINE h == v.heap
             ff == v.first
             ll == v.last
             bb == before
             aa == after
             mm == m
  <2>2. h \in Heaps /\ Linked(h, ff, ll, t)
    BY <1>1
  <2>3. g = UnlinkHeap(h, mm) /\ bb = h[mm].previous /\ aa = h[mm].next /\ mm = t[i]
    BY DEF g
  <2>4. f = (IF bb = NULL THEN aa ELSE ff) /\ b = (IF aa = NULL THEN bb ELSE ll)
    BY DEF f, b
  <2> HIDE DEF h, ff, ll, bb, aa, mm
  <2>5. /\ g \in Heaps
        /\ Linked(g, IF bb = NULL THEN aa ELSE ff, IF aa = NULL THEN bb ELSE ll, RemoveAt(t, i))
        /\ \A q \in Nodes \ {mm} : g[q].payload = h[q].payload
        /\ \A q \in Nodes \ Range(t) : g[q] = h[q]
    BY <2>2, <2>3, UnlinkGood
  <2> QED BY <2>4, <2>5 DEF h, mm
<1>9. Range(u) = Range(t) \ {m}
  BY <1>2, RemovedRange
<1> HIDE DEF u, before, after
<1>10. Result(l, w, u)
  <2>1. w.allocated = Others(l) \cup Range(u) /\ Range(u) \cap Others(l) = {}
    BY <1>1, <1>2, <1>6, <1>9
  <2>2. \A p \in Others(l) : w.heap[p] = heap[p]
    <3> TAKE p \in Others(l)
    <3>1. p \in Nodes \ Range(t)
      BY <1>1, <1>3
    <3> QED BY <3>1, <1>1, <1>6, <1>8
  <2> QED BY <2>1, <2>2, <1>6, <1>8 DEF Result
<1>11. \A p \in Range(t) \ {t[i]} : w.heap[p].payload = v.heap[p].payload
  <2> TAKE p \in Range(t) \ {t[i]}
  <2>1. p \in Nodes \ {m}
    BY <1>2
  <2> QED BY <2>1, <1>6, <1>8
<1> QED BY <1>10, <1>11 DEF Shrunk, w, u

-----------------------------------------------------------------------------
(***************************************************************************)
(* The state after a change of list l.                                     *)
(***************************************************************************)

\* The lists but l are as they were, in a heap that still has their nodes.
OthersKept(l) ==
  /\ \A k \in Lists \ {l} : lists'[k] = lists[k]
  /\ \A p \in Others(l) : heap'[p] = heap[p]

\* A list whose nodes were not touched is the same chain.
LEMMA SameChain ==
  ASSUME Shape, NEW k \in Lists, Live(k), heap' \in Heaps,
         lists'[k] = lists[k], \A p \in OwnNodes(k) : heap'[p] = heap[p]
  PROVE  /\ NodesOf(k)' = NodesOf(k) /\ OwnNodes(k)' = OwnNodes(k) /\ Live(k)'
         /\ Linked(heap', lists[k].first, lists[k].last, NodesOf(k))
<1> DEFINE s == NodesOf(k)
           g == heap'
           first == lists[k].first
           last == lists[k].last
<1>1. Linked(heap, first, last, s) /\ s \in Seq(Nodes)
  BY GoodListIs
<1>2. \A i \in 1..Len(s) : s[i] \in OwnNodes(k)
  <2> HIDE DEF s
  <2> QED BY <1>1, RangeOf DEF OwnNodes, s
<1> HIDE DEF s, first, last
<1>3. Linked(g, first, last, s)
  <2>1. \A i \in 1..Len(s) : g[s[i]] = heap[s[i]]
    BY <1>2
  <2> QED BY <1>1, <2>1 DEF Linked
<1> HIDE DEF g
<1>4. g \in Heaps
  BY DEF g
<1>5. Chain(g, first) = s
  BY <1>3, <1>4, ChainIs
<1>6. NodesOf(k)' = Chain(g, first)
  BY DEF NodesOf, g, first
<1>7. NodesOf(k)' = NodesOf(k)
  BY <1>5, <1>6 DEF s
<1>8. OwnNodes(k)' = OwnNodes(k)
  BY <1>7 DEF OwnNodes
<1> QED BY <1>3, <1>7, <1>8 DEF Live, g, first, last, s

\* What is left of the old state when list l has become chain t.
Changed(l, t) ==
  /\ Live(l)' /\ NodesOf(l)' = t
  /\ \A k \in Lists \ {l} : /\ lists'[k] = lists[k] /\ (Live(k)' <=> Live(k))
                            /\ Live(k) => lists'[k].ref # lists'[l].ref
                            /\ Live(k) => NodesOf(k)' = NodesOf(k)
                            /\ Live(k) => \A p \in OwnNodes(k) : heap'[p] = heap[p]

LEMMA UpdateShape ==
  ASSUME RefsInv, Shape, AbsentIsNoList, NEW l \in Lists, Live(l),
         NEW v, NEW t, Result(l, v, t), Len(t) <= bound.len,
         NEW c, c = Len(t), NEW st \in Nat, st <= bound.removals,
         Update(l, v, c, st), bound' = bound
  PROVE  Shape' /\ Changed(l, t) /\ lists'[l].state = st
<1> DEFINE e == [first |-> v.first, last |-> v.last, node_count |-> c, state |-> st, ref |-> NewRef(l)]
<1>1. /\ heap' = v.heap /\ allocated' = v.allocated
      /\ lists' = [lists EXCEPT ![l] = e]
  BY DEF Update
<1>2. /\ e.first = v.first /\ e.last = v.last /\ e.node_count = c /\ e.state = st /\ e.ref = NewRef(l)
      /\ e # Absent
  BY DEF AbsentIsNoList
<1>3. /\ v.heap \in Heaps /\ Linked(v.heap, v.first, v.last, t)
      /\ v.allocated = Others(l) \cup Range(t) /\ Range(t) \cap Others(l) = {}
      /\ \A p \in Others(l) : v.heap[p] = heap[p]
  BY DEF Result
<1>4. t \in Seq(Nodes) /\ Range(t) \subseteq Nodes /\ Len(t) \in Nat
  BY <1>3, RangeOf DEF Linked
<1>5. e \in ListRecords
  <2>1. v.first \in Nodes \cup {NULL} /\ v.last \in Nodes \cup {NULL}
    BY <1>3, <1>4 DEF Linked
  <2>2. NewRef(l) \in Refs
    BY FreeRefFound DEF NewRef, RefsInv, RefsType
  <2> QED BY <2>1, <2>2, <1>4 DEF ListRecords
<1> HIDE DEF e
<1>6. lists'[l] = e /\ \A k \in Lists \ {l} : lists'[k] = lists[k]
  BY <1>1 DEF RefsInv, RefsType
<1>7. Live(l)' /\ \A k \in Lists \ {l} : Live(k)' <=> Live(k)
  BY <1>2, <1>6 DEF Live
<1>8. ASSUME NEW k \in Lists \ {l}, Live(k) PROVE lists'[k].ref # lists'[l].ref
  <2>1. lists[k].ref # NewRef(l)
    <3>1. CASE RefCountIsShared(l)
      <4>1. FreeRef \in Refs /\ refs[FreeRef] = RefCountNew
        BY <3>1, FreeRefFound
      <4>2. refs[FreeRef].users = {j \in Lists : Live(j) /\ lists[j].ref = FreeRef}
        BY <4>1 DEF RefsInv, RefsExact
      <4>3. refs[FreeRef].users = {}
        BY <4>1 DEF RefCountNew
      <4> QED BY <3>1, <4>2, <4>3, <1>8 DEF NewRef
    <3>2. CASE ~RefCountIsShared(l)
      BY <3>2, <1>8, RefsInvShared DEF SharedExactly, NewRef
    <3> QED BY <3>1, <3>2
  <2> QED BY <2>1, <1>2, <1>6, <1>8
<1>9. ASSUME NEW k \in Lists \ {l}, Live(k)
      PROVE  /\ OwnNodes(k) \subseteq Others(l)
             /\ \A p \in OwnNodes(k) : heap'[p] = heap[p]
             /\ NodesOf(k)' = NodesOf(k) /\ OwnNodes(k)' = OwnNodes(k)
             /\ Linked(heap', lists[k].first, lists[k].last, NodesOf(k))
  <2>1. OwnNodes(k) \subseteq Others(l)
    BY <1>9 DEF Others, LiveLists
  <2>2. \A p \in OwnNodes(k) : heap'[p] = heap[p]
    BY <2>1, <1>1, <1>3
  <2>3. heap' \in Heaps /\ lists'[k] = lists[k] /\ k \in Lists
    BY <1>1, <1>3, <1>6
  <2>4. /\ NodesOf(k)' = NodesOf(k) /\ OwnNodes(k)' = OwnNodes(k)
        /\ Linked(heap', lists[k].first, lists[k].last, NodesOf(k))
    BY <2>2, <2>3, <1>9, SameChain
  <2> QED BY <2>1, <2>2, <2>4
<1>10. NodesOf(l)' = t /\ OwnNodes(l)' = Range(t)
  <2>1. Chain(v.heap, v.first) = t
    <3> DEFINE h == v.heap
               f == v.first
               g == v.last
    <3>1. h \in Heaps /\ Linked(h, f, g, t)
      BY <1>3
    <3> HIDE DEF h, f, g
    <3>2. Chain(h, f) = t
      BY <3>1, ChainIs
    <3> QED BY <3>2 DEF h, f
  <2>2. NodesOf(l)' = Chain(heap', lists'[l].first)
    BY DEF NodesOf
  <2>3. heap' = v.heap /\ lists'[l].first = v.first
    BY <1>1, <1>2, <1>6
  <2>4. NodesOf(l)' = t
    BY <2>1, <2>2, <2>3
  <2> QED BY <2>4 DEF OwnNodes
<1>11. Changed(l, t)
  BY <1>6, <1>7, <1>8, <1>9, <1>10 DEF Changed
<1>12. LiveLists' = LiveLists /\ l \in LiveLists /\ LiveLists \subseteq Lists /\ \A k \in LiveLists : Live(k)
  BY <1>7 DEF LiveLists
<1>13. ASSUME NEW k \in LiveLists PROVE GoodList(k)'
  <2>1. CASE k = l
    <3>1. lists'[l] \in ListRecords
      BY <1>5, <1>6
    <3>2. Linked(heap', lists'[l].first, lists'[l].last, NodesOf(l)')
      BY <1>1, <1>2, <1>3, <1>6, <1>10
    <3>3. /\ lists'[l].node_count = Len(NodesOf(l)')
          /\ lists'[l].node_count <= bound'.len /\ lists'[l].state <= bound'.removals
      BY <1>2, <1>6, <1>10
    <3>4. GoodList(l)'
      BY <3>1, <3>2, <3>3 DEF GoodList
    <3> QED BY <2>1, <3>4
  <2>2. CASE k # l
    <3>1. k \in Lists \ {l} /\ Live(k)
      BY <2>2, <1>12
    <3>2. GoodList(k)
      BY DEF Shape
    <3>3. lists'[k] = lists[k] /\ NodesOf(k)' = NodesOf(k) /\ Linked(heap', lists[k].first, lists[k].last, NodesOf(k))
      BY <3>1, <1>6, <1>9
    <3> QED BY <3>2, <3>3 DEF GoodList
  <2> QED BY <2>1, <2>2
<1>14. ASSUME NEW j \in LiveLists, NEW k \in LiveLists
       PROVE  /\ lists'[j].ref = lists'[k].ref => lists'[j] = lists'[k]
              /\ lists'[j].ref # lists'[k].ref => OwnNodes(j)' \cap OwnNodes(k)' = {}
  <2>0. ASSUME NEW m \in LiveLists, m # l
        PROVE  /\ m \in Lists \ {l} /\ lists'[m] = lists[m] /\ OwnNodes(m)' = OwnNodes(m)
               /\ lists'[m].ref # lists'[l].ref /\ OwnNodes(m)' \cap OwnNodes(l)' = {}
    <3>1. m \in Lists \ {l} /\ Live(m)
      BY <2>0, <1>12
    <3>2. OwnNodes(m) \subseteq Others(l) /\ OwnNodes(m)' = OwnNodes(m)
      BY <3>1, <1>9
    <3>3. OwnNodes(m)' \cap OwnNodes(l)' = {}
      BY <3>2, <1>3, <1>10
    <3> QED BY <3>1, <3>2, <3>3, <1>6, <1>8
  <2>1. CASE j = l /\ k = l
    BY <2>1
  <2>2. CASE j = l /\ k # l
    BY <2>0, <2>2
  <2>3. CASE j # l /\ k = l
    BY <2>0, <2>3
  <2>4. CASE j # l /\ k # l
    <3>1. /\ lists[j].ref = lists[k].ref => lists[j] = lists[k]
          /\ lists[j].ref # lists[k].ref => OwnNodes(j) \cap OwnNodes(k) = {}
      BY DEF Shape
    <3> QED BY <3>1, <2>0, <2>4
  <2> QED BY <2>1, <2>2, <2>3, <2>4
<1>15. allocated' = UNION {OwnNodes(k)' : k \in LiveLists'}
  <2>1. \A k \in LiveLists \ {l} : OwnNodes(k)' = OwnNodes(k)
    BY <1>9, <1>12
  <2>2. allocated' = Others(l) \cup OwnNodes(l)'
    BY <1>1, <1>3, <1>10
  <2> QED BY <2>1, <2>2, <1>12 DEF Others
<1>16. heap' \in Heaps /\ bound' \in Bounds /\ Cardinality(LiveLists') <= bound'.lists
  BY <1>1, <1>3, <1>12 DEF Shape
<1>17. Shape'
  BY <1>12, <1>13, <1>14, <1>15, <1>16 DEF Shape
<1> QED BY <1>2, <1>6, <1>11, <1>17

\* An addition: a node n with payload x at position i of what ListDetach left.
Grew(l, t, i, n, x) ==
  /\ Copied(l, Detached(l), t)
  /\ Shape' /\ Changed(l, InsertAt(t, i, n)) /\ lists'[l].state = lists[l].state
  /\ n \in Nodes \ Range(t) /\ heap'[n].payload = x
  /\ \A p \in Range(t) : heap'[p].payload = Detached(l).heap[p].payload

LEMMA AdditionIs ==
  ASSUME RefsInv, Shape, AbsentIsNoList, NEW l \in Lists, MayGrow(l), NEW x \in Payloads,
         NEW v, v = Detached(l), NEW t, Copied(l, v, t), NEW i \in 1..(Len(t) + 1),
         NEW before, before = IF i = 1 THEN NULL ELSE t[i - 1],
         NEW after, after = IF i = Len(t) + 1 THEN NULL ELSE t[i],
         Added(l, Link(v, x, before, after)), bound' = bound
  PROVE  \E n : Grew(l, t, i, n, x)
<1> DEFINE n == Malloc(v.allocated)
           w == Link(v, x, before, after)
           u == InsertAt(t, i, n)
           st == lists[l].state
           c == lists[l].node_count + 1
<1>1. Live(l) /\ lists[l].node_count < bound.len
  BY DEF MayGrow
<1>2. Result(l, v, t) /\ Len(t) = Len(NodesOf(l))
  BY DEF Copied
<1>3. /\ lists[l].node_count = Len(NodesOf(l)) /\ Len(NodesOf(l)) \in Nat
      /\ st \in Nat /\ st <= bound.removals
  BY <1>1, GoodListIs
<1>4. Grown(l, v, w, t, i, n, x)
  BY <1>1, <1>2, <1>3, LinkResult
<1> HIDE DEF w, n
<1>5. Update(l, w, c, st)
  BY DEF Added, w
<1>6. t \in Seq(Nodes) /\ n \in Nodes /\ n \notin v.allocated /\ Range(t) \subseteq v.allocated
  BY <1>2, <1>4 DEF Grown, Result, Linked
<1>7. c = Len(u) /\ Len(u) <= bound.len
  <2>1. Len(u) = Len(t) + 1
    <3>1. t \in Seq(Nodes) /\ n \in Nodes /\ i \in 1..(Len(t) + 1)
      BY <1>6
    <3>2. Len(InsertAt(t, i, n)) = Len(t) + 1
      BY <3>1, InsertedLength, SMTT(30)
    <3> QED BY <3>2
  <2>2. bound.len \in Nat
    BY NodeFacts DEF Shape
  <2> QED BY <2>1, <2>2, <1>1, <1>2, <1>3
<1>8. Result(l, w, u)
  BY <1>4 DEF Grown
<1> HIDE DEF u, c, st
<1>9. Shape' /\ Changed(l, u) /\ lists'[l].state = st
  BY <1>1, <1>3, <1>5, <1>7, <1>8, UpdateShape
<1>10. heap' = w.heap
  BY <1>5 DEF Update
<1>11. n \in Nodes \ Range(t)
  BY <1>6
<1>12. Grew(l, t, i, n, x)
  BY <1>4, <1>9, <1>10, <1>11 DEF Grew, Grown, u, st
<1> QED BY <1>12

\* A removal: the node at position i of what ListDetach left.
Shrank(l, t, i) ==
  /\ Copied(l, Detached(l), t)
  /\ Shape' /\ Changed(l, RemoveAt(t, i)) /\ lists'[l].state = lists[l].state + 1
  /\ \A p \in Range(t) \ {t[i]} : heap'[p].payload = Detached(l).heap[p].payload

LEMMA RemovalIs ==
  ASSUME RefsInv, Shape, AbsentIsNoList, NEW l \in Lists, MayShrink(l),
         NEW v, v = Detached(l), NEW t, Copied(l, v, t), NEW i \in 1..Len(t),
         Removed(l, Unlink(v, t[i])), bound' = bound
  PROVE  Shrank(l, t, i)
<1> DEFINE w == Unlink(v, t[i])
           u == RemoveAt(t, i)
           st == lists[l].state + 1
           c == lists[l].node_count - 1
<1>1. Live(l) /\ lists[l].state < bound.removals /\ bound.removals \in Nat
  BY NodeFacts DEF MayShrink, Shape
<1>2. Result(l, v, t) /\ Len(t) = Len(NodesOf(l))
  BY DEF Copied
<1>3. /\ lists[l].node_count = Len(NodesOf(l)) /\ Len(NodesOf(l)) \in Nat
      /\ Len(NodesOf(l)) <= bound.len
      /\ st \in Nat /\ st <= bound.removals
  BY <1>1, GoodListIs
<1>4. Shrunk(l, v, w, t, i)
  BY <1>1, <1>2, UnlinkResult
<1> HIDE DEF w
<1>5. Update(l, w, c, st)
  BY DEF Removed, w
<1>6. t \in Seq(Nodes)
  BY <1>2 DEF Result, Linked
<1>7. c = Len(u) /\ Len(u) <= bound.len
  <2>1. Len(u) = Len(t) - 1
    BY <1>6, RemovedAt
  <2>2. bound.len \in Nat
    BY NodeFacts DEF Shape
  <2> QED BY <2>1, <2>2, <1>1, <1>2, <1>3
<1>8. Result(l, w, u)
  BY <1>4 DEF Shrunk
<1> HIDE DEF u, c, st
<1>9. Shape' /\ Changed(l, u) /\ lists'[l].state = st
  BY <1>1, <1>3, <1>5, <1>7, <1>8, UpdateShape
<1>10. heap' = w.heap
  BY <1>5 DEF Update
<1> QED BY <1>4, <1>9, <1>10 DEF Shrank, Shrunk, u, st

-----------------------------------------------------------------------------
\* After a change of l nobody shares l, and nobody has begun to share another list.
LEMMA ChangedAlone ==
  ASSUME RefsInv, RefsInv', NEW l \in Lists, NEW t, Changed(l, t)
  PROVE  /\ ~RefCountIsShared(l)'
         /\ \A k \in Lists \ {l} : Live(k) /\ ~RefCountIsShared(k) => ~RefCountIsShared(k)'
<1>1. SharedExactly
  BY RefsInvShared
<1>2. SharedExactly'
  BY RefsInvShared, PTL
<1>3. ~RefCountIsShared(l)'
  <2>1. Live(l)' /\ \A k \in Lists \ {l} : Live(k)' => lists'[k].ref # lists'[l].ref
    BY DEF Changed
  <2> QED BY <2>1, <1>2 DEF SharedExactly
<1>4. ASSUME NEW k \in Lists \ {l}, Live(k), ~RefCountIsShared(k) PROVE ~RefCountIsShared(k)'
  <2>1. Live(k)' /\ lists'[k] = lists[k] /\ lists'[k].ref # lists'[l].ref
    BY <1>4 DEF Changed
  <2>2. \A j \in Lists \ {k} : Live(j) => lists[j].ref # lists[k].ref
    BY <1>1, <1>4 DEF SharedExactly
  <2>3. \A j \in Lists \ {k} : Live(j)' => lists'[j].ref # lists'[k].ref
    <3> SUFFICES ASSUME NEW j \in Lists \ {k}, Live(j)' PROVE lists'[j].ref # lists'[k].ref
      OBVIOUS
    <3>1. CASE j = l
      BY <3>1, <2>1
    <3>2. CASE j # l
      <4>1. lists'[j] = lists[j] /\ Live(j)
        BY <3>2 DEF Changed
      <4> QED BY <4>1, <2>1, <2>2
    <3> QED BY <3>1, <3>2
  <2> QED BY <2>1, <2>3, <1>2 DEF SharedExactly
<1> QED BY <1>3, <1>4

\* The iterators after a change of l: its mutable iterator is at one of its nodes
\* if it is valid, and its light iterator is, too, or it is out of date.
LEMMA IteratorsFollow ==
  ASSUME RefsInv, RefsInv', IteratorsGood, NEW l \in Lists, NEW t, Changed(l, t), Live(l),
         NEW e \in [current : Nodes, valid : BOOLEAN] \cup {Absent}, miter' = [miter EXCEPT ![l] = e],
         e # Absent /\ e.valid => e.current \in Range(t),
         liter' = liter, lists[l].state \in Nat, lists'[l].state \in Nat,
         \/ lists'[l].state > lists[l].state
         \/ /\ lists'[l].state = lists[l].state
            /\ ~RefCountIsShared(l) => OwnNodes(l) \subseteq Range(t)
  PROVE  IteratorsGood'
<1>1. /\ ~RefCountIsShared(l)'
      /\ \A k \in Lists \ {l} : Live(k) /\ ~RefCountIsShared(k) => ~RefCountIsShared(k)'
  BY ChangedAlone
<1>2. /\ Live(l)' /\ OwnNodes(l)' = Range(t)
      /\ \A k \in Lists \ {l} : Live(k) => Live(k)' /\ OwnNodes(k)' = OwnNodes(k) /\ lists'[k] = lists[k]
  BY DEF Changed, OwnNodes
<1>3. miter' \in [Lists -> [current : Nodes, valid : BOOLEAN] \cup {Absent}]
  BY DEF IteratorsGood
<1>4. miter'[l] = e /\ \A k \in Lists \ {l} : miter'[k] = miter[k]
  BY DEF IteratorsGood
<1>5. ASSUME NEW k \in Lists, miter'[k] # Absent
      PROVE  /\ Live(k)' /\ ~RefCountIsShared(k)'
             /\ miter'[k].valid => miter'[k].current \in OwnNodes(k)'
  <2>1. CASE k = l
    BY <2>1, <1>1, <1>2, <1>4, <1>5
  <2>2. CASE k # l
    <3>1. Live(k) /\ ~RefCountIsShared(k) /\ (miter[k].valid => miter[k].current \in OwnNodes(k))
      BY <2>2, <1>4, <1>5 DEF IteratorsGood
    <3> QED BY <3>1, <2>2, <1>1, <1>2, <1>4
  <2> QED BY <2>1, <2>2
<1>6. ASSUME liter # Absent
      PROVE  /\ Live(liter.origin)' /\ ~RefCountIsShared(liter.origin)'
             /\ liter.state <= lists'[liter.origin].state
             /\ liter.state = lists'[liter.origin].state => liter.current \in OwnNodes(liter.origin)'
  <2>0. PICK k : k = liter.origin
    OBVIOUS
  <2>1. /\ liter \in [origin : Lists, current : Nodes, state : Nat]
        /\ Live(k) /\ ~RefCountIsShared(k) /\ liter.state <= lists[k].state
        /\ liter.state = lists[k].state => liter.current \in OwnNodes(k)
    BY <1>6, <2>0 DEF IteratorsGood
  <2>2. k \in Lists /\ liter.state \in Nat
    BY <2>0, <2>1
  <2>3. /\ Live(k)' /\ ~RefCountIsShared(k)' /\ liter.state <= lists'[k].state
        /\ liter.state = lists'[k].state => liter.current \in OwnNodes(k)'
    <3>1. CASE k = l
      <4>1. Live(k)' /\ ~RefCountIsShared(k)'
        BY <3>1, <1>1, <1>2
      <4>2. CASE lists'[l].state > lists[l].state
        BY <4>1, <4>2, <3>1, <2>1, <2>2
      <4>3. CASE lists'[l].state = lists[l].state /\ OwnNodes(l) \subseteq Range(t)
        BY <4>1, <4>3, <3>1, <2>1, <2>2, <1>2
      <4> QED BY <4>2, <4>3, <3>1, <2>1
    <3>2. CASE k # l
      BY <3>2, <1>1, <1>2, <2>1, <2>2
    <3> QED BY <3>1, <3>2
  <2>4. k = liter'.origin
    BY <2>0
  <2> QED BY <2>0, <2>3, <2>4
<1>7. liter' \in [origin : Lists, current : Nodes, state : Nat] \cup {Absent}
  BY DEF IteratorsGood
<1> QED BY <1>3, <1>5, <1>6, <1>7 DEF IteratorsGood

-----------------------------------------------------------------------------
(***************************************************************************)
(* The changes, one by one.                                                *)
(***************************************************************************)
LEMMA PrependIs ==
  ASSUME ListInv, AbsentIsNoList, NEW l \in Lists, NEW x \in Payloads, ListPrepend(l, x)
  PROVE  \E t, n : Grew(l, t, 1, n, x)
<1> DEFINE v == Detached(l)
<1>1. /\ RefsInv /\ Shape /\ MayGrow(l) /\ Live(l) /\ bound' = bound
      /\ Added(l, Link(v, x, NULL, v.first))
  BY DEF ListInv, ListPrepend, MayGrow
<1>2. PICK t : Copied(l, v, t)
  BY <1>1, DetachedIs
<1> HIDE DEF v
<1>3. /\ t \in Seq(Nodes) /\ Len(t) \in Nat
      /\ v.first = IF 1 = Len(t) + 1 THEN NULL ELSE t[1]
  BY <1>2 DEF Copied, Result, Linked
<1>4. \E n : Grew(l, t, 1, n, x)
  <2> DEFINE before == NULL
             after == v.first
             i == 1
  <2>1. /\ before = (IF i = 1 THEN NULL ELSE t[i - 1]) /\ after = (IF i = Len(t) + 1 THEN NULL ELSE t[i])
        /\ i \in 1..(Len(t) + 1) /\ Added(l, Link(v, x, before, after)) /\ v = Detached(l)
    BY <1>1, <1>3 DEF v
  <2> HIDE DEF before, after, i
  <2>2. \E n : Grew(l, t, i, n, x)
    BY <2>1, <1>1, <1>2, AdditionIs
  <2> QED BY <2>2 DEF i
<1> QED BY <1>4

LEMMA AppendIs ==
  ASSUME ListInv, AbsentIsNoList, NEW l \in Lists, NEW x \in Payloads, ListAppend(l, x)
  PROVE  \E t, n : Grew(l, t, Len(t) + 1, n, x)
<1> DEFINE v == Detached(l)
<1>1. /\ RefsInv /\ Shape /\ MayGrow(l) /\ Live(l) /\ bound' = bound
      /\ Added(l, Link(v, x, v.last, NULL))
  BY DEF ListInv, ListAppend, MayGrow
<1>2. PICK t : Copied(l, v, t)
  BY <1>1, DetachedIs
<1> HIDE DEF v
<1>3. /\ t \in Seq(Nodes) /\ Len(t) \in Nat
      /\ v.last = IF Len(t) + 1 = 1 THEN NULL ELSE t[(Len(t) + 1) - 1]
  BY <1>2 DEF Copied, Result, Linked
<1>4. \E n : Grew(l, t, Len(t) + 1, n, x)
  <2> DEFINE before == v.last
             after == NULL
             i == Len(t) + 1
  <2>1. /\ before = (IF i = 1 THEN NULL ELSE t[i - 1]) /\ after = (IF i = Len(t) + 1 THEN NULL ELSE t[i])
        /\ i \in 1..(Len(t) + 1) /\ Added(l, Link(v, x, before, after)) /\ v = Detached(l)
    BY <1>1, <1>3 DEF v
  <2> HIDE DEF before, after, i
  <2>2. \E n : Grew(l, t, i, n, x)
    BY <2>1, <1>1, <1>2, AdditionIs
  <2> QED BY <2>2 DEF i
<1> QED BY <1>4

\* A valid mutable iterator is at a position of its list, which nobody shares.
CursorAt(l, s, i) ==
  /\ s = NodesOf(l) /\ i \in 1..Len(s) /\ s[i] = Current(l)
  /\ miter[l] # Absent /\ miter[l].valid /\ ~RefCountIsShared(l)
  /\ Copied(l, Detached(l), s) /\ Detached(l) = View(l)
  /\ heap[s[i]].previous = (IF i = 1 THEN NULL ELSE s[i - 1])
  /\ heap[s[i]].next = (IF i = Len(s) THEN NULL ELSE s[i + 1])

LEMMA CursorIs ==
  ASSUME ListInv, NEW l \in Lists, MutableValid(l)
  PROVE  Live(l) /\ \E s, i : CursorAt(l, s, i)
<1> DEFINE s == NodesOf(l)
<1>1. RefsInv /\ Shape /\ IteratorsGood
  BY DEF ListInv
<1>2. Live(l) /\ ~RefCountIsShared(l) /\ Current(l) \in Range(s)
  BY <1>1 DEF IteratorsGood, MutableValid, Current, OwnNodes
<1>3. s \in Seq(Nodes) /\ Linked(heap, lists[l].first, lists[l].last, s)
  BY <1>1, <1>2, GoodListIs
<1>4. Detached(l) = View(l) /\ Copied(l, View(l), s)
  BY <1>1, <1>2, ViewResult DEF Detached, Copied
<1> HIDE DEF s
<1>5. PICK i \in 1..Len(s) : s[i] = Current(l)
  BY <1>2, <1>3, RangeOf
<1>6. /\ heap[s[i]].previous = (IF i = 1 THEN NULL ELSE s[i - 1])
      /\ heap[s[i]].next = (IF i = Len(s) THEN NULL ELSE s[i + 1])
  BY <1>3 DEF Linked
<1>7. CursorAt(l, s, i)
  BY <1>2, <1>4, <1>5, <1>6 DEF CursorAt, MutableValid, s
<1> QED BY <1>2, <1>7

LEMMA CursorPrependIs ==
  ASSUME ListInv, AbsentIsNoList, NEW l \in Lists, NEW x \in Payloads, ListMutableIteratorPrepend(l, x)
  PROVE  \E s, i, n : CursorAt(l, s, i) /\ Grew(l, s, i, n, x)
<1> DEFINE v == Detached(l)
<1>1. /\ RefsInv /\ Shape /\ MayGrow(l) /\ MutableValid(l) /\ bound' = bound
      /\ Added(l, Link(v, x, v.heap[Current(l)].previous, Current(l)))
  BY DEF ListInv, ListMutableIteratorPrepend
<1>2. PICK s, i : CursorAt(l, s, i)
  BY <1>1, CursorIs
<1>3. v.heap = heap
  BY <1>2 DEF CursorAt, View
<1> HIDE DEF v
<1>4. \E n : Grew(l, s, i, n, x)
  <2> DEFINE before == v.heap[Current(l)].previous
             after == Current(l)
  <2>1. Len(s) \in Nat
    <3>1. s \in Seq(Nodes)
      BY <1>2 DEF CursorAt, Copied, Result, Linked
    <3> QED BY <3>1
  <2>2. /\ before = (IF i = 1 THEN NULL ELSE s[i - 1]) /\ after = (IF i = Len(s) + 1 THEN NULL ELSE s[i])
        /\ i \in 1..(Len(s) + 1) /\ Added(l, Link(v, x, before, after)) /\ v = Detached(l)
        /\ Copied(l, v, s)
    BY <1>1, <1>2, <1>3, <2>1 DEF CursorAt, v
  <2> HIDE DEF before, after
  <2> QED BY <2>2, <1>1, AdditionIs
<1> QED BY <1>2, <1>4

LEMMA CursorAppendIs ==
  ASSUME ListInv, AbsentIsNoList, NEW l \in Lists, NEW x \in Payloads, ListMutableIteratorAppend(l, x)
  PROVE  \E s, i, n : CursorAt(l, s, i) /\ Grew(l, s, i + 1, n, x)
<1> DEFINE v == Detached(l)
<1>1. /\ RefsInv /\ Shape /\ MayGrow(l) /\ MutableValid(l) /\ bound' = bound
      /\ Added(l, Link(v, x, Current(l), v.heap[Current(l)].next))
  BY DEF ListInv, ListMutableIteratorAppend
<1>2. PICK s, i : CursorAt(l, s, i)
  BY <1>1, CursorIs
<1>3. v.heap = heap
  BY <1>2 DEF CursorAt, View
<1> HIDE DEF v
<1>4. \E n : Grew(l, s, i + 1, n, x)
  <2> DEFINE before == Current(l)
             after == v.heap[Current(l)].next
             j == i + 1
  <2>1. Len(s) \in Nat
    <3>1. s \in Seq(Nodes)
      BY <1>2 DEF CursorAt, Copied, Result, Linked
    <3> QED BY <3>1
  <2>2. /\ i \in 1..Len(s) /\ s[i] = before /\ Copied(l, v, s) /\ v = Detached(l)
        /\ after = IF i = Len(s) THEN NULL ELSE s[i + 1]
    BY <1>2, <1>3 DEF CursorAt, v
  <2>3. /\ j \in 1..(Len(s) + 1) /\ j # 1 /\ j - 1 = i /\ (j = Len(s) + 1 <=> i = Len(s))
    BY <2>1, <2>2
  <2>4. /\ before = (IF j = 1 THEN NULL ELSE s[j - 1]) /\ after = (IF j = Len(s) + 1 THEN NULL ELSE s[j])
    BY <2>2, <2>3
  <2>5. Added(l, Link(v, x, before, after))
    BY <1>1
  <2> HIDE DEF before, after, j
  <2>6. \E n : Grew(l, s, j, n, x)
    BY <2>2, <2>3, <2>4, <2>5, <1>1, AdditionIs
  <2> QED BY <2>6 DEF j
<1> QED BY <1>2, <1>4

\* ListRemove finds the first element that matches, in the detached list.
FirstMatch(h, t, i, x) ==
  /\ i \in 1..Len(t) /\ Seen(h[t[i]].payload) = Seen(x)
  /\ \A j \in 1..(i - 1) : Seen(h[t[j]].payload) # Seen(x)

LEMMA RemoveIs ==
  ASSUME ListInv, AbsentIsNoList, NEW l \in Lists, NEW x \in Payloads \ {NULL}, ListRemove(l, x)
  PROVE  \E t, i : /\ FirstMatch(Detached(l).heap, t, i, x) /\ Shrank(l, t, i)
                   /\ miter' = [miter EXCEPT ![l] = StepAside(Detached(l).heap, miter[l], t[i])]
<1> DEFINE v == Detached(l)
           s == Chain(v.heap, v.first)
           i == SelectInSeq(s, LAMBDA p : Seen(v.heap[p].payload) = Seen(x))
<1>1. /\ RefsInv /\ Shape /\ IteratorsGood /\ MayShrink(l) /\ Live(l) /\ bound' = bound
      /\ Removed(l, Unlink(v, s[i]))
      /\ miter' = [miter EXCEPT ![l] = StepAside(v.heap, miter[l], s[i])]
      /\ \E p \in Range(s) : Seen(v.heap[p].payload) = Seen(x)
  BY DEF ListInv, ListRemove, MayShrink, ListFindNode, Sights
<1>2. PICK t : Copied(l, v, t)
  BY <1>1, DetachedIs
<1>3. s = t
  <2> DEFINE h == v.heap
             f == v.first
             g == v.last
  <2>1. h \in Heaps /\ Linked(h, f, g, t)
    BY <1>2 DEF Copied, Result
  <2> HIDE DEF h, f, g
  <2>2. Chain(h, f) = t
    BY <2>1, ChainIs
  <2> QED BY <2>2 DEF h, f
<1>4. t \in Seq(Nodes) /\ Len(t) \in Nat /\ Len(t) = Len(NodesOf(l)) /\ NodesOf(l) \in Seq(Nodes)
  <2>1. t \in Seq(Nodes)
    BY <1>2 DEF Copied, Result, Linked
  <2> QED BY <2>1, <1>1, <1>2, GoodListIs DEF Copied
<1> DEFINE I == {j \in 1..Len(t) : Seen(v.heap[t[j]].payload) = Seen(x)}
<1>5. I # {}
  <2>1. PICK p \in Range(t) : Seen(v.heap[p].payload) = Seen(x)
    BY <1>1, <1>3
  <2>2. \E j \in 1..Len(t) : t[j] = p
    BY <1>4, RangeOf
  <2> QED BY <2>1, <2>2
<1>6. i = Min(I)
  <2>1. i = SelectInSeq(t, LAMBDA p : Seen(v.heap[p].payload) = Seen(x))
    BY <1>3
  <2> QED BY <2>1, <1>5 DEF SelectInSeq
<1>7. i \in I /\ \A j \in I : i <= j
  <2>1. I \in SUBSET Nat
    OBVIOUS
  <2> HIDE DEF I, i
  <2> QED BY <2>1, <1>5, <1>6, LeastNumber
<1> HIDE DEF i
<1>8. FirstMatch(v.heap, t, i, x)
  <2>1. i \in 1..Len(t) /\ Seen(v.heap[t[i]].payload) = Seen(x)
    BY <1>7
  <2>2. ASSUME NEW j \in 1..(i - 1) PROVE Seen(v.heap[t[j]].payload) # Seen(x)
    <3>1. j \in 1..Len(t) /\ ~(i <= j)
      BY <2>1, <1>4
    <3> QED BY <3>1, <1>7
  <2> HIDE DEF v
  <2> QED BY <2>1, <2>2 DEF FirstMatch
<1>9. Shrank(l, t, i)
  <2>1. i \in 1..Len(t) /\ Removed(l, Unlink(v, t[i])) /\ v = Detached(l)
    BY <1>1, <1>3, <1>7
  <2> HIDE DEF v
  <2> QED BY <2>1, <1>1, <1>2, RemovalIs
<1>10. miter' = [miter EXCEPT ![l] = StepAside(v.heap, miter[l], t[i])]
  BY <1>1, <1>3
<1> HIDE DEF v
<1> QED BY <1>8, <1>9, <1>10 DEF v

\* The mutable iterator removes its element and moves to a neighbour, and leaves
\* the only element of a list.
LEMMA CursorRemoveIs ==
  ASSUME ListInv, AbsentIsNoList, NEW l \in Lists, ListMutableIteratorRemove(l)
  PROVE  \/ \E s, i : /\ CursorAt(l, s, i) /\ Shrank(l, s, i) /\ Len(s) > 1
                      /\ miter' = [miter EXCEPT ![l].current = IF i = Len(s) THEN s[i - 1] ELSE s[i + 1]]
         \/ UNCHANGED vars
<1> DEFINE v == Detached(l)
           m == Current(l)
           next == v.heap[m].next
           prev == v.heap[m].previous
<1>1. /\ RefsInv /\ Shape /\ MayShrink(l) /\ MutableValid(l) /\ Live(l) /\ bound' = bound /\ liter' = liter
      /\ \/ /\ next # NULL \/ prev # NULL
            /\ miter' = [miter EXCEPT ![l].current = IF next # NULL THEN next ELSE prev]
            /\ Removed(l, Unlink(v, m))
         \/ /\ next = NULL /\ prev = NULL
            /\ Update(l, v, lists[l].node_count, lists[l].state)
            /\ UNCHANGED miter
  BY DEF ListInv, ListMutableIteratorRemove, MayShrink
<1>2. PICK s, i : CursorAt(l, s, i)
  BY <1>1, CursorIs
<1>3. v = View(l) /\ v.heap = heap
  BY <1>2 DEF CursorAt, View
<1>4. s \in Seq(Nodes) /\ Len(s) \in Nat /\ i \in 1..Len(s) /\ \A j \in 1..Len(s) : s[j] # NULL
  <2>1. s \in Seq(Nodes)
    BY <1>2 DEF CursorAt, Copied, Result, Linked
  <2> QED BY <2>1, <1>2, RangeOf, NodeFacts DEF CursorAt
<1>5. /\ prev = (IF i = 1 THEN NULL ELSE s[i - 1]) /\ next = (IF i = Len(s) THEN NULL ELSE s[i + 1])
      /\ s[i] = m
  BY <1>2, <1>3 DEF CursorAt
<1>6. (next # NULL <=> i # Len(s)) /\ (prev # NULL <=> i # 1)
  BY <1>4, <1>5
<1>7. CASE next # NULL \/ prev # NULL
  <2>1. /\ miter' = [miter EXCEPT ![l].current = IF next # NULL THEN next ELSE prev]
        /\ Removed(l, Unlink(v, s[i]))
    BY <1>1, <1>5, <1>7
  <2>2. Len(s) > 1
    BY <1>4, <1>6, <1>7
  <2>3. (IF next # NULL THEN next ELSE prev) = IF i = Len(s) THEN s[i - 1] ELSE s[i + 1]
    BY <1>4, <1>5, <1>6, <1>7
  <2>4. Shrank(l, s, i)
    <3>1. v = Detached(l) /\ Copied(l, v, s)
      BY <1>2 DEF CursorAt
    <3> HIDE DEF v
    <3> QED BY <3>1, <2>1, <1>1, <1>4, RemovalIs
  <2> QED BY <1>2, <2>1, <2>2, <2>3, <2>4
<1>8. CASE next = NULL /\ prev = NULL
  <2>1. Update(l, v, lists[l].node_count, lists[l].state) /\ miter' = miter
    BY <1>1, <1>8
  <2>2. /\ v.heap = heap /\ v.allocated = allocated
        /\ v.first = lists[l].first /\ v.last = lists[l].last
    BY <1>3 DEF View
  <2>3. NewRef(l) = lists[l].ref /\ DetachedRefs(l) = refs
    BY <1>2 DEF CursorAt, NewRef, DetachedRefs
  <2> HIDE DEF v
  <2> DEFINE e == [first |-> lists[l].first, last |-> lists[l].last, node_count |-> lists[l].node_count,
                   state |-> lists[l].state, ref |-> lists[l].ref]
  <2>4. heap' = heap /\ allocated' = allocated /\ lists' = [lists EXCEPT ![l] = e] /\ refs' = refs
    BY <2>1, <2>2, <2>3 DEF Update
  <2>5. lists[l] = e
    <3>1. lists[l] \in ListRecords
      BY <1>1, GoodListIs
    <3> QED BY <3>1 DEF ListRecords
  <2>6. lists = [k \in Lists |-> lists[k]]
    BY <1>1 DEF RefsInv, RefsType
  <2>7. lists' = lists
    <3> HIDE DEF e
    <3> QED BY <2>4, <2>5, <2>6
  <2> QED BY <1>1, <2>1, <2>4, <2>7 DEF vars
<1> QED BY <1>7, <1>8

-----------------------------------------------------------------------------
(***************************************************************************)
(* Lists that are made, copied and destroyed.                              *)
(***************************************************************************)

\* List k is as it was.
Kept(k) ==
  /\ lists'[k] = lists[k] /\ (Live(k)' <=> Live(k))
  /\ Live(k) => /\ NodesOf(k)' = NodesOf(k) /\ OwnNodes(k)' = OwnNodes(k)
                /\ \A p \in OwnNodes(k) : heap'[p] = heap[p]

LEMMA ChangedKeeps ==
  ASSUME NEW l \in Lists, NEW t, Changed(l, t)
  PROVE  \A k \in Lists \ {l} : Kept(k)
BY DEF Changed, Kept, OwnNodes

LEMMA KeptIs ==
  ASSUME Shape, NEW k \in Lists, heap' \in Heaps, lists'[k] = lists[k],
         Live(k) => \A p \in OwnNodes(k) : heap'[p] = heap[p]
  PROVE  Kept(k)
<1>1. CASE Live(k)
  BY <1>1, SameChain DEF Kept, Live
<1>2. CASE ~Live(k)
  BY <1>2 DEF Kept, Live
<1> QED BY <1>1, <1>2

LEMMA KeptGood ==
  ASSUME Shape, NEW k \in Lists, Live(k), heap' \in Heaps, Kept(k), bound' = bound
  PROVE  GoodList(k)'
<1>1. GoodList(k)
  BY DEF Shape, LiveLists
<1>2. lists'[k] = lists[k] /\ NodesOf(k)' = NodesOf(k) /\ \A p \in OwnNodes(k) : heap'[p] = heap[p]
  BY DEF Kept
<1>3. Linked(heap', lists[k].first, lists[k].last, NodesOf(k))
  BY <1>2, SameChain
<1> QED BY <1>1, <1>2, <1>3 DEF GoodList

\* Nobody refers to the free RefCount.
LEMMA FreeRefUnused ==
  ASSUME RefsInv, FreeRef \in Refs, refs[FreeRef] = RefCountNew, NEW k \in Lists, Live(k)
  PROVE  lists[k].ref # FreeRef
<1>1. refs[FreeRef].users = {j \in Lists : Live(j) /\ lists[j].ref = FreeRef}
  BY DEF RefsInv, RefsExact
<1>2. refs[FreeRef].users = {}
  BY DEF RefCountNew
<1> QED BY <1>1, <1>2

LEMMA NewIs ==
  ASSUME RefsInv, Shape, AbsentIsNoList, NEW l \in Lists, ListNew(l)
  PROVE  Shape' /\ Changed(l, <<>>)
<1> DEFINE e == [first |-> NULL, last |-> NULL, node_count |-> 0, state |-> 0, ref |-> FreeRef]
<1>1. /\ ~Live(l) /\ MayCreate /\ lists' = [lists EXCEPT ![l] = e]
      /\ heap' = heap /\ allocated' = allocated /\ bound' = bound
  BY DEF ListNew
<1>2. FreeRef \in Refs /\ refs[FreeRef] = RefCountNew
  BY <1>1, FreeRefFound
<1>3. /\ e.first = NULL /\ e.last = NULL /\ e.node_count = 0 /\ e.state = 0 /\ e.ref = FreeRef
      /\ e # Absent /\ e \in ListRecords
  BY <1>2 DEF AbsentIsNoList, ListRecords
<1> HIDE DEF e
<1>4. lists'[l] = e /\ \A k \in Lists \ {l} : lists'[k] = lists[k]
  BY <1>1 DEF RefsInv, RefsType
<1>5. Live(l)' /\ l \notin LiveLists /\ heap \in Heaps
  BY <1>1, <1>3, <1>4 DEF Live, LiveLists, Shape
<1>6. Linked(heap, NULL, NULL, <<>>)
  BY DEF Linked, Once
<1>7. NodesOf(l)' = <<>>
  <2>1. Chain(heap, NULL) = <<>>
    <3> DEFINE s == <<>>
    <3>1. Linked(heap, NULL, NULL, s)
      BY <1>6
    <3> HIDE DEF s
    <3>2. Chain(heap, NULL) = s
      BY <3>1, <1>5, ChainIs
    <3> QED BY <3>2 DEF s
  <2>2. NodesOf(l)' = Chain(heap', lists'[l].first)
    BY DEF NodesOf
  <2>3. heap' = heap /\ lists'[l].first = NULL
    BY <1>1, <1>3, <1>4
  <2> QED BY <2>1, <2>2, <2>3
<1>8. OwnNodes(l)' = {}
  BY <1>7 DEF OwnNodes, Range
<1>9. ASSUME NEW k \in Lists \ {l} PROVE Kept(k) /\ (Live(k) => lists'[k].ref # lists'[l].ref)
  <2>1. lists'[k] = lists[k] /\ heap' = heap /\ heap' \in Heaps
    BY <1>1, <1>4, <1>5
  <2>2. Kept(k)
    BY <2>1, KeptIs
  <2>3. Live(k) => lists[k].ref # FreeRef
    BY <1>2, FreeRefUnused
  <2> QED BY <2>1, <2>2, <2>3, <1>3, <1>4
<1>10. Changed(l, <<>>)
  BY <1>4, <1>5, <1>7, <1>9 DEF Changed, Kept
<1>11. LiveLists' = LiveLists \cup {l} /\ \A k \in LiveLists : k \in Lists \ {l} /\ Live(k)
  BY <1>5, <1>9 DEF LiveLists, Kept
<1>12. Cardinality(LiveLists') <= bound'.lists
  <2>1. LiveLists \in SUBSET Lists /\ Cardinality(LiveLists) < bound.lists
    BY <1>1 DEF LiveLists, MayCreate
  <2>2. bound.lists \in Nat
    BY NodeFacts DEF Shape
  <2>3. Cardinality(LiveLists \cup {l}) = Cardinality(LiveLists) + 1 /\ Cardinality(LiveLists) \in Nat
    BY <2>1, <1>5, UserCounts
  <2> QED BY <2>1, <2>2, <2>3, <1>1, <1>11
<1>13. ASSUME NEW k \in LiveLists' PROVE GoodList(k)'
  <2>1. CASE k = l
    <3>1. GoodList(l)'
      <4>1. bound.len \in Nat /\ bound.removals \in Nat
        BY NodeFacts DEF Shape
      <4>2. Linked(heap', lists'[l].first, lists'[l].last, NodesOf(l)')
        BY <1>1, <1>3, <1>4, <1>6, <1>7
      <4>3. Len(NodesOf(l)') = 0
        BY <1>7
      <4> QED BY <4>1, <4>2, <4>3, <1>1, <1>3, <1>4 DEF GoodList
    <3> QED BY <2>1, <3>1
  <2>2. CASE k # l
    <3>1. k \in Lists \ {l} /\ Live(k) /\ Kept(k) /\ heap' \in Heaps
      BY <2>2, <1>1, <1>5, <1>9, <1>11
    <3> QED BY <3>1, <1>1, KeptGood
  <2> QED BY <2>1, <2>2
<1>14. ASSUME NEW j \in LiveLists', NEW k \in LiveLists'
       PROVE  /\ lists'[j].ref = lists'[k].ref => lists'[j] = lists'[k]
              /\ lists'[j].ref # lists'[k].ref => OwnNodes(j)' \cap OwnNodes(k)' = {}
  <2>1. CASE j = l \/ k = l
    BY <2>1, <1>8, <1>9, <1>11
  <2>2. CASE j # l /\ k # l
    <3>1. j \in LiveLists /\ k \in LiveLists /\ Kept(j) /\ Kept(k) /\ Live(j) /\ Live(k)
      BY <2>2, <1>9, <1>11
    <3>2. /\ lists[j].ref = lists[k].ref => lists[j] = lists[k]
          /\ lists[j].ref # lists[k].ref => OwnNodes(j) \cap OwnNodes(k) = {}
      BY <3>1 DEF Shape
    <3> QED BY <3>1, <3>2 DEF Kept
  <2> QED BY <2>1, <2>2
<1>15. allocated' = UNION {OwnNodes(k)' : k \in LiveLists'}
  <2>1. \A k \in LiveLists : OwnNodes(k)' = OwnNodes(k)
    BY <1>9, <1>11 DEF Kept
  <2>2. allocated' = UNION {OwnNodes(k) : k \in LiveLists}
    BY <1>1 DEF Shape
  <2> QED BY <2>1, <2>2, <1>8, <1>11
<1>16. heap' \in Heaps /\ bound' \in Bounds
  BY <1>1 DEF Shape
<1>17. Shape'
  BY <1>12, <1>13, <1>14, <1>15, <1>16 DEF Shape
<1> QED BY <1>10, <1>17

LEMMA CopyIs ==
  ASSUME RefsInv, Shape, NEW o \in Lists, NEW d \in Lists, ListCopy(o, d)
  PROVE  /\ Shape' /\ Live(o) /\ ~Live(d) /\ Live(d)' /\ heap' = heap /\ lists'[d].ref = lists[o].ref
         /\ NodesOf(d)' = NodesOf(o) /\ \A k \in Lists \ {d} : Kept(k)
<1>1. /\ Live(o) /\ ~Live(d) /\ MayCreate /\ lists' = [lists EXCEPT ![d] = lists[o]]
      /\ heap' = heap /\ allocated' = allocated /\ bound' = bound
  BY DEF ListCopy
<1>2. lists'[d] = lists[o] /\ \A k \in Lists \ {d} : lists'[k] = lists[k]
  BY <1>1 DEF RefsInv, RefsType
<1>3. Live(d)' /\ d \notin LiveLists /\ o \in LiveLists /\ heap' \in Heaps /\ o # d
  BY <1>1, <1>2 DEF Live, LiveLists, Shape
<1>4. NodesOf(d)' = NodesOf(o) /\ OwnNodes(d)' = OwnNodes(o)
  BY <1>1, <1>2 DEF NodesOf, OwnNodes
<1>5. ASSUME NEW k \in Lists \ {d} PROVE Kept(k)
  BY <1>1, <1>2, <1>3, KeptIs
<1>6. LiveLists' = LiveLists \cup {d} /\ \A k \in LiveLists : k \in Lists \ {d} /\ Live(k)
  BY <1>3, <1>5 DEF LiveLists, Kept
<1>7. Cardinality(LiveLists') <= bound'.lists
  <2>1. LiveLists \in SUBSET Lists /\ Cardinality(LiveLists) < bound.lists
    BY <1>1 DEF LiveLists, MayCreate
  <2>2. bound.lists \in Nat
    BY NodeFacts DEF Shape
  <2>3. Cardinality(LiveLists \cup {d}) = Cardinality(LiveLists) + 1 /\ Cardinality(LiveLists) \in Nat
    BY <2>1, <1>3, UserCounts
  <2> QED BY <2>1, <2>2, <2>3, <1>1, <1>6
\* Every list is now what a list was before: the copy is what its original was.
<1>8. ASSUME NEW k \in LiveLists'
      PROVE  \E m \in LiveLists : /\ lists'[k] = lists[m] /\ OwnNodes(k)' = OwnNodes(m)
                                  /\ NodesOf(k)' = NodesOf(m)
  <2>1. CASE k = d
    BY <2>1, <1>2, <1>3, <1>4
  <2>2. CASE k # d
    <3>1. k \in LiveLists /\ Live(k) /\ Kept(k)
      BY <2>2, <1>5, <1>6
    <3> QED BY <3>1 DEF Kept
  <2> QED BY <2>1, <2>2
<1>9. ASSUME NEW k \in LiveLists' PROVE GoodList(k)'
  <2>1. PICK m \in LiveLists : lists'[k] = lists[m] /\ NodesOf(k)' = NodesOf(m)
    BY <1>8
  <2>2. GoodList(m)
    BY DEF Shape
  <2> QED BY <2>1, <2>2, <1>1 DEF GoodList
<1>10. ASSUME NEW j \in LiveLists', NEW k \in LiveLists'
       PROVE  /\ lists'[j].ref = lists'[k].ref => lists'[j] = lists'[k]
              /\ lists'[j].ref # lists'[k].ref => OwnNodes(j)' \cap OwnNodes(k)' = {}
  <2>1. PICK m \in LiveLists : lists'[j] = lists[m] /\ OwnNodes(j)' = OwnNodes(m)
    BY <1>8
  <2>2. PICK q \in LiveLists : lists'[k] = lists[q] /\ OwnNodes(k)' = OwnNodes(q)
    BY <1>8
  <2>3. /\ lists[m].ref = lists[q].ref => lists[m] = lists[q]
        /\ lists[m].ref # lists[q].ref => OwnNodes(m) \cap OwnNodes(q) = {}
    BY DEF Shape
  <2> QED BY <2>1, <2>2, <2>3
<1>11. allocated' = UNION {OwnNodes(k)' : k \in LiveLists'}
  <2>1. \A k \in LiveLists : OwnNodes(k)' = OwnNodes(k)
    BY <1>5, <1>6 DEF Kept
  <2>2. allocated' = UNION {OwnNodes(k) : k \in LiveLists}
    BY <1>1 DEF Shape
  <2> QED BY <2>1, <2>2, <1>3, <1>4, <1>6
<1>12. bound' \in Bounds
  BY <1>1 DEF Shape
<1>13. Shape'
  BY <1>3, <1>7, <1>9, <1>10, <1>11, <1>12 DEF Shape
<1> QED BY <1>1, <1>2, <1>3, <1>4, <1>5, <1>13

LEMMA DestroyIs ==
  ASSUME RefsInv, Shape, NEW l \in Lists, ListDestroy(l)
  PROVE  Shape' /\ Live(l) /\ ~Iterated(l) /\ ~Live(l)' /\ \A k \in Lists \ {l} : Kept(k)
<1>1. Live(l) /\ ~Iterated(l) /\ lists' = [lists EXCEPT ![l] = Absent] /\ bound' = bound
  BY DEF ListDestroy
<1>2. lists'[l] = Absent /\ \A k \in Lists \ {l} : lists'[k] = lists[k]
  BY <1>1 DEF RefsInv, RefsType
<1>3. /\ heap' \in Heaps /\ allocated' = Others(l)
      /\ \A p \in Others(l) : heap'[p] = heap[p]
  <2>0. heap \in Heaps /\ Others(l) \subseteq Nodes
    BY <1>1, RoomLeft DEF Shape
  <2>1. CASE RefCountIsShared(l)
    <3>1. heap' = heap /\ allocated' = allocated
      BY <2>1 DEF ListDestroy
    <3> QED BY <2>0, <2>1, <3>1, <1>1, OthersOf
  <2>2. CASE ~RefCountIsShared(l)
    <3> DEFINE own == OwnNodes(l)
    <3>1. /\ allocated' = allocated \ own
          /\ heap' = [n \in Nodes |-> IF n \in own THEN Blank ELSE heap[n]]
      BY <2>2 DEF ListDestroy, OwnNodes
    <3>2. allocated = Others(l) \cup own /\ own \cap Others(l) = {}
      BY <2>2, <1>1, OthersOf
    <3> HIDE DEF own
    <3>3. Blank \in Cells
      BY DEF Blank, Cells
    <3>4. heap' \in Heaps
      BY <2>0, <3>1, <3>3 DEF Heaps
    <3>5. \A p \in Others(l) : heap'[p] = heap[p]
      BY <2>0, <3>1, <3>2
    <3> QED BY <3>1, <3>2, <3>4, <3>5
  <2> QED BY <2>1, <2>2
<1>4. ASSUME NEW k \in Lists \ {l} PROVE Kept(k)
  <2>1. Live(k) => OwnNodes(k) \subseteq Others(l)
    BY DEF Others, LiveLists
  <2>2. Live(k) => \A p \in OwnNodes(k) : heap'[p] = heap[p]
    BY <2>1, <1>3
  <2> QED BY <2>2, <1>2, <1>3, KeptIs
<1>5. /\ LiveLists' = LiveLists \ {l} /\ ~Live(l)' /\ l \in LiveLists
      /\ \A k \in LiveLists \ {l} : k \in Lists \ {l} /\ Live(k)
  BY <1>1, <1>2, <1>4 DEF LiveLists, Kept, Live
<1>6. Cardinality(LiveLists') <= bound'.lists
  <2>1. LiveLists \in SUBSET Lists /\ Cardinality(LiveLists) <= bound.lists
    BY DEF LiveLists, Shape
  <2>2. bound.lists \in Nat
    BY NodeFacts DEF Shape
  <2>3. Cardinality(LiveLists \ {l}) = Cardinality(LiveLists) - 1 /\ Cardinality(LiveLists) \in Nat
    BY <2>1, <1>5, UserCounts
  <2> QED BY <2>1, <2>2, <2>3, <1>1, <1>5
<1>7. ASSUME NEW k \in LiveLists' PROVE GoodList(k)'
  <2>1. k \in Lists \ {l} /\ Live(k) /\ Kept(k)
    BY <1>4, <1>5
  <2> QED BY <2>1, <1>1, <1>3, KeptGood
<1>8. ASSUME NEW j \in LiveLists', NEW k \in LiveLists'
      PROVE  /\ lists'[j].ref = lists'[k].ref => lists'[j] = lists'[k]
             /\ lists'[j].ref # lists'[k].ref => OwnNodes(j)' \cap OwnNodes(k)' = {}
  <2>1. j \in LiveLists /\ k \in LiveLists /\ Kept(j) /\ Kept(k) /\ Live(j) /\ Live(k)
    BY <1>4, <1>5
  <2>2. /\ lists[j].ref = lists[k].ref => lists[j] = lists[k]
        /\ lists[j].ref # lists[k].ref => OwnNodes(j) \cap OwnNodes(k) = {}
    BY <2>1 DEF Shape
  <2> QED BY <2>1, <2>2 DEF Kept
<1>9. allocated' = UNION {OwnNodes(k)' : k \in LiveLists'}
  <2>1. \A k \in LiveLists \ {l} : OwnNodes(k)' = OwnNodes(k)
    BY <1>4, <1>5 DEF Kept
  <2> QED BY <2>1, <1>3, <1>5 DEF Others
<1>10. bound' \in Bounds
  BY <1>1 DEF Shape
<1>11. Shape'
  BY <1>3, <1>6, <1>7, <1>8, <1>9, <1>10 DEF Shape
<1> QED BY <1>1, <1>4, <1>5, <1>11

\* The iterators after list d was made, copied or destroyed.
LEMMA IteratorsStay ==
  ASSUME RefsInv, RefsInv', IteratorsGood, NEW d \in Lists, ~Iterated(d),
         miter' = miter, liter' = liter, \A k \in Lists \ {d} : Kept(k),
         Live(d)' => \A k \in Lists \ {d} : Live(k) /\ Iterated(k) => lists[k].ref # lists'[d].ref
  PROVE  IteratorsGood'
<1>1. SharedExactly
  BY RefsInvShared
<1>2. SharedExactly'
  BY RefsInvShared, PTL
<1>3. ASSUME NEW k \in Lists, Iterated(k), Live(k), ~RefCountIsShared(k)
      PROVE  /\ Live(k)' /\ ~RefCountIsShared(k)' /\ lists'[k] = lists[k] /\ OwnNodes(k)' = OwnNodes(k)
  <2>1. k \in Lists \ {d}
    BY <1>3
  <2>2. Live(k)' /\ lists'[k] = lists[k] /\ OwnNodes(k)' = OwnNodes(k)
    BY <2>1, <1>3 DEF Kept
  <2>3. \A j \in Lists \ {k} : Live(j)' => lists'[j].ref # lists'[k].ref
    <3> SUFFICES ASSUME NEW j \in Lists \ {k}, Live(j)' PROVE lists'[j].ref # lists'[k].ref
      OBVIOUS
    <3>1. CASE j = d
      BY <3>1, <2>1, <2>2, <1>3
    <3>2. CASE j # d
      <4>1. lists'[j] = lists[j] /\ Live(j)
        BY <3>2 DEF Kept
      <4>2. lists[j].ref # lists[k].ref
        BY <4>1, <1>1, <1>3 DEF SharedExactly
      <4> QED BY <4>1, <4>2, <2>2
    <3> QED BY <3>1, <3>2
  <2>4. ~RefCountIsShared(k)'
    BY <2>2, <2>3, <1>2 DEF SharedExactly
  <2> QED BY <2>2, <2>4
<1>4. ASSUME NEW k \in Lists, miter'[k] # Absent
      PROVE  /\ Live(k)' /\ ~RefCountIsShared(k)'
             /\ miter'[k].valid => miter'[k].current \in OwnNodes(k)'
  <2>1. /\ Iterated(k) /\ Live(k) /\ ~RefCountIsShared(k)
        /\ miter[k].valid => miter[k].current \in OwnNodes(k)
    BY <1>4 DEF IteratorsGood, Iterated
  <2> QED BY <2>1, <1>3
<1>5. ASSUME liter # Absent
      PROVE  /\ Live(liter.origin)' /\ ~RefCountIsShared(liter.origin)'
             /\ liter.state <= lists'[liter.origin].state
             /\ liter.state = lists'[liter.origin].state => liter.current \in OwnNodes(liter.origin)'
  <2>0. PICK k : k = liter.origin
    OBVIOUS
  <2>1. /\ liter \in [origin : Lists, current : Nodes, state : Nat]
        /\ Live(k) /\ ~RefCountIsShared(k) /\ liter.state <= lists[k].state
        /\ liter.state = lists[k].state => liter.current \in OwnNodes(k)
    BY <1>5, <2>0 DEF IteratorsGood
  <2>2. k \in Lists /\ Iterated(k)
    BY <2>0, <2>1, <1>5 DEF Iterated
  <2>3. k = liter'.origin
    BY <2>0
  <2> QED BY <2>0, <2>1, <2>2, <2>3, <1>3
<1>6. /\ miter' \in [Lists -> [current : Nodes, valid : BOOLEAN] \cup {Absent}]
      /\ liter' \in [origin : Lists, current : Nodes, state : Nat] \cup {Absent}
  BY DEF IteratorsGood
<1> QED BY <1>4, <1>5, <1>6 DEF IteratorsGood

-----------------------------------------------------------------------------
(***************************************************************************)
(* Every step keeps the invariant.                                         *)
(***************************************************************************)
LEMMA GrewKeeps ==
  ASSUME ListInv, RefsInv', NEW l \in Lists, Live(l), NEW t, NEW i \in 1..(Len(t) + 1), NEW n, NEW x,
         Grew(l, t, i, n, x), miter' = miter, liter' = liter
  PROVE  ListInv'
<1> DEFINE e == miter[l]
           u == InsertAt(t, i, n)
<1>1. RefsInv /\ Shape /\ IteratorsGood
  BY DEF ListInv
<1>2. /\ t \in Seq(Nodes) /\ (~RefCountIsShared(l) => t = NodesOf(l)) /\ n \in Nodes
      /\ Shape' /\ Changed(l, u) /\ lists'[l].state = lists[l].state
  BY DEF Grew, Copied, Result, Linked
<1>3. Range(u) = Range(t) \cup {n}
  BY <1>2, InsertedRange
<1>4. lists[l].state \in Nat
  BY <1>1, GoodListIs
<1>5. /\ e \in [current : Nodes, valid : BOOLEAN] \cup {Absent} /\ miter' = [miter EXCEPT ![l] = e]
  BY <1>1 DEF IteratorsGood
<1>6. ~RefCountIsShared(l) => OwnNodes(l) \subseteq Range(u)
  BY <1>2, <1>3 DEF OwnNodes
<1>7. e # Absent /\ e.valid => e.current \in Range(u)
  BY <1>1, <1>6 DEF IteratorsGood
<1> HIDE DEF e, u
<1>8. IteratorsGood'
  BY <1>1, <1>2, <1>4, <1>5, <1>6, <1>7, IteratorsFollow
<1> QED BY <1>2, <1>8 DEF ListInv

LEMMA ShrankKeeps ==
  ASSUME ListInv, RefsInv', NEW l \in Lists, Live(l), NEW t, NEW i \in 1..Len(t), Shrank(l, t, i),
         NEW e \in [current : Nodes, valid : BOOLEAN] \cup {Absent}, miter' = [miter EXCEPT ![l] = e],
         e # Absent /\ e.valid => e.current \in Range(t) \ {t[i]}, liter' = liter
  PROVE  ListInv'
<1> DEFINE u == RemoveAt(t, i)
<1>1. RefsInv /\ Shape /\ IteratorsGood
  BY DEF ListInv
<1>2. /\ t \in Seq(Nodes) /\ Once(t) /\ Shape' /\ Changed(l, u) /\ lists'[l].state = lists[l].state + 1
  BY DEF Shrank, Copied, Result, Linked
<1>3. Range(u) = Range(t) \ {t[i]}
  BY <1>2, RemovedRange
<1>4. lists[l].state \in Nat /\ lists'[l].state \in Nat /\ lists'[l].state > lists[l].state
  <2>1. lists[l].state \in Nat
    BY <1>1, GoodListIs
  <2> QED BY <2>1, <1>2
<1>7. e # Absent /\ e.valid => e.current \in Range(u)
  BY <1>3
<1> HIDE DEF u
<1>8. IteratorsGood'
  BY <1>1, <1>2, <1>4, <1>7, IteratorsFollow
<1> QED BY <1>2, <1>8 DEF ListInv

\* The neighbours of a node of a chain are other nodes of it.
LEMMA Neighbours ==
  ASSUME NEW h, NEW first, NEW last, NEW t, Linked(h, first, last, t), NEW i \in 1..Len(t)
  PROVE  /\ h[t[i]].next = (IF i = Len(t) THEN NULL ELSE t[i + 1])
         /\ h[t[i]].previous = (IF i = 1 THEN NULL ELSE t[i - 1])
         /\ h[t[i]].next = NULL <=> i = Len(t)
         /\ h[t[i]].previous = NULL <=> i = 1
         /\ i # Len(t) => t[i + 1] \in Range(t) \ {t[i]} /\ t[i + 1] \in Nodes
         /\ i # 1 => t[i - 1] \in Range(t) \ {t[i]} /\ t[i - 1] \in Nodes
<1>1. t \in Seq(Nodes) /\ Len(t) \in Nat /\ \A j \in 1..Len(t) : t[j] \in Nodes /\ t[j] \in Range(t) /\ t[j] # NULL
  BY RangeOf, NodeFacts DEF Linked
<1>2. /\ h[t[i]].next = (IF i = Len(t) THEN NULL ELSE t[i + 1])
      /\ h[t[i]].previous = (IF i = 1 THEN NULL ELSE t[i - 1])
  BY DEF Linked
<1>3. i # Len(t) => i + 1 \in 1..Len(t) /\ t[i + 1] # t[i]
  BY <1>1 DEF Linked, Once
<1>4. i # 1 => i - 1 \in 1..Len(t) /\ t[i - 1] # t[i]
  BY <1>1 DEF Linked, Once
<1> QED BY <1>1, <1>2, <1>3, <1>4

\* Where ListRemove leaves the mutable iterator: at another node, or invalid.
LEMMA StepAsideIs ==
  ASSUME ListInv, NEW l \in Lists, NEW t, Copied(l, Detached(l), t), NEW i \in 1..Len(t),
         NEW e, e = StepAside(Detached(l).heap, miter[l], t[i])
  PROVE  /\ e \in [current : Nodes, valid : BOOLEAN] \cup {Absent}
         /\ e # Absent /\ e.valid => e.current \in Range(t) \ {t[i]}
<1> DEFINE it == miter[l]
           h == Detached(l).heap
<1>1. it \in [current : Nodes, valid : BOOLEAN] \cup {Absent}
  BY DEF ListInv, IteratorsGood
<1>2. CASE it = Absent
  BY <1>2 DEF StepAside
<1>3. CASE it # Absent
  <2>1. ~RefCountIsShared(l) /\ (it.valid => it.current \in OwnNodes(l))
    BY <1>3 DEF ListInv, IteratorsGood
  <2>2. t = NodesOf(l) /\ it \in [current : Nodes, valid : BOOLEAN]
    BY <1>1, <1>3, <2>1 DEF Copied
  <2>3. it.valid => it.current \in Range(t)
    BY <2>1, <2>2 DEF OwnNodes
  <2>4. PICK first, last : Linked(h, first, last, t)
    BY DEF Copied, Result
  <2>5. e = StepAside(h, it, t[i])
    OBVIOUS
  <2> HIDE DEF h, it
  <2>6. CASE it.current # t[i]
    BY <2>2, <2>3, <2>5, <2>6 DEF StepAside
  <2>7. CASE it.current = t[i] /\ i # Len(t)
    <3>1. h[t[i]].next # NULL /\ h[t[i]].next \in Range(t) \ {t[i]} /\ h[t[i]].next \in Nodes
      BY <2>4, <2>7, Neighbours
    <3>2. e = [it EXCEPT !.current = h[t[i]].next]
      BY <2>5, <2>7, <1>3, <3>1 DEF StepAside
    <3> QED BY <2>2, <3>1, <3>2
  <2>8. CASE it.current = t[i] /\ i = Len(t) /\ i # 1
    <3>1. /\ h[t[i]].next = NULL
          /\ h[t[i]].previous # NULL /\ h[t[i]].previous \in Range(t) \ {t[i]} /\ h[t[i]].previous \in Nodes
      BY <2>4, <2>8, Neighbours
    <3>2. e = [it EXCEPT !.current = h[t[i]].previous]
      BY <2>5, <2>8, <1>3, <3>1 DEF StepAside
    <3> QED BY <2>2, <3>1, <3>2
  <2>9. CASE it.current = t[i] /\ i = Len(t) /\ i = 1
    <3>0. (h[t[i]].next = NULL <=> i = Len(t)) /\ (h[t[i]].previous = NULL <=> i = 1)
      BY <2>4, Neighbours
    <3>1. h[t[i]].next = NULL /\ h[t[i]].previous = NULL
      BY <3>0, <2>9
    <3>2. e = [it EXCEPT !.valid = FALSE]
      BY <2>5, <2>9, <1>3, <3>1 DEF StepAside
    <3> DEFINE no == FALSE
    <3>3. e = [current |-> it.current, valid |-> no] /\ no \in BOOLEAN /\ ~no
      BY <2>2, <3>2
    <3> HIDE DEF no
    <3>4. e \in [current : Nodes, valid : BOOLEAN] /\ e.valid = no
      BY <2>2, <3>3
    <3> QED BY <3>3, <3>4
  <2> QED BY <2>6, <2>7, <2>8, <2>9
<1> QED BY <1>2, <1>3

LEMMA SameLists ==
  ASSUME UNCHANGED <<heap, allocated, lists, refs, bound>>
  PROVE  /\ LiveLists' = LiveLists /\ (Shape => Shape')
         /\ \A k \in Lists : /\ NodesOf(k)' = NodesOf(k) /\ OwnNodes(k)' = OwnNodes(k)
                             /\ (Live(k)' <=> Live(k))
                             /\ (RefCountIsShared(k)' <=> RefCountIsShared(k))
<1>1. \A k \in Lists : NodesOf(k)' = NodesOf(k)
  BY DEF NodesOf
<1>2. \A k \in Lists : /\ OwnNodes(k)' = OwnNodes(k) /\ (Live(k)' <=> Live(k))
                       /\ (RefCountIsShared(k)' <=> RefCountIsShared(k))
  BY <1>1 DEF OwnNodes, Live, RefCountIsShared
<1>3. LiveLists' = LiveLists /\ LiveLists \subseteq Lists
  BY <1>2 DEF LiveLists
<1>4. \A k \in Lists : GoodList(k)' <=> GoodList(k)
  BY <1>1 DEF GoodList
<1>5. UNION {OwnNodes(l)' : l \in LiveLists'} = UNION {OwnNodes(l) : l \in LiveLists}
  BY <1>2, <1>3
<1>6. ASSUME Shape PROVE Shape'
  BY <1>2, <1>3, <1>4, <1>5, <1>6 DEF Shape
<1> QED BY <1>1, <1>2, <1>3, <1>6

LEMMA CursorRemoveKeeps ==
  ASSUME ListInv, RefsInv', NEW l \in Lists, ListMutableIteratorRemove(l),
         \E s, i : /\ CursorAt(l, s, i) /\ Shrank(l, s, i) /\ Len(s) > 1
                   /\ miter' = [miter EXCEPT ![l].current = IF i = Len(s) THEN s[i - 1] ELSE s[i + 1]]
  PROVE  ListInv'
<1>0. PICK s, i : /\ CursorAt(l, s, i) /\ Shrank(l, s, i) /\ Len(s) > 1
                  /\ miter' = [miter EXCEPT ![l].current = IF i = Len(s) THEN s[i - 1] ELSE s[i + 1]]
  OBVIOUS
<1> DEFINE m == IF i = Len(s) THEN s[i - 1] ELSE s[i + 1]
<1>1. i \in 1..Len(s) /\ Copied(l, Detached(l), s) /\ miter[l] # Absent
  BY <1>0 DEF CursorAt
<1>2. PICK h, first, last : Linked(h, first, last, s)
  BY <1>1 DEF Copied, Result
<1>3. m \in Range(s) \ {s[i]} /\ m \in Nodes
  BY <1>1, <1>2, <1>0, Neighbours
<1>4. Live(l) /\ liter' = liter
  BY DEF ListMutableIteratorRemove, MayShrink
<1> HIDE DEF m
<1> DEFINE e == [miter[l] EXCEPT !.current = m]
<1>5. miter \in [Lists -> [current : Nodes, valid : BOOLEAN] \cup {Absent}]
  BY DEF ListInv, IteratorsGood
<1>6. miter[l] \in [current : Nodes, valid : BOOLEAN]
  BY <1>1, <1>5
<1>7. e \in [current : Nodes, valid : BOOLEAN] /\ e.current = m
  BY <1>3, <1>6
<1>8. miter' = [miter EXCEPT ![l] = e]
  BY <1>0 DEF m
<1> HIDE DEF e
<1>9. e \in [current : Nodes, valid : BOOLEAN] \cup {Absent} /\ (e # Absent /\ e.valid => e.current \in Range(s) \ {s[i]})
  BY <1>3, <1>7
<1> QED BY <1>1, <1>4, <1>8, <1>9, <1>0, ShrankKeeps

LEMMA ChangesKeep ==
  ASSUME ListInv, RefsInv', AbsentIsNoList, NEW l \in Lists, NEW x \in Payloads,
         \/ ListPrepend(l, x) \/ ListAppend(l, x) \/ ListMutableIteratorPrepend(l, x)
         \/ ListMutableIteratorAppend(l, x) \/ (x # NULL /\ ListRemove(l, x))
  PROVE  ListInv'
<1>0. ASSUME NEW t, Copied(l, Detached(l), t) PROVE t \in Seq(Nodes) /\ Len(t) \in Nat
  <2>1. t \in Seq(Nodes)
    BY <1>0 DEF Copied, Result, Linked
  <2> QED BY <2>1
<1>1. CASE ListPrepend(l, x)
  <2>1. PICK t, n : Grew(l, t, 1, n, x)
    BY <1>1, PrependIs
  <2>2. 1 \in 1..(Len(t) + 1)
    BY <2>1, <1>0 DEF Grew
  <2>3. Live(l) /\ miter' = miter /\ liter' = liter
    BY <1>1 DEF ListPrepend, MayGrow
  <2> QED BY <2>1, <2>2, <2>3, GrewKeeps
<1>2. CASE ListAppend(l, x)
  <2>1. PICK t, n : Grew(l, t, Len(t) + 1, n, x)
    BY <1>2, AppendIs
  <2>2. Len(t) + 1 \in 1..(Len(t) + 1)
    BY <2>1, <1>0 DEF Grew
  <2>3. Live(l) /\ miter' = miter /\ liter' = liter
    BY <1>2 DEF ListAppend, MayGrow
  <2> QED BY <2>1, <2>2, <2>3, GrewKeeps
<1>3. CASE ListMutableIteratorPrepend(l, x)
  <2>1. PICK s, i, n : CursorAt(l, s, i) /\ Grew(l, s, i, n, x)
    BY <1>3, CursorPrependIs
  <2>2. i \in 1..(Len(s) + 1)
    BY <2>1, <1>0 DEF Grew, CursorAt
  <2>3. Live(l) /\ miter' = miter /\ liter' = liter
    BY <1>3 DEF ListMutableIteratorPrepend, MayGrow
  <2> QED BY <2>1, <2>2, <2>3, GrewKeeps
<1>4. CASE ListMutableIteratorAppend(l, x)
  <2>1. PICK s, i, n : CursorAt(l, s, i) /\ Grew(l, s, i + 1, n, x)
    BY <1>4, CursorAppendIs
  <2>2. i + 1 \in 1..(Len(s) + 1)
    BY <2>1, <1>0 DEF Grew, CursorAt
  <2>3. Live(l) /\ miter' = miter /\ liter' = liter
    BY <1>4 DEF ListMutableIteratorAppend, MayGrow
  <2> QED BY <2>1, <2>2, <2>3, GrewKeeps
<1>5. CASE x # NULL /\ ListRemove(l, x)
  <2>1. PICK t, i : /\ FirstMatch(Detached(l).heap, t, i, x) /\ Shrank(l, t, i)
                    /\ miter' = [miter EXCEPT ![l] = StepAside(Detached(l).heap, miter[l], t[i])]
    BY <1>5, RemoveIs
  <2>2. i \in 1..Len(t) /\ Copied(l, Detached(l), t)
    BY <2>1 DEF FirstMatch, Shrank
  <2>3. Live(l) /\ liter' = liter
    BY <1>5 DEF ListRemove, MayShrink
  <2> DEFINE e == StepAside(Detached(l).heap, miter[l], t[i])
  <2>4. e = StepAside(Detached(l).heap, miter[l], t[i]) /\ miter' = [miter EXCEPT ![l] = e]
    BY <2>1
  <2> HIDE DEF e
  <2>5. /\ e \in [current : Nodes, valid : BOOLEAN] \cup {Absent}
        /\ e # Absent /\ e.valid => e.current \in Range(t) \ {t[i]}
    BY <2>2, <2>4, StepAsideIs
  <2> QED BY <2>1, <2>2, <2>3, <2>4, <2>5, ShrankKeeps
<1> QED BY <1>1, <1>2, <1>3, <1>4, <1>5

\* Moving along a list, or to one of its ends, leads to a node of the list.
LEMMA MoveIn ==
  ASSUME Shape, NEW l \in Lists, Live(l), NEW p, p # NULL
  PROVE  /\ p = lists[l].first \/ p = lists[l].last => p \in OwnNodes(l) /\ p \in Nodes
         /\ \A q \in OwnNodes(l) : p = heap[q].next \/ p = heap[q].previous => p \in OwnNodes(l) /\ p \in Nodes
<1> DEFINE s == NodesOf(l)
           f == lists[l].first
           g == lists[l].last
<1>1. Linked(heap, f, g, s) /\ s \in Seq(Nodes)
  BY GoodListIs
<1> HIDE DEF s, f, g
<1>2. /\ Len(s) \in Nat /\ \A i \in 1..Len(s) : s[i] \in Nodes /\ s[i] \in Range(s)
      /\ \A q \in Range(s) : \E i \in 1..Len(s) : s[i] = q
  BY <1>1, RangeOf
<1>3. p = f \/ p = g => p \in Range(s) /\ p \in Nodes
  <2>1. f = (IF Len(s) = 0 THEN NULL ELSE s[1]) /\ g = (IF Len(s) = 0 THEN NULL ELSE s[Len(s)])
    BY <1>1 DEF Linked
  <2>2. Len(s) # 0 => 1 \in 1..Len(s) /\ Len(s) \in 1..Len(s)
    BY <1>2
  <2> QED BY <2>1, <2>2, <1>2
<1>4. ASSUME NEW q \in Range(s), p = heap[q].next \/ p = heap[q].previous PROVE p \in Range(s) /\ p \in Nodes
  <2>1. PICK i \in 1..Len(s) : s[i] = q
    BY <1>2
  <2>2. /\ heap[s[i]].next = (IF i = Len(s) THEN NULL ELSE s[i + 1])
        /\ heap[s[i]].previous = (IF i = 1 THEN NULL ELSE s[i - 1])
        /\ i # Len(s) => s[i + 1] \in Range(s) \ {s[i]} /\ s[i + 1] \in Nodes
        /\ i # 1 => s[i - 1] \in Range(s) \ {s[i]} /\ s[i - 1] \in Nodes
    BY <1>1, Neighbours
  <2> QED BY <2>1, <2>2, <1>4
<1> QED BY <1>3, <1>4 DEF OwnNodes, s, f, g

LEMMA CursorsKeep ==
  ASSUME ListInv, ~IteratorsOnShared, UNCHANGED <<heap, allocated, lists, refs, bound>>, RefsInv',
         \/ \E l \in Lists : ListIteratorGet(l) \/ ListMutableIteratorGet(l)
                             \/ ListMutableIteratorRelease(l) \/ MoveMutable(l)
         \/ ListIteratorDestroy \/ MoveLight \/ UNCHANGED <<miter, liter>>
  PROVE  ListInv'
<1> DEFINE M == [current : Nodes, valid : BOOLEAN]
           L == [origin : Lists, current : Nodes, state : Nat]
<1>1. RefsInv /\ Shape /\ IteratorsGood /\ Shape'
  BY SameLists DEF ListInv
<1>2. \A k \in Lists : /\ OwnNodes(k)' = OwnNodes(k) /\ (Live(k)' <=> Live(k))
                       /\ (RefCountIsShared(k)' <=> RefCountIsShared(k))
  BY SameLists
<1>3. /\ miter \in [Lists -> M \cup {Absent}] /\ liter \in L \cup {Absent}
      /\ \A l \in Lists : miter[l] # Absent =>
           /\ Live(l) /\ ~RefCountIsShared(l)
           /\ miter[l].valid => miter[l].current \in OwnNodes(l)
      /\ liter # Absent =>
           /\ Live(liter.origin) /\ ~RefCountIsShared(liter.origin)
           /\ liter.state <= lists[liter.origin].state
           /\ liter.state = lists[liter.origin].state => liter.current \in OwnNodes(liter.origin)
  BY <1>1 DEF IteratorsGood
\* An iterator as it should be makes the state good.
<1>4. ASSUME NEW k \in Lists, NEW e \in M \cup {Absent}, miter' = [miter EXCEPT ![k] = e], liter' = liter,
             e # Absent => Live(k) /\ ~RefCountIsShared(k) /\ (e.valid => e.current \in OwnNodes(k))
      PROVE  IteratorsGood'
  <2>1. miter'[k] = e /\ (\A j \in Lists \ {k} : miter'[j] = miter[j]) /\ miter' \in [Lists -> M \cup {Absent}]
    BY <1>3, <1>4
  <2>2. ASSUME NEW j \in Lists, miter'[j] # Absent
        PROVE  Live(j)' /\ ~RefCountIsShared(j)' /\ (miter'[j].valid => miter'[j].current \in OwnNodes(j)')
    <3>1. CASE j = k
      BY <3>1, <2>1, <2>2, <1>2, <1>4
    <3>2. CASE j # k
      BY <3>2, <2>1, <2>2, <1>2, <1>3
    <3> QED BY <3>1, <3>2
  <2>3. liter # Absent => liter.origin \in Lists
    BY <1>3
  <2> QED BY <2>1, <2>2, <2>3, <1>2, <1>3, <1>4 DEF IteratorsGood
<1>5. ASSUME NEW o \in Lists, NEW e \in L, liter' = e, miter' = miter, e.origin = o,
             Live(o), ~RefCountIsShared(o), e.state <= lists[o].state, e.current \in OwnNodes(o)
      PROVE  IteratorsGood'
  <2>1. /\ Live(liter.origin)' /\ ~RefCountIsShared(liter.origin)'
        /\ liter'.state <= lists'[liter'.origin].state
        /\ liter'.state = lists'[liter'.origin].state => liter'.current \in OwnNodes(liter.origin)'
    <3>1. liter'.origin = o
      BY <1>5
    <3>2. Live(o)' /\ ~RefCountIsShared(o)' /\ OwnNodes(o)' = OwnNodes(o)
      BY <1>2, <1>5
    <3> QED BY <3>1, <3>2, <1>5
  <2> QED BY <2>1, <1>2, <1>3, <1>5 DEF IteratorsGood
<1>6. ASSUME NEW l \in Lists, ListIteratorGet(l) PROVE IteratorsGood'
  <2> DEFINE e == [origin |-> l, current |-> lists[l].first, state |-> lists[l].state]
  <2>1. Live(l) /\ lists[l].first # NULL /\ ~RefCountIsShared(l) /\ liter' = e /\ miter' = miter
    BY <1>6 DEF ListIteratorGet
  <2>2. lists[l].first \in OwnNodes(l) /\ lists[l].first \in Nodes /\ lists[l].state \in Nat
    BY <2>1, <1>1, MoveIn, GoodListIs
  <2>3. e \in L /\ e.origin = l /\ e.state = lists[l].state /\ e.current \in OwnNodes(l) /\ e.state <= lists[l].state
    BY <2>2
  <2> HIDE DEF e
  <2> QED BY <2>1, <2>3, <1>5
<1>7. ASSUME NEW l \in Lists, ListMutableIteratorGet(l) PROVE IteratorsGood'
  <2> DEFINE yes == TRUE
             e == [current |-> lists[l].first, valid |-> yes]
  <2>1. /\ Live(l) /\ lists[l].first # NULL /\ ~RefCountIsShared(l) /\ liter' = liter
        /\ miter' = [miter EXCEPT ![l] = e] /\ yes \in BOOLEAN
    BY <1>7 DEF ListMutableIteratorGet
  <2>2. lists[l].first \in OwnNodes(l) /\ lists[l].first \in Nodes
    BY <2>1, <1>1, MoveIn
  <2> HIDE DEF yes
  <2>3. e \in M /\ e.current \in OwnNodes(l)
    BY <2>1, <2>2
  <2> HIDE DEF e
  <2> QED BY <2>1, <2>3, <1>4
<1>8. ASSUME NEW l \in Lists, ListMutableIteratorRelease(l) PROVE IteratorsGood'
  <2>1. PICK e : e = Absent
    OBVIOUS
  <2>2. miter' = [miter EXCEPT ![l] = e] /\ liter' = liter /\ e \in M \cup {Absent}
    BY <1>8, <2>1 DEF ListMutableIteratorRelease
  <2> QED BY <2>1, <2>2, <1>4
<1>9. ASSUME NEW l \in Lists, MoveMutable(l) PROVE IteratorsGood'
  <2>1. PICK p : /\ p # NULL /\ miter' = [miter EXCEPT ![l].current = p] /\ liter' = liter
                 /\ p \in {lists[l].first, lists[l].last, heap[Current(l)].next, heap[Current(l)].previous}
    BY <1>9 DEF MoveMutable
  <2>2. miter[l] # Absent /\ miter[l].valid
    BY <1>9 DEF MoveMutable, MutableValid
  <2>3. Live(l) /\ ~RefCountIsShared(l) /\ Current(l) \in OwnNodes(l) /\ miter[l] \in M
    BY <2>2, <1>3 DEF Current
  <2>4. p \in OwnNodes(l) /\ p \in Nodes
    BY <2>1, <2>3, <1>1, MoveIn
  <2> DEFINE e == [miter[l] EXCEPT !.current = p]
  <2>5. e \in M /\ e.current = p
    BY <2>3, <2>4
  <2>6. miter' = [miter EXCEPT ![l] = e]
    BY <2>1
  <2> HIDE DEF e
  <2> QED BY <2>1, <2>3, <2>4, <2>5, <2>6, <1>4
<1>10. CASE ListIteratorDestroy
  <2>1. liter' = Absent /\ miter' = miter
    BY <1>10 DEF ListIteratorDestroy
  <2> QED BY <2>1, <1>1, <1>2, <1>3 DEF IteratorsGood, ListInv
<1>11. CASE MoveLight
  <2>1. liter # Absent /\ liter.state = lists[liter.origin].state /\ miter' = miter
    BY <1>11 DEF MoveLight, LightValid
  <2>2. PICK o : o = liter.origin
    OBVIOUS
  <2>3. PICK p : /\ p # NULL /\ liter' = [liter EXCEPT !.current = p]
                 /\ p \in {lists[o].first, lists[o].last, heap[liter.current].next, heap[liter.current].previous}
    BY <1>11, <2>2 DEF MoveLight
  <2>4. liter \in L /\ o \in Lists /\ Live(o) /\ ~RefCountIsShared(o) /\ liter.current \in OwnNodes(o) /\ liter.state <= lists[o].state
    BY <2>1, <2>2, <1>3
  <2>5. p \in OwnNodes(o) /\ p \in Nodes
    BY <2>3, <2>4, <1>1, MoveIn
  <2> DEFINE e == [liter EXCEPT !.current = p]
  <2>6. e \in L /\ e.current = p /\ e.origin = o /\ e.state = liter.state /\ liter' = e
    BY <2>2, <2>3, <2>4, <2>5
  <2> HIDE DEF e
  <2>7. IteratorsGood'
    BY <2>1, <2>4, <2>5, <2>6, <1>5
  <2> QED BY <2>7, <1>1 DEF ListInv
<1>12. CASE UNCHANGED <<miter, liter>>
  <2>1. liter # Absent => liter.origin \in Lists
    BY <1>3
  <2>2. IteratorsGood'
    BY <2>1, <1>12, <1>1, <1>2, <1>3 DEF IteratorsGood
  <2> QED BY <2>2, <1>1 DEF ListInv
<1> QED BY <1>1, <1>6, <1>7, <1>8, <1>9, <1>10, <1>11, <1>12 DEF ListInv

LEMMA ListStep ==
  ASSUME AbsentIsNoList, ~IteratorsOnShared, ListInv, [Next]_vars
  PROVE  ListInv'
<1>1. RefsInv /\ Shape /\ IteratorsGood /\ RefsInv'
  BY RefsStep DEF ListInv
<1>2. ASSUME NEW l \in Lists, ListNew(l) PROVE ListInv'
  <2>1. Shape' /\ Changed(l, <<>>)
    BY <1>1, <1>2, NewIs
  <2>2. ~Live(l) /\ miter' = miter /\ liter' = liter
    BY <1>2 DEF ListNew
  <2>3. ~Iterated(l)
    BY <2>2, <1>1 DEF Iterated, IteratorsGood
  <2>4. \A k \in Lists \ {l} : Kept(k)
    BY <2>1, ChangedKeeps
  <2>5. \A k \in Lists \ {l} : Live(k) /\ Iterated(k) => lists[k].ref # lists'[l].ref
    BY <2>1 DEF Changed
  <2>6. IteratorsGood'
    BY <2>2, <2>3, <2>4, <2>5, <1>1, IteratorsStay
  <2> QED BY <2>1, <2>6, <1>1 DEF ListInv
<1>3. ASSUME NEW l \in Lists, ListDestroy(l) PROVE ListInv'
  <2>1. Shape' /\ ~Iterated(l) /\ ~Live(l)' /\ \A k \in Lists \ {l} : Kept(k)
    BY <1>1, <1>3, DestroyIs
  <2>2. miter' = miter /\ liter' = liter
    BY <1>3 DEF ListDestroy
  <2>3. IteratorsGood'
    BY <2>1, <2>2, <1>1, IteratorsStay
  <2> QED BY <2>1, <2>3, <1>1 DEF ListInv
<1>4. ASSUME NEW o \in Lists, NEW d \in Lists, ListCopy(o, d) PROVE ListInv'
  <2>1. /\ Shape' /\ Live(o) /\ ~Live(d) /\ lists'[d].ref = lists[o].ref
        /\ \A k \in Lists \ {d} : Kept(k)
    BY <1>1, <1>4, CopyIs
  <2>2. /\ miter' = miter /\ liter' = liter
        /\ \A k \in refs[lists[o].ref].users : ~Iterated(k)
    BY <1>4 DEF ListCopy
  <2>3. ~Iterated(d)
    BY <2>1, <1>1 DEF Iterated, IteratorsGood
  <2>4. \A k \in Lists \ {d} : Live(k) /\ Iterated(k) => lists[k].ref # lists'[d].ref
    <3>1. lists[o].ref \in Refs
      BY <1>1, <2>1 DEF RefsInv, RefsType
    <3>2. refs[lists[o].ref].users = {k \in Lists : Live(k) /\ lists[k].ref = lists[o].ref}
      BY <1>1, <3>1 DEF RefsInv, RefsExact
    <3> QED BY <3>2, <2>1, <2>2
  <2>5. IteratorsGood'
    BY <2>1, <2>2, <2>3, <2>4, <1>1, IteratorsStay
  <2> QED BY <2>1, <2>5, <1>1 DEF ListInv
<1>5. ASSUME NEW l \in Lists, NEW x \in bound.payloads,
             \/ ListPrepend(l, x) \/ ListAppend(l, x)
             \/ ListMutableIteratorPrepend(l, x) \/ ListMutableIteratorAppend(l, x)
      PROVE  ListInv'
  <2>1. x \in Payloads
    BY <1>1, NodeFacts DEF Shape
  <2> QED BY <2>1, <1>1, <1>5, ChangesKeep
<1>6. ASSUME NEW l \in Lists, NEW x \in Payloads \ {NULL}, ListRemove(l, x) PROVE ListInv'
  BY <1>1, <1>6, ChangesKeep
<1>7. ASSUME NEW l \in Lists, ListMutableIteratorRemove(l) PROVE ListInv'
  <2>1. CASE UNCHANGED vars
    BY <2>1, <1>1, CursorsKeep DEF vars
  <2>2. CASE \E s, i : /\ CursorAt(l, s, i) /\ Shrank(l, s, i) /\ Len(s) > 1
                       /\ miter' = [miter EXCEPT ![l].current = IF i = Len(s) THEN s[i - 1] ELSE s[i + 1]]
    BY <2>2, <1>1, <1>7, CursorRemoveKeeps
  <2> QED BY <2>1, <2>2, <1>7, CursorRemoveIs
<1>8. ASSUME NEW l \in Lists,
             \/ ListIteratorGet(l) \/ ListMutableIteratorGet(l)
             \/ ListMutableIteratorRelease(l) \/ MoveMutable(l)
      PROVE  ListInv'
  <2>1. UNCHANGED <<heap, allocated, lists, refs, bound>>
    BY <1>8 DEF ListIteratorGet, ListMutableIteratorGet, ListMutableIteratorRelease, MoveMutable
  <2> QED BY <2>1, <1>1, <1>8, CursorsKeep
<1>9. CASE ListIteratorDestroy \/ MoveLight
  <2>1. UNCHANGED <<heap, allocated, lists, refs, bound>>
    BY <1>9 DEF ListIteratorDestroy, MoveLight
  <2> QED BY <2>1, <1>1, <1>9, CursorsKeep
<1>10. CASE UNCHANGED vars
  BY <1>10, <1>1, CursorsKeep DEF vars
<1> QED BY <1>2, <1>3, <1>4, <1>5, <1>6, <1>7, <1>8, <1>9, <1>10 DEF Next

\* The inductive invariant of the lists, for callers that release their iterators
\* before they copy a list.
THEOREM ListInvariant ==
  ASSUME AbsentIsNoList, ~IteratorsOnShared
  PROVE  Spec => []ListInv
<1>1. Init => ListInv
  <2> SUFFICES ASSUME Init PROVE ListInv
    OBVIOUS
  <2>1. /\ heap = [n \in Nodes |-> Blank] /\ allocated = {} /\ lists = [l \in Lists |-> Absent]
        /\ refs = [r \in Refs |-> RefCountNew] /\ miter = [l \in Lists |-> Absent]
        /\ liter = Absent /\ bound \in Bounds
    BY DEF Init
  <2>2. Cardinality({}) = 0
    BY FS_EmptySet
  <2>3. RefsInv
    BY <2>1, <2>2 DEF RefsInv, RefsType, RefsExact, Live, RefCountNew
  <2>4. LiveLists = {}
    BY <2>1 DEF LiveLists, Live
  <2>5. heap \in Heaps
    BY <2>1 DEF Heaps, Cells, Blank
  <2>6. bound.lists \in Nat
    BY <2>1, NodeFacts
  <2>7. Shape
    BY <2>1, <2>2, <2>4, <2>5, <2>6 DEF Shape
  <2>8. IteratorsGood
    BY <2>1 DEF IteratorsGood
  <2> QED BY <2>3, <2>7, <2>8 DEF ListInv
<1>2. ListInv /\ [Next]_vars => ListInv'
  BY ListStep
<1> QED BY <1>1, <1>2, PTL DEF Spec

-----------------------------------------------------------------------------
(***************************************************************************)
(* What the invariant says.                                                *)
(***************************************************************************)
LEMMA InvTypes == ListInv => TypeOK
<1> SUFFICES ASSUME ListInv PROVE TypeOK
  OBVIOUS
<1>1. RefsInv /\ Shape /\ IteratorsGood
  BY DEF ListInv
<1>2. /\ bound \in Bounds /\ MaxLen \in Nat /\ MaxState \in Nat
      /\ bound.len \in Nat /\ bound.removals \in Nat /\ bound.len <= MaxLen /\ bound.removals <= MaxState
  BY <1>1, NodeFacts DEF Shape
<1>3. \A l \in Lists : Live(l) => /\ lists[l] \in ListRecords
                                  /\ lists[l].node_count <= bound.len /\ lists[l].state <= bound.removals
  <2> SUFFICES ASSUME NEW l \in Lists, Live(l)
               PROVE  /\ lists[l] \in ListRecords
                      /\ lists[l].node_count <= bound.len /\ lists[l].state <= bound.removals
    OBVIOUS
  <2> QED BY <1>1, GoodListIs
<1>4. heap \in [Nodes -> [payload : Payloads \cup {Garbage}, next : Nodes \cup {NULL}, previous : Nodes \cup {NULL}]]
  BY <1>1 DEF Shape, Heaps, Cells
<1>5. allocated \subseteq Nodes
  <2>1. \A l \in LiveLists : OwnNodes(l) \subseteq Nodes
    BY <1>1, GoodListIs DEF LiveLists
  <2> QED BY <2>1, <1>1 DEF Shape
<1>6. lists \in [Lists -> [first : Nodes \cup {NULL}, last : Nodes \cup {NULL},
                           node_count : 0..MaxLen, state : 0..MaxState, ref : Refs] \cup {Absent}]
  <2>1. lists = [l \in Lists |-> lists[l]]
    BY <1>1 DEF RefsInv, RefsType
  <2>2. ASSUME NEW l \in Lists, Live(l)
        PROVE  lists[l] \in [first : Nodes \cup {NULL}, last : Nodes \cup {NULL},
                             node_count : 0..MaxLen, state : 0..MaxState, ref : Refs]
    <3>1. lists[l] \in ListRecords /\ lists[l].node_count <= bound.len /\ lists[l].state <= bound.removals
      BY <1>3, <2>2
    <3> QED BY <3>1, <1>2 DEF ListRecords
  <2> QED BY <2>1, <2>2 DEF Live
<1>7. refs \in [Refs -> [user_count : 0..Cardinality(Lists), users : SUBSET Lists]]
  <2>1. refs = [x \in Refs |-> refs[x]]
    BY <1>1 DEF RefsInv, RefsType
  <2>2. ASSUME NEW r \in Refs
        PROVE  refs[r] \in [user_count : 0..Cardinality(Lists), users : SUBSET Lists]
    <3>1. /\ refs[r] = [user_count |-> Cardinality(Users(r)), users |-> Users(r)]
          /\ Users(r) \in SUBSET Lists /\ Cardinality(Users(r)) \in Nat
      BY <1>1, RefIs
    <3>2. Cardinality(Users(r)) <= Cardinality(Lists) /\ Cardinality(Lists) \in Nat
      BY <3>1, ListAssumption, FS_Subset, FS_CardinalityType
    <3> QED BY <3>1, <3>2
  <2> QED BY <2>1, <2>2
<1>8. miter \in [Lists -> [current : Nodes, valid : BOOLEAN] \cup {Absent}]
  BY <1>1 DEF IteratorsGood
<1>9. liter \in [origin : Lists, current : Nodes, state : 0..MaxState] \cup {Absent}
  <2>1. CASE liter = Absent
    BY <2>1
  <2>2. CASE liter # Absent
    <3>1. /\ liter \in [origin : Lists, current : Nodes, state : Nat] /\ Live(liter.origin)
          /\ liter.state <= lists[liter.origin].state
      BY <2>2, <1>1 DEF IteratorsGood
    <3>2. liter.origin \in Lists /\ liter.state \in Nat
      BY <3>1
    <3>3. lists[liter.origin].state \in Nat /\ lists[liter.origin].state <= bound.removals
      BY <3>1, <3>2, <1>3 DEF ListRecords
    <3> QED BY <3>1, <3>2, <3>3, <1>2
  <2> QED BY <2>1, <2>2
<1> QED BY <1>2, <1>4, <1>5, <1>6, <1>7, <1>8, <1>9 DEF TypeOK

\* The nodes of a list are a doubly linked chain of node_count allocated nodes from
\* first to last, after any mix of additions and removals at the ends, by value and
\* through the mutable iterator, of lists that were copied or not.
THEOREM ChainsAreLinked ==
  ASSUME AbsentIsNoList, ~IteratorsOnShared
  PROVE  Spec => []WellLinked
<1>1. ListInv => WellLinked
  <2> SUFFICES ASSUME ListInv PROVE WellLinked
    OBVIOUS
  <2>1. TypeOK
    BY InvTypes
  <2>2. ASSUME NEW l \in Lists, Live(l)
        PROVE  LET s == NodesOf(l)
                   n == Len(s)
               IN  /\ n = lists[l].node_count
                   /\ Range(s) \subseteq allocated
                   /\ lists[l].last = IF n = 0 THEN NULL ELSE s[n]
                   /\ \A i \in 1..n : heap[s[i]].previous = IF i = 1 THEN NULL ELSE s[i - 1]
    <3> DEFINE s == NodesOf(l)
    <3>1. /\ Linked(heap, lists[l].first, lists[l].last, s) /\ Range(s) \subseteq allocated
          /\ lists[l].node_count = Len(s)
      BY <2>2, GoodListIs DEF ListInv, OwnNodes
    <3> HIDE DEF s
    <3>2. /\ Len(s) = lists[l].node_count
          /\ lists[l].last = (IF Len(s) = 0 THEN NULL ELSE s[Len(s)])
          /\ \A i \in 1..Len(s) : heap[s[i]].previous = IF i = 1 THEN NULL ELSE s[i - 1]
      BY <3>1 DEF Linked
    <3> QED BY <3>1, <3>2 DEF s
  <2> QED BY <2>1, <2>2 DEF WellLinked
<1> QED BY <1>1, ListInvariant, PTL

\* Copy on write never confuses owners: lists have a node in common only if they are
\* users of one RefCount, the counts are exact, and no node is leaked or freed early.
THEOREM SharingCounted ==
  ASSUME AbsentIsNoList, ~IteratorsOnShared
  PROVE  Spec => []SharingIsCounted
<1>1. ListInv => SharingIsCounted
  <2> SUFFICES ASSUME ListInv PROVE SharingIsCounted
    OBVIOUS
  <2>1. RefsInv /\ Shape
    BY DEF ListInv
  <2>2. ASSUME NEW l \in Lists, NEW k \in Lists, Live(l), Live(k), Range(NodesOf(l)) \cap Range(NodesOf(k)) # {}
        PROVE  lists[l].ref = lists[k].ref
    BY <2>1, <2>2 DEF Shape, LiveLists, OwnNodes
  <2>3. RefsExact
    BY <2>1 DEF RefsInv
  <2>4. allocated = UNION {Range(NodesOf(l)) : l \in {k \in Lists : Live(k)}}
    BY <2>1 DEF Shape, LiveLists, OwnNodes
  <2> QED BY <2>2, <2>3, <2>4 DEF SharingIsCounted
<1> QED BY <1>1, ListInvariant, PTL

\* An iterator that its accessors accept is at a node of its list, whatever the list
\* went through since the iterator was opened.
THEOREM IteratorsInList ==
  ASSUME AbsentIsNoList, ~IteratorsOnShared
  PROVE  Spec => []IteratorsStayInList
<1>1. ListInv => IteratorsStayInList
  BY DEF ListInv, IteratorsGood, IteratorsStayInList, MutableValid, Current, LightValid, OwnNodes
<1> QED BY <1>1, ListInvariant, PTL

-----------------------------------------------------------------------------
(***************************************************************************)
(* Contents.                                                               *)
(***************************************************************************)

\* A step changes at most one list.
LEMMA OneChanges ==
  ASSUME AbsentIsNoList, ~IteratorsOnShared, ListInv, [Next]_vars
  PROVE  \E d : \A k \in Lists \ {d} : Kept(k)
<1>1. RefsInv /\ Shape /\ IteratorsGood /\ heap \in Heaps
  BY DEF ListInv, Shape
<1>2. ASSUME UNCHANGED <<heap, allocated, lists, refs, bound>> PROVE \A k \in Lists : Kept(k)
  BY <1>2, SameLists DEF Kept
<1>3. ASSUME NEW l \in Lists, ListNew(l) PROVE \A k \in Lists \ {l} : Kept(k)
  <2>1. Changed(l, <<>>)
    BY <1>1, <1>3, NewIs
  <2> QED BY <2>1, ChangedKeeps
<1>4. ASSUME NEW l \in Lists, ListDestroy(l) PROVE \A k \in Lists \ {l} : Kept(k)
  BY <1>1, <1>4, DestroyIs
<1>5. ASSUME NEW o \in Lists, NEW d \in Lists, ListCopy(o, d) PROVE \A k \in Lists \ {d} : Kept(k)
  BY <1>1, <1>5, CopyIs
<1>6. ASSUME NEW l \in Lists, NEW x \in bound.payloads,
             \/ ListPrepend(l, x) \/ ListAppend(l, x)
             \/ ListMutableIteratorPrepend(l, x) \/ ListMutableIteratorAppend(l, x)
      PROVE  \A k \in Lists \ {l} : Kept(k)
  <2>1. x \in Payloads
    BY <1>1, NodeFacts DEF Shape
  <2>2. \E t, i, n : Grew(l, t, i, n, x)
    BY <2>1, <1>6, PrependIs, AppendIs, CursorPrependIs, CursorAppendIs
  <2>3. PICK u : Changed(l, u)
    BY <2>2 DEF Grew
  <2> QED BY <2>3, ChangedKeeps
<1>7. ASSUME NEW l \in Lists, NEW x \in Payloads \ {NULL}, ListRemove(l, x)
      PROVE  \A k \in Lists \ {l} : Kept(k)
  <2>1. PICK t, i : Shrank(l, t, i)
    BY <1>7, RemoveIs
  <2> QED BY <2>1, ChangedKeeps DEF Shrank
<1>8. ASSUME NEW l \in Lists, ListMutableIteratorRemove(l)
      PROVE  \A k \in Lists \ {l} : Kept(k)
  <2>1. CASE UNCHANGED vars
    BY <2>1, <1>2 DEF vars
  <2>2. CASE \E t, i : Shrank(l, t, i)
    BY <2>2, ChangedKeeps DEF Shrank
  <2> QED BY <2>1, <2>2, <1>8, CursorRemoveIs
<1>9. ASSUME NEW l \in Lists,
             \/ ListIteratorGet(l) \/ ListMutableIteratorGet(l)
             \/ ListMutableIteratorRelease(l) \/ MoveMutable(l)
      PROVE  \A k \in Lists : Kept(k)
  BY <1>9, <1>2 DEF ListIteratorGet, ListMutableIteratorGet, ListMutableIteratorRelease, MoveMutable
<1>10. CASE ListIteratorDestroy \/ MoveLight
  BY <1>10, <1>2 DEF ListIteratorDestroy, MoveLight
<1>11. CASE UNCHANGED vars
  BY <1>11, <1>2 DEF vars
<1>12. ASSUME NEW l \in Lists,
              \/ ListNew(l) \/ ListDestroy(l) \/ \E d \in Lists : ListCopy(l, d)
              \/ \E x \in bound.payloads : \/ ListPrepend(l, x) \/ ListAppend(l, x)
                                           \/ ListMutableIteratorPrepend(l, x)
                                           \/ ListMutableIteratorAppend(l, x)
              \/ \E x \in Payloads \ {NULL} : ListRemove(l, x)
              \/ ListIteratorGet(l)
              \/ ListMutableIteratorGet(l) \/ ListMutableIteratorRelease(l)
              \/ MoveMutable(l) \/ ListMutableIteratorRemove(l)
       PROVE  \E d : \A k \in Lists \ {d} : Kept(k)
  BY <1>12, <1>3, <1>4, <1>5, <1>6, <1>7, <1>8, <1>9, Zenon
<1> QED BY <1>10, <1>11, <1>12, Zenon DEF Next

\* What a search sees of an element, when it is known whether it compares.
Look(c, x) == IF c /\ x \in Payloads THEN Value[x] ELSE x

LEMMA SeenIs == \A x : Seen(x) = Look(bound.compare, x)
BY DEF Seen, Look

\* The lists keep their compare function.
LEMMA BoundKept == [Next]_vars => bound' = bound
BY DEF Next, vars, ListNew, ListDestroy, ListCopy, ListPrepend, ListAppend, ListRemove,
       ListMutableIteratorPrepend, ListMutableIteratorAppend, ListMutableIteratorRemove,
       ListIteratorGet, ListIteratorDestroy, MoveLight, ListMutableIteratorGet,
       ListMutableIteratorRelease, MoveMutable

LEMMA KeptContents ==
  ASSUME Shape, NEW k \in Lists, Live(k), Kept(k), bound' = bound
  PROVE  Contents(k)' = Contents(k)
<1> DEFINE s == NodesOf(k)
<1>1. NodesOf(k)' = s /\ \A p \in OwnNodes(k) : heap'[p] = heap[p]
  BY DEF Kept
<1>2. s \in Seq(Nodes)
  BY GoodListIs
<1> HIDE DEF s
<1>3. \A i \in DOMAIN s : s[i] \in OwnNodes(k)
  <2>1. DOMAIN s = 1..Len(s)
    BY <1>2
  <2> QED BY <2>1, <1>2, RangeOf DEF OwnNodes, s
<1>4. Contents(k) = [i \in DOMAIN s |-> Look(bound.compare, heap[s[i]].payload)]
  BY DEF Contents, Seen, Look, s
<1>5. Contents(k)' = [i \in DOMAIN s |-> Look(bound.compare, heap'[s[i]].payload)]
  BY <1>1 DEF Contents, Seen, Look
<1> QED BY <1>1, <1>3, <1>4, <1>5

\* list.h promises that a change of a list that was copied triggers a deep copy: for
\* callers that release their iterators before they copy a list, a change of one
\* list leaves the contents of every other as they were.
THEOREM CopiesStayApart ==
  ASSUME AbsentIsNoList, ~IteratorsOnShared
  PROVE  Spec => ChangesStayLocal
<1> DEFINE Local == \A l, k \in Lists :
             (/\ l # k /\ Live(l) /\ Live(k) /\ Live(l)' /\ Live(k)'
              /\ Contents(l)' # Contents(l)) => Contents(k)' = Contents(k)
<1>1. ListInv /\ [Next]_vars => [Local]_vars
  <2> SUFFICES ASSUME ListInv, [Next]_vars PROVE Local
    OBVIOUS
  <2>1. PICK d : \A k \in Lists \ {d} : Kept(k)
    BY OneChanges
  <2>2. \A k \in Lists \ {d} : Live(k) => Contents(k)' = Contents(k)
    BY <2>1, KeptContents, BoundKept DEF ListInv
  <2> QED BY <2>2
<1> QED BY <1>1, ListInvariant, PTL DEF Spec, ChangesStayLocal

-----------------------------------------------------------------------------
(***************************************************************************)
(* The lists implement independent sequences.  The abstract state, and     *)
(* what it is in terms of the chains.                                      *)
(***************************************************************************)
Seqs    == [l \in Lists |-> IF Live(l) THEN Contents(l) ELSE Absent]
Cursors == [l \in Lists |-> IF miter[l] = Absent THEN Absent
                            ELSE IF miter[l].valid THEN Position(l, Current(l))
                            ELSE 0]
Light   == IF liter = Absent THEN Absent
           ELSE [list |-> liter.origin,
                 pos  |-> IF LightValid(liter)
                            THEN Position(liter.origin, liter.current) ELSE 0]

\* The position of a node in a chain.
PlaceIn(s, p) == CHOOSE i \in 0..Len(s) : IF i = 0 THEN p \notin Range(s) ELSE s[i] = p

LEMMA PlaceIs ==
  ASSUME NEW s \in Seq(Nodes), Once(s), NEW i \in 1..Len(s)
  PROVE  PlaceIn(s, s[i]) = i
<1> DEFINE p == s[i]
           Good(j) == IF j = 0 THEN p \notin Range(s) ELSE s[j] = p
<1>1. p \in Range(s) /\ Len(s) \in Nat
  BY RangeOf
<1>2. \A j \in 0..Len(s) : Good(j) <=> j = i
  <2> SUFFICES ASSUME NEW j \in 0..Len(s) PROVE Good(j) <=> j = i
    OBVIOUS
  <2>1. CASE j = 0
    BY <2>1, <1>1
  <2>2. CASE j # 0
    <3>1. j \in 1..Len(s)
      BY <2>2, <1>1
    <3> QED BY <3>1, <2>2 DEF Once
  <2> QED BY <2>1, <2>2
<1>3. i \in 0..Len(s)
  BY <1>1
<1>4. PlaceIn(s, p) = CHOOSE j \in 0..Len(s) : Good(j)
  BY Zenon DEF PlaceIn
<1> HIDE DEF Good, p
<1>5. (CHOOSE j \in 0..Len(s) : Good(j)) = i
  BY <1>2, <1>3
<1> QED BY <1>4, <1>5 DEF p

\* Position i of a chain that got a node at a, or lost the one at a.
LEMMA PlaceAfterInsert ==
  ASSUME NEW s \in Seq(Nodes), Once(s), NEW a \in 1..(Len(s) + 1), NEW n \in Nodes \ Range(s), NEW i \in 1..Len(s)
  PROVE  PlaceIn(InsertAt(s, a, n), s[i]) = IF i >= a THEN i + 1 ELSE i
<1> DEFINE u == InsertAt(s, a, n)
           j == IF i >= a THEN i + 1 ELSE i
<1>1. /\ u \in Seq(Nodes) /\ Len(u) = Len(s) + 1 /\ Len(s) \in Nat
      /\ \A k \in 1..(Len(s) + 1) : u[k] = IF k < a THEN s[k] ELSE IF k = a THEN n ELSE s[k - 1]
  <2>1. u \in Seq(Nodes) /\ Len(s) \in Nat
    BY InsertedAt
  <2>2. IsInserted(s, a, n, u)
    BY InsertGives
  <2> QED BY <2>1, <2>2 DEF IsInserted
<1>2. Once(u)
  BY InsertedOnce
<1> HIDE DEF u
<1>4. j \in 1..Len(u) /\ u[j] = s[i]
  <2>1. CASE i >= a
    <3>1. j = i + 1 /\ j \in 1..(Len(s) + 1) /\ ~(j < a) /\ j # a /\ j - 1 = i
      BY <2>1, <1>1
    <3> QED BY <3>1, <1>1
  <2>2. CASE i < a
    <3>1. j = i /\ j \in 1..(Len(s) + 1) /\ j < a
      BY <2>2, <1>1
    <3> QED BY <3>1, <1>1
  <2> QED BY <2>1, <2>2, <1>1
<1> HIDE DEF j
<1>5. PlaceIn(u, u[j]) = j
  BY <1>1, <1>2, <1>4, PlaceIs
<1> QED BY <1>4, <1>5 DEF u, j

LEMMA PlaceAfterRemove ==
  ASSUME NEW s \in Seq(Nodes), Once(s), NEW a \in 1..Len(s), NEW i \in 1..Len(s), i # a
  PROVE  PlaceIn(RemoveAt(s, a), s[i]) = IF i > a THEN i - 1 ELSE i
<1> DEFINE u == RemoveAt(s, a)
           j == IF i > a THEN i - 1 ELSE i
<1>1. /\ u \in Seq(Nodes) /\ Len(u) = Len(s) - 1 /\ Len(s) \in Nat
      /\ \A k \in 1..(Len(s) - 1) : u[k] = IF k < a THEN s[k] ELSE s[k + 1]
  <2>1. Len(s) \in Nat
    OBVIOUS
  <2>2. u \in Seq(Nodes)
    BY RemovedAt
  <2>3. IsRemoved(s, a, u)
    BY RemoveGives
  <2> QED BY <2>1, <2>2, <2>3 DEF IsRemoved
<1> HIDE DEF u
<1>2. Once(u)
  BY RemovedOnce DEF u
<1>4. j \in 1..Len(u) /\ u[j] = s[i]
  <2>1. CASE i > a
    <3>1. j = i - 1 /\ j \in 1..(Len(s) - 1) /\ ~(j < a) /\ j + 1 = i
      BY <2>1, <1>1
    <3> QED BY <3>1, <1>1
  <2>2. CASE i < a
    <3>1. j = i /\ j \in 1..(Len(s) - 1) /\ j < a
      BY <2>2, <1>1
    <3> QED BY <3>1, <1>1
  <2> QED BY <2>1, <2>2, <1>1
<1> HIDE DEF j
<1>5. PlaceIn(u, u[j]) = j
  BY <1>1, <1>2, <1>4, PlaceIs
<1> QED BY <1>4, <1>5 DEF u, j

\* The sequence of list l.
LEMMA SeqsAre ==
  ASSUME ListInv, NEW l \in Lists
  PROVE  /\ ~Live(l) => Seqs[l] = Absent
         /\ Live(l) => /\ Seqs[l] = Contents(l) /\ Seqs[l] # Absent /\ Seqs[l] \in Seq(Payloads \cup {Garbage})
                       /\ Len(Seqs[l]) = Len(NodesOf(l))
                       /\ \A i \in 1..Len(NodesOf(l)) :
                            Seqs[l][i] = Look(bound.compare, heap[NodesOf(l)[i]].payload)
<1>1. CASE ~Live(l)
  BY <1>1 DEF Seqs
<1>2. CASE Live(l)
  <2> DEFINE s == NodesOf(l)
             c == Contents(l)
  <2>1. s \in Seq(Nodes) /\ heap \in Heaps
    BY <1>2, GoodListIs DEF ListInv, Shape
  <2>2. c = [i \in DOMAIN s |-> Look(bound.compare, heap[s[i]].payload)]
    BY DEF Contents, Seen, Look
  <2>3. Seqs[l] = c
    BY <1>2 DEF Seqs
  <2> HIDE DEF s, c
  <2>4. Len(s) \in Nat /\ DOMAIN s = 1..Len(s) /\ \A i \in 1..Len(s) : heap[s[i]].payload \in Payloads \cup {Garbage}
    BY <2>1 DEF Heaps, Cells
  <2>7. \A i \in 1..Len(s) : Look(bound.compare, heap[s[i]].payload) \in Payloads \cup {Garbage}
    BY <2>4, ListAssumption DEF Look
  <2>5. /\ c \in Seq(Payloads \cup {Garbage}) /\ Len(c) = Len(s)
        /\ \A i \in 1..Len(s) : c[i] = Look(bound.compare, heap[s[i]].payload)
    BY <2>2, <2>4, <2>7
  <2>6. c # Absent
    BY <2>5, ListAssumption
  <2> QED BY <1>2, <2>3, <2>5, <2>6 DEF s, c
<1> QED BY <1>1, <1>2

\* The cursor of list l.
LEMMA CursorsAre ==
  ASSUME ListInv, NEW l \in Lists
  PROVE  /\ miter[l] = Absent <=> Cursors[l] = Absent
         /\ miter[l] # Absent => Live(l) /\ ~RefCountIsShared(l)
         /\ miter[l] # Absent /\ ~miter[l].valid => Cursors[l] = 0
         /\ miter[l] # Absent /\ miter[l].valid =>
              /\ Cursors[l] \in 1..Len(NodesOf(l)) /\ NodesOf(l)[Cursors[l]] = Current(l)
              /\ Cursors[l] = PlaceIn(NodesOf(l), Current(l))
<1>1. CASE miter[l] = Absent
  BY <1>1 DEF Cursors
<1>2. CASE miter[l] # Absent /\ ~miter[l].valid
  <2>1. Cursors[l] = 0
    BY <1>2 DEF Cursors
  <2>2. Absent # 0
    BY ListAssumption
  <2> QED BY <1>2, <2>1, <2>2 DEF ListInv, IteratorsGood
<1>3. CASE miter[l] # Absent /\ miter[l].valid
  <2> DEFINE s == NodesOf(l)
             p == Current(l)
  <2>1. Live(l) /\ ~RefCountIsShared(l) /\ p \in Range(s)
    BY <1>3 DEF ListInv, IteratorsGood, OwnNodes, Current
  <2>2. s \in Seq(Nodes) /\ Once(s) /\ Len(s) \in Nat
    BY <2>1, GoodListIs DEF ListInv
  <2>3. Cursors[l] = PlaceIn(s, p)
    BY <1>3, Zenon DEF Cursors, Position, PlaceIn
  <2> HIDE DEF s, p
  <2>4. PICK i \in 1..Len(s) : s[i] = p
    BY <2>1, <2>2, RangeOf
  <2>5. Cursors[l] = i
    BY <2>2, <2>3, <2>4, PlaceIs
  <2>6. Absent # i
    BY <2>2, <2>4, ListAssumption
  <2> QED BY <1>3, <2>1, <2>3, <2>4, <2>5, <2>6 DEF s, p
<1> QED BY <1>1, <1>2, <1>3

\* The light cursor of iterator it on list o, whose record is r and whose chain is s.
LightOf(it, o, r, s) == [list |-> o, pos |-> IF it.state = r.state THEN PlaceIn(s, it.current) ELSE 0]

LEMMA LightAs ==
  /\ liter # Absent => Light = LightOf(liter, liter.origin, lists[liter.origin], NodesOf(liter.origin))
  /\ liter' # Absent =>
       Light' = LightOf(liter', liter'.origin, lists'[liter'.origin], NodesOf(liter.origin)')
<1>1. ASSUME liter # Absent
      PROVE  Light = LightOf(liter, liter.origin, lists[liter.origin], NodesOf(liter.origin))
  <2>1. Light = [list |-> liter.origin,
                 pos |-> IF LightValid(liter) THEN Position(liter.origin, liter.current) ELSE 0]
    BY <1>1, Zenon DEF Light
  <2>2. LightValid(liter) <=> liter.state = lists[liter.origin].state
    BY <1>1 DEF LightValid
  <2>3. Position(liter.origin, liter.current) = PlaceIn(NodesOf(liter.origin), liter.current)
    BY Zenon DEF Position, PlaceIn
  <2>4. CASE LightValid(liter)
    BY <2>1, <2>2, <2>3, <2>4 DEF LightOf
  <2>5. CASE ~LightValid(liter)
    BY <2>1, <2>2, <2>5 DEF LightOf
  <2> QED BY <2>4, <2>5
<1>2. ASSUME liter' # Absent
      PROVE  Light' = LightOf(liter', liter'.origin, lists'[liter'.origin], NodesOf(liter.origin)')
  <2>1. Light' = [list |-> liter'.origin,
                  pos |-> IF LightValid(liter)' THEN Position(liter.origin, liter.current)' ELSE 0]
    BY <1>2, Zenon DEF Light
  <2>2. LightValid(liter)' <=> liter'.state = lists'[liter'.origin].state
    BY <1>2 DEF LightValid
  <2>3. Position(liter.origin, liter.current)' = PlaceIn(NodesOf(liter.origin)', liter'.current)
    BY Zenon DEF Position, PlaceIn
  <2>4. CASE LightValid(liter)'
    BY <2>1, <2>2, <2>3, <2>4 DEF LightOf
  <2>5. CASE ~LightValid(liter)'
    BY <2>1, <2>2, <2>5 DEF LightOf
  <2> QED BY <2>4, <2>5
<1> QED BY <1>1, <1>2

\* The light cursor.
LEMMA LightIs ==
  ASSUME ListInv
  PROVE  /\ liter = Absent <=> Light = Absent
         /\ liter # Absent =>
              \E o, p : /\ o = liter.origin /\ o \in Lists /\ Live(o) /\ ~RefCountIsShared(o)
                        /\ Light = [list |-> o, pos |-> p] /\ Light.list = o /\ Light.pos = p
                        /\ liter.state # lists[o].state => p = 0
                        /\ liter.state = lists[o].state =>
                             /\ p \in 1..Len(NodesOf(o)) /\ NodesOf(o)[p] = liter.current
                             /\ p = PlaceIn(NodesOf(o), liter.current)
<1>1. CASE liter = Absent
  BY <1>1 DEF Light
<1>2. CASE liter # Absent
  <2>1. PICK o : o = liter.origin
    OBVIOUS
  <2>2. /\ o \in Lists /\ Live(o) /\ ~RefCountIsShared(o)
        /\ liter.state = lists[o].state => liter.current \in Range(NodesOf(o))
    BY <1>2, <2>1 DEF ListInv, IteratorsGood, OwnNodes
  <2> DEFINE s == NodesOf(o)
             p == IF liter.state = lists[o].state THEN PlaceIn(s, liter.current) ELSE 0
  <2>3. Light = [list |-> o, pos |-> p]
    BY <1>2, <2>1, LightAs, Zenon DEF LightOf
  <2>4. s \in Seq(Nodes) /\ Once(s) /\ Len(s) \in Nat
    BY <2>2, GoodListIs DEF ListInv
  <2>5. ASSUME liter.state = lists[o].state
        PROVE  p \in 1..Len(s) /\ s[p] = liter.current /\ p = PlaceIn(s, liter.current)
    <3> HIDE DEF s
    <3>1. PICK i \in 1..Len(s) : s[i] = liter.current
      BY <2>2, <2>4, <2>5, RangeOf DEF s
    <3>2. PlaceIn(s, liter.current) = i
      BY <2>4, <3>1, PlaceIs
    <3> QED BY <2>5, <3>1, <3>2
  <2>6. p \in Nat /\ (liter.state # lists[o].state => p = 0)
    <3>1. CASE liter.state = lists[o].state
      <4> HIDE DEF p, s
      <4> QED BY <3>1, <2>4, <2>5
    <3>2. CASE liter.state # lists[o].state
      BY <3>2
    <3> QED BY <3>1, <3>2
  <2> HIDE DEF p, s
  <2>7. Light \in [list : Lists, pos : Nat] /\ Light.list = o /\ Light.pos = p
    BY <2>2, <2>3, <2>6
  <2>8. Light # Absent
    BY <2>7, ListAssumption
  <2> QED BY <1>2, <2>1, <2>2, <2>3, <2>5, <2>6, <2>7, <2>8 DEF s
<1> QED BY <1>1, <1>2

\* What a step that is about list d leaves alone.
LEMMA RestSame ==
  ASSUME ListInv, bound' = bound, NEW d \in Lists, \A k \in Lists \ {d} : Kept(k) /\ miter'[k] = miter[k]
  PROVE  /\ \A k \in Lists \ {d} : Seqs'[k] = Seqs[k] /\ Cursors'[k] = Cursors[k]
         /\ Seqs' = [Seqs EXCEPT ![d] = Seqs'[d]]
         /\ Cursors' = [Cursors EXCEPT ![d] = Cursors'[d]]
         /\ liter' = liter /\ (liter = Absent \/ liter.origin # d) => Light' = Light
<1>1. ASSUME NEW k \in Lists \ {d} PROVE Seqs'[k] = Seqs[k] /\ Cursors'[k] = Cursors[k]
  <2>1. Kept(k) /\ miter'[k] = miter[k] /\ (Live(k)' <=> Live(k))
    BY DEF Kept
  <2>2. Seqs'[k] = Seqs[k]
    <3>1. Seqs[k] = (IF Live(k) THEN Contents(k) ELSE Absent) /\ Seqs'[k] = (IF Live(k)' THEN Contents(k)' ELSE Absent)
      BY DEF Seqs
    <3> QED BY <2>1, <3>1, KeptContents DEF ListInv
  <2>3. Cursors'[k] = Cursors[k]
    <3>1. CASE miter[k] = Absent
      BY <2>1, <3>1 DEF Cursors
    <3>2. CASE miter[k] # Absent
      <4>1. NodesOf(k)' = NodesOf(k)
        BY <2>1, <3>2 DEF Kept, ListInv, IteratorsGood
      <4>2. Position(k, Current(k))' = Position(k, Current(k))
        BY <4>1, <2>1 DEF Position, Current
      <4> QED BY <4>2, <2>1, <3>2 DEF Cursors
    <3> QED BY <3>1, <3>2
  <2> QED BY <2>2, <2>3
<1>2. Seqs' = [Seqs EXCEPT ![d] = Seqs'[d]]
  <2> DEFINE f == Seqs'
             g == Seqs
  <2>1. f = [k \in Lists |-> f[k]] /\ g = [k \in Lists |-> g[k]]
    BY DEF Seqs
  <2>2. \A k \in Lists \ {d} : f[k] = g[k]
    BY <1>1
  <2> HIDE DEF f, g
  <2>3. f = [g EXCEPT ![d] = f[d]]
    BY <2>1, <2>2
  <2> QED BY <2>3 DEF f, g
<1>3. Cursors' = [Cursors EXCEPT ![d] = Cursors'[d]]
  <2> DEFINE f == Cursors'
             g == Cursors
  <2>1. f = [k \in Lists |-> f[k]] /\ g = [k \in Lists |-> g[k]]
    BY DEF Cursors
  <2>2. \A k \in Lists \ {d} : f[k] = g[k]
    BY <1>1
  <2> HIDE DEF f, g
  <2>3. f = [g EXCEPT ![d] = f[d]]
    BY <2>1, <2>2
  <2> QED BY <2>3 DEF f, g
<1>4. ASSUME liter' = liter, liter = Absent \/ liter.origin # d PROVE Light' = Light
  <2>1. CASE liter = Absent
    BY <2>1, <1>4 DEF Light
  <2>2. CASE liter # Absent
    <3>1. PICK o : o = liter.origin
      OBVIOUS
    <3>2. o \in Lists \ {d} /\ Live(o)
      BY <2>2, <3>1, <1>4 DEF ListInv, IteratorsGood
    <3>3. lists'[o] = lists[o] /\ NodesOf(o)' = NodesOf(o)
      BY <3>2 DEF Kept
    <3>4. Light = LightOf(liter, o, lists[o], NodesOf(o))
      BY <2>2, <3>1, LightAs, Zenon
    <3>5. o = liter'.origin /\ liter' # Absent
      BY <3>1, <1>4, <2>2
    <3>6. Light' = LightOf(liter', o, lists'[o], NodesOf(o)')
      <4>1. Light' = LightOf(liter', liter'.origin, lists'[liter'.origin], NodesOf(liter.origin)')
        BY <3>5, LightAs, Zenon
      <4>2. NodesOf(liter.origin)' = NodesOf(o)'
        BY <3>5 DEF NodesOf
      <4> QED BY <4>1, <4>2, <3>5
    <3> QED BY <3>3, <3>4, <3>6, <1>4
  <2> QED BY <2>1, <2>2
<1> QED BY <1>1, <1>2, <1>3, <1>4

\* A list is shared only if it has a compare function.
PointersStay == bound.compare \/ \A r \in Refs : refs[r].user_count <= 1

LEMMA PointersSharing ==
  ASSUME RefsInv, PointersStay, NEW l \in Lists, Live(l), RefCountIsShared(l)
  PROVE  bound.compare
<1>1. lists[l].ref \in Refs /\ refs[lists[l].ref].user_count \in Nat
  BY DEF RefsInv, RefsType
<1> QED BY <1>1 DEF PointersStay, RefCountIsShared

\* A copy looks like its original to a compare function.
LEMMA CopyLooks ==
  ASSUME NEW y \in Payloads \cup {Garbage}, y # NULL \/ y = Garbage
  PROVE  Look(TRUE, CopyOf(y)) = Look(TRUE, y)
<1>1. CASE y = Garbage
  BY <1>1 DEF CopyOf
<1>2. CASE y # Garbage
  <2>1. y \in Payloads \ {NULL} /\ CopyOf(y) = Duplicate[y]
    BY <1>2 DEF CopyOf
  <2>2. Duplicate[y] \in Payloads /\ Value[Duplicate[y]] = Value[y]
    BY <2>1, ListAssumption
  <2> QED BY <2>1, <2>2 DEF Look
<1> QED BY <1>1, <1>2

\* ListDetach copies every payload.
LEMMA CopiedSame ==
  ASSUME ListInv, NULL \notin Payloads, PointersStay, NEW l \in Lists, Live(l), NEW t, Copied(l, Detached(l), t)
  PROVE  /\ t \in Seq(Nodes) /\ Once(t) /\ Len(t) = Len(Seqs[l]) /\ Len(t) = Len(NodesOf(l))
         /\ \A i \in 1..Len(t) : Look(bound.compare, Detached(l).heap[t[i]].payload) = Seqs[l][i]
<1>1. t \in Seq(Nodes) /\ Once(t) /\ Len(t) = Len(NodesOf(l))
  BY DEF Copied, Result, Linked
<1>2. /\ Len(Seqs[l]) = Len(NodesOf(l))
      /\ \A i \in 1..Len(t) : Seqs[l][i] = Look(bound.compare, heap[NodesOf(l)[i]].payload)
  BY <1>1, SeqsAre
<1>3. CASE ~RefCountIsShared(l)
  <2>1. Detached(l) = View(l) /\ t = NodesOf(l)
    BY <1>3 DEF Copied
  <2>2. Detached(l).heap = heap
    BY <2>1 DEF View
  <2> QED BY <2>1, <2>2, <1>1, <1>2
<1>4. CASE RefCountIsShared(l)
  <2>1. \A i \in 1..Len(t) : Detached(l).heap[t[i]].payload = CopyOf(heap[NodesOf(l)[i]].payload)
    BY <1>4 DEF Copied
  <2>2. \A y \in Payloads \cup {Garbage} : Look(bound.compare, CopyOf(y)) = Look(bound.compare, y)
    <3>1. bound.compare = TRUE
      <4>1. bound.compare
        BY <1>4, PointersSharing DEF ListInv
      <4>2. bound.compare \in BOOLEAN
        BY ListAssumption DEF ListInv, Shape
      <4> QED BY <4>1, <4>2
    <3> QED BY <3>1, CopyLooks
  <2>3. \A i \in 1..Len(t) : heap[NodesOf(l)[i]].payload \in Payloads \cup {Garbage}
    <3>1. NodesOf(l) \in Seq(Nodes) /\ heap \in Heaps
      BY GoodListIs DEF ListInv, Shape
    <3> QED BY <3>1, <1>1 DEF Heaps, Cells
  <2> QED BY <2>1, <2>2, <2>3, <1>1, <1>2
<1> QED BY <1>3, <1>4

\* Where the mutable iterator it of a list with nodes t goes when t[i] is removed.
Aside(it, t, i, e) ==
  /\ it = Absent => e = Absent
  /\ it # Absent =>
       /\ e # Absent
       /\ ~it.valid => ~e.valid
       /\ it.valid /\ it.current # t[i] => e.valid /\ e.current = it.current
       /\ it.valid /\ it.current = t[i] /\ Len(t) = 1 => ~e.valid
       /\ it.valid /\ it.current = t[i] /\ Len(t) # 1 =>
            e.valid /\ e.current = IF i = Len(t) THEN t[i - 1] ELSE t[i + 1]

LEMMA StepsAside ==
  ASSUME ListInv, NEW l \in Lists, NEW t, Copied(l, Detached(l), t), NEW i \in 1..Len(t),
         NEW e, e = StepAside(Detached(l).heap, miter[l], t[i])
  PROVE  Aside(miter[l], t, i, e)
<1> DEFINE it == miter[l]
           h == Detached(l).heap
<1> SUFFICES Aside(it, t, i, e)
  OBVIOUS
<1>1. it \in [current : Nodes, valid : BOOLEAN] \cup {Absent} /\ e = StepAside(h, it, t[i])
  BY DEF ListInv, IteratorsGood
<1>2. PICK first, last : Linked(h, first, last, t)
  BY DEF Copied, Result
<1>3. /\ h[t[i]].next = (IF i = Len(t) THEN NULL ELSE t[i + 1])
      /\ h[t[i]].previous = (IF i = 1 THEN NULL ELSE t[i - 1])
      /\ (h[t[i]].next = NULL <=> i = Len(t))
      /\ (h[t[i]].previous = NULL <=> i = 1)
      /\ i # Len(t) => t[i + 1] \in Nodes
      /\ i # 1 => t[i - 1] \in Nodes
  BY <1>2, Neighbours
<1>4. Absent \notin [current : Nodes, valid : BOOLEAN]
  BY ListAssumption, NodeFacts
<1>5. Len(t) \in Nat
  BY <1>2 DEF Linked
<1> HIDE DEF h, it
<1>6. CASE it = Absent
  BY <1>1, <1>6 DEF StepAside, Aside
<1>7. CASE it # Absent /\ it.current # t[i]
  <2>1. e = it
    BY <1>1, <1>7 DEF StepAside
  <2> QED BY <2>1, <1>7 DEF Aside
<1>8. CASE it # Absent /\ it.current = t[i] /\ i # Len(t)
  <2>1. h[t[i]].next = t[i + 1] /\ h[t[i]].next # NULL /\ t[i + 1] \in Nodes /\ Len(t) # 1
    BY <1>3, <1>5, <1>8
  <2>2. e = [it EXCEPT !.current = t[i + 1]]
    BY <1>1, <1>8, <2>1 DEF StepAside
  <2>3. e.current = t[i + 1] /\ e.valid = it.valid /\ e \in [current : Nodes, valid : BOOLEAN]
    BY <1>1, <1>8, <2>1, <2>2
  <2>4. e # Absent
    BY <2>3, <1>4
  <2> QED BY <2>1, <2>3, <2>4, <1>8 DEF Aside
<1>9. CASE it # Absent /\ it.current = t[i] /\ i = Len(t) /\ i # 1
  <2>1. h[t[i]].next = NULL /\ h[t[i]].previous = t[i - 1] /\ h[t[i]].previous # NULL /\ t[i - 1] \in Nodes
    BY <1>3, <1>9
  <2>2. e = [it EXCEPT !.current = t[i - 1]]
    BY <1>1, <1>9, <2>1 DEF StepAside
  <2>3. e.current = t[i - 1] /\ e.valid = it.valid /\ e \in [current : Nodes, valid : BOOLEAN]
    BY <1>1, <1>9, <2>1, <2>2
  <2>4. e # Absent
    BY <2>3, <1>4
  <2> QED BY <2>3, <2>4, <1>9 DEF Aside
<1>10. CASE it # Absent /\ it.current = t[i] /\ i = Len(t) /\ i = 1
  <2>1. h[t[i]].next = NULL /\ h[t[i]].previous = NULL
    BY <1>3, <1>10
  <2>2. e = [it EXCEPT !.valid = FALSE]
    BY <1>1, <1>10, <2>1 DEF StepAside
  <2> DEFINE no == FALSE
  <2>3. it \in [current : Nodes, valid : BOOLEAN]
    BY <1>1, <1>10
  <2>4. e = [current |-> it.current, valid |-> no] /\ no \in BOOLEAN /\ ~no
    BY <2>2, <2>3
  <2> HIDE DEF no
  <2>5. e \in [current : Nodes, valid : BOOLEAN] /\ e.valid = no
    BY <2>3, <2>4
  <2>6. e # Absent /\ ~e.valid
    BY <2>4, <2>5, <1>4
  <2> QED BY <2>6, <1>10 DEF Aside
<1>11. it # Absent => it.current # t[i] \/ (it.current = t[i] /\ i # Len(t))
                      \/ (it.current = t[i] /\ i = Len(t) /\ i # 1)
                      \/ (it.current = t[i] /\ i = Len(t) /\ i = 1)
  OBVIOUS
<1> QED BY <1>6, <1>7, <1>8, <1>9, <1>10, <1>11, Zenon

\* The abstract effect of an addition at position i.
Shifted(p, i) == IF p # 0 /\ p >= i THEN p + 1 ELSE p

Inserted(l, i, x) ==
  /\ Seqs[l] # Absent
  /\ Seqs' = [Seqs EXCEPT ![l] = InsertAt(Seqs[l], i, x)]
  /\ Cursors' = IF Seqs[l] # Absent /\ Cursors[l] # Absent
                THEN [Cursors EXCEPT ![l] = Shifted(Cursors[l], i)] ELSE Cursors
  /\ Light' = IF Light # Absent /\ Light.list = l THEN [Light EXCEPT !.pos = Shifted(Light.pos, i)] ELSE Light

LEMMA InsertStep ==
  ASSUME ListInv, ListInv', NULL \notin Payloads, PointersStay, NEW l \in Lists, Live(l), NEW t, NEW n, NEW y \in Payloads,
         NEW i \in 1..(Len(t) + 1), Grew(l, t, i, n, y), miter' = miter, liter' = liter, bound' = bound
  PROVE  Inserted(l, i, Seen(y)) /\ Len(t) = Len(Seqs[l])
<1>0. PICK x \in Payloads : x = Seen(y) /\ x = Look(bound.compare, y)
  BY SeenIs, ListAssumption DEF Look
<1> DEFINE u == InsertAt(t, i, n)
           c == Seqs[l]
<1>1. /\ Copied(l, Detached(l), t) /\ Changed(l, u) /\ lists'[l].state = lists[l].state
      /\ n \in Nodes \ Range(t) /\ heap'[n].payload = y
      /\ \A p \in Range(t) : heap'[p].payload = Detached(l).heap[p].payload
  BY DEF Grew
<1>2. /\ t \in Seq(Nodes) /\ Once(t) /\ Len(t) = Len(c)
      /\ \A j \in 1..Len(t) : Look(bound.compare, Detached(l).heap[t[j]].payload) = c[j]
  BY <1>1, CopiedSame
<1>3. c # Absent /\ c \in Seq(Payloads \cup {Garbage})
  BY SeqsAre
<1>4. \A k \in Lists \ {l} : Kept(k) /\ miter'[k] = miter[k]
  BY <1>1, ChangedKeeps
<1>5. Seqs'[l] = InsertAt(c, i, x)
  <2>1. Live(l)' /\ NodesOf(l)' = u
    BY <1>1 DEF Changed
  <2>2. Seqs'[l] = Contents(l)'
    BY <2>1 DEF Seqs
  <2>3. Contents(l)' = [j \in DOMAIN u |-> Look(bound.compare, heap'[u[j]].payload)]
    BY <2>1 DEF Contents, Seen, Look
  <2>4. /\ u \in Seq(Nodes) /\ Len(u) = Len(t) + 1 /\ Len(t) \in Nat
        /\ \A j \in 1..(Len(t) + 1) : u[j] = IF j < i THEN t[j] ELSE IF j = i THEN n ELSE t[j - 1]
    BY <1>1, <1>2, InsertedAt
  <2> DEFINE w == InsertAt(c, i, x)
             S == Payloads \cup {Garbage}
  <2>5. /\ Len(w) = Len(t) + 1 /\ w = [j \in 1..(Len(t) + 1) |-> w[j]]
        /\ \A j \in 1..(Len(t) + 1) : w[j] = IF j < i THEN c[j] ELSE IF j = i THEN x ELSE c[j - 1]
    <3>1. c \in Seq(S) /\ x \in S /\ i \in 1..(Len(c) + 1)
      BY <1>2, <1>3
    <3> HIDE DEF S, c
    <3>2. IsInserted(c, i, x, InsertAt(c, i, x))
      BY <3>1, InsertGives, Zenon
    <3> QED BY <3>2, <1>2 DEF IsInserted
  <2> HIDE DEF u, w, c
  <2>6. \A j \in 1..Len(t) : Look(bound.compare, heap'[t[j]].payload) = c[j]
    <3>1. \A j \in 1..Len(t) : t[j] \in Range(t)
      BY <1>2, RangeOf
    <3> QED BY <3>1, <1>1, <1>2
  <2>7. ASSUME NEW j \in 1..(Len(t) + 1) PROVE Look(bound.compare, heap'[u[j]].payload) = w[j]
    <3>1. CASE j < i
      <4>1. j \in 1..Len(t)
        BY <3>1, <2>4
      <4> QED BY <4>1, <3>1, <2>4, <2>5, <2>6
    <3>2. CASE j = i
      BY <3>2, <2>4, <2>5, <1>0, <1>1
    <3>3. CASE j > i
      <4>1. j - 1 \in 1..Len(t) /\ ~(j < i) /\ j # i
        BY <3>3, <2>4
      <4> QED BY <4>1, <2>4, <2>5, <2>6
    <3>4. j < i \/ j = i \/ j > i
      BY <2>4
    <3> QED BY <3>1, <3>2, <3>3, <3>4, Zenon
  <2>8. DOMAIN u = 1..(Len(t) + 1) /\ w = [j \in 1..(Len(t) + 1) |-> w[j]]
    BY <2>4, <2>5
  <2>9. Contents(l)' = w
    BY <2>3, <2>7, <2>8
  <2> QED BY <2>2, <2>9 DEF w
<1>6. NodesOf(l)' = u /\ (~RefCountIsShared(l) => t = NodesOf(l))
  BY <1>1 DEF Changed, Copied
<1>7. Cursors' = IF c # Absent /\ Cursors[l] # Absent THEN [Cursors EXCEPT ![l] = Shifted(Cursors[l], i)] ELSE Cursors
  <2>1. Cursors' = [Cursors EXCEPT ![l] = Cursors'[l]]
    BY <1>4, RestSame
  <2>2. CASE miter[l] = Absent
    <3>1. Cursors[l] = Absent /\ Cursors'[l] = Absent
      BY <2>2 DEF Cursors
    <3>2. Cursors = [k \in Lists |-> Cursors[k]]
      BY DEF Cursors
    <3>3. Cursors' = Cursors
      BY <2>1, <3>1, <3>2
    <3> QED BY <3>1, <3>3
  <2>3. CASE miter[l] # Absent /\ ~miter[l].valid
    <3>1. Cursors[l] = 0 /\ Cursors[l] # Absent
      BY <2>3, CursorsAre
    <3>2. Cursors'[l] = 0
      BY <2>3 DEF Cursors
    <3>3. Cursors'[l] = Shifted(Cursors[l], i)
      BY <3>1, <3>2 DEF Shifted
    <3> QED BY <2>1, <3>1, <3>3, <1>3
  <2>4. CASE miter[l] # Absent /\ miter[l].valid
    <3> DEFINE j == Cursors[l]
    <3>1. /\ j # Absent /\ t = NodesOf(l) /\ j \in 1..Len(t) /\ t[j] = Current(l)
      BY <2>4, <1>6, CursorsAre
    <3>2. Cursors'[l] = Position(l, Current(l))'
      BY <2>4 DEF Cursors
    <3>3. Position(l, Current(l))' = PlaceIn(u, Current(l))
      <4>1. Position(l, Current(l))' = PlaceIn(NodesOf(l)', miter'[l].current)
        BY Zenon DEF Position, PlaceIn, Current
      <4>2. miter'[l].current = Current(l)
        BY DEF Current
      <4> QED BY <4>1, <4>2, <1>6
    <3> HIDE DEF j
    <3>4. PlaceIn(u, t[j]) = IF j >= i THEN j + 1 ELSE j
      BY <3>1, <1>1, <1>2, PlaceAfterInsert
    <3>5. Cursors'[l] = Shifted(j, i)
      BY <3>1, <3>2, <3>3, <3>4 DEF Shifted
    <3> QED BY <2>1, <3>1, <3>5, <1>3 DEF j
  <2> QED BY <2>2, <2>3, <2>4
<1>8. Light' = IF Light # Absent /\ Light.list = l THEN [Light EXCEPT !.pos = Shifted(Light.pos, i)] ELSE Light
  <2>1. CASE liter = Absent \/ liter.origin # l
    <3>1. Light' = Light
      BY <2>1, <1>4, RestSame
    <3>2. Light = Absent \/ Light.list # l
      BY <2>1, LightIs
    <3> QED BY <3>1, <3>2
  <2>2. CASE liter # Absent /\ liter.origin = l
    <3>1. PICK p : /\ ~RefCountIsShared(l) /\ Light # Absent
                   /\ Light = [list |-> l, pos |-> p] /\ Light.list = l /\ Light.pos = p
                   /\ liter.state # lists[l].state => p = 0
                   /\ liter.state = lists[l].state => p \in 1..Len(NodesOf(l)) /\ NodesOf(l)[p] = liter.current
      BY <2>2, LightIs
    <3>2. Light' = LightOf(liter, l, lists'[l], u)
      <4>1. liter' # Absent /\ liter'.origin = l
        BY <2>2
      <4>2. Light' = LightOf(liter', liter'.origin, lists'[liter'.origin], NodesOf(liter.origin)')
        BY <4>1, LightAs, Zenon
      <4>3. NodesOf(liter.origin)' = u
        BY <4>1, <1>6 DEF NodesOf
      <4> QED BY <4>1, <4>2, <4>3
    <3>3. Light' = [list |-> l, pos |-> Shifted(p, i)]
      <4>1. CASE liter.state # lists[l].state
        BY <4>1, <3>1, <3>2, <1>1 DEF LightOf, Shifted
      <4>2. CASE liter.state = lists[l].state
        <5>1. t = NodesOf(l) /\ p \in 1..Len(t) /\ t[p] = liter.current
          BY <4>2, <3>1, <1>6
        <5>2. PlaceIn(u, t[p]) = IF p >= i THEN p + 1 ELSE p
          BY <5>1, <1>1, <1>2, PlaceAfterInsert
        <5>3. PlaceIn(u, liter.current) = Shifted(p, i)
          BY <5>1, <5>2 DEF Shifted
        <5> HIDE DEF u
        <5> QED BY <4>2, <5>3, <3>2, <1>1 DEF LightOf
      <4> QED BY <4>1, <4>2
    <3>4. [Light EXCEPT !.pos = Shifted(Light.pos, i)] = [list |-> l, pos |-> Shifted(p, i)]
      <4> DEFINE q == Shifted(p, i)
      <4>1. q = Shifted(Light.pos, i)
        BY <3>1
      <4> HIDE DEF q
      <4>2. [Light EXCEPT !.pos = q] = [list |-> l, pos |-> q]
        BY <3>1
      <4> QED BY <4>1, <4>2 DEF q
    <3> QED BY <3>1, <3>3, <3>4
  <2> QED BY <2>1, <2>2
<1>9. Seqs' = [Seqs EXCEPT ![l] = InsertAt(c, i, x)]
  <2>1. Seqs' = [Seqs EXCEPT ![l] = Seqs'[l]]
    BY <1>4, RestSame
  <2> QED BY <2>1, <1>5
<1>10. Inserted(l, i, x) /\ Len(t) = Len(Seqs[l])
  BY <1>2, <1>3, <1>7, <1>8, <1>9 DEF Inserted
<1> QED BY <1>0, <1>10, Zenon

\* The abstract effect of a removal at position i of a list of n elements.
Closed(p, i, n) == IF p > i \/ (p = i /\ i = n) THEN p - 1 ELSE p

Deleted(l, i) ==
  /\ Seqs[l] # Absent /\ i \in 1..Len(Seqs[l])
  /\ Seqs' = [Seqs EXCEPT ![l] = RemoveAt(Seqs[l], i)]
  /\ Cursors' = IF Seqs[l] # Absent /\ Cursors[l] # Absent
                THEN [Cursors EXCEPT ![l] = Closed(Cursors[l], i, Len(Seqs[l]))] ELSE Cursors
  /\ Light' = IF Light # Absent /\ Light.list = l THEN [Light EXCEPT !.pos = 0] ELSE Light

LEMMA DeleteStep ==
  ASSUME ListInv, ListInv', NULL \notin Payloads, PointersStay, NEW l \in Lists, Live(l), NEW t, NEW i \in 1..Len(t),
         Shrank(l, t, i), NEW e, Aside(miter[l], t, i, e), miter' = [miter EXCEPT ![l] = e], liter' = liter, bound' = bound
  PROVE  Deleted(l, i)
<1> DEFINE u == RemoveAt(t, i)
           c == Seqs[l]
<1>1. /\ Copied(l, Detached(l), t) /\ Changed(l, u) /\ lists'[l].state = lists[l].state + 1
      /\ \A p \in Range(t) \ {t[i]} : heap'[p].payload = Detached(l).heap[p].payload
  BY DEF Shrank
<1>2. /\ t \in Seq(Nodes) /\ Once(t) /\ Len(t) = Len(c)
      /\ \A j \in 1..Len(t) : Look(bound.compare, Detached(l).heap[t[j]].payload) = c[j]
  BY <1>1, CopiedSame
<1>3. c # Absent /\ c \in Seq(Payloads \cup {Garbage})
  BY SeqsAre
<1>4. miter'[l] = e /\ \A k \in Lists \ {l} : Kept(k) /\ miter'[k] = miter[k]
  BY <1>1, ChangedKeeps DEF ListInv, IteratorsGood
<1>5. Seqs'[l] = RemoveAt(c, i)
  <2>1. Live(l)' /\ NodesOf(l)' = u
    BY <1>1 DEF Changed
  <2>2. Seqs'[l] = Contents(l)'
    BY <2>1 DEF Seqs
  <2>3. Contents(l)' = [j \in DOMAIN u |-> Look(bound.compare, heap'[u[j]].payload)]
    BY <2>1 DEF Contents, Seen, Look
  <2>4. /\ u \in Seq(Nodes) /\ Len(u) = Len(t) - 1 /\ Len(t) \in Nat
        /\ \A j \in 1..(Len(t) - 1) : u[j] = IF j < i THEN t[j] ELSE t[j + 1]
    <3>1. Len(t) \in Nat
      BY <1>2
    <3>2. u \in Seq(Nodes) /\ Len(u) = Len(t) - 1
      BY <1>2, RemovedAt
    <3>3. ASSUME NEW j \in 1..(Len(t) - 1) PROVE u[j] = IF j < i THEN t[j] ELSE t[j + 1]
      BY <1>2, RemovedAt
    <3> QED BY <3>1, <3>2, <3>3
  <2> DEFINE w == RemoveAt(c, i)
             S == Payloads \cup {Garbage}
  <2>5. /\ Len(w) = Len(t) - 1 /\ w = [j \in 1..(Len(t) - 1) |-> w[j]]
        /\ \A j \in 1..(Len(t) - 1) : w[j] = IF j < i THEN c[j] ELSE c[j + 1]
    <3>1. c \in Seq(S) /\ i \in 1..Len(c)
      BY <1>2, <1>3
    <3> HIDE DEF S, c
    <3>2. IsRemoved(c, i, RemoveAt(c, i))
      BY <3>1, RemoveGives, Zenon
    <3> QED BY <3>2, <1>2 DEF IsRemoved
  <2> HIDE DEF u, w, c
  <2>6. \A j \in 1..Len(t) : j # i => Look(bound.compare, heap'[t[j]].payload) = c[j]
    <3>1. \A j \in 1..Len(t) : t[j] \in Range(t) /\ (j # i => t[j] # t[i])
      BY <1>2, RangeOf DEF Once
    <3> QED BY <3>1, <1>1, <1>2
  <2>7. ASSUME NEW j \in 1..(Len(t) - 1) PROVE Look(bound.compare, heap'[u[j]].payload) = w[j]
    <3>1. CASE j < i
      <4>1. j \in 1..Len(t) /\ j # i
        BY <3>1, <2>4
      <4> QED BY <4>1, <3>1, <2>4, <2>5, <2>6
    <3>2. CASE j >= i
      <4>1. j + 1 \in 1..Len(t) /\ ~(j < i) /\ j + 1 # i
        BY <3>2, <2>4
      <4> QED BY <4>1, <2>4, <2>5, <2>6
    <3>3. j < i \/ j >= i
      BY <2>4
    <3> QED BY <3>1, <3>2, <3>3, Zenon
  <2>8. DOMAIN u = 1..(Len(t) - 1)
    BY <2>4
  <2>9. Contents(l)' = w
    BY <2>3, <2>5, <2>7, <2>8
  <2> QED BY <2>2, <2>9 DEF w
<1>6. NodesOf(l)' = u /\ (~RefCountIsShared(l) => t = NodesOf(l)) /\ Len(t) \in Nat
  BY <1>1, <1>2 DEF Changed, Copied
<1>7. Cursors' = IF c # Absent /\ Cursors[l] # Absent
                 THEN [Cursors EXCEPT ![l] = Closed(Cursors[l], i, Len(c))] ELSE Cursors
  <2>1. Cursors' = [Cursors EXCEPT ![l] = Cursors'[l]]
    BY <1>4, RestSame
  <2>2. CASE miter[l] = Absent
    <3>1. Cursors[l] = Absent /\ Cursors'[l] = Absent
      BY <2>2, <1>4 DEF Cursors, Aside
    <3>2. Cursors = [k \in Lists |-> Cursors[k]]
      BY DEF Cursors
    <3>3. Cursors' = Cursors
      BY <2>1, <3>1, <3>2
    <3> QED BY <3>1, <3>3
  <2>3. CASE miter[l] # Absent /\ ~miter[l].valid
    <3>1. Cursors[l] = 0 /\ Cursors[l] # Absent
      BY <2>3, CursorsAre
    <3>2. Cursors'[l] = 0
      BY <2>3, <1>4 DEF Cursors, Aside
    <3>3. Cursors'[l] = Closed(Cursors[l], i, Len(c))
      BY <3>1, <3>2, <1>2, <1>6 DEF Closed
    <3> QED BY <2>1, <3>1, <3>3, <1>3
  <2>4. CASE miter[l] # Absent /\ miter[l].valid
    <3> DEFINE j == Cursors[l]
    <3>1. /\ j # Absent /\ t = NodesOf(l) /\ j \in 1..Len(t) /\ t[j] = Current(l) /\ Current(l) = miter[l].current
      BY <2>4, <1>6, CursorsAre DEF Current
    <3>2. /\ e # Absent
          /\ j # i => t[j] # t[i]
          /\ t[j] # t[i] => e.valid /\ e.current = t[j]
          /\ t[j] = t[i] /\ Len(t) = 1 => ~e.valid
          /\ t[j] = t[i] /\ Len(t) # 1 => e.valid /\ e.current = IF i = Len(t) THEN t[i - 1] ELSE t[i + 1]
      BY <2>4, <3>1, <1>2 DEF Aside, Once
    <3>3. (~e.valid => Cursors'[l] = 0) /\ (e.valid => Cursors'[l] = PlaceIn(u, e.current))
      <4>1. Position(l, Current(l))' = PlaceIn(NodesOf(l)', miter'[l].current)
        BY Zenon DEF Position, PlaceIn, Current
      <4>2. Position(l, Current(l))' = PlaceIn(u, e.current)
        BY <4>1, <1>4, <1>6
      <4>3. miter'[l] # Absent /\ (miter'[l].valid <=> e.valid)
        BY <3>2, <1>4
      <4> HIDE DEF u
      <4> QED BY <4>2, <4>3 DEF Cursors
    <3>4. \A k \in 1..Len(t) : k # i => PlaceIn(u, t[k]) = IF k > i THEN k - 1 ELSE k
      BY <1>2, PlaceAfterRemove
    <3> HIDE DEF j, u, c
    <3>5. CASE j # i
      <4>1. Cursors'[l] = IF j > i THEN j - 1 ELSE j
        BY <3>1, <3>2, <3>3, <3>4, <3>5
      <4> QED BY <2>1, <3>1, <4>1, <1>3, <3>5 DEF Closed, j
    <3>6. CASE j = i /\ Len(t) = 1
      <4>1. Cursors'[l] = 0 /\ j = 1 /\ i = Len(t)
        BY <3>1, <3>2, <3>3, <3>6
      <4>2. Closed(j, i, Len(c)) = 0
        <5>1. j = 1 /\ i = 1 /\ Len(c) = 1
          BY <4>1, <3>6, <1>2
        <5> QED BY <5>1 DEF Closed
      <4> QED BY <2>1, <3>1, <4>1, <4>2, <1>3 DEF j
    <3>7. CASE j = i /\ Len(t) # 1 /\ i = Len(t)
      <4>1. i - 1 \in 1..Len(t) /\ i - 1 # i /\ ~(i - 1 > i)
        BY <3>7, <1>6
      <4>2. Cursors'[l] = i - 1
        BY <3>2, <3>3, <3>4, <3>7, <4>1
      <4>3. Closed(j, i, Len(c)) = i - 1
        BY <3>7, <1>2 DEF Closed
      <4> QED BY <2>1, <3>1, <4>2, <4>3, <1>3 DEF j
    <3>8. CASE j = i /\ Len(t) # 1 /\ i # Len(t)
      <4>1. i + 1 \in 1..Len(t) /\ i + 1 # i /\ i + 1 > i /\ (i + 1) - 1 = i
        BY <3>8, <1>6
      <4>2. Cursors'[l] = i
        BY <3>2, <3>3, <3>4, <3>8, <4>1
      <4>3. Closed(j, i, Len(c)) = i
        BY <3>8, <1>2, <1>6 DEF Closed
      <4> QED BY <2>1, <3>1, <4>2, <4>3, <1>3 DEF j
    <3> QED BY <3>5, <3>6, <3>7, <3>8
  <2> QED BY <2>2, <2>3, <2>4
<1>8. Light' = IF Light # Absent /\ Light.list = l THEN [Light EXCEPT !.pos = 0] ELSE Light
  <2>1. CASE liter = Absent \/ liter.origin # l
    <3>1. Light' = Light
      BY <2>1, <1>4, RestSame
    <3>2. Light = Absent \/ Light.list # l
      BY <2>1, LightIs
    <3> QED BY <3>1, <3>2
  <2>2. CASE liter # Absent /\ liter.origin = l
    <3>1. PICK p : /\ Light # Absent /\ Light = [list |-> l, pos |-> p] /\ Light.list = l
      BY <2>2, LightIs
    <3>2. liter.state \in Nat /\ lists[l].state \in Nat /\ liter.state <= lists[l].state
      <4>1. liter.state \in Nat /\ liter.state <= lists[l].state
        BY <2>2 DEF ListInv, IteratorsGood
      <4>2. lists[l].state \in Nat
        BY GoodListIs DEF ListInv
      <4> QED BY <4>1, <4>2
    <3>3. liter.state # lists'[l].state
      BY <3>2, <1>1
    <3>4. Light' = LightOf(liter, l, lists'[l], u)
      <4>1. liter' # Absent /\ liter'.origin = l
        BY <2>2
      <4>2. Light' = LightOf(liter', liter'.origin, lists'[liter'.origin], NodesOf(liter.origin)')
        BY <4>1, LightAs, Zenon
      <4>3. NodesOf(liter.origin)' = u
        BY <4>1, <1>6 DEF NodesOf
      <4> QED BY <4>1, <4>2, <4>3
    <3>5. Light' = [list |-> l, pos |-> 0]
      BY <3>3, <3>4 DEF LightOf
    <3> QED BY <3>1, <3>5
  <2> QED BY <2>1, <2>2
<1>9. Seqs' = [Seqs EXCEPT ![l] = RemoveAt(c, i)]
  BY <1>4, <1>5, RestSame
<1> QED BY <1>2, <1>3, <1>7, <1>8, <1>9 DEF Deleted

\* Creating, destroying and copying lists leaves the iterators alone.
LEMMA SeqsOnly ==
  ASSUME ListInv, NEW d \in Lists, \A k \in Lists \ {d} : Kept(k), miter' = miter, liter' = liter,
         bound' = bound, ~Live(d) \/ ~Iterated(d)
  PROVE  Seqs' = [Seqs EXCEPT ![d] = Seqs'[d]] /\ Cursors' = Cursors /\ Light' = Light
<1>1. miter[d] = Absent /\ (liter = Absent \/ liter.origin # d)
  BY DEF ListInv, IteratorsGood, Iterated
<1>2. \A k \in Lists \ {d} : Kept(k) /\ miter'[k] = miter[k]
  OBVIOUS
<1>3. /\ Seqs' = [Seqs EXCEPT ![d] = Seqs'[d]]
      /\ Cursors' = [Cursors EXCEPT ![d] = Cursors'[d]]
      /\ Light' = Light
  BY <1>1, <1>2, RestSame
<1>4. Cursors[d] = Absent /\ Cursors'[d] = Absent /\ Cursors = [k \in Lists |-> Cursors[k]]
  BY <1>1 DEF Cursors
<1>5. Cursors' = Cursors
  BY <1>3, <1>4
<1> QED BY <1>3, <1>5

LEMMA NewSeqs ==
  ASSUME ListInv, AbsentIsNoList, NEW l \in Lists, ListNew(l)
  PROVE  Seqs[l] = Absent /\ Seqs' = [Seqs EXCEPT ![l] = <<>>] /\ Cursors' = Cursors /\ Light' = Light
<1>1. ~Live(l) /\ miter' = miter /\ liter' = liter /\ bound' = bound
  BY DEF ListNew
<1>2. Changed(l, <<>>)
  BY NewIs DEF ListInv
<1>3. Seqs' = [Seqs EXCEPT ![l] = Seqs'[l]] /\ Cursors' = Cursors /\ Light' = Light
  BY <1>1, <1>2, ChangedKeeps, SeqsOnly
<1>4. Live(l)' /\ NodesOf(l)' = <<>>
  BY <1>2 DEF Changed
<1>5. Seqs'[l] = Contents(l)'
  BY <1>4 DEF Seqs
<1>6. Contents(l)' = [j \in DOMAIN <<>> |-> Seen(heap[<<>>[j]].payload)']
  BY <1>4 DEF Contents
<1>7. Contents(l)' = <<>>
  BY <1>6
<1>8. Seqs[l] = Absent
  BY <1>1 DEF Seqs
<1> QED BY <1>3, <1>5, <1>7, <1>8

LEMMA DestroySeqs ==
  ASSUME ListInv, NEW l \in Lists, ListDestroy(l)
  PROVE  Seqs[l] # Absent /\ Seqs' = [Seqs EXCEPT ![l] = Absent] /\ Cursors' = Cursors /\ Light' = Light
<1>1. Live(l) /\ ~Iterated(l) /\ ~Live(l)' /\ \A k \in Lists \ {l} : Kept(k)
  BY DestroyIs DEF ListInv
<1>2. miter' = miter /\ liter' = liter /\ bound' = bound
  BY DEF ListDestroy
<1>3. Seqs' = [Seqs EXCEPT ![l] = Seqs'[l]] /\ Cursors' = Cursors /\ Light' = Light
  BY <1>1, <1>2, SeqsOnly
<1>4. Seqs[l] # Absent
  BY <1>1, SeqsAre
<1>5. Seqs'[l] = Absent
  BY <1>1 DEF Seqs
<1> QED BY <1>3, <1>4, <1>5

LEMMA CopySeqs ==
  ASSUME ListInv, NEW o \in Lists, NEW d \in Lists, ListCopy(o, d)
  PROVE  /\ Seqs[o] # Absent /\ Seqs[d] = Absent /\ Seqs' = [Seqs EXCEPT ![d] = Seqs[o]]
         /\ Cursors' = Cursors /\ Light' = Light
<1>1. /\ Live(o) /\ ~Live(d) /\ Live(d)' /\ heap' = heap /\ NodesOf(d)' = NodesOf(o)
      /\ \A k \in Lists \ {d} : Kept(k)
  BY CopyIs DEF ListInv
<1>2. miter' = miter /\ liter' = liter /\ bound' = bound
  BY DEF ListCopy
<1>3. Seqs' = [Seqs EXCEPT ![d] = Seqs'[d]] /\ Cursors' = Cursors /\ Light' = Light
  BY <1>1, <1>2, SeqsOnly
<1>4. Seqs[o] # Absent /\ Seqs[o] = Contents(o)
  BY <1>1, SeqsAre
<1>5. Seqs'[d] = Contents(d)' /\ Seqs[d] = Absent
  BY <1>1 DEF Seqs
<1>6. Contents(d)' = Contents(o)
  BY <1>1, <1>2 DEF Contents, Seen
<1> QED BY <1>3, <1>4, <1>5, <1>6

\* The iterators leave the lists alone.
LEMMA IteratorsOnly ==
  ASSUME UNCHANGED <<heap, allocated, lists, refs, bound>>
  PROVE  Seqs' = Seqs /\ (miter' = miter => Cursors' = Cursors) /\ (liter' = liter => Light' = Light)
<1>1. Seqs' = Seqs
  BY DEF Seqs, Live, Contents, Seen, NodesOf
<1>2. miter' = miter => Cursors' = Cursors
  BY DEF Cursors, Position, Current, NodesOf
<1>3. liter' = liter => Light' = Light
  BY DEF Light, LightValid, Position, NodesOf
<1> QED BY <1>1, <1>2, <1>3

\* Where First, Last, Next and Previous can lead from position i.
LEMMA Moves ==
  ASSUME ListInv, NEW l \in Lists, Live(l), NEW i \in 1..Len(NodesOf(l)),
         NEW p \in {lists[l].first, lists[l].last, heap[NodesOf(l)[i]].next, heap[NodesOf(l)[i]].previous} \ {NULL}
  PROVE  \E q \in 1..Len(NodesOf(l)) : /\ q \in {1, Len(NodesOf(l)), i + 1, i - 1}
                                       /\ p = NodesOf(l)[q] /\ PlaceIn(NodesOf(l), p) = q
<1> DEFINE s == NodesOf(l)
<1>1. Linked(heap, lists[l].first, lists[l].last, s) /\ s \in Seq(Nodes) /\ Once(s) /\ Len(s) \in Nat
  BY GoodListIs DEF ListInv
<1>2. /\ heap[s[i]].next = (IF i = Len(s) THEN NULL ELSE s[i + 1])
      /\ heap[s[i]].previous = (IF i = 1 THEN NULL ELSE s[i - 1])
      /\ lists[l].first = s[1] /\ lists[l].last = s[Len(s)]
  BY <1>1 DEF Linked
<1> HIDE DEF s
<1>3. \E q \in 1..Len(s) : q \in {1, Len(s), i + 1, i - 1} /\ p = s[q]
  <2>0. i \in 1..Len(s) /\ p # NULL
    BY DEF s
  <2>1. CASE p = lists[l].first
    BY <2>0, <2>1, <1>1, <1>2
  <2>2. CASE p = lists[l].last
    BY <2>0, <2>2, <1>1, <1>2
  <2>3. CASE p = heap[s[i]].next
    <3>1. i + 1 \in 1..Len(s) /\ p = s[i + 1]
      BY <2>0, <2>3, <1>1, <1>2
    <3> QED BY <3>1
  <2>4. CASE p = heap[s[i]].previous
    <3>1. i - 1 \in 1..Len(s) /\ p = s[i - 1]
      BY <2>0, <2>4, <1>1, <1>2
    <3> QED BY <3>1
  <2> QED BY <2>1, <2>2, <2>3, <2>4 DEF s
<1>4. \A q \in 1..Len(s) : PlaceIn(s, s[q]) = q
  BY <1>1, PlaceIs
<1>5. PICK q \in 1..Len(s) : q \in {1, Len(s), i + 1, i - 1} /\ p = s[q] /\ PlaceIn(s, p) = q
  BY <1>3, <1>4
<1> QED BY <1>5 DEF s

\* The first node of a list that is not empty.
LEMMA FirstIs ==
  ASSUME ListInv, NEW l \in Lists, Live(l), lists[l].first # NULL
  PROVE  /\ Seqs[l] # Absent /\ Seqs[l] # <<>> /\ 1 \in 1..Len(NodesOf(l))
         /\ PlaceIn(NodesOf(l), lists[l].first) = 1
<1> DEFINE s == NodesOf(l)
<1>1. Linked(heap, lists[l].first, lists[l].last, s) /\ s \in Seq(Nodes) /\ Once(s) /\ Len(s) \in Nat
  BY GoodListIs DEF ListInv
<1>2. Len(s) # 0 /\ lists[l].first = s[1]
  BY <1>1 DEF Linked
<1>3. 1 \in 1..Len(s) /\ PlaceIn(s, s[1]) = 1
  BY <1>1, <1>2, PlaceIs
<1>4. Seqs[l] # Absent /\ Len(Seqs[l]) = Len(s)
  BY SeqsAre
<1>5. Seqs[l] # <<>>
  BY <1>2, <1>4
<1> QED BY <1>2, <1>3, <1>4, <1>5

\* The step of a mutable iterator that becomes e.
LEMMA CursorStep ==
  ASSUME ListInv, NEW l \in Lists, UNCHANGED <<heap, allocated, lists, refs, bound>>,
         NEW e, miter' = [miter EXCEPT ![l] = e]
  PROVE  /\ Cursors' = [Cursors EXCEPT ![l] = Cursors'[l]]
         /\ e = Absent => Cursors'[l] = Absent
         /\ e # Absent /\ e.valid => Cursors'[l] = PlaceIn(NodesOf(l), e.current)
<1>1. miter'[l] = e /\ \A k \in Lists \ {l} : miter'[k] = miter[k]
  BY DEF ListInv, IteratorsGood
<1>2. \A k \in Lists : NodesOf(k)' = NodesOf(k) /\ OwnNodes(k)' = OwnNodes(k) /\ (Live(k)' <=> Live(k))
  BY SameLists
<1>3. \A k \in Lists : Kept(k)
  BY <1>2, Zenon DEF Kept
<1>9. bound' = bound
  OBVIOUS
<1>4. Cursors' = [Cursors EXCEPT ![l] = Cursors'[l]]
  BY <1>1, <1>3, <1>9, RestSame
<1>5. Position(l, Current(l))' = PlaceIn(NodesOf(l)', miter'[l].current)
  BY Zenon DEF Position, PlaceIn, Current
<1>6. Position(l, Current(l))' = PlaceIn(NodesOf(l), e.current)
  BY <1>1, <1>2, <1>5
<1>7. e = Absent => Cursors'[l] = Absent
  BY <1>1 DEF Cursors
<1>8. e # Absent /\ e.valid => Cursors'[l] = PlaceIn(NodesOf(l), e.current)
  BY <1>1, <1>6 DEF Cursors
<1> QED BY <1>4, <1>7, <1>8

LEMMA OpenCursorStep ==
  ASSUME ListInv, NEW l \in Lists, ListMutableIteratorGet(l)
  PROVE  /\ Seqs[l] # Absent /\ Cursors[l] = Absent /\ Seqs[l] # <<>>
         /\ Cursors' = [Cursors EXCEPT ![l] = 1] /\ Seqs' = Seqs /\ Light' = Light
<1> DEFINE yes == TRUE
           e == [current |-> lists[l].first, valid |-> yes]
<1>1. /\ Live(l) /\ miter[l] = Absent /\ lists[l].first # NULL /\ liter' = liter
      /\ UNCHANGED <<heap, allocated, lists, refs, bound>> /\ miter' = [miter EXCEPT ![l] = e]
  BY DEF ListMutableIteratorGet
<1>2. yes
  OBVIOUS
<1> HIDE DEF yes
<1>3. e.valid = yes /\ e.current = lists[l].first /\ e \in [current : {lists[l].first}, valid : {yes}]
  OBVIOUS
<1>4. lists[l].first \in Nodes /\ yes \in BOOLEAN /\ Nodes \in SUBSET Nat
  <2>1. lists[l].first \in Nodes
    BY <1>1, GoodListIs DEF ListInv, ListRecords
  <2> QED BY <2>1, <1>2, NodeFacts DEF yes
<1>5. e # Absent
  BY <1>3, <1>4, ListAssumption
<1> HIDE DEF e
<1>6. Cursors' = [Cursors EXCEPT ![l] = Cursors'[l]] /\ Cursors'[l] = PlaceIn(NodesOf(l), e.current)
  BY <1>1, <1>2, <1>3, <1>5, CursorStep
<1>7. Seqs[l] # Absent /\ Seqs[l] # <<>> /\ PlaceIn(NodesOf(l), lists[l].first) = 1
  BY <1>1, FirstIs
<1>8. Cursors[l] = Absent
  BY <1>1, CursorsAre
<1>9. Seqs' = Seqs /\ Light' = Light
  BY <1>1, IteratorsOnly
<1> QED BY <1>3, <1>6, <1>7, <1>8, <1>9

LEMMA CloseCursorStep ==
  ASSUME ListInv, NEW l \in Lists, ListMutableIteratorRelease(l)
  PROVE  /\ Seqs[l] # Absent /\ Cursors[l] # Absent
         /\ Cursors' = [Cursors EXCEPT ![l] = Absent] /\ Seqs' = Seqs /\ Light' = Light
<1>1. /\ miter[l] # Absent /\ liter' = liter
      /\ UNCHANGED <<heap, allocated, lists, refs, bound>> /\ miter' = [miter EXCEPT ![l] = Absent]
  BY DEF ListMutableIteratorRelease
<1>2. Cursors' = [Cursors EXCEPT ![l] = Cursors'[l]] /\ Cursors'[l] = Absent
  BY <1>1, CursorStep
<1>3. Cursors[l] # Absent /\ Seqs[l] # Absent
  BY <1>1, CursorsAre, SeqsAre
<1>4. Seqs' = Seqs /\ Light' = Light
  BY <1>1, IteratorsOnly
<1> QED BY <1>2, <1>3, <1>4

\* A valid mutable cursor of the abstract list.
OnElement(l, i) ==
  /\ Seqs[l] # Absent /\ Cursors[l] # Absent /\ Cursors[l] = i /\ i # 0
  /\ Len(Seqs[l]) = Len(NodesOf(l)) /\ i \in 1..Len(NodesOf(l)) /\ NodesOf(l)[i] = Current(l)

LEMMA ValidCursor ==
  ASSUME ListInv, NEW l \in Lists, MutableValid(l)
  PROVE  Live(l) /\ \E i : OnElement(l, i)
<1>1. miter[l] # Absent /\ miter[l].valid
  BY DEF MutableValid
<1>2. /\ Live(l) /\ Cursors[l] # Absent
      /\ Cursors[l] \in 1..Len(NodesOf(l)) /\ NodesOf(l)[Cursors[l]] = Current(l)
  BY <1>1, CursorsAre
<1>3. Seqs[l] # Absent /\ Len(Seqs[l]) = Len(NodesOf(l))
  BY <1>2, SeqsAre
<1>4. Cursors[l] # 0
  BY <1>2
<1>5. OnElement(l, Cursors[l])
  BY <1>2, <1>3, <1>4 DEF OnElement
<1> QED BY <1>2, <1>5

LEMMA MoveCursorStep ==
  ASSUME ListInv, NEW l \in Lists, MoveMutable(l)
  PROVE  /\ Seqs[l] # Absent /\ Cursors[l] # Absent /\ Cursors[l] # 0
         /\ \E q \in 1..Len(Seqs[l]) : /\ q \in {1, Len(Seqs[l]), Cursors[l] + 1, Cursors[l] - 1}
                                       /\ Cursors' = [Cursors EXCEPT ![l] = q]
         /\ Seqs' = Seqs /\ Light' = Light
<1>1. /\ MutableValid(l) /\ liter' = liter
      /\ UNCHANGED <<heap, allocated, lists, refs, bound>>
  BY DEF MoveMutable
<1>2. PICK p \in {lists[l].first, lists[l].last, heap[Current(l)].next, heap[Current(l)].previous} \ {NULL} :
        miter' = [miter EXCEPT ![l].current = p]
  BY DEF MoveMutable
<1>3. Live(l)
  BY <1>1, ValidCursor
<1>4. PICK i : OnElement(l, i)
  BY <1>1, ValidCursor
<1>5. i \in 1..Len(NodesOf(l)) /\ NodesOf(l)[i] = Current(l)
  BY <1>4 DEF OnElement
<1>6. PICK q \in 1..Len(NodesOf(l)) : /\ q \in {1, Len(NodesOf(l)), i + 1, i - 1}
                                      /\ p = NodesOf(l)[q] /\ PlaceIn(NodesOf(l), p) = q
  BY <1>2, <1>3, <1>5, Moves
<1>7. PICK e : /\ miter' = [miter EXCEPT ![l] = e] /\ e # Absent /\ e.valid /\ e.current = p
  <2> DEFINE it == miter[l]
  <2>1. it \in [current : Nodes, valid : BOOLEAN] /\ it.valid
    BY <1>1 DEF MutableValid, ListInv, IteratorsGood
  <2>2. miter' = [miter EXCEPT ![l] = [it EXCEPT !.current = p]]
    BY <1>2
  <2>3. p \in Nodes
    BY <1>3, <1>6, GoodListIs DEF ListInv
  <2> HIDE DEF it
  <2> DEFINE e == [it EXCEPT !.current = p]
  <2>4. e \in [current : Nodes, valid : BOOLEAN] /\ e.valid = it.valid /\ e.current = p
    BY <2>1, <2>3
  <2>5. Absent \notin [current : Nodes, valid : BOOLEAN]
    BY ListAssumption, NodeFacts
  <2>6. miter' = [miter EXCEPT ![l] = e]
    BY <2>2
  <2> HIDE DEF e
  <2>7. e # Absent /\ e.valid
    BY <2>1, <2>4, <2>5
  <2> QED BY <2>4, <2>6, <2>7
<1>8. Cursors' = [Cursors EXCEPT ![l] = Cursors'[l]] /\ Cursors'[l] = PlaceIn(NodesOf(l), e.current)
  BY <1>1, <1>7, CursorStep
<1>9. Seqs' = Seqs /\ Light' = Light
  BY <1>1, IteratorsOnly
<1>10. Cursors' = [Cursors EXCEPT ![l] = q]
  BY <1>6, <1>7, <1>8
<1>11. q \in 1..Len(Seqs[l]) /\ q \in {1, Len(Seqs[l]), Cursors[l] + 1, Cursors[l] - 1}
  BY <1>4, <1>6 DEF OnElement
<1> QED BY <1>4, <1>9, <1>10, <1>11 DEF OnElement

LEMMA OpenLightStep ==
  ASSUME ListInv, NEW l \in Lists, ListIteratorGet(l)
  PROVE  /\ Seqs[l] # Absent /\ Light = Absent /\ Seqs[l] # <<>>
         /\ Light' = [list |-> l, pos |-> 1] /\ Seqs' = Seqs /\ Cursors' = Cursors
<1>1. /\ Live(l) /\ liter = Absent /\ lists[l].first # NULL /\ miter' = miter
      /\ UNCHANGED <<heap, allocated, lists, refs, bound>>
      /\ liter' = [origin |-> l, current |-> lists[l].first, state |-> lists[l].state]
  BY DEF ListIteratorGet
<1>2. Seqs[l] # Absent /\ Seqs[l] # <<>> /\ PlaceIn(NodesOf(l), lists[l].first) = 1
  BY <1>1, FirstIs
<1>3. liter' # Absent
  <2>1. lists[l].first \in Nodes /\ lists[l].state \in Nat
    BY <1>1, GoodListIs DEF ListInv, ListRecords
  <2>2. liter' \in [origin : Lists, current : Nat, state : Nat]
    BY <2>1, <1>1, NodeFacts
  <2> QED BY <2>2, ListAssumption
<1>4. Light' = LightOf(liter', liter'.origin, lists'[liter'.origin], NodesOf(liter.origin)')
  BY <1>3, LightAs, Zenon
<1>5. NodesOf(liter.origin)' = NodesOf(l)
  BY <1>1 DEF NodesOf
<1>6. Light' = [list |-> l, pos |-> 1]
  BY <1>1, <1>2, <1>4, <1>5 DEF LightOf
<1>7. Seqs' = Seqs /\ Cursors' = Cursors
  BY <1>1, IteratorsOnly
<1>8. Light = Absent
  BY <1>1 DEF Light
<1> QED BY <1>2, <1>6, <1>7, <1>8

LEMMA CloseLightStep ==
  ASSUME ListInv, ListIteratorDestroy
  PROVE  Light # Absent /\ Light' = Absent /\ Seqs' = Seqs /\ Cursors' = Cursors
<1>1. liter # Absent /\ liter' = Absent /\ miter' = miter /\ UNCHANGED <<heap, allocated, lists, refs, bound>>
  BY DEF ListIteratorDestroy
<1>2. Light # Absent
  BY <1>1, LightIs
<1>3. Light' = Absent
  BY <1>1 DEF Light
<1> QED BY <1>1, <1>2, <1>3, IteratorsOnly

LEMMA MoveLightStep ==
  ASSUME ListInv, MoveLight
  PROVE  /\ Light # Absent /\ Light.pos # 0
         /\ \E q \in 1..Len(Seqs[Light.list]) :
              /\ q \in {1, Len(Seqs[Light.list]), Light.pos + 1, Light.pos - 1}
              /\ Light' = [Light EXCEPT !.pos = q]
         /\ Seqs' = Seqs /\ Cursors' = Cursors
<1>1. LightValid(liter) /\ miter' = miter /\ UNCHANGED <<heap, allocated, lists, refs, bound>>
  BY DEF MoveLight
<1>2. PICK p \in {lists[liter.origin].first, lists[liter.origin].last,
                  heap[liter.current].next, heap[liter.current].previous} \ {NULL} :
        liter' = [liter EXCEPT !.current = p]
  BY DEF MoveLight
<1>3. liter # Absent /\ liter.state = lists[liter.origin].state
  BY <1>1 DEF LightValid
<1>4. PICK o, i : /\ o = liter.origin /\ o \in Lists /\ Live(o)
                  /\ Light = [list |-> o, pos |-> i] /\ Light.list = o /\ Light.pos = i
                  /\ i \in 1..Len(NodesOf(o)) /\ NodesOf(o)[i] = liter.current
  BY <1>3, LightIs
<1>5. PICK q \in 1..Len(NodesOf(o)) : /\ q \in {1, Len(NodesOf(o)), i + 1, i - 1}
                                      /\ p = NodesOf(o)[q] /\ PlaceIn(NodesOf(o), p) = q
  BY <1>2, <1>4, Moves
<1>6. liter \in [origin : Lists, current : Nodes, state : Nat]
  BY <1>3 DEF ListInv, IteratorsGood
<1>7. p \in Nodes
  BY <1>4, <1>5, GoodListIs DEF ListInv
<1>8. /\ liter'.origin = o /\ liter'.current = p /\ liter'.state = liter.state
      /\ liter' \in [origin : Lists, current : Nodes, state : Nat]
  BY <1>2, <1>4, <1>6, <1>7
<1>9. liter' # Absent
  BY <1>8, ListAssumption, NodeFacts
<1>10. Light' = LightOf(liter', liter'.origin, lists'[liter'.origin], NodesOf(liter.origin)')
  BY <1>9, LightAs, Zenon
<1>11. NodesOf(liter.origin)' = NodesOf(o)
  BY <1>1, <1>8 DEF NodesOf
<1>12. Light' = [list |-> o, pos |-> q]
  BY <1>1, <1>3, <1>4, <1>5, <1>8, <1>10, <1>11 DEF LightOf
<1>13. Light' = [Light EXCEPT !.pos = q]
  BY <1>4, <1>12
<1>14. Seqs' = Seqs /\ Cursors' = Cursors
  BY <1>1, IteratorsOnly
<1>15. Light # Absent /\ Light.pos # 0 /\ Len(Seqs[Light.list]) = Len(NodesOf(o))
  <2>1. Light # Absent
    BY <1>3, LightIs
  <2>2. Len(Seqs[o]) = Len(NodesOf(o))
    BY <1>4, SeqsAre
  <2> QED BY <2>1, <2>2, <1>4
<1> QED BY <1>4, <1>5, <1>13, <1>14, <1>15

\* The additions and removals, by their positions.
LEMMA PrependStep ==
  ASSUME ListInv, ListInv', AbsentIsNoList, NULL \notin Payloads, PointersStay, NEW l \in Lists, NEW x \in Payloads,
         ListPrepend(l, x)
  PROVE  Inserted(l, 1, Seen(x))
<1>1. Live(l) /\ miter' = miter /\ liter' = liter /\ bound' = bound
  BY DEF ListPrepend, MayGrow
<1>2. PICK t, n : Grew(l, t, 1, n, x)
  BY PrependIs
<1>3. Len(t) \in Nat
  BY <1>1, <1>2, CopiedSame DEF Grew
<1>4. 1 \in 1..(Len(t) + 1)
  BY <1>3
<1> QED BY <1>1, <1>2, <1>4, InsertStep

LEMMA AppendStep ==
  ASSUME ListInv, ListInv', AbsentIsNoList, NULL \notin Payloads, PointersStay, NEW l \in Lists, NEW x \in Payloads,
         ListAppend(l, x)
  PROVE  Inserted(l, Len(Seqs[l]) + 1, Seen(x))
<1>1. Live(l) /\ miter' = miter /\ liter' = liter /\ bound' = bound
  BY DEF ListAppend, MayGrow
<1>2. PICK t, n : Grew(l, t, Len(t) + 1, n, x)
  BY AppendIs
<1>3. Len(t) \in Nat
  BY <1>1, <1>2, CopiedSame DEF Grew
<1>4. PICK i : i = Len(t) + 1 /\ i \in 1..(Len(t) + 1)
  BY <1>3
<1>5. Grew(l, t, i, n, x)
  BY <1>2, <1>4
<1>6. Inserted(l, i, Seen(x)) /\ Len(t) = Len(Seqs[l])
  BY <1>1, <1>4, <1>5, InsertStep
<1> QED BY <1>4, <1>6

\* The mutable iterator's position.
LEMMA CursorPosition ==
  ASSUME ListInv, NEW l \in Lists, NEW s, NEW i, CursorAt(l, s, i)
  PROVE  /\ Live(l) /\ Seqs[l] # Absent /\ Cursors[l] # Absent /\ Cursors[l] = i /\ i # 0
         /\ s \in Seq(Nodes) /\ Len(s) \in Nat /\ i \in 1..Len(s) /\ Len(Seqs[l]) = Len(s)
<1>1. s = NodesOf(l) /\ i \in 1..Len(s) /\ s[i] = Current(l) /\ miter[l] # Absent /\ miter[l].valid
  BY DEF CursorAt
<1>2. /\ Live(l) /\ Cursors[l] # Absent /\ Cursors[l] \in 1..Len(s) /\ s[Cursors[l]] = Current(l)
  BY <1>1, CursorsAre
<1>3. Seqs[l] # Absent /\ Len(Seqs[l]) = Len(s)
  BY <1>1, <1>2, SeqsAre
<1>4. s \in Seq(Nodes) /\ Once(s) /\ Len(s) \in Nat
  BY <1>1, <1>2, GoodListIs DEF ListInv
<1>5. Cursors[l] = i
  BY <1>1, <1>2, <1>4 DEF Once
<1>6. i # 0
  BY <1>1
<1> QED BY <1>1, <1>2, <1>3, <1>4, <1>5, <1>6

LEMMA CursorPrependStep ==
  ASSUME ListInv, ListInv', AbsentIsNoList, NULL \notin Payloads, PointersStay, NEW l \in Lists, NEW x \in Payloads,
         ListMutableIteratorPrepend(l, x)
  PROVE  Seqs[l] # Absent /\ Cursors[l] # Absent /\ Cursors[l] # 0 /\ Inserted(l, Cursors[l], Seen(x))
<1>1. miter' = miter /\ liter' = liter /\ bound' = bound
  BY DEF ListMutableIteratorPrepend
<1>2. PICK s, i, n : CursorAt(l, s, i) /\ Grew(l, s, i, n, x)
  BY CursorPrependIs
<1>3. /\ Live(l) /\ Seqs[l] # Absent /\ Cursors[l] # Absent /\ Cursors[l] = i /\ i # 0
      /\ Len(s) \in Nat /\ i \in 1..Len(s)
  BY <1>2, CursorPosition
<1>4. i \in 1..(Len(s) + 1)
  BY <1>3
<1>5. Inserted(l, i, Seen(x))
  BY <1>1, <1>2, <1>3, <1>4, InsertStep
<1> QED BY <1>3, <1>5

LEMMA CursorAppendStep ==
  ASSUME ListInv, ListInv', AbsentIsNoList, NULL \notin Payloads, PointersStay, NEW l \in Lists, NEW x \in Payloads,
         ListMutableIteratorAppend(l, x)
  PROVE  Seqs[l] # Absent /\ Cursors[l] # Absent /\ Cursors[l] # 0 /\ Inserted(l, Cursors[l] + 1, Seen(x))
<1>1. miter' = miter /\ liter' = liter /\ bound' = bound
  BY DEF ListMutableIteratorAppend
<1>2. PICK s, i, n : CursorAt(l, s, i) /\ Grew(l, s, i + 1, n, x)
  BY CursorAppendIs
<1>3. /\ Live(l) /\ Seqs[l] # Absent /\ Cursors[l] # Absent /\ Cursors[l] = i /\ i # 0
      /\ Len(s) \in Nat /\ i \in 1..Len(s)
  BY <1>2, CursorPosition
<1>4. PICK j : j = i + 1 /\ j \in 1..(Len(s) + 1)
  BY <1>3
<1>5. Grew(l, s, j, n, x)
  BY <1>2, <1>4
<1>6. Inserted(l, j, Seen(x))
  BY <1>1, <1>3, <1>4, <1>5, InsertStep
<1> QED BY <1>3, <1>4, <1>6

LEMMA RemoveStep ==
  ASSUME ListInv, ListInv', AbsentIsNoList, NULL \notin Payloads, PointersStay, NEW l \in Lists,
         NEW x \in Payloads \ {NULL}, ListRemove(l, x)
  PROVE  /\ Seqs[l] # Absent
         /\ \E i \in 1..Len(Seqs[l]) : /\ Seqs[l][i] = Seen(x) /\ \A j \in 1..(i - 1) : Seqs[l][j] # Seen(x)
                                       /\ Deleted(l, i)
<1>1. Live(l) /\ liter' = liter /\ bound' = bound
  BY DEF ListRemove, MayShrink
<1>2. PICK t, i : /\ FirstMatch(Detached(l).heap, t, i, x) /\ Shrank(l, t, i)
                  /\ miter' = [miter EXCEPT ![l] = StepAside(Detached(l).heap, miter[l], t[i])]
  BY RemoveIs
<1>3. Copied(l, Detached(l), t)
  BY <1>2 DEF Shrank
<1>4. /\ Len(t) = Len(Seqs[l]) /\ Len(t) \in Nat
      /\ \A j \in 1..Len(t) : Look(bound.compare, Detached(l).heap[t[j]].payload) = Seqs[l][j]
  BY <1>1, <1>3, CopiedSame
<1>5. /\ i \in 1..Len(t) /\ Look(bound.compare, Detached(l).heap[t[i]].payload) = Seen(x)
      /\ \A j \in 1..(i - 1) : Look(bound.compare, Detached(l).heap[t[j]].payload) # Seen(x)
  BY <1>2, SeenIs, Zenon DEF FirstMatch
<1>6. \A j \in 1..(i - 1) : j \in 1..Len(t)
  BY <1>4, <1>5
<1>7. Seqs[l][i] = Seen(x) /\ \A j \in 1..(i - 1) : Seqs[l][j] # Seen(x)
  BY <1>4, <1>5, <1>6
<1>8. PICK e : e = StepAside(Detached(l).heap, miter[l], t[i])
  OBVIOUS
<1>9. Aside(miter[l], t, i, e) /\ miter' = [miter EXCEPT ![l] = e]
  BY <1>2, <1>3, <1>5, <1>8, StepsAside
<1>10. Deleted(l, i)
  BY <1>1, <1>2, <1>5, <1>9, DeleteStep
<1>11. Seqs[l] # Absent
  BY <1>1, SeqsAre
<1> QED BY <1>4, <1>5, <1>7, <1>10, <1>11

LEMMA CursorRemoveStep ==
  ASSUME ListInv, ListInv', AbsentIsNoList, NULL \notin Payloads, PointersStay, NEW l \in Lists, ListMutableIteratorRemove(l)
  PROVE  \/ /\ Seqs[l] # Absent /\ Cursors[l] # Absent /\ Cursors[l] # 0
            /\ Len(Seqs[l]) > 1 /\ Deleted(l, Cursors[l])
         \/ UNCHANGED vars
<1>1. CASE ~(UNCHANGED vars)
  <2>1. PICK s, i : /\ CursorAt(l, s, i) /\ Shrank(l, s, i) /\ Len(s) > 1
                    /\ miter' = [miter EXCEPT ![l].current = IF i = Len(s) THEN s[i - 1] ELSE s[i + 1]]
    BY <1>1, CursorRemoveIs
  <2>2. /\ Live(l) /\ Seqs[l] # Absent /\ Cursors[l] # Absent /\ Cursors[l] = i /\ i # 0
        /\ s \in Seq(Nodes) /\ Len(s) \in Nat /\ i \in 1..Len(s) /\ Len(Seqs[l]) = Len(s)
    BY <2>1, CursorPosition
  <2> DEFINE it == miter[l]
             p == IF i = Len(s) THEN s[i - 1] ELSE s[i + 1]
             e == [it EXCEPT !.current = p]
  <2>3. it \in [current : Nodes, valid : BOOLEAN] /\ it.valid /\ it.current = s[i] /\ it # Absent
    BY <2>1 DEF CursorAt, Current, ListInv, IteratorsGood
  <2>4. p \in Nodes
    <3>1. IF i = Len(s) THEN i - 1 \in 1..Len(s) ELSE i + 1 \in 1..Len(s)
      BY <2>1, <2>2
    <3>2. \A j \in 1..Len(s) : s[j] \in Nodes
      BY <2>2, RangeOf
    <3> QED BY <3>1, <3>2
  <2>5. miter' = [miter EXCEPT ![l] = e]
    BY <2>1
  <2>6. Absent \notin [current : Nodes, valid : BOOLEAN]
    BY ListAssumption, NodeFacts
  <2> HIDE DEF it, p
  <2>7. e \in [current : Nodes, valid : BOOLEAN] /\ e.valid = it.valid /\ e.current = p
    BY <2>3, <2>4
  <2> HIDE DEF e
  <2>8. e # Absent /\ e.valid /\ e.current = p /\ Len(s) # 1
    <3>1. e # Absent /\ e.valid
      BY <2>3, <2>6, <2>7, Zenon
    <3>2. Len(s) # 1
      <4>1. Len(s) > 1
        BY <2>1
      <4>2. SUFFICES ASSUME Len(s) = 1 PROVE FALSE
        OBVIOUS
      <4> QED BY <4>1, <4>2
    <3> QED BY <3>1, <3>2, <2>7
  <2>9. Aside(it, s, i, e)
    BY <2>3, <2>8 DEF Aside, p
  <2>10. liter' = liter /\ bound' = bound
    BY DEF ListMutableIteratorRemove
  <2>11. Aside(miter[l], s, i, e)
    BY <2>9 DEF it
  <2>12. Deleted(l, i)
    BY <2>1, <2>2, <2>5, <2>10, <2>11, DeleteStep
  <2> QED BY <2>1, <2>2, <2>12
<1> QED BY <1>1

LEMMA InsertIsAbstract ==
  ASSUME NEW l \in Lists, NEW i, NEW x, Inserted(l, i, x)
  PROVE  Abstract!Exists(l) /\ Abstract!Insert(l, i, x)
BY Zenon DEF Inserted, Shifted, Abstract!Exists, Abstract!Insert, Abstract!HasCursor, Abstract!LightOn,
             InsertAt, Abstract!InsertAt, Seqs, Cursors, Light

LEMMA DeleteIsAbstract ==
  ASSUME NEW l \in Lists, NEW i, Deleted(l, i)
  PROVE  Abstract!Exists(l) /\ Abstract!Delete(l, i)
BY Zenon DEF Deleted, Closed, Abstract!Exists, Abstract!Delete, Abstract!HasCursor, Abstract!LightOn,
             RemoveAt, Abstract!RemoveAt, Seqs, Cursors, Light

LEMMA IndependentInit == Init => Abstract!Init
BY DEF Init, Abstract!Init, Live

LEMMA IndependentNext ==
  ASSUME ListInv, ListInv', AbsentIsNoList, NULL \notin Payloads, PointersStay, [Next]_vars
  PROVE  [Abstract!Next]_<<Seqs, Cursors, Light>>
<1>1. CASE UNCHANGED vars
  <2>1. UNCHANGED <<heap, allocated, lists, refs, bound>> /\ miter' = miter /\ liter' = liter
    BY <1>1 DEF vars
  <2> QED BY <2>1, IteratorsOnly
<1>2. ASSUME NEW l \in Lists, ListNew(l) PROVE Abstract!New(l)
  <2>1. Seqs[l] = Absent /\ Seqs' = [Seqs EXCEPT ![l] = <<>>] /\ Cursors' = Cursors /\ Light' = Light
    BY <1>2, NewSeqs
  <2> QED BY <2>1, Zenon DEF Abstract!New, Abstract!Exists, Seqs, Cursors, Light
<1>3. ASSUME NEW l \in Lists, ListDestroy(l) PROVE Abstract!Destroy(l)
  <2>1. Seqs[l] # Absent /\ Seqs' = [Seqs EXCEPT ![l] = Absent] /\ Cursors' = Cursors /\ Light' = Light
    BY <1>3, DestroySeqs
  <2> QED BY <2>1, Zenon DEF Abstract!Destroy, Abstract!Exists, Seqs, Cursors, Light
<1>4. ASSUME NEW o \in Lists, NEW d \in Lists, ListCopy(o, d) PROVE Abstract!Copy(o, d)
  <2>1. /\ Seqs[o] # Absent /\ Seqs[d] = Absent /\ Seqs' = [Seqs EXCEPT ![d] = Seqs[o]]
        /\ Cursors' = Cursors /\ Light' = Light
    BY <1>4, CopySeqs
  <2> QED BY <2>1, Zenon DEF Abstract!Copy, Abstract!Exists, Seqs, Cursors, Light
<1>19. ASSUME NEW x \in Payloads PROVE \E z \in Payloads : z = Seen(x)
  BY ListAssumption DEF Seen
<1>5. ASSUME NEW l \in Lists, NEW x \in Payloads, ListPrepend(l, x)
      PROVE  \E z \in Payloads : Abstract!Prepend(l, z)
  <2>1. PICK z \in Payloads : z = Seen(x)
    BY <1>19
  <2>2. Inserted(l, 1, z)
    BY <1>5, <2>1, PrependStep
  <2>3. Abstract!Exists(l) /\ Abstract!Insert(l, 1, z)
    BY <2>2, InsertIsAbstract
  <2> QED BY <2>3, Zenon DEF Abstract!Prepend
<1>6. ASSUME NEW l \in Lists, NEW x \in Payloads, ListAppend(l, x)
      PROVE  \E z \in Payloads : Abstract!Append1(l, z)
  <2>1. PICK z \in Payloads : z = Seen(x)
    BY <1>19
  <2>2. PICK i : i = Len(Seqs[l]) + 1 /\ Inserted(l, i, z)
    BY <1>6, <2>1, AppendStep
  <2>3. Abstract!Exists(l) /\ Abstract!Insert(l, Len(Seqs[l]) + 1, z)
    BY <2>2, InsertIsAbstract
  <2> QED BY <2>3, Zenon DEF Abstract!Append1, Seqs
<1>7. ASSUME NEW l \in Lists, NEW x \in Payloads, ListMutableIteratorPrepend(l, x)
      PROVE  \E z \in Payloads : Abstract!CursorPrepend(l, z)
  <2>1. PICK z \in Payloads : z = Seen(x)
    BY <1>19
  <2>2. Seqs[l] # Absent /\ Cursors[l] # Absent /\ Cursors[l] # 0 /\ Inserted(l, Cursors[l], z)
    BY <1>7, <2>1, CursorPrependStep
  <2>3. Abstract!Insert(l, Cursors[l], z)
    BY <2>2, InsertIsAbstract
  <2> QED BY <2>2, <2>3, Zenon DEF Abstract!CursorPrepend, Abstract!HasCursor, Abstract!Exists, Seqs, Cursors
<1>8. ASSUME NEW l \in Lists, NEW x \in Payloads, ListMutableIteratorAppend(l, x)
      PROVE  \E z \in Payloads : Abstract!CursorAppend(l, z)
  <2>1. PICK z \in Payloads : z = Seen(x)
    BY <1>19
  <2>2. Seqs[l] # Absent /\ Cursors[l] # Absent /\ Cursors[l] # 0 /\ Inserted(l, Cursors[l] + 1, z)
    BY <1>8, <2>1, CursorAppendStep
  <2>3. Abstract!Insert(l, Cursors[l] + 1, z)
    BY <2>2, InsertIsAbstract
  <2> QED BY <2>2, <2>3, Zenon DEF Abstract!CursorAppend, Abstract!HasCursor, Abstract!Exists, Seqs, Cursors
<1>9. ASSUME NEW l \in Lists, NEW x \in Payloads \ {NULL}, ListRemove(l, x)
      PROVE  \E z \in Payloads : Abstract!RemoveMatch(l, z)
  <2>1. PICK z \in Payloads : z = Seen(x)
    BY <1>19
  <2>2. PICK i \in 1..Len(Seqs[l]) : /\ Seqs[l][i] = z /\ \A j \in 1..(i - 1) : Seqs[l][j] # z
                                     /\ Deleted(l, i)
    BY <1>9, <2>1, RemoveStep, Zenon
  <2>3. Abstract!Exists(l) /\ Abstract!Delete(l, i)
    BY <2>2, DeleteIsAbstract
  <2> QED BY <2>2, <2>3, Zenon DEF Abstract!RemoveMatch, Abstract!Positions, Seqs
<1>10. ASSUME NEW l \in Lists, ListMutableIteratorRemove(l), ~(UNCHANGED vars) PROVE Abstract!CursorRemove(l)
  <2>1. /\ Seqs[l] # Absent /\ Cursors[l] # Absent /\ Cursors[l] # 0
        /\ Len(Seqs[l]) > 1 /\ Deleted(l, Cursors[l])
    BY <1>10, CursorRemoveStep
  <2> QED BY <2>1, Zenon DEF Deleted, Closed, Abstract!CursorRemove, Abstract!HasCursor, Abstract!Exists,
                             Abstract!Delete, Abstract!LightOn, RemoveAt, Abstract!RemoveAt, Seqs, Cursors, Light
<1>11. ASSUME NEW l \in Lists, ListMutableIteratorGet(l) PROVE Abstract!OpenCursor(l)
  <2>1. /\ Seqs[l] # Absent /\ Cursors[l] = Absent /\ Seqs[l] # <<>>
        /\ Cursors' = [Cursors EXCEPT ![l] = 1] /\ Seqs' = Seqs /\ Light' = Light
    BY <1>11, OpenCursorStep
  <2> QED BY <2>1, Zenon DEF Abstract!OpenCursor, Abstract!Exists, Seqs, Cursors, Light
<1>12. ASSUME NEW l \in Lists, ListMutableIteratorRelease(l) PROVE Abstract!CloseCursor(l)
  <2>1. /\ Seqs[l] # Absent /\ Cursors[l] # Absent
        /\ Cursors' = [Cursors EXCEPT ![l] = Absent] /\ Seqs' = Seqs /\ Light' = Light
    BY <1>12, CloseCursorStep
  <2> QED BY <2>1, Zenon DEF Abstract!CloseCursor, Abstract!HasCursor, Abstract!Exists, Seqs, Cursors, Light
<1>13. ASSUME NEW l \in Lists, MoveMutable(l) PROVE Abstract!MoveCursor(l)
  <2>1. /\ Seqs[l] # Absent /\ Cursors[l] # Absent /\ Cursors[l] # 0 /\ Seqs' = Seqs /\ Light' = Light
    BY <1>13, MoveCursorStep
  <2>2. PICK q \in 1..Len(Seqs[l]) : /\ q \in {1, Len(Seqs[l]), Cursors[l] + 1, Cursors[l] - 1}
                                     /\ Cursors' = [Cursors EXCEPT ![l] = q]
    BY <1>13, MoveCursorStep
  <2>3. q \in 1..Len(Seqs[l]) \cap {1, Len(Seqs[l]), Cursors[l] + 1, Cursors[l] - 1}
    BY <2>2
  <2> QED BY <2>1, <2>2, <2>3, Zenon
          DEF Abstract!MoveCursor, Abstract!HasCursor, Abstract!Exists, Abstract!Positions, Seqs, Cursors, Light
<1>14. ASSUME NEW l \in Lists, ListIteratorGet(l) PROVE Abstract!OpenLight(l)
  <2>1. /\ Seqs[l] # Absent /\ Light = Absent /\ Seqs[l] # <<>>
        /\ Light' = [list |-> l, pos |-> 1] /\ Seqs' = Seqs /\ Cursors' = Cursors
    BY <1>14, OpenLightStep
  <2> QED BY <2>1, Zenon DEF Abstract!OpenLight, Abstract!Exists, Seqs, Cursors, Light
<1>15. ASSUME ListIteratorDestroy PROVE Abstract!CloseLight
  <2>1. Light # Absent /\ Light' = Absent /\ Seqs' = Seqs /\ Cursors' = Cursors
    BY <1>15, CloseLightStep
  <2> QED BY <2>1, Zenon DEF Abstract!CloseLight, Seqs, Cursors, Light
<1>16. ASSUME MoveLight PROVE Abstract!MoveLight
  <2>1. Light # Absent /\ Light.pos # 0 /\ Seqs' = Seqs /\ Cursors' = Cursors
    BY <1>16, MoveLightStep
  <2>2. PICK q \in 1..Len(Seqs[Light.list]) :
          /\ q \in {1, Len(Seqs[Light.list]), Light.pos + 1, Light.pos - 1}
          /\ Light' = [Light EXCEPT !.pos = q]
    BY <1>16, MoveLightStep
  <2>3. q \in 1..Len(Seqs[Light.list]) \cap {1, Len(Seqs[Light.list]), Light.pos + 1, Light.pos - 1}
    BY <2>2
  <2> QED BY <2>1, <2>2, <2>3, Zenon DEF Abstract!MoveLight, Abstract!Positions, Seqs, Cursors, Light
<1>17. bound.payloads \subseteq Payloads
  BY NodeFacts DEF ListInv, Shape
<1>18. ASSUME Next, ~(UNCHANGED vars) PROVE Abstract!Next
  BY <1>2, <1>3, <1>4, <1>5, <1>6, <1>7, <1>8, <1>9, <1>10, <1>11, <1>12, <1>13, <1>14, <1>15, <1>16, <1>17,
     <1>18, Zenon DEF Next, Abstract!Next
<1> QED BY <1>1, <1>18, Zenon

\* Without a compare function and without a copy function no list is ever shared.
LEMMA PointersStep ==
  ASSUME ListInv, AbsentIsNoList, PointersStay, [Next]_vars, \A b \in Bounds : b.compare \/ ~b.copy
  PROVE  PointersStay'
<1>1. bound' = bound /\ bound \in Bounds
  BY BoundKept DEF ListInv, Shape
<1>2. CASE bound.compare
  BY <1>1, <1>2 DEF PointersStay
<1>3. CASE ~bound.compare
  <2>1. ~bound.copy /\ \A r \in Refs : refs[r].user_count <= 1
    BY <1>1, <1>3 DEF PointersStay
  <2>2. ASSUME NEW l \in Lists, Live(l) PROVE ~RefCountIsShared(l) /\ lists[l].ref \in Refs
    <3>1. lists[l].ref \in Refs /\ refs[lists[l].ref].user_count \in Nat
      BY <2>2 DEF ListInv, RefsInv, RefsType
    <3> QED BY <3>1, <2>1 DEF RefCountIsShared
  <2>3. CASE refs' = refs
    BY <2>1, <2>3 DEF PointersStay
  <2>4. ASSUME NEW l \in Lists, ListNew(l) PROVE PointersStay'
    <3>1. FreeRef \in Refs /\ refs[FreeRef] = RefCountNew /\ refs' = RefCountAttach(refs, FreeRef, l)
      BY <2>4, FreeRefFound DEF ListInv, ListNew
    <3>2. refs[FreeRef].user_count = 0
      BY <3>1 DEF RefCountNew
    <3>3. \A r \in Refs : refs'[r].user_count <= 1
      BY <3>1, <3>2, <2>1 DEF RefCountAttach, ListInv, RefsInv, RefsType
    <3> QED BY <3>3 DEF PointersStay
  <2>5. ASSUME NEW l \in Lists, ListDestroy(l) PROVE PointersStay'
    <3>1. refs' = [refs EXCEPT ![lists[l].ref] = RefCountNew] /\ lists[l].ref \in Refs
      BY <2>2, <2>5 DEF ListDestroy
    <3>2. \A r \in Refs : refs'[r].user_count <= 1
      BY <3>1, <2>1 DEF RefCountNew, ListInv, RefsInv, RefsType
    <3> QED BY <3>2 DEF PointersStay
  <2>6. ASSUME NEW l \in Lists, Live(l), NEW v, NEW c, NEW st, Update(l, v, c, st) PROVE refs' = refs
    BY <2>2, <2>6 DEF Update, DetachedRefs
  <2>7. ASSUME NEW l \in Lists, NEW x, ListPrepend(l, x) \/ ListAppend(l, x) PROVE refs' = refs
    BY <2>6, <2>7, Zenon DEF ListPrepend, ListAppend, MayGrow, Added
  <2>8. ASSUME NEW l \in Lists, NEW x, ListMutableIteratorPrepend(l, x) \/ ListMutableIteratorAppend(l, x)
        PROVE  refs' = refs
    BY <2>6, <2>8, Zenon DEF ListMutableIteratorPrepend, ListMutableIteratorAppend, MayGrow, Added
  <2>9. ASSUME NEW l \in Lists, NEW x, ListRemove(l, x) PROVE refs' = refs
    BY <2>6, <2>9, Zenon DEF ListRemove, MayShrink, Removed
  <2>10. ASSUME NEW l \in Lists, ListMutableIteratorRemove(l) PROVE refs' = refs
    BY <2>6, <2>10, Zenon DEF ListMutableIteratorRemove, MayShrink, Removed
  <2>11. ASSUME NEW l \in Lists, NEW d \in Lists, ListCopy(l, d) PROVE FALSE
    BY <2>1, <2>11 DEF ListCopy
  <2>12. ASSUME NEW l \in Lists, \/ ListIteratorGet(l) \/ ListMutableIteratorGet(l)
                                 \/ ListMutableIteratorRelease(l) \/ MoveMutable(l)
         PROVE  refs' = refs
    BY <2>12 DEF ListIteratorGet, ListMutableIteratorGet, ListMutableIteratorRelease, MoveMutable
  <2>13. ListIteratorDestroy \/ MoveLight \/ UNCHANGED vars => refs' = refs
    BY DEF ListIteratorDestroy, MoveLight, vars
  <2> QED BY <2>3, <2>4, <2>5, <2>7, <2>8, <2>9, <2>10, <2>11, <2>12, <2>13, Zenon DEF Next
<1> QED BY <1>2, <1>3

LEMMA PointersInvariant ==
  ASSUME AbsentIsNoList, ~IteratorsOnShared, \A b \in Bounds : b.compare \/ ~b.copy
  PROVE  Spec => []PointersStay
<1>1. Init => PointersStay
  <2> SUFFICES ASSUME Init PROVE \A r \in Refs : refs[r].user_count <= 1
    BY DEF PointersStay
  <2>1. refs = [r \in Refs |-> RefCountNew] /\ RefCountNew.user_count = 0
    BY DEF Init, RefCountNew
  <2> QED BY <2>1
<1>2. ListInv /\ PointersStay /\ [Next]_vars => PointersStay'
  BY PointersStep
<1>3. Spec => []ListInv
  BY ListInvariant
<1> QED BY <1>1, <1>2, <1>3, PTL DEF Spec

\* What a search can find, by the positions of a chain.
LEMMA SightsAre ==
  ASSUME NEW v, NEW t, t \in Seq(Nodes), v.heap \in Heaps, Linked(v.heap, v.first, v.last, t)
  PROVE  Sights(v) = {Look(bound.compare, v.heap[t[i]].payload) : i \in 1..Len(t)}
<1> DEFINE h == v.heap
           f == v.first
           g == v.last
<1>1. h \in Heaps /\ Linked(h, f, g, t)
  OBVIOUS
<1>2. Sights(v) = {Seen(h[p].payload) : p \in Range(Chain(h, f))}
  BY DEF Sights
<1> HIDE DEF h, f, g
<1>3. Chain(h, f) = t
  BY <1>1, ChainIs
<1>4. \A p : p \in Range(t) <=> \E i \in 1..Len(t) : t[i] = p
  BY RangeOf
<1>5. {Seen(h[p].payload) : p \in Range(t)} = {Seen(h[t[i]].payload) : i \in 1..Len(t)}
  BY <1>4, Zenon
<1>6. {Seen(h[t[i]].payload) : i \in 1..Len(t)} = {Look(bound.compare, h[t[i]].payload) : i \in 1..Len(t)}
  BY SeenIs, Zenon
<1> QED BY <1>2, <1>3, <1>5, <1>6 DEF h

LEMMA SightsStay ==
  ASSUME ListInv, PointersStay, NEW l \in Lists, Live(l), NEW x \in Payloads \ {NULL},
         Seen(x) \in Sights(View(l))
  PROVE  Seen(x) \in Sights(Detached(l))
<1>1. CASE ~RefCountIsShared(l)
  BY <1>1 DEF Detached
<1>2. CASE RefCountIsShared(l)
  <2>1. PICK t : Copied(l, Detached(l), t)
    BY DetachedIs DEF ListInv
  <2> DEFINE s == NodesOf(l)
             v == Detached(l)
             c == bound.compare
  <2>2. /\ v.heap \in Heaps /\ Linked(v.heap, v.first, v.last, t) /\ Len(t) = Len(s)
        /\ \A i \in 1..Len(t) : v.heap[t[i]].payload = CopyOf(heap[s[i]].payload)
    BY <1>2, <2>1 DEF Copied, Result
  <2>3. t \in Seq(Nodes)
    BY <2>2 DEF Linked
  <2>4. View(l).heap = heap /\ View(l).first = lists[l].first /\ View(l).last = lists[l].last
    BY DEF View
  <2>5. s \in Seq(Nodes) /\ heap \in Heaps /\ Linked(heap, lists[l].first, lists[l].last, s)
    BY GoodListIs DEF ListInv, Shape
  <2>6. c = TRUE
    <3>1. bound.compare
      BY <1>2, PointersSharing DEF ListInv
    <3>2. bound.compare \in BOOLEAN
      BY ListAssumption DEF ListInv, Shape
    <3> QED BY <3>1, <3>2
  <2> HIDE DEF s, v, c
  <2>7. Sights(View(l)) = {Look(c, heap[s[i]].payload) : i \in 1..Len(s)}
    <3>1. Sights(View(l)) = {Look(bound.compare, View(l).heap[s[i]].payload) : i \in 1..Len(s)}
      BY <2>4, <2>5, SightsAre
    <3> QED BY <3>1, <2>4 DEF c
  <2>8. Sights(v) = {Look(c, v.heap[t[i]].payload) : i \in 1..Len(t)}
    BY <2>2, <2>3, SightsAre DEF c
  <2>9. PICK i \in 1..Len(s) : Seen(x) = Look(c, heap[s[i]].payload)
    BY <2>7, Zenon
  <2> DEFINE y == heap[s[i]].payload
  <2>10. y \in Payloads \cup {Garbage}
    BY <2>5 DEF Heaps, Cells
  <2>11. Seen(x) = Value[x] /\ Value[x] # NULL
    BY <2>6, ListAssumption DEF Seen, c
  <2>12. y # NULL \/ y = Garbage
    <3>1. SUFFICES ASSUME y = NULL, y # Garbage PROVE FALSE
      OBVIOUS
    <3>2. NULL \in Payloads /\ Value[NULL] = NULL
      BY <3>1, <2>10, ListAssumption
    <3>3. Look(c, y) = NULL
      BY <3>1, <3>2, <2>6 DEF Look
    <3> QED BY <3>3, <2>9, <2>11
  <2>13. Look(TRUE, CopyOf(y)) = Look(TRUE, y)
    BY <2>10, <2>12, CopyLooks
  <2>14. i \in 1..Len(t) /\ v.heap[t[i]].payload = CopyOf(y)
    BY <2>2 DEF v
  <2>15. Seen(x) = Look(c, v.heap[t[i]].payload)
    BY <2>6, <2>9, <2>13, <2>14
  <2>16. Seen(x) \in Sights(v)
    BY <2>8, <2>14, <2>15
  <2> QED BY <2>16 DEF v
<1> QED BY <1>1, <1>2

\* FoundAgain: the assertion of ListRemove holds for every number of lists, nodes and payloads, NULL
\* ones included, if every list that has a copy function has a compare function, too.
THEOREM RemovalFindsItAgain ==
  ASSUME AbsentIsNoList, ~IteratorsOnShared, \A b \in Bounds : b.compare \/ ~b.copy
  PROVE  Spec => []FoundAgain
<1>1. ListInv /\ PointersStay => FoundAgain
  BY SightsStay DEF FoundAgain
<1>2. Spec => []ListInv
  BY ListInvariant
<1>3. Spec => []PointersStay
  BY PointersInvariant
<1> QED BY <1>1, <1>2, <1>3, PTL

\* IndependentSpec: lists that share their nodes until they are changed behave as sequences of their
\* own, with cursors that follow their elements: ListRemove finds the first element that its compare
\* function takes for equal, or that is the same pointer, also when ListDetach has made new pointers.
\* This is when callers do not iterate over shared lists, store no NULL payload (ListDetach leaves the
\* copy of one uninitialized), and give a compare function to every list with a copy function (without
\* it the removal fails its assertion).
THEOREM ListsImplementIndependent ==
  ASSUME AbsentIsNoList, ~IteratorsOnShared, NULL \notin Payloads, \A b \in Bounds : b.compare \/ ~b.copy
  PROVE  Spec => IndependentSpec
<1>1. Init => Abstract!Init
  BY IndependentInit
<1>2. ListInv /\ ListInv' /\ PointersStay /\ [Next]_vars => [Abstract!Next]_<<Seqs, Cursors, Light>>
  BY IndependentNext
<1>3. Spec => []ListInv
  BY ListInvariant
<1>4. Spec => []PointersStay
  BY PointersInvariant
<1> QED BY <1>1, <1>2, <1>3, <1>4, PTL DEF Spec, IndependentSpec, Abstract!Spec, Abstract!vars, Seqs, Cursors, Light

=============================================================================
