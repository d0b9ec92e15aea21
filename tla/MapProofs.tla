------------------------------ MODULE MapProofs ------------------------------
(***************************************************************************)
(* Maps and sets keep what was inserted, own each object once and keep     *)
(* their tables in shape, through conversions, growing, shrinking,         *)
(* clearing and joining, for any number of maps, keys and objects, any     *)
(* hash function and any limits.                                           *)
(***************************************************************************)
EXTENDS Map, NumberProofs

-----------------------------------------------------------------------------
(***************************************************************************)
(* Chains and tables.                                                      *)
(***************************************************************************)
KeysIn(items) == {e.key : e \in items}

\* No key twice in a chain or in the array.
KeysOnce(s) == \A i, j \in 1..Len(s) : s[i].key = s[j].key => i = j

TableItems(t) == UNION {Range(t[b]) : b \in DOMAIN t}

\* Every item is in the bucket of its key, and no key is there twice.
GoodTable(t, size) ==
  /\ t \in [0..(size - 1) -> Seq(Entries)]
  /\ \A b \in 0..(size - 1) : KeysOnce(t[b])
  /\ \A b \in 0..(size - 1) : \A i \in 1..Len(t[b]) : HashMapGetBucket(size, t[b][i].key) = b

LEMMA BucketInRange ==
  ASSUME NEW size \in Nat \ {0}, NEW k \in Keys
  PROVE  HashMapGetBucket(size, k) \in 0..(size - 1)
<1>1. Hash[k] \in Nat
  BY MapAssumption
<1> DEFINE x == Hash[k]
<1> HIDE DEF x
<1>2. x \in Nat => x % size \in 0..(size - 1)
  BY SMT
<1> QED BY <1>1, <1>2 DEF HashMapGetBucket, x

LEMMA Prepended ==
  ASSUME NEW S, NEW s \in Seq(S), NEW e \in S
  PROVE  /\ <<e>> \o s \in Seq(S) /\ Len(<<e>> \o s) = Len(s) + 1
         /\ (<<e>> \o s)[1] = e
         /\ \A i \in 1..Len(s) : (<<e>> \o s)[i + 1] = s[i]
         /\ \A i \in 2..(Len(s) + 1) : (<<e>> \o s)[i] = s[i - 1]
OBVIOUS

\* The items of a table, place by place.
LEMMA ItemsOfTable ==
  ASSUME NEW size \in Nat, NEW t \in [0..(size - 1) -> Seq(Entries)]
  PROVE  /\ TableItems(t) \subseteq Entries
         /\ \A e : e \in TableItems(t) <=> \E b \in 0..(size - 1) : \E i \in 1..Len(t[b]) : t[b][i] = e
<1>1. ASSUME NEW b \in 0..(size - 1) PROVE DOMAIN t[b] = 1..Len(t[b]) /\ Range(t[b]) \subseteq Entries
  BY DEF Range
<1> QED BY <1>1 DEF TableItems, Range

\* A chain with one more item in front.
LEMMA PrependedOnce ==
  ASSUME NEW s \in Seq(Entries), NEW e \in Entries, KeysOnce(s),
         \A i \in 1..Len(s) : s[i].key # e.key
  PROVE  KeysOnce(<<e>> \o s)
<1> DEFINE c == <<e>> \o s
<1>1. /\ c \in Seq(Entries) /\ Len(c) = Len(s) + 1 /\ c[1] = e
      /\ \A i \in 2..(Len(s) + 1) : c[i] = s[i - 1]
  BY Prepended
<1> HIDE DEF c
<1>2. SUFFICES ASSUME NEW i \in 1..Len(c), NEW j \in 1..Len(c), c[i].key = c[j].key PROVE i = j
  BY Zenon DEF KeysOnce, c
<1>3. Len(s) \in Nat /\ i \in Nat /\ j \in Nat
  BY <1>1
<1>4. CASE i = 1
  <2>1. j = 1 \/ (j \in 2..(Len(s) + 1) /\ j - 1 \in 1..Len(s))
    BY <1>1, <1>3
  <2> QED BY <2>1, <1>1, <1>2, <1>4
<1>5. CASE i # 1 /\ j = 1
  <2>1. i \in 2..(Len(s) + 1) /\ i - 1 \in 1..Len(s)
    BY <1>1, <1>3, <1>5
  <2> QED BY <2>1, <1>1, <1>2, <1>5
<1>6. CASE i # 1 /\ j # 1
  <2>1. /\ i \in 2..(Len(s) + 1) /\ i - 1 \in 1..Len(s)
        /\ j \in 2..(Len(s) + 1) /\ j - 1 \in 1..Len(s)
    BY <1>1, <1>3, <1>6
  <2>2. i - 1 = j - 1
    BY <2>1, <1>1, <1>2 DEF KeysOnce
  <2> QED BY <2>2, <1>3
<1> QED BY <1>4, <1>5, <1>6

\* HashMapResize and HashMapInsert put an item in front of its bucket.
LEMMA MoveItemGood ==
  ASSUME NEW size \in Nat \ {0}, NEW t, GoodTable(t, size), NEW e \in Entries,
         e.key \notin KeysIn(TableItems(t))
  PROVE  /\ GoodTable(MoveItem(t, size, e), size)
         /\ TableItems(MoveItem(t, size, e)) = TableItems(t) \cup {e}
<1> DEFINE b == HashMapGetBucket(size, e.key)
           c == <<e>> \o t[b]
           u == MoveItem(t, size, e)
<1>1. t \in [0..(size - 1) -> Seq(Entries)] /\ e.key \in Keys
  BY DEF GoodTable, Entries
<1>2. b \in 0..(size - 1)
  BY <1>1, BucketInRange
<1>3. t[b] \in Seq(Entries)
  BY <1>1, <1>2
<1>4. /\ c \in Seq(Entries) /\ Len(c) = Len(t[b]) + 1 /\ c[1] = e
      /\ \A i \in 1..Len(t[b]) : c[i + 1] = t[b][i]
      /\ \A i \in 2..(Len(t[b]) + 1) : c[i] = t[b][i - 1]
  <2> HIDE DEF b
  <2> QED BY <1>3, Prepended
<1>5. u = [t EXCEPT ![b] = c]
  BY DEF MoveItem
<1>6. \A e2 : e2 \in TableItems(t) <=> \E d \in 0..(size - 1) : \E i \in 1..Len(t[d]) : t[d][i] = e2
  BY <1>1, ItemsOfTable
<1>7. \A d \in 0..(size - 1) : \A i \in 1..Len(t[d]) : t[d][i].key # e.key
  BY <1>6 DEF KeysIn
<1>8. KeysOnce(c)
  <2>1. KeysOnce(t[b]) /\ \A i \in 1..Len(t[b]) : t[b][i].key # e.key
    BY <1>2, <1>7 DEF GoodTable
  <2> HIDE DEF b
  <2> QED BY <2>1, <1>3, PrependedOnce
<1>9. \A i \in 1..Len(c) : HashMapGetBucket(size, c[i].key) = b
  <2> TAKE i \in 1..Len(c)
  <2>1. CASE i = 1
    BY <2>1, <1>4
  <2>2. CASE i # 1
    <3>1. i \in 2..(Len(t[b]) + 1) /\ i - 1 \in 1..Len(t[b])
      <4>1. Len(t[b]) \in Nat
        BY <1>3
      <4> HIDE DEF b, c
      <4> QED BY <4>1, <1>4, <2>2
    <3>2. c[i] = t[b][i - 1]
      BY <3>1, <1>4
    <3>3. \A j \in 1..Len(t[b]) : HashMapGetBucket(size, t[b][j].key) = b
      BY <1>2 DEF GoodTable
    <3> HIDE DEF b, c
    <3> QED BY <3>1, <3>2, <3>3
  <2> QED BY <2>1, <2>2
<1> HIDE DEF b, c, u
<1>10. u \in [0..(size - 1) -> Seq(Entries)] /\ u[b] = c /\ \A d \in 0..(size - 1) : d # b => u[d] = t[d]
  BY <1>1, <1>2, <1>4, <1>5
<1>11. GoodTable(u, size)
  <2>1. ASSUME NEW d \in 0..(size - 1)
        PROVE  KeysOnce(u[d]) /\ \A i \in 1..Len(u[d]) : HashMapGetBucket(size, u[d][i].key) = d
    <3>1. CASE d = b
      BY <3>1, <1>8, <1>9, <1>10
    <3>2. CASE d # b
      BY <3>2, <1>10 DEF GoodTable
    <3> QED BY <3>1, <3>2
  <2> QED BY <2>1, <1>10 DEF GoodTable
<1>12. TableItems(u) = TableItems(t) \cup {e}
  <2>1. \A e2 : e2 \in TableItems(u) <=> \E d \in 0..(size - 1) : \E i \in 1..Len(u[d]) : u[d][i] = e2
    BY <1>10, ItemsOfTable
  <2>2. ASSUME NEW e2 \in TableItems(u) PROVE e2 \in TableItems(t) \cup {e}
    <3>1. PICK d \in 0..(size - 1) : \E i \in 1..Len(u[d]) : u[d][i] = e2
      BY <2>1, <2>2
    <3>2. PICK i \in 1..Len(u[d]) : u[d][i] = e2
      BY <3>1
    <3>3. CASE d = b /\ i # 1
      <4>1. i \in 1..Len(c) /\ Len(t[b]) \in Nat /\ c[i] = e2
        BY <3>2, <3>3, <1>10, <1>3
      <4>2. i \in 2..(Len(t[b]) + 1) /\ i - 1 \in 1..Len(t[b])
        BY <4>1, <3>3, <1>4
      <4>3. t[b][i - 1] = e2
        BY <4>1, <4>2, <1>4
      <4> QED BY <4>2, <4>3, <1>2, <1>6
    <3>4. CASE d = b /\ i = 1
      BY <3>4, <3>2, <1>10, <1>4
    <3>5. CASE d # b
      <4>1. u[d] = t[d]
        BY <3>5, <1>10
      <4> QED BY <4>1, <3>2, <1>6
    <3> QED BY <3>3, <3>4, <3>5
  <2>3. e \in TableItems(u)
    <3>1. 1 \in 1..Len(c) /\ c[1] = e
      BY <1>4, <1>3
    <3> QED BY <3>1, <1>2, <1>10, <2>1
  <2>4. ASSUME NEW e2 \in TableItems(t) PROVE e2 \in TableItems(u)
    <3>1. PICK d \in 0..(size - 1) : \E i \in 1..Len(t[d]) : t[d][i] = e2
      BY <1>6
    <3>2. PICK i \in 1..Len(t[d]) : t[d][i] = e2
      BY <3>1
    <3>3. CASE d = b
      <4>1. Len(t[b]) \in Nat /\ i \in 1..Len(t[b])
        BY <3>2, <3>3, <1>3
      <4>2. i + 1 \in 1..Len(c)
        BY <4>1, <1>4
      <4>3. c[i + 1] = e2
        BY <4>1, <1>4, <3>2, <3>3
      <4> QED BY <4>2, <4>3, <1>2, <1>10, <2>1
    <3>4. CASE d # b
      <4>1. u[d] = t[d]
        BY <3>4, <1>10
      <4> QED BY <4>1, <3>2, <2>1
    <3> QED BY <3>3, <3>4
  <2> QED BY <2>2, <2>3, <2>4
<1> QED BY <1>11, <1>12 DEF u

LEMMA MoveItemType ==
  ASSUME NEW size \in Nat \ {0}, NEW t \in [0..(size - 1) -> Seq(Entries)], NEW e \in Entries
  PROVE  MoveItem(t, size, e) \in [0..(size - 1) -> Seq(Entries)]
<1> DEFINE b == HashMapGetBucket(size, e.key)
           c == <<e>> \o t[b]
<1>1. b \in 0..(size - 1)
  BY BucketInRange DEF Entries
<1>2. t[b] \in Seq(Entries)
  BY <1>1
<1> HIDE DEF b
<1>3. c \in Seq(Entries)
  BY <1>2, Prepended
<1> HIDE DEF c
<1>4. [t EXCEPT ![b] = c] \in [0..(size - 1) -> Seq(Entries)]
  BY <1>1, <1>3
<1> QED BY <1>4 DEF MoveItem, b, c

\* The turns of the loop over a chain.
MoveTurns(f, table, size, chain) ==
  f = [j \in 0..Len(chain) |->
         IF j = 0 THEN table ELSE MoveItem(f[j - 1], size, chain[j])]

LEMMA MoveChainLoop ==
  ASSUME NEW size \in Nat \ {0}, NEW table \in [0..(size - 1) -> Seq(Entries)],
         NEW chain \in Seq(Entries)
  PROVE  \E f : MoveTurns(f, table, size, chain) /\ MoveChain(table, size, chain) = f[Len(chain)]
<1> DEFINE L == Len(chain)
           S == [0..(size - 1) -> Seq(Entries)]
           g == [j \in 1..L |-> [t \in S |-> MoveItem(t, size, chain[j])]]
<1>1. L \in Nat /\ \A j \in 1..L : chain[j] \in Entries
  OBVIOUS
<1>2. g \in [1..L -> [S -> S]]
  <2>1. ASSUME NEW j \in 1..L, NEW t \in S PROVE MoveItem(t, size, chain[j]) \in S
    BY <1>1, MoveItemType
  <2> HIDE DEF S, L
  <2> QED BY <2>1
<1>3. PICK f \in [0..L -> S] : f[0] = table /\ \A j \in 1..L : f[j] = g[j][f[j - 1]]
  <2> HIDE DEF S, L, g
  <2>1. table \in S
    BY DEF S
  <2>2. LoopRuns(L, S, table, g)
    BY <1>1, <1>2, <2>1, LoopExists, Zenon
  <2> QED BY <2>2, Zenon DEF LoopRuns
<1>4. ASSUME NEW j \in 0..L PROVE f[j] = IF j = 0 THEN table ELSE MoveItem(f[j - 1], size, chain[j])
  <2>1. CASE j = 0
    BY <2>1, <1>3
  <2>2. CASE j # 0
    <3>1. j \in 1..L /\ j - 1 \in 0..L
      BY <2>2, <1>1
    <3>2. f[j - 1] \in S /\ f[j] = g[j][f[j - 1]]
      BY <3>1, <1>3
    <3>3. g[j][f[j - 1]] = MoveItem(f[j - 1], size, chain[j])
      <4> HIDE DEF S, L
      <4> QED BY <3>1, <3>2
    <3> QED BY <2>2, <3>2, <3>3
  <2> QED BY <2>1, <2>2
<1>5. MoveTurns(f, table, size, chain)
  <2> DEFINE ff == [j \in 0..L |-> IF j = 0 THEN table ELSE MoveItem(f[j - 1], size, chain[j])]
  <2>1. ff = f
    <3>1. \A j \in 0..L : ff[j] = f[j]
      BY <1>4, Zenon
    <3>2. ff = [j \in 0..L |-> ff[j]] /\ f = [j \in 0..L |-> f[j]]
      BY <1>3
    <3> HIDE DEF ff
    <3> QED BY <3>1, <3>2
  <2> QED BY <2>1, Zenon DEF MoveTurns
<1> DEFINE F == CHOOSE m : MoveTurns(m, table, size, chain)
<1>6. MoveTurns(F, table, size, chain)
  BY <1>5, Zenon
<1>7. MoveChain(table, size, chain) = F[Len(chain)]
  BY Zenon DEF MoveChain, MoveTurns
<1> QED BY <1>6, <1>7, Zenon

\* A whole chain is moved: the table stays good and gains the items of the chain.
LEMMA MoveChainGood ==
  ASSUME NEW size \in Nat \ {0}, NEW table, GoodTable(table, size),
         NEW chain \in Seq(Entries), KeysOnce(chain),
         \A i \in 1..Len(chain) : chain[i].key \notin KeysIn(TableItems(table))
  PROVE  /\ GoodTable(MoveChain(table, size, chain), size)
         /\ TableItems(MoveChain(table, size, chain)) = TableItems(table) \cup Range(chain)
<1> DEFINE L == Len(chain)
           Sofar(n) == TableItems(table) \cup {chain[i] : i \in 1..n}
<1>1. L \in Nat /\ (\A j \in 1..L : chain[j] \in Entries) /\ table \in [0..(size - 1) -> Seq(Entries)]
  BY DEF GoodTable
<1>2. PICK f : MoveTurns(f, table, size, chain) /\ MoveChain(table, size, chain) = f[L]
  BY <1>1, MoveChainLoop, Zenon
<1>3. f[0] = table /\ \A j \in 1..L : f[j] = MoveItem(f[j - 1], size, chain[j])
  <2>1. \A j \in 0..L : f[j] = IF j = 0 THEN table ELSE MoveItem(f[j - 1], size, chain[j])
    BY <1>2, Zenon DEF MoveTurns
  <2>2. 0 \in 0..L /\ \A j \in 1..L : j \in 0..L /\ j # 0
    BY <1>1
  <2> QED BY <2>1, <2>2, Zenon
<1> DEFINE P == {n \in Nat : n <= L => GoodTable(f[n], size) /\ TableItems(f[n]) = Sofar(n)}
<1>4. 0 \in P
  <2>1. Sofar(0) = TableItems(table)
    OBVIOUS
  <2> HIDE DEF Sofar
  <2> QED BY <2>1, <1>3
<1>5. ASSUME NEW n \in P, n < L PROVE n + 1 \in P
  <2>1. n \in Nat /\ n + 1 \in 1..L /\ (n + 1) - 1 = n
    BY <1>5
  <2>2. GoodTable(f[n], size) /\ TableItems(f[n]) = Sofar(n)
    BY <1>5
  <2>3. f[n + 1] = MoveItem(f[n], size, chain[n + 1]) /\ chain[n + 1] \in Entries
    BY <2>1, <1>1, <1>3
  <2>4. chain[n + 1].key \notin KeysIn(TableItems(f[n]))
    <3> SUFFICES ASSUME NEW e \in Sofar(n), e.key = chain[n + 1].key PROVE FALSE
      BY <2>2 DEF KeysIn
    <3>1. CASE e \in TableItems(table)
      BY <3>1, <2>1 DEF KeysIn
    <3>2. CASE e \in {chain[i] : i \in 1..n}
      <4>1. PICK i \in 1..n : e = chain[i]
        BY <3>2
      <4>2. i \in 1..L /\ n + 1 \in 1..L /\ i # n + 1
        BY <2>1
      <4> QED BY <4>1, <4>2 DEF KeysOnce
    <3> QED BY <3>1, <3>2
  <2>5. GoodTable(f[n + 1], size) /\ TableItems(f[n + 1]) = TableItems(f[n]) \cup {chain[n + 1]}
    <3> DEFINE u == f[n]
               e == chain[n + 1]
    <3>1. GoodTable(u, size) /\ e \in Entries /\ e.key \notin KeysIn(TableItems(u))
      BY <2>2, <2>3, <2>4
    <3> HIDE DEF u, e
    <3>2. GoodTable(MoveItem(u, size, e), size) /\ TableItems(MoveItem(u, size, e)) = TableItems(u) \cup {e}
      BY <3>1, MoveItemGood, Zenon
    <3> QED BY <3>2, <2>3, Zenon DEF u, e
  <2>6. Sofar(n + 1) = Sofar(n) \cup {chain[n + 1]}
    <3>1. 1..(n + 1) = (1..n) \cup {n + 1}
      BY <2>1
    <3> QED BY <3>1
  <2>7. n + 1 \in Nat
    BY <2>1
  <2> HIDE DEF Sofar
  <2> QED BY <2>2, <2>5, <2>6, <2>7
<1>6. 0..L \subseteq P
  <2>1. P \in SUBSET Nat
    OBVIOUS
  <2> HIDE DEF P, L
  <2> QED BY <1>1, <1>4, <1>5, <2>1, UpTo
<1>7. GoodTable(f[L], size) /\ TableItems(f[L]) = Sofar(L)
  <2>1. L \in 0..L
    BY <1>1
  <2> HIDE DEF Sofar
  <2> QED BY <2>1, <1>1, <1>6
<1>8. Sofar(L) = TableItems(table) \cup Range(chain)
  BY DEF Range
<1> QED BY <1>2, <1>7, <1>8

LEMMA MoveChainType ==
  ASSUME NEW size \in Nat \ {0}, NEW table \in [0..(size - 1) -> Seq(Entries)],
         NEW chain \in Seq(Entries)
  PROVE  MoveChain(table, size, chain) \in [0..(size - 1) -> Seq(Entries)]
<1> DEFINE L == Len(chain)
           S == [0..(size - 1) -> Seq(Entries)]
<1>1. L \in Nat /\ \A j \in 1..L : chain[j] \in Entries
  OBVIOUS
<1>2. PICK f : MoveTurns(f, table, size, chain) /\ MoveChain(table, size, chain) = f[L]
  BY MoveChainLoop, Zenon
<1>3. f[0] = table /\ \A j \in 1..L : f[j] = MoveItem(f[j - 1], size, chain[j])
  <2>1. \A j \in 0..L : f[j] = IF j = 0 THEN table ELSE MoveItem(f[j - 1], size, chain[j])
    BY <1>2, Zenon DEF MoveTurns
  <2>2. 0 \in 0..L /\ \A j \in 1..L : j \in 0..L /\ j # 0
    BY <1>1
  <2> QED BY <2>1, <2>2, Zenon
<1> DEFINE P == {n \in Nat : n <= L => f[n] \in S}
<1>4. 0 \in P
  BY <1>3
<1>5. ASSUME NEW n \in P, n < L PROVE n + 1 \in P
  <2>1. n \in Nat /\ n + 1 \in 1..L /\ (n + 1) - 1 = n
    BY <1>5
  <2>2. f[n] \in S /\ f[n + 1] = MoveItem(f[n], size, chain[n + 1]) /\ chain[n + 1] \in Entries
    BY <1>5, <2>1, <1>1, <1>3
  <2>3. f[n + 1] \in S
    <3> DEFINE u == f[n]
               e == chain[n + 1]
    <3>1. u \in S /\ e \in Entries
      BY <2>2
    <3> HIDE DEF u, e
    <3>2. MoveItem(u, size, e) \in S
      BY <3>1, MoveItemType, Zenon
    <3> QED BY <3>2, <2>2, Zenon DEF u, e
  <2> HIDE DEF S
  <2> QED BY <2>1, <2>3
<1>6. 0..L \subseteq P
  <2>1. P \in SUBSET Nat
    OBVIOUS
  <2> HIDE DEF P, L
  <2> QED BY <1>1, <1>4, <1>5, <2>1, UpTo
<1>7. f[L] \in S
  <2>1. L \in 0..L
    BY <1>1
  <2> HIDE DEF S, L
  <2> QED BY <2>1, <1>1, <1>6
<1> QED BY <1>2, <1>7, Zenon

\* The turns of the loop over the old buckets.
ResizeTurns(f, buckets, old_size, size) ==
  f = [i \in 0..old_size |->
         IF i = 0 THEN [b \in 0..(size - 1) |-> <<>>]
         ELSE MoveChain(f[i - 1], size, buckets[i - 1])]

LEMMA EmptyTable ==
  ASSUME NEW size \in Nat
  PROVE  /\ GoodTable([b \in 0..(size - 1) |-> <<>>], size)
         /\ TableItems([b \in 0..(size - 1) |-> <<>>]) = {}
<1> DEFINE t == [b \in 0..(size - 1) |-> <<>>]
<1>1. t \in [0..(size - 1) -> Seq(Entries)] /\ \A b \in 0..(size - 1) : t[b] = <<>> /\ Len(t[b]) = 0
  OBVIOUS
<1> HIDE DEF t
<1>2. GoodTable(t, size)
  BY <1>1 DEF GoodTable, KeysOnce
<1>3. \A e : e \in TableItems(t) <=> \E b \in 0..(size - 1) : \E i \in 1..Len(t[b]) : t[b][i] = e
  BY <1>1, ItemsOfTable
<1>4. TableItems(t) = {}
  BY <1>1, <1>3
<1> QED BY <1>2, <1>4 DEF t

LEMMA MoveChainsLoop ==
  ASSUME NEW size \in Nat \ {0}, NEW old_size \in Nat,
         NEW buckets \in [0..(old_size - 1) -> Seq(Entries)]
  PROVE  \E f : /\ ResizeTurns(f, buckets, old_size, size)
                /\ MoveChains(buckets, old_size, size) = f[old_size]
<1> DEFINE S == [0..(size - 1) -> Seq(Entries)]
           a == [b \in 0..(size - 1) |-> <<>>]
           g == [i \in 1..old_size |-> [t \in S |-> MoveChain(t, size, buckets[i - 1])]]
<1>1. \A i \in 1..old_size : buckets[i - 1] \in Seq(Entries)
  OBVIOUS
<1>2. g \in [1..old_size -> [S -> S]]
  <2>1. ASSUME NEW i \in 1..old_size, NEW t \in S PROVE MoveChain(t, size, buckets[i - 1]) \in S
    <3> DEFINE c == buckets[i - 1]
    <3>1. c \in Seq(Entries)
      BY <1>1
    <3> HIDE DEF c
    <3>2. MoveChain(t, size, c) \in S
      BY <3>1, MoveChainType, Zenon
    <3> QED BY <3>2 DEF c
  <2> HIDE DEF S
  <2> QED BY <2>1
<1>3. PICK f \in [0..old_size -> S] : f[0] = a /\ \A j \in 1..old_size : f[j] = g[j][f[j - 1]]
  <2>1. a \in S
    OBVIOUS
  <2> HIDE DEF S, a, g
  <2>2. LoopRuns(old_size, S, a, g)
    BY <1>2, <2>1, LoopExists, Zenon
  <2> QED BY <2>2, Zenon DEF LoopRuns
<1>4. ASSUME NEW j \in 0..old_size PROVE f[j] = IF j = 0 THEN a ELSE MoveChain(f[j - 1], size, buckets[j - 1])
  <2> HIDE DEF a
  <2>1. CASE j = 0
    BY <2>1, <1>3, Zenon
  <2>2. CASE j # 0
    <3>1. j \in 1..old_size /\ j - 1 \in 0..old_size
      BY <2>2
    <3>2. f[j - 1] \in S /\ f[j] = g[j][f[j - 1]]
      <4> HIDE DEF S, g
      <4> QED BY <3>1, <1>3
    <3>3. g[j][f[j - 1]] = MoveChain(f[j - 1], size, buckets[j - 1])
      <4> HIDE DEF S
      <4> QED BY <3>1, <3>2
    <3> QED BY <2>2, <3>2, <3>3, Zenon
  <2> QED BY <2>1, <2>2
<1>5. ResizeTurns(f, buckets, old_size, size)
  <2> DEFINE ff == [j \in 0..old_size |-> IF j = 0 THEN a ELSE MoveChain(f[j - 1], size, buckets[j - 1])]
  <2>1. ff = f
    <3> HIDE DEF a, S
    <3>1. \A j \in 0..old_size : ff[j] = f[j]
      BY <1>4, Zenon
    <3>2. ff = [j \in 0..old_size |-> ff[j]] /\ f = [j \in 0..old_size |-> f[j]]
      BY <1>3
    <3> HIDE DEF ff
    <3> QED BY <3>1, <3>2
  <2> QED BY <2>1, Zenon DEF ResizeTurns
<1> DEFINE F == CHOOSE m : ResizeTurns(m, buckets, old_size, size)
<1>6. ResizeTurns(F, buckets, old_size, size)
  BY <1>5, Zenon
<1>7. MoveChains(buckets, old_size, size) = F[old_size]
  BY Zenon DEF MoveChains, ResizeTurns
<1> QED BY <1>6, <1>7, Zenon

\* HashMapResize loses and duplicates nothing: the new table has the items of
\* the old one, each in the bucket of its key.
LEMMA MoveChainsGood ==
  ASSUME NEW size \in Nat \ {0}, NEW old_size \in Nat \ {0}, NEW buckets, GoodTable(buckets, old_size)
  PROVE  /\ GoodTable(MoveChains(buckets, old_size, size), size)
         /\ TableItems(MoveChains(buckets, old_size, size)) = TableItems(buckets)
<1> DEFINE Sofar(n) == UNION {Range(buckets[b]) : b \in 0..(n - 1)}
           a == [b \in 0..(size - 1) |-> <<>>]
<1>1. buckets \in [0..(old_size - 1) -> Seq(Entries)]
  BY DEF GoodTable
<1>2. PICK f : /\ ResizeTurns(f, buckets, old_size, size)
               /\ MoveChains(buckets, old_size, size) = f[old_size]
  BY <1>1, MoveChainsLoop, Zenon
<1>3. f[0] = a /\ \A j \in 1..old_size : f[j] = MoveChain(f[j - 1], size, buckets[j - 1])
  <2>1. \A j \in 0..old_size : f[j] = IF j = 0 THEN a ELSE MoveChain(f[j - 1], size, buckets[j - 1])
    BY <1>2, Zenon DEF ResizeTurns
  <2>2. 0 \in 0..old_size /\ \A j \in 1..old_size : j \in 0..old_size /\ j # 0
    OBVIOUS
  <2> HIDE DEF a
  <2> QED BY <2>1, <2>2, Zenon
<1> DEFINE P == {n \in Nat : n <= old_size => GoodTable(f[n], size) /\ TableItems(f[n]) = Sofar(n)}
<1>4. 0 \in P
  <2>1. Sofar(0) = {}
    OBVIOUS
  <2>2. GoodTable(a, size) /\ TableItems(a) = {}
    BY EmptyTable
  <2> HIDE DEF Sofar, a
  <2> QED BY <2>1, <2>2, <1>3
<1>5. ASSUME NEW n \in P, n < old_size PROVE n + 1 \in P
  <2> DEFINE u == f[n]
             c == buckets[n]
  <2>1. n \in Nat /\ n + 1 \in 1..old_size /\ (n + 1) - 1 = n /\ n \in 0..(old_size - 1)
    BY <1>5
  <2>2. GoodTable(u, size) /\ TableItems(u) = Sofar(n)
    BY <1>5
  <2>3. f[n + 1] = MoveChain(u, size, c)
    BY <2>1, <1>3
  <2>4. c \in Seq(Entries) /\ KeysOnce(c) /\ \A i \in 1..Len(c) : HashMapGetBucket(old_size, c[i].key) = n
    BY <2>1, <1>1 DEF GoodTable
  <2>5. \A i \in 1..Len(c) : c[i].key \notin KeysIn(TableItems(u))
    <3> SUFFICES ASSUME NEW i \in 1..Len(c), NEW e \in Sofar(n), e.key = c[i].key PROVE FALSE
      BY <2>2 DEF KeysIn
    <3>1. PICK b \in 0..(n - 1) : e \in Range(buckets[b])
      OBVIOUS
    <3>2. b \in 0..(old_size - 1) /\ b # n
      BY <2>1
    <3>3. PICK j \in 1..Len(buckets[b]) : e = buckets[b][j]
      BY <3>1, <3>2, <1>1 DEF Range
    <3>4. HashMapGetBucket(old_size, e.key) = b
      BY <3>2, <3>3 DEF GoodTable
    <3>5. HashMapGetBucket(old_size, c[i].key) = n
      BY <2>4
    <3> QED BY <3>2, <3>4, <3>5
  <2>6. /\ GoodTable(MoveChain(u, size, c), size)
        /\ TableItems(MoveChain(u, size, c)) = TableItems(u) \cup Range(c)
    <3>1. ASSUME NEW tab, GoodTable(tab, size), NEW ch \in Seq(Entries), KeysOnce(ch),
                 \A i \in 1..Len(ch) : ch[i].key \notin KeysIn(TableItems(tab))
          PROVE  /\ GoodTable(MoveChain(tab, size, ch), size)
                 /\ TableItems(MoveChain(tab, size, ch)) = TableItems(tab) \cup Range(ch)
      BY <3>1, MoveChainGood
    <3> HIDE DEF u, c
    <3> QED BY <2>2, <2>4, <2>5, <3>1, Zenon
  <2>7. Sofar(n + 1) = Sofar(n) \cup Range(c)
    <3>1. 0..((n + 1) - 1) = (0..(n - 1)) \cup {n}
      BY <2>1
    <3> QED BY <3>1
  <2>8. n + 1 \in Nat
    BY <2>1
  <2> HIDE DEF Sofar, u, c
  <2> QED BY <2>2, <2>3, <2>6, <2>7, <2>8
<1>6. 0..old_size \subseteq P
  <2>1. P \in SUBSET Nat
    OBVIOUS
  <2> HIDE DEF P
  <2> QED BY <1>4, <1>5, <2>1, UpTo
<1>7. GoodTable(f[old_size], size) /\ TableItems(f[old_size]) = Sofar(old_size)
  <2>1. old_size \in 0..old_size
    OBVIOUS
  <2> HIDE DEF Sofar
  <2> QED BY <2>1, <1>6
<1>8. Sofar(old_size) = TableItems(buckets)
  BY <1>1 DEF TableItems
<1> QED BY <1>2, <1>7, <1>8

-----------------------------------------------------------------------------
(***************************************************************************)
(* Searching and changing a chain or the array.                            *)
(***************************************************************************)
Without(items, k) == {e \in items : e.key # k}

LEMMA IndexFound ==
  ASSUME NEW s \in Seq(Entries), NEW k
  PROVE  /\ IndexOf(s, k) \in 0..Len(s)
         /\ IndexOf(s, k) = 0 <=> \A i \in 1..Len(s) : s[i].key # k
         /\ IndexOf(s, k) # 0 => IndexOf(s, k) \in 1..Len(s) /\ s[IndexOf(s, k)].key = k
<1> DEFINE I == {i \in 1..Len(s) : s[i].key = k}
<1>1. IndexOf(s, k) = IF I # {} THEN Min(I) ELSE 0
  BY DEF IndexOf, SelectInSeq
<1>2. Len(s) \in Nat
  OBVIOUS
<1>3. CASE I = {}
  BY <1>1, <1>2, <1>3
<1>4. CASE I # {}
  <2>1. I \in SUBSET Nat
    OBVIOUS
  <2>2. Min(I) \in I
    <3> HIDE DEF I
    <3> QED BY <2>1, <1>4, LeastNumber
  <2>3. IndexOf(s, k) \in I
    BY <1>1, <1>4, <2>2
  <2>4. IndexOf(s, k) \in 1..Len(s) /\ s[IndexOf(s, k)].key = k
    BY <2>3
  <2> QED BY <2>4, <1>2
<1> QED BY <1>3, <1>4

LEMMA ChainRange ==
  ASSUME NEW s \in Seq(Entries)
  PROVE  /\ Range(s) \subseteq Entries
         /\ Range(s) = {s[i] : i \in 1..Len(s)}
<1>0. DOMAIN s = 1..Len(s)
  OBVIOUS
<1>1. \A i \in 1..Len(s) : s[i] \in Entries
  OBVIOUS
<1>2. Range(s) = {s[i] : i \in 1..Len(s)}
  BY <1>0 DEF Range
<1>3. {s[i] : i \in 1..Len(s)} \subseteq Entries
  BY <1>1
<1> QED BY <1>2, <1>3, Zenon

LEMMA EntryType ==
  ASSUME NEW k \in Keys, NEW o \in Objects
  PROVE  Entry(k, o) \in Entries /\ Entry(k, o).key = k /\ Entry(k, o).obj = o
BY DEF Entry, Entries

\* An entry is replaced where it is.
LEMMA ReplacedInChain ==
  ASSUME NEW s \in Seq(Entries), KeysOnce(s), NEW i \in 1..Len(s), NEW e \in Entries,
         s[i].key = e.key
  PROVE  LET c == [s EXCEPT ![i] = e] IN
         /\ c \in Seq(Entries) /\ Len(c) = Len(s) /\ KeysOnce(c)
         /\ Range(c) = Without(Range(s), e.key) \cup {e}
<1> DEFINE c == [s EXCEPT ![i] = e]
<1>1. /\ c \in Seq(Entries) /\ Len(c) = Len(s) /\ c[i] = e
      /\ \A j \in 1..Len(s) : j # i => c[j] = s[j]
  OBVIOUS
<1> HIDE DEF c
<1>2. \A j \in 1..Len(s) : c[j].key = s[j].key
  BY <1>1
<1>3. KeysOnce(c)
  BY <1>1, <1>2 DEF KeysOnce
<1>4. Range(c) = Without(Range(s), e.key) \cup {e}
  <2>1. \A x : x \in Range(c) <=> \E j \in 1..Len(s) : c[j] = x
    BY <1>1, ChainRange
  <2>2. \A x : x \in Range(s) <=> \E j \in 1..Len(s) : s[j] = x
    BY ChainRange
  <2>3. ASSUME NEW x \in Range(c) PROVE x \in Without(Range(s), e.key) \cup {e}
    <3>1. PICK j \in 1..Len(s) : c[j] = x
      BY <2>1, <2>3
    <3>2. CASE j # i
      <4>1. s[j] = x /\ s[j].key # e.key
        BY <3>1, <3>2, <1>1 DEF KeysOnce
      <4> QED BY <4>1, <2>2 DEF Without
    <3> QED BY <3>1, <3>2, <1>1
  <2>4. ASSUME NEW x \in Without(Range(s), e.key) PROVE x \in Range(c)
    <3>1. PICK j \in 1..Len(s) : s[j] = x
      BY <2>2, <2>4 DEF Without
    <3>2. j # i
      BY <3>1, <2>4 DEF Without
    <3> QED BY <3>1, <3>2, <1>1, <2>1
  <2>5. e \in Range(c)
    BY <1>1, <2>1
  <2> QED BY <2>3, <2>4, <2>5
<1> QED BY <1>1, <1>3, <1>4 DEF c

LEMMA RemovedAt ==
  ASSUME NEW S, NEW s \in Seq(S), NEW i \in 1..Len(s)
  PROVE  /\ RemoveAt(s, i) \in Seq(S) /\ Len(RemoveAt(s, i)) = Len(s) - 1
         /\ \A j \in 1..(Len(s) - 1) : RemoveAt(s, i)[j] = IF j < i THEN s[j] ELSE s[j + 1]
<1> DEFINE a == SubSeq(s, 1, i - 1)
           b == SubSeq(s, i + 1, Len(s))
<1>1. a \in Seq(S) /\ Len(a) = i - 1 /\ \A j \in 1..(i - 1) : a[j] = s[j]
  OBVIOUS
<1>2. b \in Seq(S) /\ Len(b) = Len(s) - i /\ \A j \in 1..(Len(s) - i) : b[j] = s[i + j]
  OBVIOUS
<1>3. RemoveAt(s, i) = a \o b
  BY DEF RemoveAt
<1> HIDE DEF a, b
<1>4. a \o b \in Seq(S) /\ Len(a \o b) = Len(s) - 1
  <2>1. a \in Seq(S) /\ b \in Seq(S)
    BY <1>1, <1>2
  <2>2. a \o b \in Seq(S) /\ Len(a \o b) = Len(a) + Len(b)
    BY <2>1
  <2>3. Len(s) \in Nat
    OBVIOUS
  <2> QED BY <2>2, <2>3, <1>1, <1>2
<1>5. ASSUME NEW j \in 1..(Len(s) - 1) PROVE (a \o b)[j] = IF j < i THEN s[j] ELSE s[j + 1]
  <2>1. (a \o b)[j] = IF j <= Len(a) THEN a[j] ELSE b[j - Len(a)]
    BY <1>1, <1>2, <1>4
  <2>2. CASE j < i
    <3>1. j \in 1..(i - 1) /\ j <= Len(a)
      BY <2>2, <1>1
    <3> QED BY <2>1, <2>2, <3>1, <1>1
  <2>3. CASE ~(j < i)
    <3>1. j - Len(a) \in 1..(Len(s) - i) /\ ~(j <= Len(a)) /\ i + (j - Len(a)) = j + 1
      BY <2>3, <1>1
    <3>2. b[j - Len(a)] = s[i + (j - Len(a))]
      BY <3>1, <1>2
    <3> QED BY <2>1, <2>3, <3>1, <3>2
  <2> QED BY <2>2, <2>3
<1> QED BY <1>3, <1>4, <1>5

\* An entry is unlinked from its chain, or the array closes over its slot.
LEMMA RemovedFromChain ==
  ASSUME NEW s \in Seq(Entries), KeysOnce(s), NEW i \in 1..Len(s)
  PROVE  /\ RemoveAt(s, i) \in Seq(Entries) /\ Len(RemoveAt(s, i)) = Len(s) - 1
         /\ KeysOnce(RemoveAt(s, i))
         /\ Range(RemoveAt(s, i)) = Without(Range(s), s[i].key)
<1> DEFINE c == RemoveAt(s, i)
<1>1. /\ c \in Seq(Entries) /\ Len(c) = Len(s) - 1 /\ Len(s) \in Nat
      /\ \A j \in 1..(Len(s) - 1) : c[j] = IF j < i THEN s[j] ELSE s[j + 1]
  BY RemovedAt
<1> HIDE DEF c
<1>2. KeysOnce(c)
  <2> SUFFICES ASSUME NEW j \in 1..Len(c), NEW l \in 1..Len(c), c[j].key = c[l].key PROVE j = l
    BY Zenon DEF KeysOnce
  <2> DEFINE jj == IF j < i THEN j ELSE j + 1
             ll == IF l < i THEN l ELSE l + 1
  <2>1. jj \in 1..Len(s) /\ ll \in 1..Len(s) /\ c[j] = s[jj] /\ c[l] = s[ll]
    BY <1>1
  <2>2. jj = ll
    <3> HIDE DEF jj, ll
    <3> QED BY <2>1 DEF KeysOnce
  <2> QED BY <2>2, <1>1
<1>3. Range(c) = Without(Range(s), s[i].key)
  <2>1. \A x : x \in Range(c) <=> \E j \in 1..Len(c) : c[j] = x
    BY <1>1, ChainRange
  <2>2. \A x : x \in Range(s) <=> \E j \in 1..Len(s) : s[j] = x
    BY ChainRange
  <2>3. ASSUME NEW x \in Range(c) PROVE x \in Without(Range(s), s[i].key)
    <3>1. PICK j \in 1..Len(c) : c[j] = x
      BY <2>1, <2>3
    <3> DEFINE jj == IF j < i THEN j ELSE j + 1
    <3>2. jj \in 1..Len(s) /\ c[j] = s[jj] /\ jj # i
      BY <1>1
    <3> HIDE DEF jj
    <3>3. s[jj].key # s[i].key
      BY <3>2 DEF KeysOnce
    <3> QED BY <3>1, <3>2, <3>3, <2>2 DEF Without
  <2>4. ASSUME NEW x \in Without(Range(s), s[i].key) PROVE x \in Range(c)
    <3>1. PICK j \in 1..Len(s) : s[j] = x
      BY <2>2, <2>4 DEF Without
    <3>2. j # i
      BY <3>1, <2>4 DEF Without
    <3> DEFINE jj == IF j < i THEN j ELSE j - 1
    <3>3. jj \in 1..Len(c) /\ jj \in 1..(Len(s) - 1) /\ (IF jj < i THEN jj ELSE jj + 1) = j
      BY <1>1, <3>2
    <3>4. c[jj] = s[j]
      <4> HIDE DEF jj
      <4> QED BY <1>1, <3>3
    <3> HIDE DEF jj
    <3> QED BY <3>1, <3>3, <3>4, <2>1
  <2> QED BY <2>3, <2>4
<1> QED BY <1>1, <1>2, <1>3 DEF c

\* The table u is t with the bucket of k changed to c, where of the items with
\* key k only extra is left.
BucketChanged(u, t, size, k, c, extra) ==
  LET b == HashMapGetBucket(size, k) IN
  /\ size \in Nat \ {0} /\ GoodTable(t, size) /\ k \in Keys
  /\ c \in Seq(Entries) /\ KeysOnce(c) /\ extra \in SUBSET Entries
  /\ \A e \in extra : e.key = k
  /\ Range(c) = Without(Range(t[b]), k) \cup extra
  /\ u = [t EXCEPT ![b] = c]

LEMMA ChangedBucket ==
  ASSUME NEW u, NEW t, NEW size, NEW k, NEW c, NEW extra,
         BucketChanged(u, t, size, k, c, extra)
  PROVE  GoodTable(u, size) /\ TableItems(u) = Without(TableItems(t), k) \cup extra
<1> DEFINE b == HashMapGetBucket(size, k)
<1>0. /\ size \in Nat \ {0} /\ GoodTable(t, size) /\ k \in Keys
      /\ c \in Seq(Entries) /\ KeysOnce(c) /\ extra \in SUBSET Entries
      /\ \A e \in extra : e.key = k
      /\ Range(c) = Without(Range(t[b]), k) \cup extra
      /\ u = [t EXCEPT ![b] = c]
  BY Zenon DEF BucketChanged
<1>1. b \in 0..(size - 1)
  BY <1>0, BucketInRange
<1>2. t \in [0..(size - 1) -> Seq(Entries)] /\ t[b] \in Seq(Entries)
  BY <1>0, <1>1 DEF GoodTable
<1>3. \A x : x \in Range(c) <=> x \in extra \/ (x \in Range(t[b]) /\ x.key # k)
  BY <1>0 DEF Without
<1>4. \A d \in 0..(size - 1) : \A i \in 1..Len(t[d]) : HashMapGetBucket(size, t[d][i].key) = d
  BY <1>0 DEF GoodTable
<1>5. \A d \in 0..(size - 1) : \A x \in Range(t[d]) : HashMapGetBucket(size, x.key) = d
  <2> TAKE d \in 0..(size - 1)
  <2> TAKE x \in Range(t[d])
  <2>1. PICK i \in 1..Len(t[d]) : t[d][i] = x
    BY <1>2, ChainRange
  <2> QED BY <2>1, <1>4
<1>6. \A x \in extra : HashMapGetBucket(size, x.key) = b
  BY <1>0
<1> HIDE DEF b
<1>7. u \in [0..(size - 1) -> Seq(Entries)] /\ u[b] = c /\ \A d \in 0..(size - 1) : d # b => u[d] = t[d]
  BY <1>0, <1>1, <1>2
<1>8. ASSUME NEW d \in 0..(size - 1)
      PROVE  KeysOnce(u[d]) /\ \A i \in 1..Len(u[d]) : HashMapGetBucket(size, u[d][i].key) = d
  <2>1. CASE d = b
    <3>1. ASSUME NEW i \in 1..Len(c) PROVE HashMapGetBucket(size, c[i].key) = b
      <4>1. c[i] \in Range(c)
        BY <1>0, ChainRange
      <4> QED BY <4>1, <1>1, <1>3, <1>5, <1>6
    <3> QED BY <2>1, <3>1, <1>7, <1>0
  <2>2. CASE d # b
    BY <2>2, <1>7, <1>0 DEF GoodTable
  <2> QED BY <2>1, <2>2
<1>9. GoodTable(u, size)
  BY <1>7, <1>8 DEF GoodTable
<1>10. TableItems(u) = Without(TableItems(t), k) \cup extra
  <2>1. DOMAIN u = 0..(size - 1) /\ DOMAIN t = 0..(size - 1)
    BY <1>2, <1>7
  <2>2. \A x : x \in TableItems(u) <=> \E d \in 0..(size - 1) : x \in Range(u[d])
    BY <2>1 DEF TableItems
  <2>3. \A x : x \in TableItems(t) <=> \E d \in 0..(size - 1) : x \in Range(t[d])
    BY <2>1 DEF TableItems
  <2>4. ASSUME NEW x \in TableItems(u) PROVE x \in Without(TableItems(t), k) \cup extra
    <3>1. PICK d \in 0..(size - 1) : x \in Range(u[d])
      BY <2>2, <2>4
    <3>2. CASE d = b
      BY <3>1, <3>2, <1>7, <1>3, <2>3 DEF Without
    <3>3. CASE d # b
      <4>1. x \in Range(t[d])
        BY <3>1, <3>3, <1>7
      <4>2. HashMapGetBucket(size, x.key) # b
        BY <4>1, <3>3, <1>5
      <4>3. x.key # k
        BY <4>2 DEF b
      <4> QED BY <4>1, <4>3, <2>3 DEF Without
    <3> QED BY <3>2, <3>3
  <2>5. ASSUME NEW x \in Without(TableItems(t), k) PROVE x \in TableItems(u)
    <3>1. PICK d \in 0..(size - 1) : x \in Range(t[d]) /\ x.key # k
      BY <2>3, <2>5 DEF Without
    <3>2. CASE d = b
      BY <3>1, <3>2, <1>7, <1>3, <1>1, <2>2
    <3>3. CASE d # b
      BY <3>1, <3>3, <1>7, <2>2
    <3> QED BY <3>2, <3>3
  <2>6. ASSUME NEW x \in extra PROVE x \in TableItems(u)
    BY <1>7, <1>3, <1>1, <2>2
  <2> QED BY <2>4, <2>5, <2>6
<1> QED BY <1>9, <1>10

-----------------------------------------------------------------------------
(***************************************************************************)
(* Good maps: what every operation needs and keeps.                        *)
(***************************************************************************)
GoodArray(a) == a \in ArrayMaps /\ Len(a.values) <= TINY_LIMIT /\ KeysOnce(a.values)

\* load counts the items; the thresholds are those of the size.
GoodHash(h) ==
  /\ \E n \in Sizes : h \in HashMaps(n)
  /\ GoodTable(h.buckets, h.size)
  /\ h.max_threshold = MaxThreshold(h.size) /\ h.min_threshold = MinThreshold(h.size)
  /\ IsFiniteSet(TableItems(h.buckets)) /\ h.load = Cardinality(TableItems(h.buckets))
  /\ h.load <= MaxThreshold(h.size) \/ h.size = MAX_BUCKETS

GoodMap(x) == GoodArray(x) \/ GoodHash(x)

\* A table may be doubled below MAX_BUCKETS and halved above INIT_SIZE.
LEMMA SizesDouble ==
  /\ INIT_SIZE \in Sizes
  /\ \A n \in Sizes : n \in Nat \ {0} /\ n <= MAX_BUCKETS
  /\ \A n \in Sizes : n < MAX_BUCKETS => n * 2 \in Sizes
  /\ \A n \in Sizes : n > INIT_SIZE => n \div 2 \in Sizes /\ n % 2 = 0
<1>1. INIT_SIZE \in PowersOfTwo /\ MAX_BUCKETS \in PowersOfTwo /\ INIT_SIZE <= MAX_BUCKETS
  BY MapAssumption
<1>2. \A n \in PowersOfTwo : n \in Nat \ {0}
  BY DEF PowersOfTwo
<1>3. \A n \in PowersOfTwo : \A m \in PowersOfTwo : n < m => n * 2 \in PowersOfTwo /\ n * 2 <= m
  BY DEF PowersOfTwo
<1>4. \A n \in PowersOfTwo : \A m \in PowersOfTwo : n > m => n \div 2 \in PowersOfTwo /\ n \div 2 >= m /\ n % 2 = 0
  BY DEF PowersOfTwo
<1>5. \A n : n \in Sizes <=> n \in PowersOfTwo /\ n \in INIT_SIZE..MAX_BUCKETS
  BY DEF Sizes
<1>6. INIT_SIZE \in Nat /\ MAX_BUCKETS \in Nat
  BY <1>1, <1>2
<1>7. INIT_SIZE \in Sizes
  BY <1>1, <1>5, <1>6
<1>8. \A n \in Sizes : n \in Nat \ {0} /\ n <= MAX_BUCKETS /\ INIT_SIZE <= n
  BY <1>2, <1>5, <1>6
<1>9. ASSUME NEW n \in Sizes, n < MAX_BUCKETS PROVE n * 2 \in Sizes
  <2>1. n * 2 \in PowersOfTwo /\ n * 2 <= MAX_BUCKETS
    BY <1>1, <1>3, <1>5, <1>9
  <2> QED BY <2>1, <1>5, <1>6, <1>8
<1>10. ASSUME NEW n \in Sizes, n > INIT_SIZE PROVE n \div 2 \in Sizes /\ n % 2 = 0
  <2>1. n \div 2 \in PowersOfTwo /\ n \div 2 >= INIT_SIZE /\ n % 2 = 0
    BY <1>1, <1>4, <1>5, <1>10
  <2>2. n \div 2 <= n /\ n \div 2 \in Nat
    BY <1>8
  <2> QED BY <2>1, <2>2, <1>5, <1>6, <1>8
<1> QED BY <1>7, <1>8, <1>9, <1>10

\* The parts of a table record.
LEMMA HashFields ==
  ASSUME NEW h, NEW n \in Sizes, h \in HashMaps(n)
  PROVE  /\ h.is_array = FALSE /\ h.size = n /\ n \in Nat \ {0} /\ h.load \in Nat
         /\ h.max_threshold \in Nat /\ h.min_threshold \in Nat
         /\ h.buckets \in [0..(n - 1) -> Seq(Entries)]
         /\ h \notin ArrayMaps
BY SizesDouble DEF HashMaps, ArrayMaps

\* A table of n buckets with l items, before its load is compared with the threshold.
TableOf(h, n, l, t) ==
  /\ n \in Sizes /\ GoodTable(t, n)
  /\ l \in Nat /\ IsFiniteSet(TableItems(t)) /\ l = Cardinality(TableItems(t))
  /\ h = [is_array |-> FALSE, size |-> n, load |-> l, max_threshold |-> MaxThreshold(n),
          min_threshold |-> MinThreshold(n), buckets |-> t]

LEMMA GoodHashFrom ==
  ASSUME NEW h, NEW n, NEW l, NEW t, TableOf(h, n, l, t),
         l <= MaxThreshold(n) \/ n = MAX_BUCKETS
  PROVE  GoodHash(h) /\ TableItems(h.buckets) = TableItems(t)
<1> USE DEF TableOf
<1>1. n \in Nat \ {0}
  BY SizesDouble
<1>2. MaxThreshold(n) \in Nat /\ MinThreshold(n) \in Nat
  BY <1>1 DEF MaxThreshold, MinThreshold
<1>3. t \in [0..(n - 1) -> Seq(Entries)]
  BY DEF GoodTable
<1>4. h \in HashMaps(n)
  BY <1>2, <1>3 DEF HashMaps
<1>5. /\ h.is_array = FALSE /\ h.size = n /\ h.load = l /\ h.buckets = t
      /\ h.max_threshold = MaxThreshold(n) /\ h.min_threshold = MinThreshold(n)
  OBVIOUS
<1> QED BY <1>4, <1>5, Zenon DEF GoodHash

\* A table as the record of its parts.
LEMMA HashParts ==
  ASSUME NEW h, GoodHash(h)
  PROVE  /\ h.size \in Sizes /\ h.size \in Nat \ {0} /\ h.load \in Nat /\ h.is_array = FALSE
         /\ h = [is_array |-> FALSE, size |-> h.size, load |-> h.load,
                 max_threshold |-> MaxThreshold(h.size), min_threshold |-> MinThreshold(h.size),
                 buckets |-> h.buckets]
         /\ Items(h) = TableItems(h.buckets)
<1>1. PICK n \in Sizes : h \in HashMaps(n)
  BY DEF GoodHash
<1>2. h.is_array = FALSE /\ h.size = n /\ n \in Nat \ {0} /\ h.load \in Nat
  BY <1>1, HashFields
<1>3. h.max_threshold = MaxThreshold(h.size) /\ h.min_threshold = MinThreshold(h.size)
  BY DEF GoodHash
<1>4. h = [is_array |-> h.is_array, size |-> h.size, load |-> h.load,
           max_threshold |-> h.max_threshold, min_threshold |-> h.min_threshold,
           buckets |-> h.buckets]
  BY <1>1 DEF HashMaps
<1>5. Items(h) = TableItems(h.buckets)
  BY <1>2 DEF Items, TableItems
<1> QED BY <1>2, <1>3, <1>4, <1>5

\* What a search of the array or of a chain finds.
LEMMA ChainLookup ==
  ASSUME NEW s \in Seq(Entries), KeysOnce(s), NEW k, NEW i, i = IndexOf(s, k)
  PROVE  /\ i = 0 <=> k \notin KeysIn(Range(s))
         /\ i # 0 => /\ i \in 1..Len(s) /\ s[i].key = k /\ s[i] \in Range(s)
                     /\ \A e \in Range(s) : e.key = k => e = s[i]
<1>1. Range(s) = {s[j] : j \in 1..Len(s)}
  BY ChainRange
<1>2. /\ i = 0 <=> \A j \in 1..Len(s) : s[j].key # k
      /\ i # 0 => i \in 1..Len(s) /\ s[i].key = k
  BY IndexFound
<1>3. i = 0 <=> k \notin KeysIn(Range(s))
  BY <1>1, <1>2 DEF KeysIn
<1>4. ASSUME i # 0
      PROVE  /\ i \in 1..Len(s) /\ s[i].key = k /\ s[i] \in Range(s)
             /\ \A e \in Range(s) : e.key = k => e = s[i]
  <2>1. i \in 1..Len(s) /\ s[i].key = k /\ s[i] \in Range(s)
    BY <1>1, <1>2, <1>4
  <2>2. ASSUME NEW e \in Range(s), e.key = k PROVE e = s[i]
    <3>1. PICK j \in 1..Len(s) : e = s[j]
      BY <1>1
    <3> QED BY <3>1, <2>1, <2>2 DEF KeysOnce
  <2> QED BY <2>1, <2>2
<1> QED BY <1>3, <1>4

\* What a search of the bucket of a key finds is what there is in the table.
LEMMA TableLookup ==
  ASSUME NEW size \in Nat \ {0}, NEW t, GoodTable(t, size), NEW k \in Keys,
         NEW s, s = t[HashMapGetBucket(size, k)], NEW i, i = IndexOf(s, k)
  PROVE  /\ s \in Seq(Entries) /\ KeysOnce(s)
         /\ i = 0 <=> k \notin KeysIn(TableItems(t))
         /\ i # 0 => /\ i \in 1..Len(s) /\ s[i].key = k /\ s[i] \in TableItems(t)
                     /\ \A e \in TableItems(t) : e.key = k => e = s[i]
<1> DEFINE b == HashMapGetBucket(size, k)
<1>1. b \in 0..(size - 1)
  BY BucketInRange
<1>2. t \in [0..(size - 1) -> Seq(Entries)] /\ s \in Seq(Entries) /\ KeysOnce(s)
  BY <1>1 DEF GoodTable
<1>3. /\ i = 0 <=> k \notin KeysIn(Range(s))
      /\ i # 0 => /\ i \in 1..Len(s) /\ s[i].key = k /\ s[i] \in Range(s)
                  /\ \A e \in Range(s) : e.key = k => e = s[i]
  BY <1>2, ChainLookup
<1>4. \A e : e \in TableItems(t) <=> \E d \in 0..(size - 1) : e \in Range(t[d])
  BY <1>2 DEF TableItems
<1>5. ASSUME NEW e \in TableItems(t), e.key = k PROVE e \in Range(s)
  <2>1. PICK d \in 0..(size - 1) : e \in Range(t[d])
    BY <1>4
  <2>2. PICK j \in 1..Len(t[d]) : e = t[d][j]
    <3> DEFINE c == t[d]
    <3>1. c \in Seq(Entries) /\ e \in Range(c)
      BY <2>1, <1>2
    <3> HIDE DEF c
    <3>2. \E j \in 1..Len(c) : e = c[j]
      BY <3>1, ChainRange
    <3> QED BY <3>2 DEF c
  <2>3. HashMapGetBucket(size, e.key) = d
    BY <2>2 DEF GoodTable
  <2> QED BY <2>1, <2>3, <1>5
<1>6. Range(s) \subseteq TableItems(t)
  BY <1>1, <1>4
<1>7. k \in KeysIn(TableItems(t)) <=> k \in KeysIn(Range(s))
  BY <1>5, <1>6 DEF KeysIn
<1> QED BY <1>2, <1>3, <1>5, <1>6, <1>7

LEMMA TableKeysOnce ==
  ASSUME NEW size \in Nat \ {0}, NEW t, GoodTable(t, size), NEW e \in TableItems(t),
         NEW f \in TableItems(t), e.key = f.key
  PROVE  e = f
<1>1. TableItems(t) \subseteq Entries
  BY ItemsOfTable DEF GoodTable
<1> DEFINE k == e.key
           s == t[HashMapGetBucket(size, k)]
           i == IndexOf(s, k)
<1>2. k \in Keys /\ k \in KeysIn(TableItems(t))
  BY <1>1 DEF Entries, KeysIn
<1>3. /\ i = 0 <=> k \notin KeysIn(TableItems(t))
      /\ i # 0 => \A x \in TableItems(t) : x.key = k => x = s[i]
  <2> HIDE DEF k
  <2> QED BY <1>2, TableLookup
<1> HIDE DEF i, s
<1> QED BY <1>2, <1>3

\* The items once an entry for a key is set or taken away.
LEMMA KeyDropped ==
  ASSUME NEW items, IsFiniteSet(items), NEW k, NEW e \in items, e.key = k,
         \A x \in items : x.key = k => x = e
  PROVE  /\ IsFiniteSet(Without(items, k))
         /\ Cardinality(Without(items, k)) = Cardinality(items) - 1
         /\ Cardinality(items) \in Nat /\ Cardinality(items) >= 1
<1>1. Without(items, k) = items \ {e}
  BY DEF Without
<1>2. IsFiniteSet(items \ {e}) /\ Cardinality(items \ {e}) = Cardinality(items) - 1
  BY FS_RemoveElement
<1>3. Cardinality(items) \in Nat /\ Cardinality(items \ {e}) \in Nat
  BY <1>2, FS_CardinalityType
<1> QED BY <1>1, <1>2, <1>3

LEMMA KeySet ==
  ASSUME NEW items, IsFiniteSet(items), NEW k, NEW e, e.key = k
  PROVE  /\ IsFiniteSet(Without(items, k) \cup {e})
         /\ Cardinality(Without(items, k) \cup {e}) = Cardinality(Without(items, k)) + 1
         /\ IsFiniteSet(Without(items, k))
<1>1. IsFiniteSet(Without(items, k)) /\ e \notin Without(items, k)
  <2>1. Without(items, k) \in SUBSET items
    BY DEF Without
  <2>2. e \notin Without(items, k)
    BY DEF Without
  <2> QED BY <2>1, <2>2, FS_Subset
<1> QED BY <1>1, FS_AddElement

LEMMA ThresholdsGrow ==
  ASSUME NEW n \in Nat \ {0}, NEW l \in Nat
  PROVE  /\ l <= MaxThreshold(n) => l + 1 <= MaxThreshold(n * 2)
         /\ n % 2 = 0 /\ l < MinThreshold(n) => l <= MaxThreshold(n \div 2)
BY DEF MaxThreshold, MinThreshold

\* HashMapResize of a table with l items.
LEMMA ResizeGood ==
  ASSUME NEW h, NEW n, NEW l, NEW t, TableOf(h, n, l, t),
         NEW n2 \in Sizes, l <= MaxThreshold(n2) \/ n2 = MAX_BUCKETS
  PROVE  /\ GoodHash(HashMapResize(h, n2))
         /\ TableItems(HashMapResize(h, n2).buckets) = TableItems(t)
<1> DEFINE u == MoveChains(t, n, n2)
           r == HashMapResize(h, n2)
<1>1. n \in Nat \ {0} /\ n2 \in Nat \ {0}
  BY SizesDouble DEF TableOf
<1>2. GoodTable(u, n2) /\ TableItems(u) = TableItems(t)
  BY <1>1, MoveChainsGood DEF TableOf
<1>3. r = [is_array |-> FALSE, size |-> n2, load |-> l, max_threshold |-> MaxThreshold(n2),
           min_threshold |-> MinThreshold(n2), buckets |-> u]
  <2>1. h.size = n /\ h.buckets = t
    BY DEF TableOf
  <2>2. r = [h EXCEPT !.size = n2, !.max_threshold = MaxThreshold(n2),
                      !.min_threshold = MinThreshold(n2), !.buckets = u]
    BY <2>1, Zenon DEF HashMapResize
  <2> HIDE DEF r, u
  <2> QED BY <2>2 DEF TableOf
<1> HIDE DEF u, r
<1>4. TableOf(r, n2, l, u)
  BY <1>2, <1>3 DEF TableOf
<1>5. GoodHash(r) /\ TableItems(r.buckets) = TableItems(u)
  BY <1>4, GoodHashFrom
<1> QED BY <1>2, <1>5 DEF r

-----------------------------------------------------------------------------
(***************************************************************************)
(* Insertion and removal.                                                  *)
(***************************************************************************)
ObjsOf(items, k) == {e.obj : e \in {x \in items : x.key = k}}

\* What an insertion does to the items, which objects it destroys and what it returns.
Inserted(r, items, k, o) ==
  /\ Items(r.map) = Without(items, k) \cup {Entry(k, o)}
  /\ r.dead = ObjsOf(items, k)
  /\ r.ret = (k \in KeysIn(items))

Removed(r, items, k) ==
  /\ Items(r.map) = Without(items, k)
  /\ r.dead = ObjsOf(items, k)
  /\ r.ret = (k \in KeysIn(items))

LEMMA NoObj ==
  ASSUME NEW items, NEW k, k \notin KeysIn(items)
  PROVE  ObjsOf(items, k) = {} /\ Without(items, k) = items
BY DEF ObjsOf, KeysIn, Without

LEMMA HashInsertGood ==
  ASSUME NEW h, GoodHash(h), NEW k \in Keys, NEW o \in Objects, NEW r, r = HashMapInsert(h, k, o)
  PROVE  GoodHash(r.map) /\ Inserted(r, Items(h), k, o)
<1> DEFINE n == h.size
           t == h.buckets
           l == h.load
           b == HashMapGetBucket(n, k)
           s == t[b]
           i == IndexOf(s, k)
           e == Entry(k, o)
           E == TableItems(t)
           g == [h EXCEPT !.buckets[b] = <<e>> \o @, !.load = @ + 1]
<1>1. /\ n \in Sizes /\ n \in Nat \ {0} /\ l \in Nat
      /\ h = [is_array |-> FALSE, size |-> n, load |-> l, max_threshold |-> MaxThreshold(n),
              min_threshold |-> MinThreshold(n), buckets |-> t]
      /\ Items(h) = E
  BY HashParts
<1>2. GoodTable(t, n) /\ IsFiniteSet(E) /\ l = Cardinality(E) /\ (l <= MaxThreshold(n) \/ n = MAX_BUCKETS)
  BY DEF GoodHash
<1>3. e \in Entries /\ e.key = k /\ e.obj = o
  BY EntryType
<1>4. r = IF i # 0
            THEN [map |-> [h EXCEPT !.buckets[b][i] = e], dead |-> {s[i].obj}, ret |-> TRUE]
            ELSE [map |-> IF g.load > g.max_threshold /\ g.size < MAX_BUCKETS
                            THEN HashMapResize(g, g.size * 2) ELSE g,
                  dead |-> {}, ret |-> FALSE]
  BY Zenon DEF HashMapInsert
<1>5. /\ s \in Seq(Entries) /\ KeysOnce(s)
      /\ i = 0 <=> k \notin KeysIn(E)
      /\ i # 0 => /\ i \in 1..Len(s) /\ s[i].key = k /\ s[i] \in E
                  /\ \A x \in E : x.key = k => x = s[i]
  <2> HIDE DEF n, t
  <2> QED BY <1>1, <1>2, TableLookup
<1>6. b \in 0..(n - 1) /\ t \in [0..(n - 1) -> Seq(Entries)]
  <2> HIDE DEF n
  <2> QED BY <1>1, <1>2, BucketInRange DEF GoodTable
<1> HIDE DEF n, t, l, b, s, i, e, E, g
<1>7. CASE i # 0
  <2> DEFINE c == [s EXCEPT ![i] = e]
             u == [t EXCEPT ![b] = c]
             m == [h EXCEPT !.buckets[b][i] = e]
  <2>1. r.map = m /\ r.dead = {s[i].obj} /\ r.ret = TRUE
    BY <1>4, <1>7
  <2>2. c \in Seq(Entries) /\ KeysOnce(c) /\ Range(c) = Without(Range(s), k) \cup {e}
    BY <1>3, <1>5, <1>7, ReplacedInChain
  <2>3. GoodTable(u, n) /\ TableItems(u) = Without(E, k) \cup {e}
    <3> DEFINE X == {e}
    <3>1. /\ X \in SUBSET Entries /\ (\A x \in X : x.key = k) /\ b = HashMapGetBucket(n, k)
          /\ Range(c) = Without(Range(t[b]), k) \cup X
      BY <1>3, <2>2 DEF b, s
    <3>2. BucketChanged(u, t, n, k, c, X)
      <4>1. n \in Nat \ {0} /\ GoodTable(t, n) /\ c \in Seq(Entries) /\ KeysOnce(c)
        BY <2>2, <1>1, <1>2
      <4> HIDE DEF c, X
      <4> QED BY <3>1, <4>1, Zenon DEF BucketChanged
    <3> HIDE DEF c, u, X
    <3>3. GoodTable(u, n) /\ TableItems(u) = Without(TableItems(t), k) \cup X
      BY <3>2, ChangedBucket, SMT
    <3> QED BY <3>3 DEF X, E
  <2>4. m = [is_array |-> FALSE, size |-> n, load |-> l, max_threshold |-> MaxThreshold(n),
             min_threshold |-> MinThreshold(n), buckets |-> u]
    <3>1. m = [h EXCEPT !.buckets = [t EXCEPT ![b] = [t[b] EXCEPT ![i] = e]]]
      BY DEF t
    <3>2. m = [h EXCEPT !.buckets = u]
      BY <3>1, Zenon DEF s
    <3> HIDE DEF m, u
    <3> QED BY <3>2, <1>1
  <2>5. IsFiniteSet(Without(E, k) \cup {e}) /\ Cardinality(Without(E, k) \cup {e}) = l
    <3>1. Cardinality(Without(E, k)) = Cardinality(E) - 1 /\ Cardinality(E) \in Nat
      BY <1>2, <1>5, <1>7, KeyDropped
    <3>2. /\ IsFiniteSet(Without(E, k) \cup {e})
          /\ Cardinality(Without(E, k) \cup {e}) = Cardinality(Without(E, k)) + 1
      BY <1>2, <1>3, KeySet
    <3> QED BY <3>1, <3>2, <1>2
  <2> HIDE DEF c, u, m
  <2>6. GoodHash(m) /\ TableItems(m.buckets) = TableItems(u)
    <3>1. TableOf(m, n, l, u) /\ (l <= MaxThreshold(n) \/ n = MAX_BUCKETS)
      BY <2>3, <2>4, <2>5, <1>1, <1>2 DEF TableOf
    <3> QED BY <3>1, GoodHashFrom, Zenon
  <2>7. Items(m) = Without(E, k) \cup {e}
    BY <2>3, <2>6, HashParts
  <2>8. ObjsOf(E, k) = {s[i].obj} /\ k \in KeysIn(E)
    <3> DEFINE x == s[i]
    <3>1. x \in E /\ x.key = k /\ \A y \in E : y.key = k => y = x
      BY <1>5, <1>7
    <3> HIDE DEF x
    <3>2. ObjsOf(E, k) = {x.obj} /\ k \in KeysIn(E)
      BY <3>1 DEF ObjsOf, KeysIn
    <3> QED BY <3>2 DEF x
  <2> QED BY <2>1, <2>6, <2>7, <2>8, <1>1 DEF Inserted, e
<1>8. CASE i = 0
  <2> DEFINE u == MoveItem(t, n, e)
             m == IF g.load > g.max_threshold /\ g.size < MAX_BUCKETS
                    THEN HashMapResize(g, g.size * 2) ELSE g
  <2>1. r.map = m /\ r.dead = {} /\ r.ret = FALSE
    BY <1>4, <1>8
  <2>2. k \notin KeysIn(E) /\ ObjsOf(E, k) = {} /\ Without(E, k) = E
    BY <1>5, <1>8, NoObj
  <2>3. GoodTable(u, n) /\ TableItems(u) = E \cup {e}
    BY <2>2, <1>1, <1>2, <1>3, MoveItemGood DEF E
  <2>4. IsFiniteSet(TableItems(u)) /\ l + 1 = Cardinality(TableItems(u)) /\ l + 1 \in Nat
    <3>1. e \notin E
      BY <2>2, <1>3 DEF KeysIn
    <3> HIDE DEF u
    <3> QED BY <3>1, <2>3, <1>1, <1>2, FS_AddElement
  <2>5. g = [is_array |-> FALSE, size |-> n, load |-> l + 1, max_threshold |-> MaxThreshold(n),
             min_threshold |-> MinThreshold(n), buckets |-> u]
    <3>1. u = [t EXCEPT ![b] = <<e>> \o t[b]]
      BY <1>3 DEF MoveItem, b
    <3>2. g = [h EXCEPT !.buckets = [t EXCEPT ![b] = <<e>> \o t[b]], !.load = l + 1]
      BY DEF g, t, l
    <3>3. g = [h EXCEPT !.buckets = u, !.load = l + 1]
      BY <3>1, <3>2, Zenon
    <3> HIDE DEF u
    <3> QED BY <3>3, <1>1
  <2> HIDE DEF u, m
  <2>6. g.load = l + 1 /\ g.max_threshold = MaxThreshold(n) /\ g.size = n
    BY <2>5
  <2> DEFINE l2 == l + 1
  <2>66. TableOf(g, n, l2, u)
    BY <2>3, <2>4, <2>5, <1>1, Zenon DEF TableOf
  <2> HIDE DEF l2
  <2>7. GoodHash(m) /\ TableItems(m.buckets) = TableItems(u)
    <3>1. CASE l + 1 > MaxThreshold(n) /\ n < MAX_BUCKETS
      <4>1. m = HashMapResize(g, n * 2)
        BY <3>1, <2>6 DEF m
      <4>2. n * 2 \in Sizes
        BY <3>1, <1>1, SizesDouble
      <4>3. l <= MaxThreshold(n)
        <5>1. MAX_BUCKETS \in Nat
          BY MapAssumption DEF PowersOfTwo
        <5> QED BY <5>1, <3>1, <1>1, <1>2
      <4>4. l + 1 <= MaxThreshold(n * 2)
        BY <4>3, <1>1, ThresholdsGrow
      <4> DEFINE n2 == n * 2
      <4>5. n2 \in Sizes /\ (l2 <= MaxThreshold(n2) \/ n2 = MAX_BUCKETS) /\ m = HashMapResize(g, n2)
        BY <4>1, <4>2, <4>4 DEF l2
      <4> HIDE DEF n2
      <4>6. GoodHash(HashMapResize(g, n2)) /\ TableItems(HashMapResize(g, n2).buckets) = TableItems(u)
        BY <4>5, <2>66, ResizeGood, Zenon
      <4> QED BY <4>5, <4>6, Zenon
    <3>2. CASE ~(l + 1 > MaxThreshold(n) /\ n < MAX_BUCKETS)
      <4>1. m = g
        BY <3>2, <2>6 DEF m
      <4>2. l2 <= MaxThreshold(n) \/ n = MAX_BUCKETS
        <5>1. MAX_BUCKETS \in Nat /\ n <= MAX_BUCKETS
          BY MapAssumption, <1>1, SizesDouble DEF PowersOfTwo
        <5>2. MaxThreshold(n) \in Nat
          BY <1>1 DEF MaxThreshold
        <5> QED BY <5>1, <5>2, <3>2, <1>1 DEF l2
      <4> QED BY <4>1, <4>2, <2>66, GoodHashFrom, Zenon
    <3> QED BY <3>1, <3>2
  <2>8. Items(m) = Without(E, k) \cup {e}
    BY <2>2, <2>3, <2>7, HashParts
  <2>9. (k \in KeysIn(E)) = FALSE
    BY <2>2
  <2> QED BY <2>1, <2>2, <2>7, <2>8, <2>9, <1>1, Zenon DEF Inserted, e
<1> QED BY <1>7, <1>8

LEMMA HashRemoveGood ==
  ASSUME NEW h, GoodHash(h), NEW k \in Keys, NEW r, r = HashMapRemove(h, k)
  PROVE  GoodHash(r.map) /\ Removed(r, Items(h), k)
<1> DEFINE n == h.size
           t == h.buckets
           l == h.load
           b == HashMapGetBucket(n, k)
           s == t[b]
           i == IndexOf(s, k)
           E == TableItems(t)
           g == [h EXCEPT !.buckets[b] = RemoveAt(@, i), !.load = @ - 1]
<1>1. /\ n \in Sizes /\ n \in Nat \ {0} /\ l \in Nat
      /\ h = [is_array |-> FALSE, size |-> n, load |-> l, max_threshold |-> MaxThreshold(n),
              min_threshold |-> MinThreshold(n), buckets |-> t]
      /\ Items(h) = E
  BY HashParts
<1>2. GoodTable(t, n) /\ IsFiniteSet(E) /\ l = Cardinality(E) /\ (l <= MaxThreshold(n) \/ n = MAX_BUCKETS)
  BY DEF GoodHash
<1>3. r = IF i = 0 THEN [map |-> h, dead |-> {}, ret |-> FALSE]
          ELSE [map |-> IF g.load < g.min_threshold /\ g.size > INIT_SIZE
                          THEN HashMapResize(g, g.size \div 2) ELSE g,
                dead |-> {s[i].obj}, ret |-> TRUE]
  BY Zenon DEF HashMapRemove
<1>4. /\ s \in Seq(Entries) /\ KeysOnce(s)
      /\ i = 0 <=> k \notin KeysIn(E)
      /\ i # 0 => /\ i \in 1..Len(s) /\ s[i].key = k /\ s[i] \in E
                  /\ \A x \in E : x.key = k => x = s[i]
  <2> HIDE DEF n, t
  <2> QED BY <1>1, <1>2, TableLookup
<1> HIDE DEF n, t, l, b, s, i, E, g
<1>5. CASE i = 0
  <2>1. ObjsOf(E, k) = {} /\ Without(E, k) = E /\ k \notin KeysIn(E)
    BY <1>4, <1>5, NoObj
  <2>2. r.map = h /\ r.dead = {} /\ r.ret = FALSE
    BY <1>3, <1>5
  <2>3. (k \in KeysIn(E)) = FALSE
    BY <2>1
  <2> QED BY <2>1, <2>2, <2>3, <1>1, Zenon DEF Removed
<1>6. CASE i # 0
  <2> DEFINE c == RemoveAt(s, i)
             u == [t EXCEPT ![b] = c]
             m == IF g.load < g.min_threshold /\ g.size > INIT_SIZE
                    THEN HashMapResize(g, g.size \div 2) ELSE g
  <2>1. r.map = m /\ r.dead = {s[i].obj} /\ r.ret = TRUE
    BY <1>3, <1>6
  <2>2. c \in Seq(Entries) /\ KeysOnce(c) /\ Range(c) = Without(Range(s), k)
    BY <1>4, <1>6, RemovedFromChain
  <2>3. GoodTable(u, n) /\ TableItems(u) = Without(E, k)
    <3> DEFINE X == {}
    <3>1. /\ X \in SUBSET Entries /\ (\A x \in X : x.key = k) /\ b = HashMapGetBucket(n, k)
          /\ Range(c) = Without(Range(t[b]), k) \cup X
      BY <2>2 DEF b, s
    <3>2. BucketChanged(u, t, n, k, c, X)
      <4>1. n \in Nat \ {0} /\ GoodTable(t, n) /\ c \in Seq(Entries) /\ KeysOnce(c)
        BY <2>2, <1>1, <1>2
      <4> HIDE DEF c, X
      <4> QED BY <3>1, <4>1, Zenon DEF BucketChanged
    <3> HIDE DEF c, u, X
    <3>3. GoodTable(u, n) /\ TableItems(u) = Without(TableItems(t), k) \cup X
      BY <3>2, ChangedBucket, SMT
    <3> QED BY <3>3 DEF X, E
  <2>4. /\ IsFiniteSet(TableItems(u)) /\ l - 1 = Cardinality(TableItems(u)) /\ l - 1 \in Nat
    <3> HIDE DEF u
    <3>1. /\ IsFiniteSet(Without(E, k)) /\ Cardinality(Without(E, k)) = Cardinality(E) - 1
          /\ Cardinality(E) >= 1
      BY <1>2, <1>4, <1>6, KeyDropped
    <3> QED BY <3>1, <2>3, <1>1, <1>2
  <2>5. g = [is_array |-> FALSE, size |-> n, load |-> l - 1, max_threshold |-> MaxThreshold(n),
             min_threshold |-> MinThreshold(n), buckets |-> u]
    <3>1. g = [h EXCEPT !.buckets = [t EXCEPT ![b] = RemoveAt(t[b], i)], !.load = l - 1]
      BY DEF g, t, l
    <3>2. g = [h EXCEPT !.buckets = u, !.load = l - 1]
      BY <3>1, Zenon DEF s
    <3> HIDE DEF u
    <3> QED BY <3>2, <1>1
  <2> HIDE DEF c, u, m
  <2>6. g.load = l - 1 /\ g.min_threshold = MinThreshold(n) /\ g.size = n
    BY <2>5
  <2> DEFINE l2 == l - 1
  <2>66. TableOf(g, n, l2, u)
    BY <2>3, <2>4, <2>5, <1>1, Zenon DEF TableOf
  <2> HIDE DEF l2
  <2>7. GoodHash(m) /\ TableItems(m.buckets) = TableItems(u)
    <3>1. CASE l - 1 < MinThreshold(n) /\ n > INIT_SIZE
      <4>1. m = HashMapResize(g, n \div 2)
        BY <3>1, <2>6 DEF m
      <4>2. n \div 2 \in Sizes /\ n % 2 = 0
        BY <3>1, <1>1, SizesDouble
      <4>3. l - 1 <= MaxThreshold(n \div 2)
        BY <4>2, <3>1, <2>4, <1>1, ThresholdsGrow
      <4> DEFINE n2 == n \div 2
      <4>4. n2 \in Sizes /\ (l2 <= MaxThreshold(n2) \/ n2 = MAX_BUCKETS) /\ m = HashMapResize(g, n2)
        BY <4>1, <4>2, <4>3 DEF l2
      <4> HIDE DEF n2
      <4>5. GoodHash(HashMapResize(g, n2)) /\ TableItems(HashMapResize(g, n2).buckets) = TableItems(u)
        BY <4>4, <2>66, ResizeGood, Zenon
      <4> QED BY <4>4, <4>5, Zenon
    <3>2. CASE ~(l - 1 < MinThreshold(n) /\ n > INIT_SIZE)
      <4>1. m = g
        BY <3>2, <2>6 DEF m
      <4>2. l2 <= MaxThreshold(n) \/ n = MAX_BUCKETS
        <5>1. MaxThreshold(n) \in Nat
          BY <1>1 DEF MaxThreshold
        <5> QED BY <5>1, <1>1, <1>2 DEF l2
      <4> QED BY <4>1, <4>2, <2>66, GoodHashFrom, Zenon
    <3> QED BY <3>1, <3>2
  <2>8. Items(m) = Without(E, k)
    BY <2>3, <2>7, HashParts
  <2>9. ObjsOf(E, k) = {s[i].obj} /\ k \in KeysIn(E)
    <3> DEFINE x == s[i]
    <3>1. x \in E /\ x.key = k /\ \A y \in E : y.key = k => y = x
      BY <1>4, <1>6
    <3> HIDE DEF x
    <3>2. ObjsOf(E, k) = {x.obj} /\ k \in KeysIn(E)
      BY <3>1 DEF ObjsOf, KeysIn
    <3> QED BY <3>2 DEF x
  <2> QED BY <2>1, <2>7, <2>8, <2>9, <1>1 DEF Removed
<1> QED BY <1>5, <1>6

LEMMA ArrayParts ==
  ASSUME NEW a, GoodArray(a)
  PROVE  /\ a.is_array = TRUE /\ a.values \in Seq(Entries) /\ KeysOnce(a.values)
         /\ Len(a.values) \in Nat /\ Len(a.values) <= TINY_LIMIT
         /\ a = [is_array |-> TRUE, values |-> a.values]
         /\ Items(a) = Range(a.values)
<1>1. a.is_array = TRUE /\ a.values \in Seq(Entries) /\ a = [is_array |-> TRUE, values |-> a.values]
  BY DEF GoodArray, ArrayMaps
<1>2. Len(a.values) \in Nat
  BY <1>1
<1> QED BY <1>1, <1>2 DEF GoodArray, Items

LEMMA GoodArrayFrom ==
  ASSUME NEW s \in Seq(Entries), KeysOnce(s), Len(s) <= TINY_LIMIT,
         NEW a, a = [is_array |-> TRUE, values |-> s]
  PROVE  GoodArray(a) /\ Items(a) = Range(s)
<1>1. a.is_array = TRUE /\ a.values = s /\ a \in ArrayMaps
  BY DEF ArrayMaps
<1> QED BY <1>1 DEF GoodArray, Items

LEMMA AppendedOnce ==
  ASSUME NEW s \in Seq(Entries), NEW e \in Entries, KeysOnce(s), e.key \notin KeysIn(Range(s))
  PROVE  /\ Append(s, e) \in Seq(Entries) /\ Len(Append(s, e)) = Len(s) + 1
         /\ KeysOnce(Append(s, e)) /\ Range(Append(s, e)) = Range(s) \cup {e}
<1> DEFINE c == Append(s, e)
<1>1. /\ c \in Seq(Entries) /\ Len(c) = Len(s) + 1 /\ c[Len(s) + 1] = e /\ Len(s) \in Nat
      /\ \A i \in 1..Len(s) : c[i] = s[i]
  OBVIOUS
<1> HIDE DEF c
<1>2. Range(s) = {s[i] : i \in 1..Len(s)}
  BY ChainRange
<1>3. \A i \in 1..Len(s) : s[i].key # e.key
  BY <1>2 DEF KeysIn
<1>4. Range(c) = {c[i] : i \in 1..Len(c)}
  BY <1>1, ChainRange
<1>5. 1..Len(c) = (1..Len(s)) \cup {Len(s) + 1}
  BY <1>1
<1>6. Range(c) = Range(s) \cup {e}
  BY <1>1, <1>2, <1>4, <1>5
<1>7. KeysOnce(c)
  BY <1>1, <1>3, <1>5 DEF KeysOnce
<1> QED BY <1>1, <1>6, <1>7 DEF c

\* A full array is left alone; otherwise the array gets the entry.
LEMMA ArrayInsertGood ==
  ASSUME NEW a, GoodArray(a), NEW k \in Keys, NEW o \in Objects, NEW r, r = ArrayMapInsert(a, k, o)
  PROVE  /\ r.ret = 0 \/ r.ret = 1 \/ r.ret = 2
         /\ r.ret # 0 => /\ GoodArray(r.map) /\ Items(r.map) = Without(Items(a), k) \cup {Entry(k, o)}
                         /\ r.dead = ObjsOf(Items(a), k)
                         /\ r.ret = 1 <=> k \in KeysIn(Items(a))
         /\ DOMAIN r = {"map", "dead", "ret"}
<1> DEFINE s == a.values
           i == IndexOf(s, k)
           e == Entry(k, o)
           E == Range(s)
<1>1. /\ s \in Seq(Entries) /\ KeysOnce(s) /\ Len(s) \in Nat /\ Len(s) <= TINY_LIMIT
      /\ a = [is_array |-> TRUE, values |-> s] /\ Items(a) = E
  BY ArrayParts
<1>2. e \in Entries /\ e.key = k /\ e.obj = o
  BY EntryType
<1>3. /\ i = 0 <=> k \notin KeysIn(E)
      /\ i # 0 => /\ i \in 1..Len(s) /\ s[i].key = k /\ s[i] \in E
                  /\ \A x \in E : x.key = k => x = s[i]
  <2> HIDE DEF s
  <2> QED BY <1>1, ChainLookup
<1>4. TINY_LIMIT \in Nat
  BY MapAssumption
<1>5. r = CASE Len(s) = TINY_LIMIT -> [map |-> a, dead |-> {}, ret |-> 0]
            [] Len(s) # TINY_LIMIT /\ i # 0 ->
                 [map |-> [a EXCEPT !.values[i] = e], dead |-> {s[i].obj}, ret |-> 1]
            [] OTHER -> [map |-> [a EXCEPT !.values = Append(@, e)], dead |-> {}, ret |-> 2]
  BY Zenon DEF ArrayMapInsert
<1> HIDE DEF s, i, e, E
<1>6. CASE Len(s) = TINY_LIMIT
  BY <1>5, <1>6
<1>7. CASE Len(s) # TINY_LIMIT /\ i # 0
  <2> DEFINE c == [s EXCEPT ![i] = e]
             m == [a EXCEPT !.values[i] = e]
  <2>1. r = [map |-> m, dead |-> {s[i].obj}, ret |-> 1]
    BY <1>5, <1>7
  <2>2. m = [is_array |-> TRUE, values |-> c]
    <3>1. m = [a EXCEPT !.values = c]
      BY DEF s
    <3> HIDE DEF c, m
    <3> QED BY <3>1, <1>1
  <2>3. c \in Seq(Entries) /\ Len(c) = Len(s) /\ KeysOnce(c) /\ Range(c) = Without(Range(s), k) \cup {e}
    BY <1>1, <1>2, <1>3, <1>7, ReplacedInChain
  <2> HIDE DEF c, m
  <2>4. GoodArray(m) /\ Items(m) = Without(E, k) \cup {e}
    BY <2>2, <2>3, <1>1, GoodArrayFrom DEF E
  <2>5. ObjsOf(E, k) = {s[i].obj} /\ k \in KeysIn(E)
    <3> DEFINE x == s[i]
    <3>1. x \in E /\ x.key = k /\ \A y \in E : y.key = k => y = x
      BY <1>3, <1>7
    <3> HIDE DEF x
    <3>2. ObjsOf(E, k) = {x.obj} /\ k \in KeysIn(E)
      BY <3>1 DEF ObjsOf, KeysIn
    <3> QED BY <3>2 DEF x
  <2>6. r.map = m /\ r.dead = {s[i].obj} /\ r.ret = 1 /\ DOMAIN r = {"map", "dead", "ret"}
    BY <2>1
  <2> QED BY <2>4, <2>5, <2>6, <1>1 DEF e
<1>8. CASE Len(s) # TINY_LIMIT /\ i = 0
  <2> DEFINE c == Append(s, e)
             m == [a EXCEPT !.values = Append(@, e)]
  <2>1. r = [map |-> m, dead |-> {}, ret |-> 2]
    BY <1>5, <1>8
  <2>2. m = [is_array |-> TRUE, values |-> c]
    <3>1. m = [a EXCEPT !.values = c]
      BY DEF s
    <3> HIDE DEF c, m
    <3> QED BY <3>1, <1>1
  <2>3. ObjsOf(E, k) = {} /\ Without(E, k) = E /\ k \notin KeysIn(E)
    BY <1>3, <1>8, NoObj
  <2>4. c \in Seq(Entries) /\ Len(c) = Len(s) + 1 /\ KeysOnce(c) /\ Range(c) = E \cup {e}
    BY <2>3, <1>1, <1>2, AppendedOnce DEF E
  <2>5. Len(c) <= TINY_LIMIT
    BY <2>4, <1>1, <1>4, <1>8
  <2> HIDE DEF c, m
  <2>6. GoodArray(m) /\ Items(m) = Range(c)
    BY <2>2, <2>4, <2>5, GoodArrayFrom
  <2>7. r.map = m /\ r.dead = {} /\ r.ret = 2 /\ DOMAIN r = {"map", "dead", "ret"}
    BY <2>1
  <2>8. r.ret # 1 /\ r.ret # 0
    BY <2>7
  <2>9. Items(r.map) = Without(Items(a), k) \cup {Entry(k, o)}
    BY <2>3, <2>4, <2>6, <2>7, <1>1 DEF e
  <2> QED BY <2>3, <2>6, <2>7, <2>8, <2>9, <1>1, Zenon
<1> QED BY <1>6, <1>7, <1>8

LEMMA ArrayRemoveGood ==
  ASSUME NEW a, GoodArray(a), NEW k \in Keys, NEW r, r = ArrayMapRemove(a, k)
  PROVE  GoodArray(r.map) /\ Removed(r, Items(a), k)
<1> DEFINE s == a.values
           i == IndexOf(s, k)
           E == Range(s)
<1>1. /\ s \in Seq(Entries) /\ KeysOnce(s) /\ Len(s) \in Nat /\ Len(s) <= TINY_LIMIT
      /\ a = [is_array |-> TRUE, values |-> s] /\ Items(a) = E
  BY ArrayParts
<1>2. /\ i = 0 <=> k \notin KeysIn(E)
      /\ i # 0 => /\ i \in 1..Len(s) /\ s[i].key = k /\ s[i] \in E
                  /\ \A x \in E : x.key = k => x = s[i]
  <2> HIDE DEF s
  <2> QED BY <1>1, ChainLookup
<1>3. r = IF i = 0 THEN [map |-> a, dead |-> {}, ret |-> FALSE]
          ELSE [map |-> [a EXCEPT !.values = RemoveAt(@, i)], dead |-> {s[i].obj}, ret |-> TRUE]
  BY Zenon DEF ArrayMapRemove
<1> HIDE DEF s, i, E
<1>4. CASE i = 0
  <2>1. ObjsOf(E, k) = {} /\ Without(E, k) = E /\ k \notin KeysIn(E)
    BY <1>2, <1>4, NoObj
  <2>2. r.map = a /\ r.dead = {} /\ r.ret = FALSE
    BY <1>3, <1>4
  <2>3. (k \in KeysIn(E)) = FALSE
    BY <2>1
  <2> QED BY <2>1, <2>2, <2>3, <1>1, Zenon DEF Removed
<1>5. CASE i # 0
  <2> DEFINE c == RemoveAt(s, i)
             m == [a EXCEPT !.values = RemoveAt(@, i)]
  <2>1. r = [map |-> m, dead |-> {s[i].obj}, ret |-> TRUE]
    BY <1>3, <1>5
  <2>2. m = [is_array |-> TRUE, values |-> c]
    <3>1. m = [a EXCEPT !.values = c]
      BY DEF s
    <3> HIDE DEF c, m
    <3> QED BY <3>1, <1>1
  <2>3. c \in Seq(Entries) /\ Len(c) = Len(s) - 1 /\ KeysOnce(c) /\ Range(c) = Without(Range(s), k)
    BY <1>1, <1>2, <1>5, RemovedFromChain
  <2>4. Len(c) <= TINY_LIMIT
    <3>1. TINY_LIMIT \in Nat
      BY MapAssumption
    <3> QED BY <3>1, <2>3, <1>1
  <2> HIDE DEF c, m
  <2>5. GoodArray(m) /\ Items(m) = Without(E, k)
    BY <2>2, <2>3, <2>4, GoodArrayFrom DEF E
  <2>6. ObjsOf(E, k) = {s[i].obj} /\ k \in KeysIn(E)
    <3> DEFINE x == s[i]
    <3>1. x \in E /\ x.key = k /\ \A y \in E : y.key = k => y = x
      BY <1>2, <1>5
    <3> HIDE DEF x
    <3>2. ObjsOf(E, k) = {x.obj} /\ k \in KeysIn(E)
      BY <3>1 DEF ObjsOf, KeysIn
    <3> QED BY <3>2 DEF x
  <2>7. r.map = m /\ r.dead = {s[i].obj} /\ r.ret = TRUE
    BY <2>1
  <2> QED BY <2>5, <2>6, <2>7, <1>1 DEF Removed
<1> QED BY <1>4, <1>5

-----------------------------------------------------------------------------
(***************************************************************************)
(* The conversion of a full array to a table.                              *)
(***************************************************************************)
LEMMA HashNewGood == GoodHash(HashMapNew) /\ Items(HashMapNew) = {}
<1> DEFINE t == [b \in 0..(INIT_SIZE - 1) |-> <<>>]
<1>1. INIT_SIZE \in Sizes /\ INIT_SIZE \in Nat \ {0}
  BY SizesDouble
<1>2. GoodTable(t, INIT_SIZE) /\ TableItems(t) = {}
  BY <1>1, EmptyTable
<1>3. HashMapNew = [is_array |-> FALSE, size |-> INIT_SIZE, load |-> 0,
                    max_threshold |-> MaxThreshold(INIT_SIZE),
                    min_threshold |-> MinThreshold(INIT_SIZE), buckets |-> t]
  BY Zenon DEF HashMapNew
<1> HIDE DEF t
<1>4. IsFiniteSet(TableItems(t)) /\ 0 = Cardinality(TableItems(t))
  BY <1>2, FS_EmptySet
<1>5. 0 <= MaxThreshold(INIT_SIZE)
  BY <1>1 DEF MaxThreshold
<1>6. TableOf(HashMapNew, INIT_SIZE, 0, t)
  BY <1>1, <1>2, <1>3, <1>4 DEF TableOf
<1>7. GoodHash(HashMapNew) /\ TableItems(HashMapNew.buckets) = TableItems(t)
  BY <1>5, <1>6, GoodHashFrom
<1>8. Items(HashMapNew) = TableItems(HashMapNew.buckets)
  BY <1>7, HashParts
<1> QED BY <1>2, <1>7, <1>8

ConvertTurns(f, s) ==
  f = [i \in 0..Len(s) |->
         IF i = 0 THEN HashMapNew ELSE HashMapInsert(f[i - 1], s[i].key, s[i].obj).map]

LEMMA ConvertLoop ==
  ASSUME NEW a, a.values \in Seq(Entries)
  PROVE  \E f : ConvertTurns(f, a.values) /\ ConvertToHashMap(a) = f[Len(a.values)]
<1> DEFINE s == a.values
           L == Len(s)
           S == {h \in UNION {HashMaps(n) : n \in Sizes} : GoodHash(h)}
           g == [i \in 1..L |-> [h \in S |-> HashMapInsert(h, s[i].key, s[i].obj).map]]
<1>1. L \in Nat /\ \A j \in 1..L : s[j] \in Entries /\ s[j].key \in Keys /\ s[j].obj \in Objects
  <2>1. s \in Seq(Entries)
    OBVIOUS
  <2> HIDE DEF s
  <2>2. L \in Nat /\ \A j \in 1..L : s[j] \in Entries
    BY <2>1
  <2>3. \A e \in Entries : e.key \in Keys /\ e.obj \in Objects
    BY DEF Entries
  <2> QED BY <2>2, <2>3
<1>2. \A h : h \in S <=> GoodHash(h)
  BY DEF GoodHash
<1>3. g \in [1..L -> [S -> S]]
  <2>1. ASSUME NEW i \in 1..L, NEW h \in S PROVE HashMapInsert(h, s[i].key, s[i].obj).map \in S
    <3> DEFINE k == s[i].key
               o == s[i].obj
               r == HashMapInsert(h, k, o)
    <3>1. k \in Keys /\ o \in Objects /\ GoodHash(h)
      BY <1>1, <1>2
    <3> HIDE DEF k, o, S
    <3>2. GoodHash(r.map)
      BY <3>1, HashInsertGood
    <3> QED BY <3>2, <1>2 DEF k, o
  <2> HIDE DEF S, L, s
  <2> QED BY <2>1
<1> HIDE DEF S
<1>4. PICK f \in [0..L -> S] : f[0] = HashMapNew /\ \A j \in 1..L : f[j] = g[j][f[j - 1]]
  <2> HIDE DEF L, g
  <2>1. HashMapNew \in S
    BY <1>2, HashNewGood
  <2>2. LoopRuns(L, S, HashMapNew, g)
    BY <1>1, <1>3, <2>1, LoopExists, Zenon
  <2> QED BY <2>2, Zenon DEF LoopRuns
<1>5. ASSUME NEW j \in 0..L
      PROVE  f[j] = IF j = 0 THEN HashMapNew ELSE HashMapInsert(f[j - 1], s[j].key, s[j].obj).map
  <2>1. CASE j = 0
    BY <2>1, <1>4, Zenon
  <2>2. CASE j # 0
    <3>1. j \in 1..L /\ j - 1 \in 0..L
      BY <2>2, <1>1
    <3>2. f[j - 1] \in S /\ f[j] = g[j][f[j - 1]]
      <4> HIDE DEF g
      <4> QED BY <3>1, <1>4
    <3>3. g[j][f[j - 1]] = HashMapInsert(f[j - 1], s[j].key, s[j].obj).map
      <4> HIDE DEF L
      <4> QED BY <3>1, <3>2
    <3> QED BY <2>2, <3>2, <3>3, Zenon
  <2> QED BY <2>1, <2>2
<1>6. ConvertTurns(f, s)
  <2> DEFINE ff == [j \in 0..L |-> IF j = 0 THEN HashMapNew ELSE HashMapInsert(f[j - 1], s[j].key, s[j].obj).map]
  <2>1. ff = f
    <3>1. \A j \in 0..L : ff[j] = f[j]
      BY <1>5, Zenon
    <3>2. ff = [j \in 0..L |-> ff[j]] /\ f = [j \in 0..L |-> f[j]]
      BY <1>4
    <3> HIDE DEF ff
    <3> QED BY <3>1, <3>2
  <2> QED BY <2>1, Zenon DEF ConvertTurns
<1> DEFINE F == CHOOSE m : ConvertTurns(m, s)
<1>7. ConvertTurns(F, s)
  BY <1>6, Zenon
<1>8. ConvertToHashMap(a) = F[Len(s)]
  BY Zenon DEF ConvertToHashMap, ConvertTurns
<1> QED BY <1>7, <1>8, Zenon

\* The conversion keeps exactly the entries of the array.
LEMMA ConvertGood ==
  ASSUME NEW a, GoodArray(a)
  PROVE  GoodHash(ConvertToHashMap(a)) /\ Items(ConvertToHashMap(a)) = Items(a)
<1> DEFINE s == a.values
           L == Len(s)
           Sofar(n) == {s[i] : i \in 1..n}
<1>1. s \in Seq(Entries) /\ KeysOnce(s) /\ L \in Nat /\ Items(a) = Range(s)
  BY ArrayParts
<1>2. PICK f : ConvertTurns(f, s) /\ ConvertToHashMap(a) = f[L]
  BY <1>1, ConvertLoop, Zenon
<1> HIDE DEF s
<1>3. f[0] = HashMapNew /\ \A j \in 1..L : f[j] = HashMapInsert(f[j - 1], s[j].key, s[j].obj).map
  <2>1. \A j \in 0..L : f[j] = IF j = 0 THEN HashMapNew ELSE HashMapInsert(f[j - 1], s[j].key, s[j].obj).map
    BY <1>2, Zenon DEF ConvertTurns
  <2>2. 0 \in 0..L /\ \A j \in 1..L : j \in 0..L /\ j # 0
    BY <1>1
  <2> QED BY <2>1, <2>2, Zenon
<1> DEFINE P == {n \in Nat : n <= L => GoodHash(f[n]) /\ Items(f[n]) = Sofar(n)}
<1>4. 0 \in P
  <2>1. Sofar(0) = {}
    OBVIOUS
  <2> HIDE DEF Sofar
  <2> QED BY <2>1, <1>3, HashNewGood
<1>5. ASSUME NEW n \in P, n < L PROVE n + 1 \in P
  <2> DEFINE h == f[n]
             e == s[n + 1]
             r == HashMapInsert(h, e.key, e.obj)
  <2>1. n \in Nat /\ n + 1 \in 1..L /\ (n + 1) - 1 = n
    BY <1>5
  <2>2. GoodHash(h) /\ Items(h) = Sofar(n)
    BY <1>5
  <2>3. f[n + 1] = r.map
    BY <2>1, <1>3
  <2>4. e \in Entries /\ e.key \in Keys /\ e.obj \in Objects /\ Entry(e.key, e.obj) = e
    <3>1. e \in Entries
      BY <2>1, <1>1
    <3> HIDE DEF e
    <3> QED BY <3>1 DEF Entries, Entry
  <2>5. GoodHash(r.map) /\ Items(r.map) = Without(Items(h), e.key) \cup {e}
    <3> HIDE DEF h, e
    <3>1. GoodHash(r.map) /\ Inserted(r, Items(h), e.key, e.obj)
      BY <2>2, <2>4, HashInsertGood
    <3> QED BY <3>1, <2>4 DEF Inserted
  <2>6. Without(Sofar(n), e.key) = Sofar(n)
    <3>1. \A i \in 1..n : s[i].key # s[n + 1].key
      <4> TAKE i \in 1..n
      <4>1. i \in 1..L /\ n + 1 \in 1..L /\ i # n + 1
        BY <2>1
      <4> QED BY <4>1, <1>1 DEF KeysOnce
    <3> QED BY <3>1 DEF Without
  <2>7. Sofar(n + 1) = Sofar(n) \cup {e}
    <3>1. 1..(n + 1) = (1..n) \cup {n + 1}
      BY <2>1
    <3> QED BY <3>1
  <2>8. n + 1 \in Nat
    BY <2>1
  <2> HIDE DEF Sofar, h, e, r
  <2> QED BY <2>2, <2>3, <2>5, <2>6, <2>7, <2>8
<1>6. 0..L \subseteq P
  <2>1. P \in SUBSET Nat
    OBVIOUS
  <2> HIDE DEF P, L
  <2> QED BY <1>1, <1>4, <1>5, <2>1, UpTo
<1>7. GoodHash(f[L]) /\ Items(f[L]) = Sofar(L)
  <2>1. L \in 0..L
    BY <1>1
  <2> HIDE DEF Sofar, L
  <2> QED BY <2>1, <1>1, <1>6
<1>8. Sofar(L) = Range(s)
  BY <1>1, ChainRange
<1> QED BY <1>1, <1>2, <1>7, <1>8

-----------------------------------------------------------------------------
(***************************************************************************)
(* Both representations.                                                   *)
(***************************************************************************)
LEMMA InsertGood ==
  ASSUME NEW x, GoodMap(x), NEW k \in Keys, NEW o \in Objects, NEW r, r = InsertResult(x, k, o)
  PROVE  GoodMap(r.map) /\ Inserted(r, Items(x), k, o)
<1>1. CASE GoodHash(x)
  <2>1. x.is_array = FALSE
    BY <1>1, HashParts
  <2>2. r = HashMapInsert(x, k, o)
    BY <2>1 DEF InsertResult
  <2> QED BY <2>2, <1>1, HashInsertGood DEF GoodMap
<1>2. CASE GoodArray(x)
  <2> DEFINE q == ArrayMapInsert(x, k, o)
             c == ConvertToHashMap(x)
  <2>1. x.is_array = TRUE
    BY <1>2, ArrayParts
  <2>2. /\ q.ret = 0 \/ q.ret = 1 \/ q.ret = 2
        /\ q.ret # 0 => /\ GoodArray(q.map) /\ Items(q.map) = Without(Items(x), k) \cup {Entry(k, o)}
                        /\ q.dead = ObjsOf(Items(x), k)
                        /\ q.ret = 1 <=> k \in KeysIn(Items(x))
        /\ DOMAIN q = {"map", "dead", "ret"}
    BY <1>2, ArrayInsertGood
  <2>3. r = IF q.ret # 0 THEN [q EXCEPT !.ret = (q.ret = 1)] ELSE HashMapInsert(c, k, o)
    BY <2>1 DEF InsertResult
  <2>4. CASE q.ret # 0
    <3>1. r = [q EXCEPT !.ret = (q.ret = 1)]
      BY <2>3, <2>4
    <3> HIDE DEF q
    <3>2. r.map = q.map /\ r.dead = q.dead
      BY <3>1, <2>2
    <3>3. r.ret = (q.ret = 1)
      BY <3>1, <2>2
    <3>4. q.ret = 1 <=> k \in KeysIn(Items(x))
      BY <2>2, <2>4
    <3>5. r.ret = (k \in KeysIn(Items(x)))
      BY <3>3, <3>4
    <3> QED BY <3>2, <3>5, <2>2, <2>4, Zenon DEF GoodMap, Inserted
  <2>5. CASE q.ret = 0
    <3>1. r = HashMapInsert(c, k, o)
      BY <2>3, <2>5
    <3>2. GoodHash(c) /\ Items(c) = Items(x)
      BY <1>2, ConvertGood
    <3> HIDE DEF c
    <3>3. GoodHash(r.map) /\ Inserted(r, Items(c), k, o)
      BY <3>1, <3>2, HashInsertGood
    <3> QED BY <3>2, <3>3, Zenon DEF GoodMap
  <2> QED BY <2>4, <2>5
<1> QED BY <1>1, <1>2 DEF GoodMap

LEMMA RemoveGood ==
  ASSUME NEW x, GoodMap(x), NEW k \in Keys, NEW r, r = RemoveResult(x, k)
  PROVE  GoodMap(r.map) /\ Removed(r, Items(x), k)
<1>1. CASE GoodHash(x)
  <2>1. x.is_array = FALSE
    BY <1>1, HashParts
  <2>2. r = HashMapRemove(x, k)
    BY <2>1 DEF RemoveResult
  <2> QED BY <2>2, <1>1, HashRemoveGood DEF GoodMap
<1>2. CASE GoodArray(x)
  <2>1. x.is_array = TRUE
    BY <1>2, ArrayParts
  <2>2. r = ArrayMapRemove(x, k)
    BY <2>1 DEF RemoveResult
  <2> QED BY <2>2, <1>2, ArrayRemoveGood DEF GoodMap
<1> QED BY <1>1, <1>2 DEF GoodMap

LEMMA NewGood == GoodMap(ArrayMapNew) /\ Items(ArrayMapNew) = {}
<1> DEFINE s == <<>>
<1>1. s \in Seq(Entries) /\ Len(s) = 0
  OBVIOUS
<1>2. ArrayMapNew = [is_array |-> TRUE, values |-> s]
  BY DEF ArrayMapNew
<1>3. TINY_LIMIT \in Nat
  BY MapAssumption
<1> HIDE DEF s
<1>4. KeysOnce(s) /\ Len(s) <= TINY_LIMIT
  BY <1>1, <1>3 DEF KeysOnce
<1>5. GoodArray(ArrayMapNew) /\ Items(ArrayMapNew) = Range(s)
  BY <1>1, <1>2, <1>4, GoodArrayFrom
<1>6. Range(s) = {s[i] : i \in 1..Len(s)}
  BY <1>1, ChainRange
<1>7. Range(s) = {}
  BY <1>1, <1>6
<1> QED BY <1>5, <1>7 DEF GoodMap

\* No key is in a map twice, whichever representation it has.
LEMMA ItemsOnce ==
  ASSUME NEW x, GoodMap(x)
  PROVE  /\ Items(x) \subseteq Entries
         /\ \A e, f \in Items(x) : e.key = f.key => e = f
<1>1. CASE GoodHash(x)
  <2>1. GoodTable(x.buckets, x.size) /\ Items(x) = TableItems(x.buckets) /\ x.size \in Nat \ {0}
    BY <1>1, HashParts DEF GoodHash
  <2>2. TableItems(x.buckets) \subseteq Entries
    <3>1. x.buckets \in [0..(x.size - 1) -> Seq(Entries)]
      BY <2>1 DEF GoodTable
    <3> QED BY <2>1, <3>1, ItemsOfTable
  <2>3. \A e, f \in TableItems(x.buckets) : e.key = f.key => e = f
    BY <2>1, TableKeysOnce
  <2> QED BY <2>1, <2>2, <2>3
<1>2. CASE GoodArray(x)
  <2> DEFINE s == x.values
  <2>1. s \in Seq(Entries) /\ KeysOnce(s) /\ Items(x) = Range(s)
    BY <1>2, ArrayParts
  <2> HIDE DEF s
  <2>2. Range(s) \subseteq Entries /\ Range(s) = {s[i] : i \in 1..Len(s)}
    BY <2>1, ChainRange
  <2> QED BY <2>1, <2>2 DEF KeysOnce
<1> QED BY <1>1, <1>2 DEF GoodMap

\* MapGet finds the entry of a key, if there is one.
LEMMA GetFinds ==
  ASSUME NEW x, GoodMap(x), NEW k \in Keys
  PROVE  /\ \A e \in Items(x) : e.key = k => MapGet(x, k) = e.obj
         /\ k \notin KeysIn(Items(x)) => MapGet(x, k) = None
<1>1. CASE GoodHash(x)
  <2> DEFINE t == x.buckets
             n == x.size
             s == t[HashMapGetBucket(n, k)]
             i == IndexOf(s, k)
  <2>1. GoodTable(t, n) /\ Items(x) = TableItems(t) /\ n \in Nat \ {0} /\ x.is_array = FALSE
    BY <1>1, HashParts DEF GoodHash
  <2>2. MapGet(x, k) = IF i = 0 THEN None ELSE s[i].obj
    BY <2>1 DEF MapGet
  <2>3. /\ i = 0 <=> k \notin KeysIn(TableItems(t))
        /\ i # 0 => \A e \in TableItems(t) : e.key = k => e = s[i]
    <3> HIDE DEF t, n
    <3> QED BY <2>1, TableLookup
  <2> HIDE DEF i, s
  <2> QED BY <2>1, <2>2, <2>3 DEF KeysIn
<1>2. CASE GoodArray(x)
  <2> DEFINE s == x.values
             i == IndexOf(s, k)
  <2>1. s \in Seq(Entries) /\ KeysOnce(s) /\ Items(x) = Range(s) /\ x.is_array = TRUE
    BY <1>2, ArrayParts
  <2>2. MapGet(x, k) = IF i = 0 THEN None ELSE s[i].obj
    BY <2>1 DEF MapGet
  <2>3. /\ i = 0 <=> k \notin KeysIn(Range(s))
        /\ i # 0 => \A e \in Range(s) : e.key = k => e = s[i]
    <3> HIDE DEF s
    <3> QED BY <2>1, ChainLookup
  <2> HIDE DEF i, s
  <2> QED BY <2>1, <2>2, <2>3 DEF KeysIn
<1> QED BY <1>1, <1>2 DEF GoodMap

LEMMA GetType ==
  ASSUME NEW x, GoodMap(x), NEW k \in Keys
  PROVE  /\ MapGet(x, k) \in Objects \cup {None}
         /\ MapGet(x, k) # None <=> k \in KeysIn(Items(x))
         /\ MapGet(x, k) # None => Entry(k, MapGet(x, k)) \in Items(x)
<1>1. /\ \A e \in Items(x) : e.key = k => MapGet(x, k) = e.obj
      /\ k \notin KeysIn(Items(x)) => MapGet(x, k) = None
  BY GetFinds
<1>2. Items(x) \subseteq Entries
  BY ItemsOnce
<1>3. None \notin Objects
  BY MapAssumption
<1>4. CASE k \in KeysIn(Items(x))
  <2>1. PICK e \in Items(x) : e.key = k
    BY <1>4 DEF KeysIn
  <2>2. MapGet(x, k) = e.obj /\ e \in Entries
    BY <2>1, <1>1, <1>2
  <2>3. e.obj \in Objects /\ Entry(k, e.obj) = e
    BY <2>1, <2>2 DEF Entries, Entry
  <2> QED BY <2>1, <2>2, <2>3, <1>3, <1>4
<1>5. CASE k \notin KeysIn(Items(x))
  BY <1>1, <1>5
<1> QED BY <1>4, <1>5

-----------------------------------------------------------------------------
(***************************************************************************)
(* Places: load counts them, and clearing takes it to 0.                   *)
(***************************************************************************)
LEMMA OneToOne ==
  ASSUME NEW S, NEW T, IsFiniteSet(T), NEW f \in [S -> T],
         \A a, b \in S : f[a] = f[b] => a = b,
         \A y \in T : \E a \in S : f[a] = y
  PROVE  IsFiniteSet(S) /\ Cardinality(S) = Cardinality(T)
<1>1. f \in Injection(S, T)
  BY DEF Injection, IsInjective
<1>2. f \in Surjection(S, T)
  BY DEF Surjection
<1> QED BY <1>1, <1>2, FS_Injection

LEMMA PlaceOnce ==
  ASSUME NEW h, GoodHash(h)
  PROVE  /\ \A p : p \in Places(h) <=> \E b \in 0..(h.size - 1) : \E i \in 1..Len(h.buckets[b]) : p = <<b, i>>
         /\ \A b, c \in 0..(h.size - 1) : \A i \in 1..Len(h.buckets[b]), j \in 1..Len(h.buckets[c]) :
              h.buckets[b][i].key = h.buckets[c][j].key => b = c /\ i = j
<1> DEFINE t == h.buckets
           n == h.size
<1>1. GoodTable(t, n) /\ n \in Nat \ {0}
  BY HashParts DEF GoodHash
<1>2. DOMAIN t = 0..(n - 1) /\ \A b \in 0..(n - 1) : DOMAIN t[b] = 1..Len(t[b])
  <2> HIDE DEF t, n
  <2> QED BY <1>1 DEF GoodTable
<1>3. Places(h) = UNION {{b} \X (1..Len(t[b])) : b \in 0..(n - 1)}
  <2>1. Places(h) = UNION {{b} \X DOMAIN t[b] : b \in DOMAIN t}
    BY Zenon DEF Places
  <2> HIDE DEF t, n
  <2> QED BY <1>2, <2>1
<1> HIDE DEF t, n
<1>4. \A p : p \in Places(h) <=> \E b \in 0..(n - 1) : \E i \in 1..Len(t[b]) : p = <<b, i>>
  BY <1>3
<1>5. ASSUME NEW b \in 0..(n - 1), NEW c \in 0..(n - 1), NEW i \in 1..Len(t[b]), NEW j \in 1..Len(t[c]),
             t[b][i].key = t[c][j].key
      PROVE  b = c /\ i = j
  <2>1. b = c
    BY <1>1, <1>5 DEF GoodTable
  <2> QED BY <2>1, <1>1, <1>5 DEF GoodTable, KeysOnce
<1> QED BY <1>4, <1>5 DEF t, n

LEMMA PlacesCount ==
  ASSUME NEW h, GoodHash(h)
  PROVE  Cardinality(Places(h)) = h.load /\ IsFiniteSet(Places(h))
<1> DEFINE t == h.buckets
           n == h.size
           S == Places(h)
           T == TableItems(t)
           f == [p \in S |-> t[p[1]][p[2]]]
<1>1. IsFiniteSet(T) /\ h.load = Cardinality(T) /\ n \in Nat /\ t \in [0..(n - 1) -> Seq(Entries)]
  BY HashParts DEF GoodHash, GoodTable
<1>2. \A p : p \in S <=> \E b \in 0..(n - 1) : \E i \in 1..Len(t[b]) : p = <<b, i>>
  BY PlaceOnce
<1>3. \A b, c \in 0..(n - 1) : \A i \in 1..Len(t[b]), j \in 1..Len(t[c]) :
        t[b][i].key = t[c][j].key => b = c /\ i = j
  BY PlaceOnce
<1>4. \A e : e \in T <=> \E b \in 0..(n - 1) : \E i \in 1..Len(t[b]) : t[b][i] = e
  <2> HIDE DEF t, n
  <2> QED BY <1>1, ItemsOfTable
<1> HIDE DEF S, T, t, n
<1>5. f \in [S -> T]
  <2> SUFFICES ASSUME NEW p \in S PROVE t[p[1]][p[2]] \in T
    BY Zenon
  <2>1. PICK b \in 0..(n - 1) : \E i \in 1..Len(t[b]) : p = <<b, i>>
    BY <1>2
  <2>2. PICK i \in 1..Len(t[b]) : p = <<b, i>>
    BY <2>1
  <2> QED BY <2>2, <1>4
<1>6. ASSUME NEW p \in S, NEW q \in S, f[p] = f[q] PROVE p = q
  <2>1. PICK b \in 0..(n - 1) : \E i \in 1..Len(t[b]) : p = <<b, i>>
    BY <1>2
  <2>2. PICK i \in 1..Len(t[b]) : p = <<b, i>>
    BY <2>1
  <2>3. PICK c \in 0..(n - 1) : \E j \in 1..Len(t[c]) : q = <<c, j>>
    BY <1>2
  <2>4. PICK j \in 1..Len(t[c]) : q = <<c, j>>
    BY <2>3
  <2>5. t[b][i] = t[c][j]
    BY <1>6, <2>2, <2>4
  <2> QED BY <2>2, <2>4, <2>5, <1>3
<1>7. ASSUME NEW e \in T PROVE \E p \in S : f[p] = e
  <2>1. PICK b \in 0..(n - 1) : \E i \in 1..Len(t[b]) : t[b][i] = e
    BY <1>4
  <2>2. PICK i \in 1..Len(t[b]) : t[b][i] = e
    BY <2>1
  <2>3. <<b, i>> \in S
    BY <1>2
  <2> QED BY <2>2, <2>3
<1> HIDE DEF f
<1>8. IsFiniteSet(S) /\ Cardinality(S) = Cardinality(T)
  BY <1>1, <1>5, <1>6, <1>7, OneToOne
<1> QED BY <1>1, <1>8 DEF S

LEMMA ClearGood ==
  ASSUME NEW x, GoodMap(x), NEW y, y = IF x.is_array THEN ArrayMapNew ELSE HashMapClear(x)
  PROVE  GoodMap(y) /\ Items(y) = {}
<1>1. CASE GoodArray(x)
  BY <1>1, ArrayParts, NewGood
<1>2. CASE GoodHash(x)
  <2> DEFINE n == x.size
             t == [b \in 0..(n - 1) |-> <<>>]
  <2>1. y = HashMapClear(x)
    BY <1>2, HashParts
  <2>2. DOMAIN x.buckets = 0..(n - 1)
    BY <1>2 DEF GoodHash, GoodTable
  <2>3. x.load - Cardinality(Places(x)) = 0
    <3>1. x.load \in Nat
      BY <1>2, HashParts
    <3>2. Cardinality(Places(x)) = x.load
      BY <1>2, PlacesCount
    <3> QED BY <3>1, <3>2
  <2>4. n \in Sizes /\ n \in Nat \ {0}
    BY <1>2, HashParts
  <2>5. y = [x EXCEPT !.buckets = t, !.load = 0]
    BY <2>1, <2>2, <2>3, Zenon DEF HashMapClear
  <2>6. GoodTable(t, n) /\ TableItems(t) = {}
    BY <2>4, EmptyTable
  <2> HIDE DEF t
  <2>7. y = [is_array |-> FALSE, size |-> n, load |-> 0, max_threshold |-> MaxThreshold(n),
             min_threshold |-> MinThreshold(n), buckets |-> t]
    <3>1. x = [is_array |-> FALSE, size |-> n, load |-> x.load, max_threshold |-> MaxThreshold(n),
               min_threshold |-> MinThreshold(n), buckets |-> x.buckets]
      BY <1>2, HashParts
    <3> DEFINE l == x.load
               d == x.buckets
               mx == MaxThreshold(n)
               mn == MinThreshold(n)
    <3> HIDE DEF n, l, d, mx, mn
    <3>2. x = [is_array |-> FALSE, size |-> n, load |-> l, max_threshold |-> mx,
               min_threshold |-> mn, buckets |-> d]
      BY <3>1, Zenon DEF l, d, mx, mn
    <3>3. y = [is_array |-> FALSE, size |-> n, load |-> 0, max_threshold |-> mx,
               min_threshold |-> mn, buckets |-> t]
      BY <2>5, <3>2
    <3> QED BY <3>3, Zenon DEF mx, mn
  <2> HIDE DEF n
  <2>8. IsFiniteSet(TableItems(t)) /\ 0 = Cardinality(TableItems(t))
    BY <2>6, FS_EmptySet
  <2>9. TableOf(y, n, 0, t) /\ 0 <= MaxThreshold(n)
    <3>1. 0 \in Nat /\ 0 <= MaxThreshold(n)
      BY <2>4 DEF MaxThreshold
    <3> QED BY <2>4, <2>6, <2>7, <2>8, <3>1, Zenon DEF TableOf
  <2>10. GoodHash(y) /\ TableItems(y.buckets) = TableItems(t)
    BY <2>9, GoodHashFrom
  <2>11. Items(y) = TableItems(y.buckets)
    BY <2>10, HashParts
  <2> QED BY <2>6, <2>10, <2>11 DEF GoodMap
<1> QED BY <1>1, <1>2 DEF GoodMap

-----------------------------------------------------------------------------
(***************************************************************************)
(* Iteration over a table.                                                 *)
(***************************************************************************)
\* What the iterator still has to visit: the rest of its bucket and the later ones.
Left(x, b, c) == Range(c) \cup UNION {Range(x.buckets[d]) : d \in (b + 1)..(x.size - 1)}

\* The items visited, s, and those left make up the table, and no key is in both.
WalkInv(x, s, b, c) ==
  /\ s \in Seq(Entries) /\ c \in Seq(Entries) /\ b \in 0..(x.size - 1)
  /\ KeysOnce(s) /\ KeysOnce(c)
  /\ \A i \in 1..Len(c) : HashMapGetBucket(x.size, c[i].key) = b
  /\ Range(s) \cup Left(x, b, c) = Items(x)
  /\ \A e \in Range(s), f \in Left(x, b, c) : e.key # f.key

LEMMA LeftItems ==
  ASSUME NEW x, GoodHash(x), NEW b \in 0..(x.size - 1), NEW c \in Seq(Entries)
  PROVE  \A e : e \in Left(x, b, c) <=>
           \/ \E i \in 1..Len(c) : c[i] = e
           \/ \E d \in (b + 1)..(x.size - 1) : \E i \in 1..Len(x.buckets[d]) : x.buckets[d][i] = e
<1> DEFINE t == x.buckets
           n == x.size
<1>1. n \in Nat \ {0} /\ t \in [0..(n - 1) -> Seq(Entries)]
  BY HashParts DEF GoodHash, GoodTable
<1>2. Left(x, b, c) = Range(c) \cup UNION {Range(t[d]) : d \in (b + 1)..(n - 1)}
  BY Zenon DEF Left
<1>3. b \in 0..(n - 1)
  OBVIOUS
<1> HIDE DEF t, n
<1>4. \A d \in (b + 1)..(n - 1) : Range(t[d]) = {t[d][i] : i \in 1..Len(t[d])}
  <2> TAKE d \in (b + 1)..(n - 1)
  <2> DEFINE u == t[d]
  <2>1. u \in Seq(Entries)
    BY <1>1, <1>3
  <2> HIDE DEF u
  <2>2. Range(u) = {u[i] : i \in 1..Len(u)}
    BY <2>1, ChainRange
  <2> QED BY <2>2 DEF u
<1>5. Range(c) = {c[i] : i \in 1..Len(c)}
  BY ChainRange
<1>6. \A e : e \in Left(x, b, c) <=>
           \/ \E i \in 1..Len(c) : c[i] = e
           \/ \E d \in (b + 1)..(n - 1) : \E i \in 1..Len(t[d]) : t[d][i] = e
  <2>1. ASSUME NEW e
        PROVE  e \in UNION {Range(t[d]) : d \in (b + 1)..(n - 1)} <=>
                 \E d \in (b + 1)..(n - 1) : e \in Range(t[d])
    OBVIOUS
  <2>2. ASSUME NEW e, NEW d \in (b + 1)..(n - 1)
        PROVE  e \in Range(t[d]) <=> \E i \in 1..Len(t[d]) : t[d][i] = e
    BY <1>4
  <2>3. ASSUME NEW e PROVE e \in Range(c) <=> \E i \in 1..Len(c) : c[i] = e
    BY <1>5
  <2> QED BY <1>2, <2>1, <2>2, <2>3, Zenon
<1> QED BY <1>6 DEF t, n

\* The first item left is visited.
LEMMA VisitHead ==
  ASSUME NEW x, GoodHash(x), NEW s, NEW b, NEW c, WalkInv(x, s, b, c), c # <<>>
  PROVE  /\ WalkInv(x, Append(s, Head(c)), b, Tail(c))
         /\ Head(c) \in Entries /\ Len(Append(s, Head(c))) = Len(s) + 1
<1> DEFINE e == Head(c)
           c2 == Tail(c)
           s2 == Append(s, e)
           n == x.size
           t == x.buckets
<1>0. n \in Nat \ {0} /\ GoodTable(t, n)
  BY HashParts DEF GoodHash
<1>1. /\ s \in Seq(Entries) /\ c \in Seq(Entries) /\ b \in 0..(n - 1)
      /\ KeysOnce(s) /\ KeysOnce(c)
      /\ \A i \in 1..Len(c) : HashMapGetBucket(n, c[i].key) = b
      /\ Range(s) \cup Left(x, b, c) = Items(x)
      /\ \A g \in Range(s), f \in Left(x, b, c) : g.key # f.key
  BY DEF WalkInv
<1>2. /\ e = c[1] /\ e \in Entries /\ 1 \in 1..Len(c)
      /\ c2 \in Seq(Entries) /\ Len(c2) = Len(c) - 1 /\ \A i \in 1..Len(c2) : c2[i] = c[i + 1] /\ i + 1 \in 1..Len(c)
      /\ Len(c) \in Nat \ {0}
  BY <1>1
<1>3. /\ s2 \in Seq(Entries) /\ Len(s2) = Len(s) + 1 /\ Len(s) \in Nat
      /\ \A i \in 1..Len(s) : s2[i] = s[i]
      /\ s2[Len(s) + 1] = e
  <2> HIDE DEF e
  <2> QED BY <1>1, <1>2
<1> DEFINE A == Left(x, b, c)
           B == Left(x, b, c2)
<1>4. \A f : f \in A <=> \/ \E i \in 1..Len(c) : c[i] = f
                         \/ \E d \in (b + 1)..(n - 1) : \E i \in 1..Len(t[d]) : t[d][i] = f
  BY <1>1, LeftItems, Zenon
<1>5. \A f : f \in B <=> \/ \E i \in 1..Len(c2) : c2[i] = f
                         \/ \E d \in (b + 1)..(n - 1) : \E i \in 1..Len(t[d]) : t[d][i] = f
  <2> HIDE DEF c2, n
  <2>1. c2 \in Seq(Entries) /\ b \in 0..(n - 1)
    BY <1>1, <1>2
  <2> QED BY <2>1, LeftItems, Zenon DEF n
<1> HIDE DEF e, c2, s2, n, t, A, B
<1>6. A = B \cup {e}
  <2>1. ASSUME NEW i \in 1..Len(c), i # 1 PROVE \E j \in 1..Len(c2) : c2[j] = c[i]
    <3>1. i - 1 \in 1..Len(c2) /\ (i - 1) + 1 = i
      BY <2>1, <1>2
    <3> QED BY <3>1, <1>2
  <2>2. ASSUME NEW f \in A PROVE f \in B \cup {e}
    BY <2>1, <1>2, <1>4, <1>5
  <2>3. ASSUME NEW f \in B PROVE f \in A
    BY <1>2, <1>4, <1>5
  <2>4. e \in A
    BY <1>2, <1>4
  <2> QED BY <2>2, <2>3, <2>4
<1>7. ASSUME NEW f \in B PROVE f.key # e.key
  <2>1. CASE \E i \in 1..Len(c2) : c2[i] = f
    <3>1. PICK i \in 1..Len(c2) : c2[i] = f
      BY <2>1
    <3>2. f = c[i + 1] /\ i + 1 \in 1..Len(c) /\ i + 1 # 1
      BY <3>1, <1>2
    <3> QED BY <3>2, <1>1, <1>2 DEF KeysOnce
  <2>2. CASE \E d \in (b + 1)..(n - 1) : \E i \in 1..Len(t[d]) : t[d][i] = f
    <3>1. PICK d \in (b + 1)..(n - 1) : \E i \in 1..Len(t[d]) : t[d][i] = f
      BY <2>2
    <3>2. d \in 0..(n - 1) /\ d # b
      BY <1>0, <1>1
    <3>3. HashMapGetBucket(n, f.key) = d
      BY <3>1, <3>2, <1>0 DEF GoodTable
    <3>4. HashMapGetBucket(n, e.key) = b
      BY <1>1, <1>2
    <3> QED BY <3>2, <3>3, <3>4
  <2> QED BY <2>1, <2>2, <1>5
<1>8. Range(s2) = Range(s) \cup {e}
  <2>1. Range(s2) = {s2[i] : i \in 1..Len(s2)} /\ Range(s) = {s[i] : i \in 1..Len(s)}
    BY <1>1, <1>3, ChainRange
  <2>2. 1..Len(s2) = (1..Len(s)) \cup {Len(s) + 1}
    BY <1>3
  <2> QED BY <2>1, <2>2, <1>3
<1>9. KeysOnce(s2)
  <2>1. ASSUME NEW i \in 1..Len(s) PROVE s[i].key # e.key
    <3>1. s[i] \in Range(s)
      BY <1>1, ChainRange
    <3>2. e \in A
      BY <1>6
    <3> QED BY <3>1, <3>2, <1>1 DEF A
  <2>2. \A i \in 1..Len(s2) : i \in 1..Len(s) \/ i = Len(s) + 1
    BY <1>3
  <2> QED BY <2>1, <2>2, <1>1, <1>3 DEF KeysOnce
<1>10. KeysOnce(c2)
  <2> SUFFICES ASSUME NEW i \in 1..Len(c2), NEW j \in 1..Len(c2), c2[i].key = c2[j].key PROVE i = j
    BY DEF KeysOnce
  <2>1. c2[i] = c[i + 1] /\ c2[j] = c[j + 1] /\ i + 1 \in 1..Len(c) /\ j + 1 \in 1..Len(c)
    BY <1>2
  <2>2. i + 1 = j + 1
    BY <2>1, <1>1 DEF KeysOnce
  <2> QED BY <2>2, <1>2
<1>11. \A i \in 1..Len(c2) : HashMapGetBucket(n, c2[i].key) = b
  BY <1>1, <1>2
<1>12. Range(s2) \cup B = Items(x) /\ \A g \in Range(s2), f \in B : g.key # f.key
  <2>1. Range(s) \cup A = Items(x) /\ \A g \in Range(s), f \in A : g.key # f.key
    BY <1>1 DEF A
  <2> QED BY <2>1, <1>6, <1>7, <1>8
<1>13. WalkInv(x, s2, b, c2)
  BY <1>1, <1>2, <1>3, <1>9, <1>10, <1>11, <1>12 DEF WalkInv, B, n
<1> QED BY <1>13, <1>2, <1>3 DEF s2, c2, e

\* From an exhausted bucket to the next one that is not empty.
LEMMA NextBucket ==
  ASSUME NEW x, GoodHash(x), NEW s, NEW b, NEW c, WalkInv(x, s, b, c), c = <<>>,
         NEW later, later = {d \in (b + 1)..(x.size - 1) : x.buckets[d] # <<>>}
  PROVE  /\ later = {} => Left(x, b, c) = {}
         /\ later # {} => /\ Min(later) \in Nat /\ x.buckets[Min(later)] # <<>>
                          /\ WalkInv(x, s, Min(later), x.buckets[Min(later)])
<1> DEFINE n == x.size
           t == x.buckets
           d == Min(later)
           u == t[d]
<1>1. n \in Nat \ {0} /\ GoodTable(t, n) /\ t \in [0..(n - 1) -> Seq(Entries)]
  BY HashParts DEF GoodHash, GoodTable
<1>2. /\ s \in Seq(Entries) /\ c \in Seq(Entries) /\ b \in 0..(n - 1) /\ Len(c) = 0
      /\ KeysOnce(s)
      /\ Range(s) \cup Left(x, b, c) = Items(x)
      /\ \A g \in Range(s), f \in Left(x, b, c) : g.key # f.key
  BY DEF WalkInv
<1>3. later = {a \in (b + 1)..(n - 1) : t[a] # <<>>}
  OBVIOUS
<1> DEFINE A == Left(x, b, c)
           B == Left(x, d, u)
<1>4. \A f : f \in A <=> \/ \E i \in 1..Len(c) : c[i] = f
                         \/ \E a \in (b + 1)..(n - 1) : \E i \in 1..Len(t[a]) : t[a][i] = f
  <2>1. \A a \in 0..(n - 1), v \in Seq(Entries) : \A f :
          f \in Left(x, a, v) <=> \/ \E i \in 1..Len(v) : v[i] = f
                                 \/ \E r \in (a + 1)..(n - 1) : \E i \in 1..Len(t[r]) : t[r][i] = f
    BY LeftItems, Zenon
  <2>2. b \in 0..(n - 1) /\ c \in Seq(Entries)
    BY <1>2
  <2> QED BY <2>1, <2>2, Zenon
<1> HIDE DEF n, t, A
<1>5. ASSUME NEW a \in (b + 1)..(n - 1), a \notin later PROVE Len(t[a]) = 0
  BY <1>3, <1>5
<1>6. ASSUME later = {} PROVE A = {}
  BY <1>2, <1>4, <1>5, <1>6
<1>7. ASSUME later # {} PROVE d \in Nat /\ u # <<>> /\ WalkInv(x, s, d, u)
  <2>1. later \in SUBSET Nat
    BY <1>1, <1>2, <1>3
  <2>2. d \in later /\ \A y \in later : d <= y
    BY <2>1, <1>7, LeastNumber
  <2> HIDE DEF d
  <2>3. d \in (b + 1)..(n - 1) /\ d \in 0..(n - 1) /\ u # <<>> /\ u \in Seq(Entries)
    BY <2>2, <1>1, <1>2, <1>3
  <2>4. KeysOnce(u) /\ \A i \in 1..Len(u) : HashMapGetBucket(n, u[i].key) = d
    BY <2>3, <1>1 DEF GoodTable
  <2>5. \A f : f \in B <=> \/ \E i \in 1..Len(u) : u[i] = f
                           \/ \E a \in (d + 1)..(n - 1) : \E i \in 1..Len(t[a]) : t[a][i] = f
    <3> HIDE DEF u
    <3> QED BY <2>3, LeftItems, Zenon DEF n, t
  <2> HIDE DEF B
  <2>6. ASSUME NEW f \in A PROVE f \in B
    <3>1. PICK a \in (b + 1)..(n - 1) : \E i \in 1..Len(t[a]) : t[a][i] = f
      BY <1>2, <1>4
    <3>2. a \in later
      <4>1. Len(t[a]) # 0
        BY <3>1
      <4> QED BY <4>1, <1>5
    <3>3. a = d \/ a \in (d + 1)..(n - 1)
      BY <3>2, <2>2, <2>3, <1>1
    <3> QED BY <3>1, <3>3, <2>5
  <2>7. ASSUME NEW f \in B PROVE f \in A
    <3>1. \A a \in (d + 1)..(n - 1) : a \in (b + 1)..(n - 1)
      BY <2>3, <1>1, <1>2
    <3> QED BY <3>1, <2>3, <2>5, <1>4
  <2>8. A = B
    BY <2>6, <2>7
  <2> HIDE DEF u
  <2> QED BY <2>3, <2>4, <2>8, <1>2 DEF WalkInv, A, B, n
<1> QED BY <1>6, <1>7 DEF A, t

\* HashMapIteratorNext ends only when nothing is left, and visits an item otherwise.
LEMMA NextItem ==
  ASSUME NEW x, GoodHash(x), NEW s, NEW b, NEW c, WalkInv(x, s, b, c),
         NEW it, it = [bucket |-> b, cur |-> c], NEW r, r = HashMapIteratorNext(x, it)
  PROVE  \/ r.item = None /\ Left(x, b, c) = {}
         \/ /\ r.item # None
            /\ \E b2, c2 : /\ r.iter = [bucket |-> b2, cur |-> c2]
                           /\ WalkInv(x, Append(s, r.item), b2, c2)
                           /\ Len(Append(s, r.item)) = Len(s) + 1
<1>1. it.cur = c /\ it.bucket = b
  OBVIOUS
<1>2. None \notin Entries
  BY MapAssumption
<1>3. CASE c # <<>>
  <2> DEFINE e == Head(c)
             c2 == Tail(c)
  <2>1. r = [item |-> e, iter |-> [it EXCEPT !.cur = c2]]
    BY <1>1, <1>3, Zenon DEF HashMapIteratorNext
  <2>2. WalkInv(x, Append(s, e), b, c2) /\ e \in Entries /\ Len(Append(s, e)) = Len(s) + 1
    BY <1>3, VisitHead
  <2> HIDE DEF e, c2
  <2>3. r.item = e /\ r.iter = [bucket |-> b, cur |-> c2]
    BY <2>1
  <2> QED BY <2>2, <2>3, <1>2, Zenon
<1>4. CASE c = <<>>
  <2> DEFINE later == {d \in (b + 1)..(x.size - 1) : x.buckets[d] # <<>>}
             b2 == Min(later)
             u == x.buckets[b2]
             e == Head(u)
             c2 == Tail(u)
  <2>1. r = IF later = {} THEN [item |-> None, iter |-> [bucket |-> x.size, cur |-> <<>>]]
            ELSE [item |-> e, iter |-> [bucket |-> b2, cur |-> c2]]
    BY <1>1, <1>4, Zenon DEF HashMapIteratorNext
  <2>2. /\ later = {} => Left(x, b, c) = {}
        /\ later # {} => u # <<>> /\ WalkInv(x, s, b2, u)
    BY <1>4, NextBucket, Zenon
  <2> HIDE DEF later, b2
  <2>3. CASE later = {}
    BY <2>1, <2>2, <2>3
  <2>4. CASE later # {}
    <3>1. u # <<>> /\ WalkInv(x, s, b2, u)
      BY <2>2, <2>4
    <3> HIDE DEF u
    <3>2. WalkInv(x, Append(s, e), b2, c2) /\ e \in Entries /\ Len(Append(s, e)) = Len(s) + 1
      BY <3>1, VisitHead
    <3>3. r = [item |-> e, iter |-> [bucket |-> b2, cur |-> c2]]
      BY <2>1, <2>4, Zenon DEF u
    <3> HIDE DEF e, c2
    <3>4. r.item = e /\ r.iter = [bucket |-> b2, cur |-> c2]
      BY <3>3
    <3> QED BY <3>2, <3>4, <1>2, Zenon
  <2> QED BY <2>3, <2>4
<1> QED BY <1>3, <1>4

Walks == [seq : Seq(Entries), iter : [bucket : Nat, cur : Seq(Entries)], done : BOOLEAN]

WalkGood(x, w) ==
  /\ w \in Walks
  /\ WalkInv(x, w.seq, w.iter.bucket, w.iter.cur)
  /\ w.done => Left(x, w.iter.bucket, w.iter.cur) = {}

LEMMA WalkFrom ==
  ASSUME NEW x, GoodHash(x), NEW s, NEW b, NEW c, WalkInv(x, s, b, c),
         NEW d \in BOOLEAN, d => Left(x, b, c) = {},
         NEW w, w = [seq |-> s, iter |-> [bucket |-> b, cur |-> c], done |-> d]
  PROVE  WalkGood(x, w) /\ w.seq = s /\ w.done = d
<1>1. w.seq = s /\ w.iter = [bucket |-> b, cur |-> c] /\ w.iter.bucket = b /\ w.iter.cur = c /\ w.done = d
  OBVIOUS
<1>2. s \in Seq(Entries) /\ b \in Nat /\ c \in Seq(Entries)
  BY HashParts DEF WalkInv
<1>3. w \in Walks
  BY <1>2 DEF Walks
<1> QED BY <1>1, <1>3, Zenon DEF WalkGood

LEMMA AdvanceGood ==
  ASSUME NEW x, GoodHash(x), NEW w, WalkGood(x, w), NEW v, v = Advance(x, w)
  PROVE  WalkGood(x, v) /\ (~v.done => ~w.done /\ Len(v.seq) = Len(w.seq) + 1)
<1> DEFINE s == w.seq
           b == w.iter.bucket
           c == w.iter.cur
           it == w.iter
           r == HashMapIteratorNext(x, it)
<1>1. /\ w = [seq |-> s, iter |-> it, done |-> w.done] /\ w.done \in BOOLEAN
      /\ it = [bucket |-> b, cur |-> c]
  BY DEF WalkGood, Walks
<1>2. WalkInv(x, s, b, c) /\ (w.done => Left(x, b, c) = {})
  BY DEF WalkGood
<1>3. v = IF w.done \/ r.item = None THEN [w EXCEPT !.done = TRUE]
          ELSE [seq |-> Append(s, r.item), iter |-> r.iter, done |-> FALSE]
  BY Zenon DEF Advance
<1> HIDE DEF s, b, c, it
<1>4. \/ r.item = None /\ Left(x, b, c) = {}
      \/ /\ r.item # None
         /\ \E b2, c2 : /\ r.iter = [bucket |-> b2, cur |-> c2]
                        /\ WalkInv(x, Append(s, r.item), b2, c2)
                        /\ Len(Append(s, r.item)) = Len(s) + 1
  BY <1>1, <1>2, NextItem
<1> HIDE DEF r
<1>5. CASE w.done \/ r.item = None
  <2> DEFINE d == TRUE
             d0 == w.done
  <2>1. v = [seq |-> s, iter |-> [bucket |-> b, cur |-> c], done |-> d]
    <3>1. v = [w EXCEPT !.done = d]
      BY <1>3, <1>5, Zenon
    <3>2. w = [seq |-> s, iter |-> it, done |-> d0]
      BY <1>1
    <3> HIDE DEF d, d0
    <3> QED BY <3>1, <3>2, <1>1
  <2>2. Left(x, b, c) = {} /\ d \in BOOLEAN
    BY <1>2, <1>4, <1>5
  <2>3. WalkGood(x, v) /\ v.done = d
    <3> HIDE DEF d
    <3> QED BY <1>2, <2>1, <2>2, WalkFrom
  <2> QED BY <2>3
<1>6. CASE ~(w.done \/ r.item = None)
  <2> DEFINE s2 == Append(s, r.item)
  <2>1. PICK b2, c2 : /\ r.iter = [bucket |-> b2, cur |-> c2]
                      /\ WalkInv(x, s2, b2, c2) /\ Len(s2) = Len(s) + 1
    BY <1>4, <1>6
  <2> DEFINE d == FALSE
  <2>2. v = [seq |-> s2, iter |-> [bucket |-> b2, cur |-> c2], done |-> d]
    BY <1>3, <1>6, <2>1, Zenon
  <2>3. d \in BOOLEAN /\ (d => Left(x, b2, c2) = {})
    OBVIOUS
  <2>4. WalkGood(x, v) /\ v.seq = s2 /\ v.done = d
    <3> HIDE DEF s2, d
    <3> QED BY <2>1, <2>2, <2>3, WalkFrom
  <2> HIDE DEF s2
  <2> QED BY <2>1, <2>4, <1>6 DEF s
<1> QED BY <1>5, <1>6

\* The turns of the loop over MapIteratorNext.
WalkTurns(f, x, N) ==
  f = [n \in 0..N |-> IF n = 0 THEN [seq |-> <<>>, iter |-> HashMapIteratorInit(x), done |-> FALSE]
                      ELSE Advance(x, f[n - 1])]

LEMMA WalkStart ==
  ASSUME NEW x, GoodHash(x),
         NEW w, w = [seq |-> <<>>, iter |-> HashMapIteratorInit(x), done |-> FALSE]
  PROVE  WalkGood(x, w) /\ w.seq = <<>> /\ w.done = FALSE
<1> DEFINE n == x.size
           t == x.buckets
           c == t[0]
           s == <<>>
           A == Left(x, 0, c)
<1>1. n \in Nat \ {0} /\ GoodTable(t, n) /\ t \in [0..(n - 1) -> Seq(Entries)] /\ Items(x) = TableItems(t)
  BY HashParts DEF GoodHash, GoodTable
<1> DEFINE d == FALSE
<1>2. w = [seq |-> s, iter |-> [bucket |-> 0, cur |-> c], done |-> d]
  BY Zenon DEF HashMapIteratorInit
<1>3. 0 \in 0..(n - 1) /\ c \in Seq(Entries)
  <2> HIDE DEF n, t
  <2> QED BY <1>1
<1>4. KeysOnce(c) /\ \A i \in 1..Len(c) : HashMapGetBucket(n, c[i].key) = 0
  <2> HIDE DEF n, t
  <2> QED BY <1>1, <1>3 DEF GoodTable
<1>5. \A f : f \in A <=> \/ \E i \in 1..Len(c) : c[i] = f
                         \/ \E r \in (0 + 1)..(n - 1) : \E i \in 1..Len(t[r]) : t[r][i] = f
  <2> HIDE DEF c
  <2> QED BY <1>3, LeftItems
<1>6. \A e : e \in TableItems(t) <=> \E b \in 0..(n - 1) : \E i \in 1..Len(t[b]) : t[b][i] = e
  <2> HIDE DEF n, t
  <2> QED BY <1>1, ItemsOfTable
<1>7. A = Items(x)
  <2> HIDE DEF n, t, A
  <2>1. \A r \in 0..(n - 1) : r = 0 \/ r \in (0 + 1)..(n - 1)
    BY <1>1
  <2>2. \A r \in (0 + 1)..(n - 1) : r \in 0..(n - 1)
    BY <1>1
  <2> QED BY <1>1, <1>3, <1>5, <1>6, <2>1, <2>2
<1>8. s \in Seq(Entries) /\ Len(s) = 0 /\ Range(s) = {}
  <2>1. s \in Seq(Entries) /\ Len(s) = 0
    OBVIOUS
  <2> HIDE DEF s
  <2>2. Range(s) = {s[i] : i \in 1..Len(s)}
    BY <2>1, ChainRange
  <2> QED BY <2>1, <2>2
<1> HIDE DEF A, c, s, n
<1>9. KeysOnce(s)
  BY <1>8 DEF KeysOnce
<1>10. WalkInv(x, s, 0, c)
  BY <1>3, <1>4, <1>7, <1>8, <1>9 DEF WalkInv, A, n
<1>11. d \in BOOLEAN /\ (d => Left(x, 0, c) = {})
  OBVIOUS
<1> HIDE DEF d
<1>12. WalkGood(x, w) /\ w.seq = s /\ w.done = d
  <2>1. ASSUME NEW s1, NEW b1, NEW c1, NEW d1 \in BOOLEAN, NEW w1,
               WalkInv(x, s1, b1, c1), d1 => Left(x, b1, c1) = {},
               w1 = [seq |-> s1, iter |-> [bucket |-> b1, cur |-> c1], done |-> d1]
        PROVE  WalkGood(x, w1) /\ w1.seq = s1 /\ w1.done = d1
    BY <2>1, WalkFrom
  <2> QED BY <1>2, <1>10, <1>11, <2>1, Zenon
<1> QED BY <1>12 DEF s, d

LEMMA WalkLoop ==
  ASSUME NEW x, GoodHash(x), NEW N \in Nat
  PROVE  \E f : /\ f = CHOOSE g : WalkTurns(g, x, N)
                /\ \A n \in 0..N : WalkGood(x, f[n])
                /\ f[0] = [seq |-> <<>>, iter |-> HashMapIteratorInit(x), done |-> FALSE]
                /\ \A n \in 1..N : f[n] = Advance(x, f[n - 1])
<1> DEFINE S == {w \in Walks : WalkGood(x, w)}
           w0 == [seq |-> <<>>, iter |-> HashMapIteratorInit(x), done |-> FALSE]
           g == [i \in 1..N |-> [w \in S |-> Advance(x, w)]]
<1>1. \A w : w \in S <=> WalkGood(x, w)
  BY DEF WalkGood
<1>2. g \in [1..N -> [S -> S]]
  <2>1. ASSUME NEW w \in S PROVE Advance(x, w) \in S
    <3>1. WalkGood(x, w)
      BY <1>1
    <3>2. WalkGood(x, Advance(x, w))
      BY <3>1, AdvanceGood
    <3> HIDE DEF S
    <3> QED BY <3>2, <1>1
  <2> HIDE DEF S
  <2> QED BY <2>1
<1>3. w0 \in S
  <2>1. WalkGood(x, w0)
    BY WalkStart
  <2> HIDE DEF S, w0
  <2> QED BY <2>1, <1>1
<1> HIDE DEF S, w0
<1>4. PICK f \in [0..N -> S] : f[0] = w0 /\ \A j \in 1..N : f[j] = g[j][f[j - 1]]
  <2> HIDE DEF g
  <2>1. LoopRuns(N, S, w0, g)
    BY <1>2, <1>3, LoopExists, Zenon
  <2> QED BY <2>1, Zenon DEF LoopRuns
<1>5. ASSUME NEW j \in 1..N PROVE f[j] = Advance(x, f[j - 1])
  <2>1. j - 1 \in 0..N
    OBVIOUS
  <2>2. f[j - 1] \in S /\ f[j] = g[j][f[j - 1]]
    <3> HIDE DEF g
    <3> QED BY <2>1, <1>4
  <2>3. g[j][f[j - 1]] = Advance(x, f[j - 1])
    BY <2>2
  <2> QED BY <2>2, <2>3, Zenon
<1>6. WalkTurns(f, x, N)
  <2> DEFINE ff == [n \in 0..N |-> IF n = 0 THEN w0 ELSE Advance(x, f[n - 1])]
  <2>1. ASSUME NEW n \in 0..N PROVE ff[n] = f[n]
    <3>1. n = 0 \/ n \in 1..N
      OBVIOUS
    <3>2. ff[n] = IF n = 0 THEN w0 ELSE Advance(x, f[n - 1])
      BY Zenon
    <3>3. CASE n = 0
      BY <3>2, <3>3, <1>4, Zenon
    <3>4. CASE n # 0
      BY <3>1, <3>2, <3>4, <1>5, Zenon
    <3> QED BY <3>3, <3>4
  <2>2. ff = [n \in 0..N |-> ff[n]] /\ f = [n \in 0..N |-> f[n]]
    BY <1>4
  <2>3. ff = f
    <3> HIDE DEF ff
    <3> QED BY <2>1, <2>2
  <2> QED BY <2>3, Zenon DEF WalkTurns, w0
<1> DEFINE F == CHOOSE m : WalkTurns(m, x, N)
<1>7. WalkTurns(F, x, N)
  BY <1>6, Zenon
<1>8. \A n \in 0..N : F[n] = IF n = 0 THEN w0 ELSE Advance(x, F[n - 1])
  BY <1>7, Zenon DEF WalkTurns, w0
<1> HIDE DEF F
<1>9. 0 \in 0..N /\ \A n \in 1..N : n \in 0..N /\ n # 0 /\ n - 1 \in 0..N
  OBVIOUS
<1>10. F[0] = w0 /\ \A n \in 1..N : F[n] = Advance(x, F[n - 1])
  BY <1>8, <1>9, Zenon
<1> DEFINE P == {n \in Nat : n <= N => WalkGood(x, F[n])}
<1>11. 0 \in P
  BY <1>1, <1>3, <1>10
<1>12. ASSUME NEW n \in P, n < N PROVE n + 1 \in P
  <2>1. n \in Nat /\ WalkGood(x, F[n]) /\ n + 1 \in 1..N /\ (n + 1) - 1 = n
    BY <1>12
  <2> DEFINE w == F[n]
             v == F[n + 1]
  <2>2. v = Advance(x, w)
    BY <2>1, <1>10
  <2>3. WalkGood(x, w)
    BY <2>1
  <2> HIDE DEF w, v
  <2>4. WalkGood(x, v)
    BY <2>2, <2>3, AdvanceGood
  <2> QED BY <2>1, <2>4 DEF v
<1>13. 0..N \subseteq P
  <2>1. P \in SUBSET Nat
    OBVIOUS
  <2> HIDE DEF P
  <2> QED BY <1>11, <1>12, <2>1, UpTo
<1>14. \A n \in 0..N : WalkGood(x, F[n])
  BY <1>13
<1>15. F = CHOOSE m : WalkTurns(m, x, N)
  BY Zenon DEF F
<1> QED BY <1>10, <1>14, <1>15, Zenon DEF w0

\* No two items of a map have the same object.
ObjsOnce(items) == \A e, f \in items : e.obj = f.obj => e = f

LEMMA WalkEnds ==
  ASSUME NEW x, GoodHash(x), ObjsOnce(Items(x)), NEW w, WalkGood(x, w),
         ~w.done => Len(w.seq) = Cardinality(Objects) + 1
  PROVE  w.seq \in Seq(Entries) /\ KeysOnce(w.seq) /\ Range(w.seq) = Items(x)
<1> DEFINE s == w.seq
           L == Left(x, w.iter.bucket, w.iter.cur)
<1>1. /\ s \in Seq(Entries) /\ KeysOnce(s) /\ Range(s) \cup L = Items(x)
      /\ w.done => L = {}
  BY DEF WalkGood, WalkInv
<1>2. w.done
  <2>1. SUFFICES ASSUME ~w.done PROVE FALSE
    OBVIOUS
  <2> DEFINE c == Cardinality(Objects)
             f == [i \in 1..(c + 1) |-> s[i].obj]
  <2>2. Len(s) = c + 1
    BY <2>1
  <2>3. IsFiniteSet(Objects)
    BY MapAssumption
  <2>4. c \in Nat
    BY <2>3, FS_CardinalityType
  <2> HIDE DEF s, c
  <2>5. ASSUME NEW i \in 1..(c + 1) PROVE s[i] \in Items(x) /\ s[i] \in Entries /\ s[i].obj \in Objects
    <3>1. s[i] \in Range(s) /\ s[i] \in Entries
      BY <2>2, <1>1, ChainRange
    <3>2. \A e \in Entries : e.obj \in Objects
      BY DEF Entries
    <3> QED BY <3>1, <3>2, <1>1
  <2>6. f \in [1..(c + 1) -> Objects]
    BY <2>5
  <2>7. ASSUME NEW i \in 1..(c + 1), NEW j \in 1..(c + 1), f[i] = f[j] PROVE i = j
    <3>1. s[i].obj = s[j].obj
      BY <2>7
    <3>2. s[i] = s[j]
      BY <3>1, <2>5 DEF ObjsOnce
    <3> QED BY <3>2, <1>1, <2>2 DEF KeysOnce
  <2> DEFINE I == 1..(c + 1)
  <2>8. IsFiniteSet(I) /\ Cardinality(I) = c + 1
    BY <2>4, FS_Interval
  <2>9. f \in [I -> Objects] /\ \A i, j \in I : f[i] = f[j] => i = j
    BY <2>6, <2>7
  <2>10. Cardinality(Objects) < Cardinality(I)
    BY <2>4, <2>8 DEF c
  <2> HIDE DEF f, I
  <2>11. \E i, j \in I : i # j /\ f[i] = f[j]
    BY <2>3, <2>8, <2>9, <2>10, FS_PigeonHole
  <2> QED BY <2>9, <2>11
<1> QED BY <1>1, <1>2

\* A loop over MapIteratorNext visits every item once.
LEMMA VisitedAll ==
  ASSUME NEW x, GoodMap(x), ObjsOnce(Items(x)), NEW s, s = Visited(x)
  PROVE  s \in Seq(Entries) /\ KeysOnce(s) /\ Range(s) = Items(x)
<1>1. CASE GoodArray(x)
  <2>1. x.is_array = TRUE /\ x.values \in Seq(Entries) /\ KeysOnce(x.values) /\ Items(x) = Range(x.values)
    BY <1>1, ArrayParts
  <2>2. s = x.values
    BY <2>1, Zenon DEF Visited
  <2> QED BY <2>1, <2>2
<1>2. CASE GoodHash(x)
  <2> DEFINE c == Cardinality(Objects)
             N == c + 1
             F == CHOOSE g : WalkTurns(g, x, N)
             w == F[N]
  <2>1. c \in Nat /\ N \in Nat /\ N \in 0..N
    <3>1. IsFiniteSet(Objects)
      BY MapAssumption
    <3>2. c \in Nat
      BY <3>1, FS_CardinalityType
    <3> HIDE DEF c
    <3> QED BY <3>2
  <2>2. x.is_array = FALSE
    BY <1>2, HashParts
  <2>3. s = w.seq
    BY <2>2, Zenon DEF Visited, WalkTurns
  <2> HIDE DEF N
  <2>4. /\ \A n \in 0..N : WalkGood(x, F[n])
        /\ F[0] = [seq |-> <<>>, iter |-> HashMapIteratorInit(x), done |-> FALSE]
        /\ \A n \in 1..N : F[n] = Advance(x, F[n - 1])
    BY <1>2, <2>1, WalkLoop, Zenon
  <2> HIDE DEF F
  <2> DEFINE P == {n \in Nat : n <= N => (~F[n].done => Len(F[n].seq) = n)}
  <2>5. 0 \in P
    <3>1. F[0].seq = <<>>
      BY <2>4
    <3> QED BY <3>1
  <2>6. ASSUME NEW n \in P, n < N PROVE n + 1 \in P
    <3> DEFINE u == F[n]
               v == F[n + 1]
    <3>1. n \in Nat /\ n \in 0..N /\ n + 1 \in 1..N /\ (n + 1) - 1 = n /\ (~u.done => Len(u.seq) = n)
      BY <2>1, <2>6
    <3>2. WalkGood(x, u) /\ v = Advance(x, u)
      BY <3>1, <2>4
    <3> HIDE DEF u, v
    <3>3. ~v.done => ~u.done /\ Len(v.seq) = Len(u.seq) + 1
      BY <1>2, <3>2, AdvanceGood
    <3>4. ~v.done => Len(v.seq) = n + 1
      BY <3>1, <3>3
    <3> QED BY <3>1, <3>4 DEF v
  <2>7. 0..N \subseteq P
    <3>1. P \in SUBSET Nat
      OBVIOUS
    <3> HIDE DEF P
    <3> QED BY <2>1, <2>5, <2>6, <3>1, UpTo
  <2>8. WalkGood(x, w) /\ (~w.done => Len(w.seq) = N)
    BY <2>1, <2>4, <2>7
  <2>9. ~w.done => Len(w.seq) = Cardinality(Objects) + 1
    BY <2>8 DEF N
  <2> HIDE DEF w
  <2>10. w.seq \in Seq(Entries) /\ KeysOnce(w.seq) /\ Range(w.seq) = Items(x)
    BY <1>2, <2>8, <2>9, WalkEnds
  <2> QED BY <2>3, <2>10
<1> QED BY <1>1, <1>2 DEF GoodMap

-----------------------------------------------------------------------------
(***************************************************************************)
(* SetJoin.                                                                *)
(***************************************************************************)
LEMMA JoinStepGood ==
  ASSUME NEW acc, GoodMap(acc.map), NEW e \in Entries, NEW o \in Objects, NEW r, r = JoinStep(acc, e, o)
  PROVE  /\ GoodMap(r.map) /\ Items(r.map) = Without(Items(acc.map), e.key) \cup {Entry(e.key, o)}
         /\ r.alive = (acc.alive \cup {o}) \ ObjsOf(Items(acc.map), e.key)
         /\ r = [map |-> r.map, alive |-> r.alive]
<1> DEFINE x == acc.map
           k == e.key
           q == InsertResult(x, k, o)
<1>1. k \in Keys
  BY DEF Entries
<1>2. r = [map |-> q.map, alive |-> (acc.alive \cup {o}) \ q.dead]
  BY Zenon DEF JoinStep
<1> HIDE DEF x, k
<1>3. GoodMap(q.map) /\ Inserted(q, Items(x), k, o)
  BY <1>1, InsertGood DEF x
<1> HIDE DEF q
<1>4. r.map = q.map /\ r.alive = (acc.alive \cup {o}) \ q.dead /\ r = [map |-> r.map, alive |-> r.alive]
  BY <1>2
<1>5. Items(q.map) = Without(Items(x), k) \cup {Entry(k, o)} /\ q.dead = ObjsOf(Items(x), k)
  BY <1>3, Zenon DEF Inserted
<1> QED BY <1>3, <1>4, <1>5 DEF x, k

\* The turns of the loop of SetJoin.
JoinTurns(f, acc, s, copies) ==
  f = [i \in 0..Len(s) |-> IF i = 0 THEN acc ELSE JoinStep(f[i - 1], s[i], copies[i])]

LEMMA JoinLoop ==
  ASSUME NEW acc, GoodMap(acc.map), acc.alive \in SUBSET Objects, acc = [map |-> acc.map, alive |-> acc.alive],
         NEW s \in Seq(Entries), NEW copies \in [1..Len(s) -> Objects]
  PROVE  \E f : /\ JoinResult(acc, s, copies) = f[Len(s)]
                /\ f[0] = acc
                /\ \A j \in 1..Len(s) : f[j] = JoinStep(f[j - 1], s[j], copies[j])
<1> DEFINE L == Len(s)
           All == ArrayMaps \cup UNION {HashMaps(n) : n \in Sizes}
           S == {r \in [map : All, alive : SUBSET Objects] : GoodMap(r.map)}
           g == [i \in 1..L |-> [r \in S |-> JoinStep(r, s[i], copies[i])]]
<1>1. L \in Nat /\ \A j \in 1..L : s[j] \in Entries /\ copies[j] \in Objects
  OBVIOUS
<1>2. \A x : GoodMap(x) => x \in All
  BY DEF GoodMap, GoodArray, GoodHash
<1> HIDE DEF All
<1>3. \A r : GoodMap(r.map) /\ r.alive \in SUBSET Objects /\ r = [map |-> r.map, alive |-> r.alive] => r \in S
  BY <1>2
<1>4. \A r \in S : GoodMap(r.map) /\ r.alive \in SUBSET Objects
  OBVIOUS
<1> HIDE DEF S, L
<1>5. g \in [1..L -> [S -> S]]
  <2>1. ASSUME NEW i \in 1..L, NEW r \in S PROVE JoinStep(r, s[i], copies[i]) \in S
    <3> DEFINE e == s[i]
               o == copies[i]
               q == JoinStep(r, e, o)
    <3>1. e \in Entries /\ o \in Objects /\ GoodMap(r.map) /\ r.alive \in SUBSET Objects
      BY <1>1, <1>4
    <3> HIDE DEF e, o
    <3>2. /\ GoodMap(q.map) /\ q = [map |-> q.map, alive |-> q.alive]
          /\ q.alive = (r.alive \cup {o}) \ ObjsOf(Items(r.map), e.key)
      BY <3>1, JoinStepGood
    <3> HIDE DEF q
    <3>3. q.alive \in SUBSET Objects
      BY <3>1, <3>2
    <3>4. q \in S
      BY <3>2, <3>3, <1>3
    <3> QED BY <3>4 DEF q, e, o
  <2> QED BY <2>1
<1>6. PICK f \in [0..L -> S] : f[0] = acc /\ \A j \in 1..L : f[j] = g[j][f[j - 1]]
  <2> HIDE DEF g
  <2>1. acc \in S
    BY <1>3
  <2>2. LoopRuns(L, S, acc, g)
    BY <1>1, <1>5, <2>1, LoopExists, Zenon
  <2> QED BY <2>2, Zenon DEF LoopRuns
<1>7. ASSUME NEW j \in 1..L PROVE f[j] = JoinStep(f[j - 1], s[j], copies[j])
  <2>1. j - 1 \in 0..L
    BY <1>1
  <2>2. f[j - 1] \in S /\ f[j] = g[j][f[j - 1]]
    <3> HIDE DEF g
    <3> QED BY <2>1, <1>6
  <2>3. g[j][f[j - 1]] = JoinStep(f[j - 1], s[j], copies[j])
    BY <2>2
  <2> QED BY <2>2, <2>3, Zenon
<1>8. JoinTurns(f, acc, s, copies)
  <2> DEFINE ff == [i \in 0..L |-> IF i = 0 THEN acc ELSE JoinStep(f[i - 1], s[i], copies[i])]
  <2>1. ASSUME NEW n \in 0..L PROVE ff[n] = f[n]
    <3>1. n = 0 \/ n \in 1..L
      BY <1>1
    <3>2. ff[n] = IF n = 0 THEN acc ELSE JoinStep(f[n - 1], s[n], copies[n])
      BY Zenon
    <3>3. CASE n = 0
      BY <3>2, <3>3, <1>6, Zenon
    <3>4. CASE n # 0
      BY <3>1, <3>2, <3>4, <1>7, Zenon
    <3> QED BY <3>3, <3>4
  <2>2. ff = [n \in 0..L |-> ff[n]] /\ f = [n \in 0..L |-> f[n]]
    BY <1>6
  <2>3. ff = f
    <3> HIDE DEF ff
    <3> QED BY <2>1, <2>2
  <2> QED BY <2>3, Zenon DEF JoinTurns, L
<1> DEFINE F == CHOOSE m : JoinTurns(m, acc, s, copies)
<1>9. JoinTurns(F, acc, s, copies)
  BY <1>8, Zenon
<1>10. JoinResult(acc, s, copies) = F[L]
  BY Zenon DEF JoinResult, JoinTurns, L
<1>11. \A n \in 0..L : F[n] = IF n = 0 THEN acc ELSE JoinStep(F[n - 1], s[n], copies[n])
  BY <1>9, Zenon DEF JoinTurns, L
<1> HIDE DEF F
<1>12. 0 \in 0..L /\ \A n \in 1..L : n \in 0..L /\ n # 0
  BY <1>1
<1>13. F[0] = acc /\ \A n \in 1..L : F[n] = JoinStep(F[n - 1], s[n], copies[n])
  BY <1>11, <1>12, Zenon
<1> QED BY <1>10, <1>13, Zenon DEF L

\* The items of a set with those of another replaced or added, up to the n-th.
JoinedItems(items, s, copies, n) ==
  {e \in items : \A j \in 1..n : s[j].key # e.key} \cup {Entry(s[j].key, copies[j]) : j \in 1..n}

\* The objects of the set that changes are those of its new items.
Exchanged(before, after, old, new) ==
  \A o : o \in after <=> \/ o \in before /\ \A e \in old : e.obj # o
                         \/ \E e \in new : e.obj = o

\* What SetJoin assumes: the copies are new objects, one for each item.
Copying(A, items, s, copies) ==
  /\ A \subseteq Objects /\ items \subseteq Entries /\ ObjsOnce(items)
  /\ \A e \in items : e.obj \in A
  /\ s \in Seq(Entries) /\ KeysOnce(s)
  /\ copies \in [1..Len(s) -> Objects \ A]
  /\ \A i, j \in 1..Len(s) : copies[i] = copies[j] => i = j

\* One turn of the loop, after n turns that left the items J and the objects B alive.
OneJoined(A, I, s, copies, n, J, B, k, o, C) ==
  /\ Copying(A, I, s, copies) /\ n \in Nat /\ n < Len(s)
  /\ J = JoinedItems(I, s, copies, n) /\ Exchanged(A, B, I, J)
  /\ k = s[n + 1].key /\ o = copies[n + 1]
  /\ C = (B \cup {o}) \ ObjsOf(J, k)

LEMMA JoinOne ==
  ASSUME NEW A, NEW I, NEW s, NEW copies, NEW n, NEW J, NEW B, NEW k, NEW o, NEW C,
         OneJoined(A, I, s, copies, n, J, B, k, o, C)
  PROVE  /\ JoinedItems(I, s, copies, n + 1) = Without(J, k) \cup {Entry(k, o)}
         /\ Exchanged(A, C, I, JoinedItems(I, s, copies, n + 1))
<1> USE DEF OneJoined
<1> DEFINE K == JoinedItems(I, s, copies, n + 1)
<1>1. /\ s \in Seq(Entries) /\ Len(s) \in Nat /\ 1..(n + 1) = (1..n) \cup {n + 1} /\ n + 1 \in 1..Len(s)
      /\ \A j \in 1..n : j \in 1..Len(s) /\ j # n + 1
  BY DEF Copying
<1>2. \A j \in 1..n : s[j].key # k
  BY <1>1 DEF Copying, KeysOnce
<1>3. \A j \in 1..Len(s) : s[j].key \in Keys /\ copies[j] \in Objects /\ copies[j] \notin A
  <2>1. \A j \in 1..Len(s) : s[j] \in Entries
    BY <1>1
  <2>2. \A e \in Entries : e.key \in Keys
    BY DEF Entries
  <2> QED BY <2>1, <2>2 DEF Copying
<1>4. \A j \in 1..Len(s) : Entry(s[j].key, copies[j]).key = s[j].key /\ Entry(s[j].key, copies[j]).obj = copies[j]
  BY DEF Entry
<1>5. K = Without(J, k) \cup {Entry(k, o)}
  <2>1. K = {e \in I : \A j \in (1..n) \cup {n + 1} : s[j].key # e.key}
              \cup {Entry(s[j].key, copies[j]) : j \in (1..n) \cup {n + 1}}
    BY <1>1 DEF JoinedItems
  <2>2. J = {e \in I : \A j \in 1..n : s[j].key # e.key} \cup {Entry(s[j].key, copies[j]) : j \in 1..n}
    BY DEF JoinedItems
  <2>3. Without(J, k) = {e \in I : (\A j \in 1..n : s[j].key # e.key) /\ e.key # k}
                          \cup {Entry(s[j].key, copies[j]) : j \in 1..n}
    BY <2>2, <1>1, <1>2, <1>4 DEF Without
  <2> HIDE DEF K
  <2> QED BY <2>1, <2>3
<1>6. \A e \in J : e.key = k => e \in I
  BY <1>1, <1>2, <1>4 DEF JoinedItems
<1>7. \A e, f \in J : e.key = k /\ e.obj = f.obj => e = f
  <2> SUFFICES ASSUME NEW e \in J, NEW f \in J, e.key = k, e.obj = f.obj PROVE e = f
    OBVIOUS
  <2>1. e \in I /\ e.obj \in A
    BY <1>6 DEF Copying
  <2>2. f \in I
    <3>1. f \in I \/ \E j \in 1..n : f = Entry(s[j].key, copies[j])
      BY DEF JoinedItems
    <3>2. ASSUME NEW j \in 1..n, f = Entry(s[j].key, copies[j]) PROVE FALSE
      BY <3>2, <2>1, <1>1, <1>3, <1>4
    <3> QED BY <3>1, <3>2
  <2> QED BY <2>1, <2>2 DEF Copying, ObjsOnce
<1>8. \A p : p \in ObjsOf(J, k) <=> \E e \in J : e.key = k /\ e.obj = p
  BY DEF ObjsOf
<1>9. o \notin ObjsOf(J, k) /\ o \notin A
  <2>1. o \notin A
    BY <1>1, <1>3
  <2> QED BY <2>1, <1>6, <1>8 DEF Copying
<1>10. Entry(k, o).obj = o
  BY DEF Entry
<1>11. Exchanged(A, C, I, K)
  <2> SUFFICES ASSUME NEW p
               PROVE  p \in C <=> \/ p \in A /\ \A e \in I : e.obj # p
                                  \/ \E e \in K : e.obj = p
    BY DEF Exchanged
  <2>1. p \in B <=> \/ p \in A /\ \A e \in I : e.obj # p
                    \/ \E e \in J : e.obj = p
    BY Zenon DEF Exchanged
  <2>2. p \in C <=> (p \in B \/ p = o) /\ p \notin ObjsOf(J, k)
    OBVIOUS
  <2>3. (\E e \in K : e.obj = p) <=> (\E e \in J : e.key # k /\ e.obj = p) \/ p = o
    <3> HIDE DEF K
    <3> QED BY <1>5, <1>10 DEF Without
  <2>4. ASSUME NEW e \in J, e.obj = p, e.key # k PROVE p \notin ObjsOf(J, k)
    BY <2>4, <1>7, <1>8
  <2>5. ASSUME p \in ObjsOf(J, k) PROVE \E e \in I : e.obj = p
    BY <2>5, <1>6, <1>8
  <2> HIDE DEF K
  <2> QED BY <2>1, <2>2, <2>3, <2>4, <2>5, <1>8, <1>9
<1> QED BY <1>5, <1>11

LEMMA JoinGood ==
  ASSUME NEW x, GoodMap(x), NEW A, NEW s, NEW copies, Copying(A, Items(x), s, copies),
         NEW r, r = JoinResult([map |-> x, alive |-> A], s, copies)
  PROVE  /\ GoodMap(r.map) /\ Items(r.map) = JoinedItems(Items(x), s, copies, Len(s))
         /\ Exchanged(A, r.alive, Items(x), Items(r.map))
<1> DEFINE L == Len(s)
           I == Items(x)
           J(n) == JoinedItems(I, s, copies, n)
           acc == [map |-> x, alive |-> A]
<1>1. /\ s \in Seq(Entries) /\ L \in Nat /\ copies \in [1..L -> Objects] /\ A \in SUBSET Objects
      /\ \A e \in I : e.obj \in A
  BY DEF Copying
<1>2. acc.map = x /\ acc.alive = A /\ acc = [map |-> acc.map, alive |-> acc.alive]
  OBVIOUS
<1>3. PICK f : /\ r = f[L] /\ f[0] = acc
               /\ \A j \in 1..L : f[j] = JoinStep(f[j - 1], s[j], copies[j])
  <2>1. r = JoinResult(acc, s, copies)
    OBVIOUS
  <2>2. GoodMap(acc.map) /\ acc.alive \in SUBSET Objects
    BY <1>1, <1>2
  <2> HIDE DEF acc
  <2>3. \E f : /\ JoinResult(acc, s, copies) = f[Len(s)] /\ f[0] = acc
               /\ \A j \in 1..Len(s) : f[j] = JoinStep(f[j - 1], s[j], copies[j])
    BY <1>1, <1>2, <2>2, JoinLoop
  <2> QED BY <2>1, <2>3, Zenon
<1> DEFINE P == {n \in Nat : n <= L => /\ GoodMap(f[n].map) /\ Items(f[n].map) = J(n)
                                       /\ Exchanged(A, f[n].alive, I, J(n))}
<1>4. 0 \in P
  <2>1. J(0) = I
    <3>1. 1..0 = {}
      OBVIOUS
    <3> HIDE DEF I
    <3> QED BY <3>1 DEF JoinedItems
  <2>2. Exchanged(A, A, I, I)
    BY <1>1 DEF Exchanged
  <2>3. f[0].map = x /\ f[0].alive = A
    BY <1>2, <1>3
  <2> HIDE DEF J
  <2> QED BY <2>1, <2>2, <2>3
<1>5. ASSUME NEW n \in P, n < L PROVE n + 1 \in P
  <2> DEFINE u == f[n]
             v == f[n + 1]
             e == s[n + 1]
             k == e.key
             o == copies[n + 1]
             B == u.alive
             C == v.alive
             K == J(n)
             K2 == J(n + 1)
  <2>1. n \in Nat /\ n + 1 \in 1..L /\ (n + 1) - 1 = n /\ n + 1 \in Nat
    BY <1>1, <1>5
  <2>2. GoodMap(u.map) /\ Items(u.map) = K /\ Exchanged(A, B, I, K)
    BY <1>5
  <2>3. v = JoinStep(u, e, o)
    BY <2>1, <1>3
  <2>4. e \in Entries /\ o \in Objects
    BY <2>1, <1>1
  <2>5. /\ GoodMap(v.map) /\ Items(v.map) = Without(K, k) \cup {Entry(k, o)}
        /\ C = (B \cup {o}) \ ObjsOf(K, k)
    <3> HIDE DEF u, v, e, o, J
    <3> QED BY <2>2, <2>3, <2>4, JoinStepGood
  <2>6. K2 = Without(K, k) \cup {Entry(k, o)} /\ Exchanged(A, C, I, K2)
    <3>1. k = s[n + 1].key /\ o = copies[n + 1] /\ K = JoinedItems(I, s, copies, n)
          /\ K2 = JoinedItems(I, s, copies, n + 1)
      OBVIOUS
    <3>2. Exchanged(A, B, I, JoinedItems(I, s, copies, n))
      BY <2>2
    <3>3. Copying(A, I, s, copies) /\ n \in Nat /\ n < Len(s)
      BY <2>1, <1>5
    <3> HIDE DEF B, C, K, K2, k, o, I
    <3>4. OneJoined(A, I, s, copies, n, K, B, k, o, C)
      BY <3>1, <3>2, <3>3, <2>5, Zenon DEF OneJoined
    <3>5. /\ JoinedItems(I, s, copies, n + 1) = Without(K, k) \cup {Entry(k, o)}
          /\ Exchanged(A, C, I, JoinedItems(I, s, copies, n + 1))
      BY <3>4, JoinOne, Zenon
    <3> QED BY <3>1, <3>5
  <2> HIDE DEF J, K
  <2>7. GoodMap(v.map) /\ Items(v.map) = K2 /\ Exchanged(A, C, I, K2)
    BY <2>5, <2>6
  <2> QED BY <2>1, <2>7
<1>6. 0..L \subseteq P
  <2>1. P \in SUBSET Nat
    OBVIOUS
  <2> HIDE DEF P, L
  <2> QED BY <1>1, <1>4, <1>5, <2>1, UpTo
<1>7. L \in P /\ L \in Nat
  BY <1>1, <1>6
<1>8. GoodMap(f[L].map) /\ Items(f[L].map) = J(L) /\ Exchanged(A, f[L].alive, I, J(L))
  <2> HIDE DEF J
  <2> QED BY <1>7
<1> QED BY <1>3, <1>8, Zenon

\* The joined items again have objects of their own.
LEMMA JoinedOnce ==
  ASSUME NEW A, NEW I, NEW s, NEW copies, Copying(A, I, s, copies),
         NEW J, J = JoinedItems(I, s, copies, Len(s))
  PROVE  /\ ObjsOnce(J)
         /\ \A e \in J : e \in I \/ e.obj \notin A
         /\ \A j \in 1..Len(s) : Entry(s[j].key, copies[j]) \in J
         /\ \A e \in I : e.key \notin KeysIn(Range(s)) => e \in J
         /\ KeysIn(Range(s)) \subseteq Keys
<1>1. s \in Seq(Entries) /\ Range(s) = {s[i] : i \in 1..Len(s)} /\ \A j \in 1..Len(s) : s[j] \in Entries
  BY ChainRange DEF Copying
<1>2. \A j \in 1..Len(s) : Entry(s[j].key, copies[j]).key = s[j].key /\ Entry(s[j].key, copies[j]).obj = copies[j]
  BY DEF Entry
<1>3. \A e : e \in J <=> \/ e \in I /\ \A j \in 1..Len(s) : s[j].key # e.key
                         \/ \E j \in 1..Len(s) : e = Entry(s[j].key, copies[j])
  BY DEF JoinedItems
<1>4. \A j \in 1..Len(s) : copies[j] \notin A
  BY DEF Copying
<1>5. \A e \in I : e.obj \in A
  BY DEF Copying
<1>6. ASSUME NEW e \in J, NEW f \in J, e.obj = f.obj PROVE e = f
  <2>1. CASE e \in I /\ f \in I
    BY <2>1, <1>6 DEF Copying, ObjsOnce
  <2>2. CASE e \notin I /\ f \notin I
    <3>1. PICK i \in 1..Len(s) : e = Entry(s[i].key, copies[i])
      BY <2>2, <1>3
    <3>2. PICK j \in 1..Len(s) : f = Entry(s[j].key, copies[j])
      BY <2>2, <1>3
    <3>3. copies[i] = copies[j]
      BY <3>1, <3>2, <1>2, <1>6
    <3>4. i = j
      BY <3>3 DEF Copying
    <3> QED BY <3>1, <3>2, <3>4
  <2>3. CASE e \in I /\ f \notin I
    BY <2>3, <1>2, <1>3, <1>4, <1>5, <1>6
  <2>4. CASE e \notin I /\ f \in I
    BY <2>4, <1>2, <1>3, <1>4, <1>5, <1>6
  <2> QED BY <2>1, <2>2, <2>3, <2>4
<1>7. \A e \in J : e \in I \/ e.obj \notin A
  BY <1>2, <1>3, <1>4
<1>8. \A j \in 1..Len(s) : Entry(s[j].key, copies[j]) \in J
  BY <1>3
<1>9. \A e \in I : e.key \notin KeysIn(Range(s)) => e \in J
  BY <1>1, <1>3 DEF KeysIn
<1>10. KeysIn(Range(s)) \subseteq Keys
  BY <1>1 DEF KeysIn, Entries
<1> QED BY <1>6, <1>7, <1>8, <1>9, <1>10 DEF ObjsOnce

-----------------------------------------------------------------------------
(***************************************************************************)
(* The inductive invariant.                                                *)
(***************************************************************************)
\* The items of a map, none when it does not exist.
Held(m) == IF Live(m) THEN Items(maps[m]) ELSE {}

\* Every map is well formed, each object alive is in one item of one map, and
\* nothing else is in an item.
MapInv ==
  /\ maps = [m \in Maps |-> maps[m]]
  /\ \A m \in Maps : Live(m) => GoodMap(maps[m])
  /\ \A o : o \in alive <=> \E m \in Maps : \E e \in Held(m) : e.obj = o
  /\ \A m, n \in Maps : \A e \in Held(m), f \in Held(n) : e.obj = f.obj => m = n /\ e = f
  /\ ret \in BOOLEAN

LEMMA GoodExists == \A x : GoodMap(x) => x # Absent
BY MapAssumption DEF GoodMap, GoodArray, GoodHash

LEMMA InitInv == Init => MapInv
BY DEF Init, MapInv, Held, Live

LEMMA HeldParts ==
  ASSUME MapInv, NEW m \in Maps
  PROVE  /\ ObjsOnce(Held(m)) /\ Held(m) \subseteq Entries
         /\ \A e \in Held(m) : e.obj \in alive
         /\ Live(m) => GoodMap(maps[m]) /\ Held(m) = Items(maps[m])
         /\ alive \subseteq Objects
<1>1. \A n \in Maps : Held(n) \subseteq Entries
  <2> TAKE n \in Maps
  <2>1. CASE Live(n)
    <3>1. GoodMap(maps[n]) /\ Held(n) = Items(maps[n])
      BY <2>1 DEF MapInv, Held
    <3> QED BY <3>1, ItemsOnce
  <2>2. CASE ~Live(n)
    BY <2>2 DEF Held
  <2> QED BY <2>1, <2>2
<1>2. ObjsOnce(Held(m))
  BY DEF MapInv, ObjsOnce
<1>3. \A e \in Held(m) : e.obj \in alive
  BY DEF MapInv
<1>4. Live(m) => GoodMap(maps[m]) /\ Held(m) = Items(maps[m])
  BY DEF MapInv, Held
<1>5. alive \subseteq Objects
  <2>1. \A e \in Entries : e.obj \in Objects
    BY DEF Entries
  <2> QED BY <2>1, <1>1 DEF MapInv
<1> QED BY <1>1, <1>2, <1>3, <1>4, <1>5

\* A step that changes one map and exchanges the objects of its items.
LEMMA OneMapChanged ==
  ASSUME MapInv, NEW m \in Maps, NEW x, maps' = [maps EXCEPT ![m] = x],
         NEW K, (x = Absent /\ K = {}) \/ (GoodMap(x) /\ K = Items(x)),
         \A e \in K : e \in Held(m) \/ e.obj \notin alive,
         ObjsOnce(K), Exchanged(alive, alive', Held(m), K), ret' \in BOOLEAN
  PROVE  MapInv'
<1>1. maps = [n \in Maps |-> maps[n]]
  BY DEF MapInv
<1>2. maps' = [n \in Maps |-> maps'[n]] /\ maps'[m] = x /\ \A n \in Maps \ {m} : maps'[n] = maps[n]
  BY <1>1
<1>3. Held(m)' = K
  <2>1. CASE x = Absent /\ K = {}
    BY <2>1, <1>2 DEF Held, Live
  <2>2. CASE GoodMap(x) /\ K = Items(x)
    <3>1. x # Absent
      BY <2>2, GoodExists
    <3> QED BY <2>2, <3>1, <1>2 DEF Held, Live
  <2> QED BY <2>1, <2>2
<1>4. \A n \in Maps \ {m} : Held(n)' = Held(n)
  BY <1>2 DEF Held, Live
<1>5. \A n \in Maps : Live(n)' => GoodMap(maps'[n])
  BY <1>2 DEF Live, MapInv
<1>6. ASSUME NEW p \in Maps, NEW q \in Maps, NEW e \in Held(p)', NEW f \in Held(q)', e.obj = f.obj
      PROVE  p = q /\ e = f
  <2>0. \A n1, n2 \in Maps : \A e1 \in Held(n1), f1 \in Held(n2) : e1.obj = f1.obj => n1 = n2 /\ e1 = f1
    BY DEF MapInv
  <2>a. \A n1 \in Maps : \A e1 \in Held(n1) : e1.obj \in alive
    BY HeldParts
  <2>1. CASE p = m /\ q = m
    BY <2>1, <1>3, <1>6 DEF ObjsOnce
  <2>2. CASE p # m /\ q # m
    BY <2>0, <2>2, <1>4, <1>6
  <2>3. CASE p = m /\ q # m
    <3>1. e \in K /\ f \in Held(q)
      BY <2>3, <1>3, <1>4
    <3>2. e \in Held(m)
      BY <3>1, <2>a, <1>6
    <3> QED BY <3>1, <3>2, <2>0, <2>3, <1>6
  <2>4. CASE p # m /\ q = m
    <3>1. f \in K /\ e \in Held(p)
      BY <2>4, <1>3, <1>4
    <3>2. f \in Held(m)
      BY <3>1, <2>a, <1>6
    <3> QED BY <3>1, <3>2, <2>0, <2>4, <1>6
  <2> QED BY <2>1, <2>2, <2>3, <2>4
<1>7. ASSUME NEW o PROVE o \in alive' <=> \E n \in Maps : \E e \in Held(n)' : e.obj = o
  <2>1. o \in alive' <=> \/ o \in alive /\ \A e \in Held(m) : e.obj # o
                         \/ \E e \in K : e.obj = o
    BY Zenon DEF Exchanged
  <2>2. o \in alive <=> \E n \in Maps : \E e \in Held(n) : e.obj = o
    BY DEF MapInv
  <2>3. ASSUME NEW n \in Maps \ {m}, NEW e \in Held(n), e.obj = o PROVE \A g \in Held(m) : g.obj # o
    BY <2>3 DEF MapInv
  <2> QED BY <2>1, <2>2, <2>3, <1>3, <1>4
<1> QED BY <1>2, <1>5, <1>6, <1>7 DEF MapInv

LEMMA ExchangedOnInsert ==
  ASSUME NEW A, NEW I, ObjsOnce(I), \A e \in I : e.obj \in A, NEW k, NEW o, o \notin A,
         NEW K, K = Without(I, k) \cup {Entry(k, o)}, NEW C, C = (A \cup {o}) \ ObjsOf(I, k)
  PROVE  /\ Exchanged(A, C, I, K) /\ ObjsOnce(K)
         /\ \A e \in K : e \in I \/ e.obj \notin A
<1>1. Entry(k, o).obj = o
  BY DEF Entry
<1>2. \A p : p \in ObjsOf(I, k) <=> \E e \in I : e.key = k /\ e.obj = p
  BY DEF ObjsOf
<1>3. \A e : e \in K <=> (e \in I /\ e.key # k) \/ e = Entry(k, o)
  BY DEF Without
<1>4. ObjsOnce(K)
  BY <1>1, <1>3 DEF ObjsOnce
<1>5. ASSUME NEW p
      PROVE  p \in C <=> \/ p \in A /\ \A e \in I : e.obj # p
                         \/ \E e \in K : e.obj = p
  <2>1. p \in C <=> (p \in A \/ p = o) /\ p \notin ObjsOf(I, k)
    OBVIOUS
  <2>2. (\E e \in K : e.obj = p) <=> (\E e \in I : e.key # k /\ e.obj = p) \/ p = o
    BY <1>1, <1>3
  <2>3. ASSUME NEW e \in I, e.obj = p, e.key # k PROVE p \notin ObjsOf(I, k)
    BY <2>3, <1>2 DEF ObjsOnce
  <2>4. ASSUME p \in ObjsOf(I, k) PROVE p # o
    BY <2>4, <1>2
  <2> QED BY <2>1, <2>2, <2>3, <2>4, <1>2
<1> QED BY <1>1, <1>3, <1>4, <1>5 DEF Exchanged

LEMMA ExchangedOnRemove ==
  ASSUME NEW A, NEW I, ObjsOnce(I), \A e \in I : e.obj \in A, NEW k,
         NEW K, K = Without(I, k), NEW C, C = A \ ObjsOf(I, k)
  PROVE  Exchanged(A, C, I, K) /\ ObjsOnce(K) /\ \A e \in K : e \in I
<1>1. \A p : p \in ObjsOf(I, k) <=> \E e \in I : e.key = k /\ e.obj = p
  BY DEF ObjsOf
<1>2. \A e : e \in K <=> e \in I /\ e.key # k
  BY DEF Without
<1>3. ObjsOnce(K) /\ \A e \in K : e \in I
  BY <1>2 DEF ObjsOnce
<1>4. ASSUME NEW p
      PROVE  p \in C <=> \/ p \in A /\ \A e \in I : e.obj # p
                         \/ \E e \in K : e.obj = p
  <2>1. ASSUME NEW e \in I, e.obj = p, e.key # k PROVE p \notin ObjsOf(I, k)
    BY <2>1, <1>1 DEF ObjsOnce
  <2> QED BY <2>1, <1>1, <1>2
<1> QED BY <1>3, <1>4 DEF Exchanged

\* A map with items I is replaced by one with items K; the others are kept.
Became(m, K) ==
  /\ maps' = [n \in Maps |-> maps'[n]]
  /\ GoodMap(maps'[m]) /\ Items(maps'[m]) = K
  /\ \A n \in Maps \ {m} : maps'[n] = maps[n]

LEMMA BecameFrom ==
  ASSUME MapInv, NEW m \in Maps, NEW x, maps' = [maps EXCEPT ![m] = x], GoodMap(x)
  PROVE  Became(m, Items(x))
<1>1. maps = [n \in Maps |-> maps[n]]
  BY DEF MapInv
<1>2. maps' = [n \in Maps |-> maps'[n]] /\ maps'[m] = x /\ \A n \in Maps \ {m} : maps'[n] = maps[n]
  BY <1>1
<1> QED BY <1>2, Zenon DEF Became

LEMMA InsertStep ==
  ASSUME MapInv, NEW m \in Maps, NEW k \in Keys, NEW o \in Objects, MapInsert(m, k, o)
  PROVE  /\ MapInv'
         /\ Became(m, Without(Items(maps[m]), k) \cup {Entry(k, o)})
         /\ ret' = (k \in KeysIn(Items(maps[m])))
<1> DEFINE x == maps[m]
           r == InsertResult(x, k, o)
           y == r.map
           I == Held(m)
           K == Without(I, k) \cup {Entry(k, o)}
<1>1. /\ Live(m) /\ o \notin alive
      /\ maps' = [maps EXCEPT ![m] = y] /\ alive' = (alive \cup {o}) \ r.dead /\ ret' = r.ret
  BY Zenon DEF MapInsert
<1>2. GoodMap(x) /\ I = Items(x) /\ ObjsOnce(I) /\ \A e \in I : e.obj \in alive
  BY <1>1, HeldParts
<1>3. GoodMap(y) /\ Inserted(r, Items(x), k, o)
  <2> HIDE DEF x
  <2> QED BY <1>2, InsertGood
<1> HIDE DEF r
<1>4. Items(y) = K /\ r.dead = ObjsOf(I, k) /\ r.ret = (k \in KeysIn(I))
  BY <1>2, <1>3, Zenon DEF Inserted
<1> HIDE DEF x, I, y
<1>5. /\ Exchanged(alive, alive', I, K) /\ ObjsOnce(K)
      /\ \A e \in K : e \in I \/ e.obj \notin alive
  <2>1. alive' = (alive \cup {o}) \ ObjsOf(I, k)
    BY <1>1, <1>4
  <2> HIDE DEF K
  <2>2. K = Without(I, k) \cup {Entry(k, o)}
    BY DEF K
  <2>3. ASSUME NEW A, NEW C, C = (A \cup {o}) \ ObjsOf(I, k), o \notin A, \A e \in I : e.obj \in A
        PROVE  /\ Exchanged(A, C, I, K) /\ ObjsOnce(K)
               /\ \A e \in K : e \in I \/ e.obj \notin A
    BY <2>2, <2>3, <1>2, ExchangedOnInsert
  <2> QED BY <2>1, <2>3, <1>1, <1>2, Zenon
<1> HIDE DEF K
<1>6. MapInv'
  <2>1. ret' \in BOOLEAN
    BY <1>1, <1>4
  <2> QED BY <2>1, <1>1, <1>3, <1>4, <1>5, OneMapChanged DEF I
<1>7. Became(m, K)
  BY <1>1, <1>3, <1>4, BecameFrom
<1> QED BY <1>1, <1>2, <1>4, <1>6, <1>7, Zenon DEF K, x

LEMMA RemoveStep ==
  ASSUME MapInv, NEW m \in Maps, NEW k \in Keys, MapRemove(m, k)
  PROVE  /\ MapInv'
         /\ Became(m, Without(Items(maps[m]), k))
         /\ ret' = (k \in KeysIn(Items(maps[m])))
<1> DEFINE x == maps[m]
           r == RemoveResult(x, k)
           y == r.map
           I == Held(m)
           K == Without(I, k)
<1>1. /\ Live(m)
      /\ maps' = [maps EXCEPT ![m] = y] /\ alive' = alive \ r.dead /\ ret' = r.ret
  BY Zenon DEF MapRemove
<1>2. GoodMap(x) /\ I = Items(x) /\ ObjsOnce(I) /\ \A e \in I : e.obj \in alive
  BY <1>1, HeldParts
<1>3. GoodMap(y) /\ Removed(r, Items(x), k)
  <2> HIDE DEF x
  <2> QED BY <1>2, RemoveGood
<1> HIDE DEF r
<1>4. Items(y) = K /\ r.dead = ObjsOf(I, k) /\ r.ret = (k \in KeysIn(I))
  BY <1>2, <1>3, Zenon DEF Removed
<1> HIDE DEF x, I, y
<1>5. /\ Exchanged(alive, alive', I, K) /\ ObjsOnce(K)
      /\ \A e \in K : e \in I \/ e.obj \notin alive
  <2>1. alive' = alive \ ObjsOf(I, k)
    BY <1>1, <1>4
  <2> HIDE DEF K
  <2>2. K = Without(I, k)
    BY DEF K
  <2> QED BY <2>1, <2>2, <1>2, ExchangedOnRemove
<1> HIDE DEF K
<1>6. MapInv'
  <2>1. ret' \in BOOLEAN
    BY <1>1, <1>4
  <2> QED BY <2>1, <1>1, <1>3, <1>4, <1>5, OneMapChanged DEF I
<1>7. Became(m, K)
  BY <1>1, <1>3, <1>4, BecameFrom
<1> QED BY <1>1, <1>2, <1>4, <1>6, <1>7, Zenon DEF K, x

LEMMA NoItems ==
  ASSUME NEW A, NEW I, NEW C, \A o : o \in C <=> o \in A /\ \A e \in I : e.obj # o
  PROVE  Exchanged(A, C, I, {}) /\ ObjsOnce({})
BY DEF Exchanged, ObjsOnce

LEMMA NewStep ==
  ASSUME MapInv, NEW m \in Maps, MapNew(m)
  PROVE  MapInv' /\ Became(m, {}) /\ ret' = ret
<1>1. ~Live(m) /\ maps' = [maps EXCEPT ![m] = ArrayMapNew] /\ alive' = alive /\ ret' = ret
  BY DEF MapNew
<1>2. GoodMap(ArrayMapNew) /\ Items(ArrayMapNew) = {}
  BY NewGood
<1>3. Held(m) = {}
  BY <1>1 DEF Held
<1>4. Exchanged(alive, alive', Held(m), {}) /\ ObjsOnce({})
  BY <1>1, <1>3, NoItems
<1>5. MapInv'
  <2>1. ret' \in BOOLEAN
    BY <1>1 DEF MapInv
  <2> QED BY <2>1, <1>1, <1>2, <1>4, OneMapChanged
<1>6. Became(m, {})
  BY <1>1, <1>2, BecameFrom
<1> QED BY <1>1, <1>5, <1>6

LEMMA ClearStep ==
  ASSUME MapInv, NEW m \in Maps, MapClear(m)
  PROVE  MapInv' /\ Became(m, {}) /\ ret' = ret
<1> DEFINE x == maps[m]
           y == IF x.is_array THEN ArrayMapNew ELSE HashMapClear(x)
<1>1. Live(m) /\ maps' = [maps EXCEPT ![m] = y] /\ alive' = alive \ Objs(x) /\ ret' = ret
  <2>1. DOMAIN maps = Maps
    BY DEF MapInv
  <2> QED BY <2>1, Zenon DEF MapClear
<1>2. GoodMap(x) /\ Held(m) = Items(x)
  BY <1>1, HeldParts
<1>3. GoodMap(y) /\ Items(y) = {}
  <2> HIDE DEF x
  <2> QED BY <1>2, ClearGood
<1> HIDE DEF y
<1>4. Exchanged(alive, alive', Held(m), {}) /\ ObjsOnce({})
  <2>1. \A o : o \in alive' <=> o \in alive /\ \A e \in Held(m) : e.obj # o
    BY <1>1, <1>2 DEF Objs
  <2> QED BY <2>1, NoItems
<1>5. MapInv'
  <2>1. ret' \in BOOLEAN
    BY <1>1 DEF MapInv
  <2> QED BY <2>1, <1>1, <1>3, <1>4, OneMapChanged
<1>6. Became(m, {})
  BY <1>1, <1>3, BecameFrom
<1> QED BY <1>1, <1>5, <1>6

LEMMA DestroyStep ==
  ASSUME MapInv, NEW m \in Maps, MapDestroy(m)
  PROVE  /\ MapInv' /\ ret' = ret
         /\ maps' = [n \in Maps |-> maps'[n]] /\ maps'[m] = Absent /\ \A n \in Maps \ {m} : maps'[n] = maps[n]
<1> DEFINE x == maps[m]
<1>1. Live(m) /\ maps' = [maps EXCEPT ![m] = Absent] /\ alive' = alive \ Objs(x) /\ ret' = ret
  BY DEF MapDestroy
<1>2. Held(m) = Items(x)
  BY <1>1 DEF Held
<1>3. Exchanged(alive, alive', Held(m), {}) /\ ObjsOnce({})
  <2>1. \A o : o \in alive' <=> o \in alive /\ \A e \in Held(m) : e.obj # o
    BY <1>1, <1>2 DEF Objs
  <2> QED BY <2>1, NoItems
<1>4. MapInv'
  <2>1. ret' \in BOOLEAN
    BY <1>1 DEF MapInv
  <2> QED BY <2>1, <1>1, <1>3, OneMapChanged
<1>5. maps = [n \in Maps |-> maps[n]]
  BY DEF MapInv
<1> QED BY <1>1, <1>4, <1>5

\* What SetJoin does to the first set.
Joins(m, n) ==
  \E s, copies : /\ Copying(alive, Items(maps[m]), s, copies)
                 /\ Range(s) = Items(maps[n])
                 /\ Became(m, JoinedItems(Items(maps[m]), s, copies, Len(s)))

LEMMA SetJoinStep ==
  ASSUME MapInv, NEW m \in Maps, NEW n \in Maps, SetJoin(m, n)
  PROVE  MapInv' /\ Joins(m, n) /\ ret' = ret
<1> DEFINE x == maps[m]
           z == maps[n]
           s == Visited(z)
           I == Items(x)
<1>1. /\ Live(m) /\ Live(n) /\ m # n /\ ret' = ret
      /\ \E copies \in [1..Len(s) -> Objects \ alive] :
           /\ IsInjective(copies)
           /\ maps' = [maps EXCEPT ![m] = JoinResult([map |-> x, alive |-> alive], s, copies).map]
           /\ alive' = JoinResult([map |-> x, alive |-> alive], s, copies).alive
  BY Zenon DEF SetJoin
<1>2. PICK copies \in [1..Len(s) -> Objects \ alive] :
           /\ IsInjective(copies)
           /\ maps' = [maps EXCEPT ![m] = JoinResult([map |-> x, alive |-> alive], s, copies).map]
           /\ alive' = JoinResult([map |-> x, alive |-> alive], s, copies).alive
  BY <1>1, Zenon
<1> DEFINE r == JoinResult([map |-> x, alive |-> alive], s, copies)
           y == r.map
           J == JoinedItems(I, s, copies, Len(s))
<1>3. /\ GoodMap(x) /\ Held(m) = I /\ ObjsOnce(I) /\ I \subseteq Entries /\ \A e \in I : e.obj \in alive
      /\ alive \subseteq Objects
  BY <1>1, HeldParts
<1>4. GoodMap(z) /\ ObjsOnce(Items(z))
  BY <1>1, HeldParts
<1>5. s \in Seq(Entries) /\ KeysOnce(s) /\ Range(s) = Items(z)
  <2> HIDE DEF z
  <2> QED BY <1>4, VisitedAll
<1> HIDE DEF x, z, s
<1>6. Copying(alive, I, s, copies)
  <2>1. \A i, j \in 1..Len(s) : copies[i] = copies[j] => i = j
    BY <1>2 DEF IsInjective
  <2> HIDE DEF I
  <2> QED BY <2>1, <1>2, <1>3, <1>5 DEF Copying
<1>7. GoodMap(y) /\ Items(y) = J /\ Exchanged(alive, r.alive, I, J)
  <2>1. GoodMap(r.map) /\ Items(r.map) = JoinedItems(Items(x), s, copies, Len(s))
        /\ Exchanged(alive, r.alive, Items(x), Items(r.map))
    BY <1>3, <1>6, JoinGood
  <2> QED BY <2>1, Zenon
<1>8. maps' = [maps EXCEPT ![m] = y] /\ alive' = r.alive
  BY <1>2, Zenon
<1> HIDE DEF r, y, I
<1>9. ObjsOnce(J) /\ \A e \in J : e \in I \/ e.obj \notin alive
  BY <1>6, JoinedOnce
<1> HIDE DEF J
<1>10. MapInv'
  <2>1. ret' \in BOOLEAN
    BY <1>1 DEF MapInv
  <2>2. Exchanged(alive, alive', Held(m), J)
    BY <1>3, <1>7, <1>8
  <2> QED BY <2>1, <2>2, <1>3, <1>7, <1>8, <1>9, OneMapChanged
<1>11. Became(m, J)
  BY <1>7, <1>8, BecameFrom
<1> QED BY <1>1, <1>5, <1>6, <1>10, <1>11, Zenon DEF Joins, J, I, x, z

LEMMA NextInv == MapInv /\ [Next]_vars => MapInv'
<1> SUFFICES ASSUME MapInv, [Next]_vars PROVE MapInv'
  OBVIOUS
<1>1. CASE UNCHANGED vars
  BY <1>1 DEF MapInv, Held, Live, vars
<1>2. ASSUME NEW m \in Maps, MapNew(m) PROVE MapInv'
  BY <1>2, NewStep
<1>3. ASSUME NEW m \in Maps, MapClear(m) PROVE MapInv'
  BY <1>3, ClearStep
<1>4. ASSUME NEW m \in Maps, MapDestroy(m) PROVE MapInv'
  BY <1>4, DestroyStep
<1>5. ASSUME NEW m \in Maps, NEW k \in Keys, MapRemove(m, k) PROVE MapInv'
  BY <1>5, RemoveStep
<1>6. ASSUME NEW m \in Maps, NEW k \in Keys, NEW o \in Objects, MapInsert(m, k, o) PROVE MapInv'
  BY <1>6, InsertStep
<1>7. ASSUME NEW m \in Maps, NEW n \in Maps, SetJoin(m, n) PROVE MapInv'
  BY <1>7, SetJoinStep
<1> QED BY <1>1, <1>2, <1>3, <1>4, <1>5, <1>6, <1>7, Zenon DEF Next

THEOREM SpecInv == Spec => []MapInv
<1>1. Init => MapInv
  BY InitInv
<1>2. MapInv /\ [Next]_vars => MapInv'
  BY NextInv
<1> QED BY <1>1, <1>2, PTL DEF Spec

-----------------------------------------------------------------------------
(***************************************************************************)
(* The properties.                                                         *)
(***************************************************************************)
LEMMA InvTableShape == MapInv => TableShape
<1> SUFFICES ASSUME MapInv PROVE TableShape
  OBVIOUS
<1>1. TypeOK
  <2>1. DOMAIN maps = Maps /\ ret \in BOOLEAN
    BY DEF MapInv
  <2>2. alive \subseteq Objects
    <3>1. ASSUME NEW o \in alive PROVE o \in Objects
      <4>1. PICK m \in Maps : \E e \in Held(m) : e.obj = o
        BY DEF MapInv
      <4>2. alive \subseteq Objects
        BY HeldParts
      <4> QED BY <4>2
    <3> QED BY <3>1
  <2>3. ASSUME NEW m \in Maps, Live(m)
        PROVE  \/ maps[m] \in ArrayMaps /\ Len(maps[m].values) <= TINY_LIMIT
               \/ \E n \in Sizes : maps[m] \in HashMaps(n)
    <3>1. GoodMap(maps[m])
      BY <2>3, HeldParts
    <3> QED BY <3>1 DEF GoodMap, GoodArray, GoodHash
  <2> QED BY <2>1, <2>2, <2>3 DEF TypeOK
<1>2. ASSUME NEW m \in Maps, Live(m), ~maps[m].is_array, NEW h, h = maps[m]
      PROVE  /\ \A b \in DOMAIN h.buckets : \A e \in Range(h.buckets[b]) : HashMapGetBucket(h.size, e.key) = b
             /\ h.load = Cardinality(Places(h))
             /\ h.load <= MaxThreshold(h.size) \/ h.size = MAX_BUCKETS
  <2>1. GoodHash(h)
    <3>1. GoodMap(h)
      BY <1>2, HeldParts
    <3>2. ~GoodArray(h)
      BY <1>2, ArrayParts
    <3> QED BY <3>1, <3>2 DEF GoodMap
  <2> DEFINE t == h.buckets
             n == h.size
  <2>2. GoodTable(t, n) /\ n \in Nat
    BY <2>1, HashParts DEF GoodHash
  <2>3. \A b \in DOMAIN t : \A e \in Range(t[b]) : HashMapGetBucket(n, e.key) = b
    <3> HIDE DEF t, n
    <3>1. DOMAIN t = 0..(n - 1)
      BY <2>2 DEF GoodTable
    <3> SUFFICES ASSUME NEW b \in 0..(n - 1), NEW e \in Range(t[b]) PROVE HashMapGetBucket(n, e.key) = b
      BY <3>1
    <3> DEFINE c == t[b]
    <3>2. c \in Seq(Entries)
      BY <2>2 DEF GoodTable
    <3>3. Range(c) = {c[i] : i \in 1..Len(c)}
      <4> HIDE DEF c
      <4> QED BY <3>2, ChainRange
    <3>4. PICK i \in 1..Len(c) : e = c[i]
      BY <3>3
    <3> QED BY <3>4, <2>2 DEF GoodTable
  <2>4. h.load = Cardinality(Places(h))
    BY <2>1, PlacesCount
  <2>5. h.load <= MaxThreshold(h.size) \/ h.size = MAX_BUCKETS
    BY <2>1 DEF GoodHash
  <2> QED BY <2>3, <2>4, <2>5
<1> QED BY <1>1, <1>2, Zenon DEF TableShape

\* TableShape: after any sequence of insertions, removals, clears, joins and destructions,
\* arrays stay within TINY_LIMIT, tables have a power of two of buckets within their bounds,
\* every entry is in the bucket of its key, load counts the entries and the table is as large
\* as its load demands (array_map.c, HashMapInsert, HashMapRemove, HashMapResize).
THEOREM TablesInShape == Spec => []TableShape
<1>1. Spec => []MapInv
  BY SpecInv
<1>2. MapInv => TableShape
  BY InvTableShape
<1> QED BY <1>1, <1>2, PTL

SlotsIn(x)  == IF x.is_array THEN {0} \X DOMAIN x.values ELSE Places(x)
ObjIn(x, p) == IF x.is_array THEN x.values[p[2]].obj ELSE x.buckets[p[1]][p[2]].obj

\* The slots of a map hold its items, each item in one slot.
LEMMA SlotsHoldItems ==
  ASSUME NEW x, GoodMap(x)
  PROVE  /\ \A p \in SlotsIn(x) : \E e \in Items(x) : ObjIn(x, p) = e.obj
         /\ \A e \in Items(x) : \E p \in SlotsIn(x) : ObjIn(x, p) = e.obj
         /\ ObjsOnce(Items(x)) => \A p, q \in SlotsIn(x) : ObjIn(x, p) = ObjIn(x, q) => p = q
<1>1. CASE GoodArray(x)
  <2> DEFINE s == x.values
  <2>1. x.is_array = TRUE /\ s \in Seq(Entries) /\ KeysOnce(s) /\ Items(x) = Range(s)
    BY <1>1, ArrayParts
  <2>2. SlotsIn(x) = {0} \X DOMAIN s /\ \A p : ObjIn(x, p) = s[p[2]].obj
    BY <2>1 DEF SlotsIn, ObjIn
  <2> HIDE DEF s
  <2>3. DOMAIN s = 1..Len(s) /\ Range(s) = {s[i] : i \in 1..Len(s)}
    BY <2>1, ChainRange
  <2>4. \A p : p \in SlotsIn(x) <=> \E i \in 1..Len(s) : p = <<0, i>>
    BY <2>2, <2>3
  <2>5. \A i \in 1..Len(s) : ObjIn(x, <<0, i>>) = s[i].obj
    BY <2>2
  <2>6. \A e : e \in Items(x) <=> \E i \in 1..Len(s) : e = s[i]
    BY <2>1, <2>3
  <2>7. ASSUME ObjsOnce(Items(x)), NEW i \in 1..Len(s), NEW j \in 1..Len(s), s[i].obj = s[j].obj PROVE i = j
    <3>1. s[i] = s[j]
      BY <2>6, <2>7 DEF ObjsOnce
    <3> QED BY <3>1, <2>1 DEF KeysOnce
  <2>8. ASSUME NEW p \in SlotsIn(x) PROVE \E e \in Items(x) : ObjIn(x, p) = e.obj
    BY <2>4, <2>5, <2>6
  <2>9. ASSUME NEW e \in Items(x) PROVE \E p \in SlotsIn(x) : ObjIn(x, p) = e.obj
    <3>1. PICK i \in 1..Len(s) : e = s[i]
      BY <2>6
    <3>2. <<0, i>> \in SlotsIn(x)
      BY <2>4
    <3> QED BY <3>1, <3>2, <2>5
  <2>10. ASSUME ObjsOnce(Items(x)), NEW p \in SlotsIn(x), NEW q \in SlotsIn(x), ObjIn(x, p) = ObjIn(x, q)
         PROVE  p = q
    BY <2>4, <2>5, <2>7, <2>10
  <2> QED BY <2>8, <2>9, <2>10
<1>2. CASE GoodHash(x)
  <2> DEFINE t == x.buckets
             n == x.size
  <2>1. x.is_array = FALSE /\ n \in Nat /\ Items(x) = TableItems(t) /\ t \in [0..(n - 1) -> Seq(Entries)]
    BY <1>2, HashParts DEF GoodHash, GoodTable
  <2>2. SlotsIn(x) = Places(x) /\ \A p : ObjIn(x, p) = t[p[1]][p[2]].obj
    BY <2>1 DEF SlotsIn, ObjIn
  <2>3. /\ \A p : p \in Places(x) <=> \E b \in 0..(n - 1) : \E i \in 1..Len(t[b]) : p = <<b, i>>
        /\ \A b, c \in 0..(n - 1) : \A i \in 1..Len(t[b]), j \in 1..Len(t[c]) :
             t[b][i].key = t[c][j].key => b = c /\ i = j
    BY <1>2, PlaceOnce
  <2> HIDE DEF t, n
  <2>4. \A e : e \in Items(x) <=> \E b \in 0..(n - 1) : \E i \in 1..Len(t[b]) : t[b][i] = e
    <3>1. \A e : e \in TableItems(t) <=> \E b \in 0..(n - 1) : \E i \in 1..Len(t[b]) : t[b][i] = e
      BY <2>1, ItemsOfTable
    <3> QED BY <2>1, <3>1, Zenon
  <2>5. \A b, i : ObjIn(x, <<b, i>>) = t[b][i].obj
    BY <2>2
  <2>6. ASSUME ObjsOnce(Items(x)), NEW b \in 0..(n - 1), NEW c \in 0..(n - 1),
               NEW i \in 1..Len(t[b]), NEW j \in 1..Len(t[c]), t[b][i].obj = t[c][j].obj
        PROVE  b = c /\ i = j
    <3>1. t[b][i] = t[c][j]
      BY <2>4, <2>6 DEF ObjsOnce
    <3> QED BY <3>1, <2>3
  <2>7. ASSUME NEW p \in SlotsIn(x) PROVE \E e \in Items(x) : ObjIn(x, p) = e.obj
    BY <2>2, <2>3, <2>4, <2>5
  <2>8. ASSUME NEW e \in Items(x) PROVE \E p \in SlotsIn(x) : ObjIn(x, p) = e.obj
    <3>1. PICK b \in 0..(n - 1) : \E i \in 1..Len(t[b]) : t[b][i] = e
      BY <2>4
    <3>2. PICK i \in 1..Len(t[b]) : t[b][i] = e
      BY <3>1
    <3>3. <<b, i>> \in SlotsIn(x)
      BY <2>2, <2>3
    <3> QED BY <3>2, <3>3, <2>5
  <2>9. ASSUME ObjsOnce(Items(x)), NEW p \in SlotsIn(x), NEW q \in SlotsIn(x), ObjIn(x, p) = ObjIn(x, q)
        PROVE  p = q
    <3>1. PICK b \in 0..(n - 1) : \E i \in 1..Len(t[b]) : p = <<b, i>>
      BY <2>2, <2>3
    <3>2. PICK i \in 1..Len(t[b]) : p = <<b, i>>
      BY <3>1
    <3>3. PICK c \in 0..(n - 1) : \E j \in 1..Len(t[c]) : q = <<c, j>>
      BY <2>2, <2>3
    <3>4. PICK j \in 1..Len(t[c]) : q = <<c, j>>
      BY <3>3
    <3>5. t[b][i].obj = t[c][j].obj
      BY <3>2, <3>4, <2>5, <2>9
    <3> QED BY <3>2, <3>4, <3>5, <2>6, <2>9
  <2> QED BY <2>7, <2>8, <2>9
<1> QED BY <1>1, <1>2 DEF GoodMap

LEMMA InvOwnership == MapInv => Ownership
<1> SUFFICES ASSUME MapInv PROVE Ownership
  OBVIOUS
<1> DEFINE live == {m \in Maps : Live(m)}
           O == UNION {{ObjIn(maps[m], p) : p \in SlotsIn(maps[m])} : m \in live}
<1>1. \A m \in live : /\ GoodMap(maps[m]) /\ Held(m) = Items(maps[m]) /\ ObjsOnce(Items(maps[m]))
  BY HeldParts
<1>2. \A m \in live :
        /\ \A p \in SlotsIn(maps[m]) : \E e \in Held(m) : ObjIn(maps[m], p) = e.obj
        /\ \A e \in Held(m) : \E p \in SlotsIn(maps[m]) : ObjIn(maps[m], p) = e.obj
        /\ \A p, q \in SlotsIn(maps[m]) : ObjIn(maps[m], p) = ObjIn(maps[m], q) => p = q
  BY <1>1, SlotsHoldItems
<1>3. \A m \in Maps : m \notin live => Held(m) = {}
  BY DEF Held
<1>4. \A o : o \in alive <=> \E m \in Maps : \E e \in Held(m) : e.obj = o
  BY DEF MapInv
<1>5. alive = O
  <2>1. \A o : o \in O <=> \E m \in live : \E p \in SlotsIn(maps[m]) : ObjIn(maps[m], p) = o
    OBVIOUS
  <2>2. ASSUME NEW o \in alive PROVE o \in O
    <3>1. PICK m \in Maps : \E e \in Held(m) : e.obj = o
      BY <1>4
    <3>2. m \in live
      BY <3>1, <1>3
    <3> HIDE DEF O, live
    <3> QED BY <3>1, <3>2, <1>2, <2>1
  <2>3. ASSUME NEW o \in O PROVE o \in alive
    <3>1. PICK m \in live : \E p \in SlotsIn(maps[m]) : ObjIn(maps[m], p) = o
      BY <2>1
    <3>2. m \in Maps
      OBVIOUS
    <3> HIDE DEF O, live
    <3> QED BY <3>1, <3>2, <1>2, <1>4
  <2> QED BY <2>2, <2>3
<1>6. ASSUME NEW m \in live, NEW n \in live, NEW p \in SlotsIn(maps[m]), NEW q \in SlotsIn(maps[n]),
             ObjIn(maps[m], p) = ObjIn(maps[n], q)
      PROVE  m = n /\ p = q
  <2>1. m \in Maps /\ n \in Maps
    OBVIOUS
  <2>2. m = n
    <3>1. PICK e \in Held(m) : ObjIn(maps[m], p) = e.obj
      BY <1>2
    <3>2. PICK f \in Held(n) : ObjIn(maps[n], q) = f.obj
      BY <1>2
    <3> QED BY <3>1, <3>2, <2>1, <1>6 DEF MapInv
  <2> HIDE DEF live
  <2> QED BY <2>2, <1>2, <1>6
<1> QED BY <1>5, <1>6, Zenon DEF Ownership, SlotsIn, ObjIn

\* Ownership: replacing, converting, resizing, joining, clearing and destroying neither leak an
\* object nor keep one that was destroyed: what was handed to MapInsert and not destroyed is in
\* exactly one slot of exactly one map (ArrayMapInsert, HashMapInsert, HashMapResize, ConvertToHashMap).
THEOREM ObjectsOwned == Spec => []Ownership
<1>1. Spec => []MapInv
  BY SpecInv
<1>2. MapInv => Ownership
  BY InvOwnership
<1> QED BY <1>1, <1>2, PTL

LEMMA SizeCounts ==
  ASSUME NEW s \in Seq(Entries), KeysOnce(s)
  PROVE  IsFiniteSet(Range(s)) /\ Cardinality(Range(s)) = Len(s)
<1> DEFINE I == 1..Len(s)
           T == Range(s)
<1>1. Len(s) \in Nat /\ T = {s[i] : i \in I}
  BY ChainRange
<1>2. IsFiniteSet(I) /\ Cardinality(I) = Len(s)
  BY <1>1, FS_Interval
<1> DEFINE f == [i \in I |-> s[i]]
<1>3. f \in [I -> T] /\ (\A i, j \in I : f[i] = f[j] => i = j) /\ \A e \in T : \E i \in I : f[i] = e
  <2>1. \A i, j \in I : s[i] = s[j] => i = j
    BY DEF KeysOnce
  <2> HIDE DEF I, T
  <2> QED BY <1>1, <2>1
<1>4. f \in Surjection(I, T) /\ f \in Injection(I, T)
  <2> HIDE DEF f, I, T
  <2> QED BY <1>3 DEF Surjection, Injection, IsInjective
<1> HIDE DEF f, I, T
<1>5. IsFiniteSet(T) /\ Cardinality(T) = Cardinality(I)
  BY <1>2, <1>4, FS_Surjection
<1> QED BY <1>2, <1>5 DEF T

LEMMA MapSizeCounts ==
  ASSUME NEW x, GoodMap(x)
  PROVE  IsFiniteSet(Items(x)) /\ MapSize(x) = Cardinality(Items(x))
<1>1. CASE GoodArray(x)
  <2>1. x.is_array = TRUE /\ x.values \in Seq(Entries) /\ KeysOnce(x.values) /\ Items(x) = Range(x.values)
    BY <1>1, ArrayParts
  <2>2. IsFiniteSet(Range(x.values)) /\ Cardinality(Range(x.values)) = Len(x.values)
    BY <2>1, SizeCounts
  <2> QED BY <2>1, <2>2 DEF MapSize
<1>2. CASE GoodHash(x)
  <2>1. x.is_array = FALSE /\ Items(x) = TableItems(x.buckets)
    BY <1>2, HashParts
  <2>2. IsFiniteSet(TableItems(x.buckets)) /\ x.load = Cardinality(TableItems(x.buckets))
    BY <1>2 DEF GoodHash
  <2> QED BY <2>1, <2>2 DEF MapSize
<1> QED BY <1>1, <1>2 DEF GoodMap

LEMMA KeysCount ==
  ASSUME NEW items, IsFiniteSet(items), \A e, f \in items : e.key = f.key => e = f
  PROVE  IsFiniteSet(KeysIn(items)) /\ Cardinality(KeysIn(items)) = Cardinality(items)
<1> DEFINE T == KeysIn(items)
           f == [e \in items |-> e.key]
<1>1. f \in [items -> T] /\ (\A a, b \in items : f[a] = f[b] => a = b) /\ \A k \in T : \E e \in items : f[e] = k
  BY DEF KeysIn
<1> HIDE DEF f, T
<1>2. f \in Surjection(items, T) /\ f \in Injection(items, T)
  BY <1>1 DEF Surjection, Injection, IsInjective
<1>3. IsFiniteSet(T) /\ Cardinality(T) = Cardinality(items)
  BY <1>2, FS_Surjection
<1> QED BY <1>3 DEF T

LEMMA HasKey ==
  ASSUME NEW x, GoodMap(x)
  PROVE  {k \in Keys : MapHasKey(x, k)} = KeysIn(Items(x)) /\ KeysIn(Items(x)) \subseteq Keys
<1>1. \A k \in Keys : MapHasKey(x, k) <=> k \in KeysIn(Items(x))
  BY GetType DEF MapHasKey
<1>2. KeysIn(Items(x)) \subseteq Keys
  BY ItemsOnce DEF KeysIn, Entries
<1> QED BY <1>1, <1>2

LEMMA SameKeys ==
  ASSUME NEW x, GoodMap(x), ObjsOnce(Items(x)), NEW y, GoodMap(y), NEW s, s = Visited(x)
  PROVE  /\ Len(s) = MapSize(x) /\ {e.key : e \in Range(s)} = KeysIn(Items(x))
         /\ MapContainsSameKeys(x, y) <=> KeysIn(Items(x)) = KeysIn(Items(y))
<1> DEFINE X == KeysIn(Items(x))
           Y == KeysIn(Items(y))
<1>1. s \in Seq(Entries) /\ KeysOnce(s) /\ Range(s) = Items(x)
  BY VisitedAll
<1>2. IsFiniteSet(Items(x)) /\ MapSize(x) = Cardinality(Items(x)) /\ Len(s) = Cardinality(Items(x))
  BY <1>1, SizeCounts, MapSizeCounts
<1>3. IsFiniteSet(Items(y)) /\ MapSize(y) = Cardinality(Items(y))
  BY MapSizeCounts
<1>4. {e.key : e \in Range(s)} = X
  BY <1>1 DEF KeysIn
<1>5. IsFiniteSet(X) /\ Cardinality(X) = Len(s)
  <2>1. \A e, f \in Items(x) : e.key = f.key => e = f
    BY ItemsOnce
  <2> QED BY <2>1, <1>2, KeysCount
<1>6. IsFiniteSet(Y) /\ Cardinality(Y) = MapSize(y)
  <2>1. \A e, f \in Items(y) : e.key = f.key => e = f
    BY ItemsOnce
  <2> QED BY <2>1, <1>3, KeysCount
<1>7. {k \in Keys : MapHasKey(y, k)} = Y /\ X \subseteq Keys
  BY HasKey
<1>8. MapContainsSameKeys(x, y) <=> X \subseteq Y /\ Cardinality(X) = Cardinality(Y)
  <2>1. MapContainsSameKeys(x, y) <=> (\A e \in Range(s) : MapHasKey(y, e.key)) /\ Len(s) = MapSize(y)
    BY Zenon DEF MapContainsSameKeys
  <2>2. (\A e \in Range(s) : MapHasKey(y, e.key)) <=> \A k \in X : MapHasKey(y, k)
    BY <1>4
  <2>3. (\A k \in X : MapHasKey(y, k)) <=> X \subseteq Y
    <3> HIDE DEF X, Y
    <3> QED BY <1>7
  <2> HIDE DEF X, Y
  <2> QED BY <2>1, <2>2, <2>3, <1>5, <1>6
<1> HIDE DEF X, Y
<1>9. X \subseteq Y /\ Cardinality(X) = Cardinality(Y) <=> X = Y
  <2>1. ASSUME X \in SUBSET Y, Cardinality(Y) = Cardinality(X) PROVE Y = X
    BY <2>1, <1>6, FS_Subset
  <2> QED BY <2>1
<1>10. MapContainsSameKeys(x, y) <=> X = Y
  BY <1>8, <1>9
<1>11. Len(s) = MapSize(x)
  BY <1>2
<1> QED BY <1>4, <1>10, <1>11, Zenon DEF X, Y

LEMMA InvIterationComplete == MapInv => IterationComplete
<1> SUFFICES ASSUME MapInv, NEW m \in Maps, NEW n \in Maps, Live(m), Live(n),
                    NEW s, s = Visited(maps[m])
             PROVE  /\ Len(s) = MapSize(maps[m])
                    /\ {e.key : e \in Range(s)} = {k \in Keys : MapHasKey(maps[m], k)}
                    /\ MapContainsSameKeys(maps[m], maps[n]) <=>
                         {k \in Keys : MapHasKey(maps[m], k)} = {k \in Keys : MapHasKey(maps[n], k)}
  BY Zenon DEF IterationComplete
<1> DEFINE x == maps[m]
           y == maps[n]
<1>1. GoodMap(x) /\ ObjsOnce(Items(x)) /\ GoodMap(y)
  BY HeldParts
<1>2. s = Visited(x)
  OBVIOUS
<1> HIDE DEF x, y
<1>3. /\ Len(s) = MapSize(x) /\ {e.key : e \in Range(s)} = KeysIn(Items(x))
      /\ MapContainsSameKeys(x, y) <=> KeysIn(Items(x)) = KeysIn(Items(y))
  BY <1>1, <1>2, SameKeys
<1>4. {k \in Keys : MapHasKey(x, k)} = KeysIn(Items(x)) /\ {k \in Keys : MapHasKey(y, k)} = KeysIn(Items(y))
  BY <1>1, HasKey
<1>5. /\ Len(s) = MapSize(x)
      /\ {e.key : e \in Range(s)} = {k \in Keys : MapHasKey(x, k)}
      /\ MapContainsSameKeys(x, y) <=> {k \in Keys : MapHasKey(x, k)} = {k \in Keys : MapHasKey(y, k)}
  BY <1>3, <1>4
<1> QED BY <1>5, Zenon DEF x, y

\* IterationComplete: a loop over MapIteratorNext visits every entry once, and MapContainsSameKeys
\* and SetIsEqual decide equality of the sets of keys across the two representations.
THEOREM IterationVisitsAll == Spec => []IterationComplete
<1>1. Spec => []MapInv
  BY SpecInv
<1>2. MapInv => IterationComplete
  BY InvIterationComplete
<1> QED BY <1>1, <1>2, PTL

-----------------------------------------------------------------------------
(***************************************************************************)
(* The refinement of KeyValueStore.                                        *)
(***************************************************************************)
Contents(x) == [k \in Keys |-> MapGet(x, k)]
Stored      == [m \in Maps |-> IF Live(m) THEN [k \in Keys |-> MapGet(maps[m], k)] ELSE Absent]

\* What is found for a key depends on the items with that key only.
LEMMA SameGet ==
  ASSUME NEW x, GoodMap(x), NEW y, GoodMap(y), NEW k \in Keys,
         \A e : e.key = k => (e \in Items(x) <=> e \in Items(y))
  PROVE  MapGet(x, k) = MapGet(y, k)
<1>1. CASE k \in KeysIn(Items(x))
  <2>1. PICK e \in Items(x) : e.key = k
    BY <1>1 DEF KeysIn
  <2>2. e \in Items(y)
    BY <2>1
  <2>3. MapGet(x, k) = e.obj
    BY <2>1, GetFinds
  <2>4. MapGet(y, k) = e.obj
    BY <2>1, <2>2, GetFinds
  <2> QED BY <2>3, <2>4
<1>2. CASE k \notin KeysIn(Items(x))
  <2>1. k \notin KeysIn(Items(y))
    BY <1>2 DEF KeysIn
  <2>2. MapGet(x, k) = None
    BY <1>2, GetFinds
  <2>3. MapGet(y, k) = None
    BY <2>1, GetFinds
  <2> QED BY <2>2, <2>3
<1> QED BY <1>1, <1>2

LEMMA ContentsInserted ==
  ASSUME NEW x, GoodMap(x), NEW y, GoodMap(y), NEW k \in Keys, NEW o \in Objects,
         Items(y) = Without(Items(x), k) \cup {Entry(k, o)}
  PROVE  Contents(y) = [Contents(x) EXCEPT ![k] = o]
<1>1. Entry(k, o).key = k /\ Entry(k, o).obj = o
  BY DEF Entry
<1>2. MapGet(y, k) = o
  <2>1. Entry(k, o) \in Items(y)
    OBVIOUS
  <2> QED BY <2>1, <1>1, GetFinds
<1>3. ASSUME NEW j \in Keys, j # k PROVE MapGet(y, j) = MapGet(x, j)
  <2>1. \A e : e.key = j => (e \in Items(x) <=> e \in Items(y))
    BY <1>1, <1>3 DEF Without
  <2> QED BY <2>1, SameGet
<1> QED BY <1>2, <1>3 DEF Contents

LEMMA ContentsRemoved ==
  ASSUME NEW x, GoodMap(x), NEW y, GoodMap(y), NEW k \in Keys, Items(y) = Without(Items(x), k)
  PROVE  Contents(y) = [Contents(x) EXCEPT ![k] = None]
<1>1. MapGet(y, k) = None
  <2>1. k \notin KeysIn(Items(y))
    BY DEF KeysIn, Without
  <2> QED BY <2>1, GetFinds
<1>2. ASSUME NEW j \in Keys, j # k PROVE MapGet(y, j) = MapGet(x, j)
  <2>1. \A e : e.key = j => (e \in Items(x) <=> e \in Items(y))
    BY <1>2 DEF Without
  <2> QED BY <2>1, SameGet
<1> QED BY <1>1, <1>2 DEF Contents

LEMMA ContentsEmpty ==
  ASSUME NEW y, GoodMap(y), Items(y) = {}
  PROVE  Contents(y) = [k \in Keys |-> None]
<1>1. ASSUME NEW k \in Keys PROVE MapGet(y, k) = None
  <2>1. k \notin KeysIn(Items(y))
    BY DEF KeysIn
  <2> QED BY <2>1, GetFinds
<1> QED BY <1>1 DEF Contents

LEMMA StoredMaps ==
  ASSUME MapInv
  PROVE  /\ Stored = [m \in Maps |-> Stored[m]]
         /\ \A m \in Maps : Live(m) => /\ Stored[m] = Contents(maps[m]) /\ Stored[m] # Absent
                                       /\ {k \in Keys : Stored[m][k] # None} = KeysIn(Items(maps[m]))
         /\ \A m \in Maps : ~Live(m) => Stored[m] = Absent
<1>1. Stored = [m \in Maps |-> Stored[m]]
  BY DEF Stored
<1>2. ASSUME NEW m \in Maps, Live(m)
      PROVE  /\ Stored[m] = Contents(maps[m]) /\ Stored[m] # Absent
             /\ {k \in Keys : Stored[m][k] # None} = KeysIn(Items(maps[m]))
  <2> DEFINE x == maps[m]
  <2>1. Stored[m] = Contents(x)
    BY <1>2, Zenon DEF Stored, Contents
  <2>2. GoodMap(x)
    BY <1>2, HeldParts
  <2> HIDE DEF x
  <2>3. \A k \in Keys : MapGet(x, k) \in Objects \cup {None} /\ Contents(x)[k] = MapGet(x, k)
    BY <2>2, GetType DEF Contents
  <2>4. Contents(x) \in [Keys -> Objects \cup {None}]
    BY <2>3 DEF Contents
  <2>5. Contents(x) # Absent
    BY <2>4, MapAssumption
  <2>6. {k \in Keys : MapHasKey(x, k)} = KeysIn(Items(x))
    BY <2>2, HasKey
  <2>7. {k \in Keys : Contents(x)[k] # None} = KeysIn(Items(x))
    BY <2>3, <2>6 DEF MapHasKey
  <2> QED BY <2>1, <2>5, <2>7 DEF x
<1>3. ASSUME NEW m \in Maps, ~Live(m) PROVE Stored[m] = Absent
  BY <1>3 DEF Stored
<1> QED BY <1>1, <1>2, <1>3

\* A step that leaves a map with the items K is one of the store that changes that map.
LEMMA StoredBecame ==
  ASSUME MapInv, MapInv', NEW m \in Maps, NEW K, Became(m, K)
  PROVE  /\ Stored' = [Stored EXCEPT ![m] = Contents(maps'[m])]
         /\ Stored'[m] = Contents(maps'[m])
<1>1. GoodMap(maps'[m]) /\ \A n \in Maps \ {m} : maps'[n] = maps[n]
  BY DEF Became
<1>2. Live(m)'
  <2>1. maps'[m] # Absent
    BY <1>1, GoodExists
  <2> QED BY <2>1 DEF Live
<1>3. Stored'[m] = Contents(maps'[m])
  BY <1>2, Zenon DEF Stored, Contents
<1>4. ASSUME NEW n \in Maps, n # m PROVE Stored'[n] = Stored[n]
  <2>1. maps'[n] = maps[n]
    BY <1>1, <1>4
  <2> QED BY <2>1 DEF Stored, Live
<1>5. Stored' = [n \in Maps |-> Stored'[n]] /\ Stored = [n \in Maps |-> Stored[n]]
  BY DEF Stored
<1> HIDE DEF Stored
<1>6. Stored' = [Stored EXCEPT ![m] = Contents(maps'[m])]
  BY <1>3, <1>4, <1>5
<1> QED BY <1>3, <1>6

LEMMA InsertStores ==
  ASSUME MapInv, NEW m \in Maps, NEW k \in Keys, NEW o \in Objects, MapInsert(m, k, o)
  PROVE  /\ Stored[m] # Absent
         /\ Stored' = [Stored EXCEPT ![m][k] = o]
         /\ ret' = (k \in {j \in Keys : Stored[m][j] # None})
<1> DEFINE x == maps[m]
           y == maps'[m]
           K == Without(Items(x), k) \cup {Entry(k, o)}
<1>1. Live(m)
  BY DEF MapInsert
<1>2. MapInv' /\ Became(m, K) /\ ret' = (k \in KeysIn(Items(x)))
  BY InsertStep
<1>3. Stored[m] # Absent /\ Stored[m] = Contents(x) /\ {j \in Keys : Stored[m][j] # None} = KeysIn(Items(x))
  BY <1>1, StoredMaps
<1>4. GoodMap(x) /\ GoodMap(y) /\ Items(y) = K
  BY <1>1, <1>2, HeldParts DEF Became
<1>5. Stored' = [Stored EXCEPT ![m] = Contents(y)]
  BY <1>2, StoredBecame
<1> HIDE DEF x, y
<1>6. Contents(y) = [Contents(x) EXCEPT ![k] = o]
  BY <1>4, ContentsInserted
<1>7. Stored' = [Stored EXCEPT ![m][k] = o]
  <2>1. Stored = [n \in Maps |-> Stored[n]]
    BY StoredMaps
  <2> QED BY <2>1, <1>3, <1>5, <1>6
<1> QED BY <1>2, <1>3, <1>7

LEMMA RemoveStores ==
  ASSUME MapInv, NEW m \in Maps, NEW k \in Keys, MapRemove(m, k)
  PROVE  /\ Stored[m] # Absent
         /\ Stored' = [Stored EXCEPT ![m][k] = None]
         /\ ret' = (k \in {j \in Keys : Stored[m][j] # None})
<1> DEFINE x == maps[m]
           y == maps'[m]
           K == Without(Items(x), k)
<1>1. Live(m)
  BY DEF MapRemove
<1>2. MapInv' /\ Became(m, K) /\ ret' = (k \in KeysIn(Items(x)))
  BY RemoveStep
<1>3. Stored[m] # Absent /\ Stored[m] = Contents(x) /\ {j \in Keys : Stored[m][j] # None} = KeysIn(Items(x))
  BY <1>1, StoredMaps
<1>4. GoodMap(x) /\ GoodMap(y) /\ Items(y) = K
  BY <1>1, <1>2, HeldParts DEF Became
<1>5. Stored' = [Stored EXCEPT ![m] = Contents(y)]
  BY <1>2, StoredBecame
<1> HIDE DEF x, y
<1>6. Contents(y) = [Contents(x) EXCEPT ![k] = None]
  BY <1>4, ContentsRemoved
<1>7. Stored' = [Stored EXCEPT ![m][k] = None]
  <2>1. Stored = [n \in Maps |-> Stored[n]]
    BY StoredMaps
  <2> QED BY <2>1, <1>3, <1>5, <1>6
<1> QED BY <1>2, <1>3, <1>7

LEMMA EmptyStores ==
  ASSUME MapInv, MapInv', NEW m \in Maps, Became(m, {})
  PROVE  Stored' = [Stored EXCEPT ![m] = [k \in Keys |-> None]]
<1>1. GoodMap(maps'[m]) /\ Items(maps'[m]) = {}
  BY DEF Became
<1>2. Contents(maps'[m]) = [k \in Keys |-> None]
  BY <1>1, ContentsEmpty
<1>3. Stored' = [Stored EXCEPT ![m] = Contents(maps'[m])]
  BY StoredBecame
<1> QED BY <1>2, <1>3

LEMMA DestroyStores ==
  ASSUME MapInv, NEW m \in Maps, MapDestroy(m)
  PROVE  Stored[m] # Absent /\ Stored' = [Stored EXCEPT ![m] = Absent] /\ ret' = ret
<1>1. Live(m)
  BY DEF MapDestroy
<1>2. Stored[m] # Absent
  BY <1>1, StoredMaps
<1>3. ret' = ret /\ maps'[m] = Absent /\ \A n \in Maps \ {m} : maps'[n] = maps[n]
  BY DestroyStep
<1>4. Stored'[m] = Absent /\ \A n \in Maps \ {m} : Stored'[n] = Stored[n]
  BY <1>3 DEF Stored, Live
<1>5. Stored' = [n \in Maps |-> Stored'[n]] /\ Stored = [n \in Maps |-> Stored[n]]
  BY DEF Stored
<1> HIDE DEF Stored
<1> QED BY <1>2, <1>3, <1>4, <1>5

LEMMA JoinStores ==
  ASSUME MapInv, NEW m \in Maps, NEW n \in Maps, SetJoin(m, n)
  PROVE  LET N == {k \in Keys : Stored[n][k] # None} IN
         /\ Stored[m] # Absent /\ Stored[n] # Absent /\ m # n
         /\ \A k \in Keys \ N : Stored'[m][k] = Stored[m][k]
         /\ \A k \in N : /\ Stored'[m][k] \in Objects
                         /\ \A x \in Maps : Stored[x] # Absent => \A j \in Keys :
                              Stored[x][j] # Stored'[m][k]
         /\ Stored' = [Stored EXCEPT ![m] = Stored'[m]]
         /\ ret' = ret
<1> DEFINE x == maps[m]
           z == maps[n]
           y == maps'[m]
           I == Items(x)
           N == {k \in Keys : Stored[n][k] # None}
<1>1. Live(m) /\ Live(n) /\ m # n
  BY DEF SetJoin
<1>2. MapInv' /\ Joins(m, n) /\ ret' = ret
  BY SetJoinStep
<1>3. PICK s, copies : /\ Copying(alive, I, s, copies) /\ Range(s) = Items(z)
                       /\ Became(m, JoinedItems(I, s, copies, Len(s)))
  BY <1>2, Zenon DEF Joins
<1> DEFINE J == JoinedItems(I, s, copies, Len(s))
<1>4. /\ Stored[m] # Absent /\ Stored[n] # Absent /\ Stored[m] = Contents(x)
      /\ N = KeysIn(Items(z))
  BY <1>1, StoredMaps
<1>5. GoodMap(x) /\ GoodMap(y) /\ Items(y) = J
  BY <1>1, <1>3, HeldParts DEF Became
<1>6. Stored' = [Stored EXCEPT ![m] = Contents(y)] /\ Stored'[m] = Contents(y)
  BY <1>2, <1>3, StoredBecame
<1>7. /\ \A j \in 1..Len(s) : Entry(s[j].key, copies[j]) \in J
      /\ \A e \in I : e.key \notin KeysIn(Range(s)) => e \in J
  BY <1>3, JoinedOnce
<1>8. \A e \in J : e.key \notin KeysIn(Range(s)) => e \in I
  <2>1. Range(s) = {s[i] : i \in 1..Len(s)}
    BY <1>3, ChainRange DEF Copying
  <2>2. \A j \in 1..Len(s) : Entry(s[j].key, copies[j]).key \in KeysIn(Range(s))
    BY <2>1 DEF Entry, KeysIn
  <2>3. \A e \in J : e \in I \/ \E j \in 1..Len(s) : e = Entry(s[j].key, copies[j])
    BY DEF JoinedItems
  <2> QED BY <2>2, <2>3
<1> HIDE DEF x, y, z, I, J, N
<1>9. ASSUME NEW k \in Keys \ N PROVE Stored'[m][k] = Stored[m][k]
  <2>1. \A e : e.key = k => (e \in Items(x) <=> e \in Items(y))
    BY <1>3, <1>4, <1>5, <1>7, <1>8, <1>9 DEF I
  <2>2. MapGet(x, k) = MapGet(y, k)
    BY <2>1, <1>5, SameGet
  <2>3. Contents(x)[k] = Contents(y)[k]
    BY <2>2 DEF Contents
  <2> QED BY <2>3, <1>4, <1>6
<1>10. ASSUME NEW k \in N
       PROVE  /\ Stored'[m][k] \in Objects
              /\ \A v \in Maps : Stored[v] # Absent => \A j \in Keys : Stored[v][j] # Stored'[m][k]
  <2>1. k \in Keys /\ k \in KeysIn(Range(s))
    BY <1>3, <1>4 DEF N
  <2>2. s \in Seq(Entries) /\ copies \in [1..Len(s) -> Objects \ alive]
    BY <1>3 DEF Copying
  <2>3. PICK i \in 1..Len(s) : s[i].key = k
    <3>1. Range(s) = {s[i] : i \in 1..Len(s)}
      BY <2>2, ChainRange
    <3> QED BY <2>1, <3>1 DEF KeysIn
  <2> DEFINE o == copies[i]
  <2>4. o \in Objects /\ o \notin alive
    BY <2>2, <2>3
  <2> HIDE DEF o
  <2>5. Entry(k, o) \in Items(y) /\ Entry(k, o).key = k /\ Entry(k, o).obj = o
    <3>1. Entry(s[i].key, copies[i]) \in J
      BY <2>3, <1>7
    <3> QED BY <3>1, <2>3, <1>5 DEF Entry, o
  <2>6. MapGet(y, k) = o
    BY <2>1, <2>5, <1>5, GetFinds
  <2>7. Stored'[m][k] = o
    BY <2>1, <2>6, <1>6 DEF Contents
  <2>8. ASSUME NEW v \in Maps, Stored[v] # Absent, NEW j \in Keys PROVE Stored[v][j] # o
    <3>1. Live(v)
      BY <2>8, StoredMaps
    <3> DEFINE u == maps[v]
    <3>2. GoodMap(u) /\ (\A e \in Items(u) : e.obj \in alive) /\ Stored[v] = Contents(u)
      BY <3>1, HeldParts, StoredMaps
    <3> HIDE DEF u
    <3>3. Stored[v][j] = MapGet(u, j)
      BY <3>2 DEF Contents
    <3>4. MapGet(u, j) # None => Entry(j, MapGet(u, j)) \in Items(u)
      BY <3>2, GetType
    <3>5. MapGet(u, j) # None => MapGet(u, j) \in alive
      BY <3>2, <3>4 DEF Entry
    <3>6. o # None
      BY <2>4, MapAssumption
    <3> QED BY <3>3, <3>5, <3>6, <2>4
  <2> QED BY <2>4, <2>7, <2>8
<1>11. Stored' = [Stored EXCEPT ![m] = Stored'[m]]
  BY <1>6
<1> QED BY <1>1, <1>2, <1>4, <1>9, <1>10, <1>11, Zenon DEF N

LEMMA StoreInit == Init => Abstract!Init
BY DEF Init, Abstract!Init, Live

LEMMA StoreNext == MapInv /\ [Next]_vars => [Abstract!Next]_<<Stored, ret>>
<1> SUFFICES ASSUME MapInv, [Next]_vars PROVE [Abstract!Next]_<<Stored, ret>>
  OBVIOUS
<1>1. CASE UNCHANGED vars
  BY <1>1 DEF vars, Stored, Live
<1>2. ASSUME NEW m \in Maps, MapNew(m) PROVE Abstract!New(m)
  <2>1. ~Live(m)
    BY <1>2 DEF MapNew
  <2>2. Stored[m] = Absent
    BY <2>1, StoredMaps
  <2>3. MapInv' /\ Became(m, {}) /\ ret' = ret
    BY <1>2, NewStep
  <2>4. Stored' = [Stored EXCEPT ![m] = [k \in Keys |-> None]]
    BY <2>3, EmptyStores
  <2> QED BY <2>2, <2>3, <2>4, Zenon DEF Abstract!New, Abstract!Exists, Abstract!Empty, Stored
<1>3. ASSUME NEW m \in Maps, MapClear(m) PROVE Abstract!Clear(m)
  <2>1. Live(m)
    BY <1>3 DEF MapClear
  <2>2. Stored[m] # Absent
    BY <2>1, StoredMaps
  <2>3. MapInv' /\ Became(m, {}) /\ ret' = ret
    BY <1>3, ClearStep
  <2>4. Stored' = [Stored EXCEPT ![m] = [k \in Keys |-> None]]
    BY <2>3, EmptyStores
  <2> QED BY <2>2, <2>3, <2>4, Zenon DEF Abstract!Clear, Abstract!Exists, Abstract!Empty, Stored
<1>4. ASSUME NEW m \in Maps, MapDestroy(m) PROVE Abstract!Destroy(m)
  <2>1. Stored[m] # Absent /\ Stored' = [Stored EXCEPT ![m] = Absent] /\ ret' = ret
    BY <1>4, DestroyStores
  <2> QED BY <2>1, Zenon DEF Abstract!Destroy, Abstract!Exists, Stored
<1>5. ASSUME NEW m \in Maps, NEW k \in Keys, MapRemove(m, k) PROVE Abstract!Remove(m, k)
  <2>1. /\ Stored[m] # Absent /\ Stored' = [Stored EXCEPT ![m][k] = None]
        /\ ret' = (k \in {j \in Keys : Stored[m][j] # None})
    BY <1>5, RemoveStores
  <2> QED BY <2>1, Zenon DEF Abstract!Remove, Abstract!Exists, Abstract!KeysOf, Stored
<1>6. ASSUME NEW m \in Maps, NEW k \in Keys, NEW o \in Objects, MapInsert(m, k, o)
      PROVE  Abstract!Insert(m, k, o)
  <2>1. /\ Stored[m] # Absent /\ Stored' = [Stored EXCEPT ![m][k] = o]
        /\ ret' = (k \in {j \in Keys : Stored[m][j] # None})
    BY <1>6, InsertStores
  <2> QED BY <2>1, Zenon DEF Abstract!Insert, Abstract!Exists, Abstract!KeysOf, Stored
<1>7. ASSUME NEW m \in Maps, NEW n \in Maps, SetJoin(m, n) PROVE Abstract!Join(m, n)
  BY <1>7, JoinStores, Zenon DEF Abstract!Join, Abstract!Exists, Abstract!KeysOf, Stored
<1>8. ASSUME Next PROVE Abstract!Next
  BY <1>8, <1>2, <1>3, <1>4, <1>5, <1>6, <1>7, Zenon DEF Next, Abstract!Next
<1> QED BY <1>1, <1>8, Zenon

\* StoreSpec: the arrays and the tables, with their conversions and resizing, implement a partial
\* function from keys to the objects last inserted, with the answers that map.h and set.h promise.
THEOREM MapImplementsStore == Spec => StoreSpec
<1>1. Init => Abstract!Init
  BY StoreInit
<1>2. MapInv /\ [Next]_vars => [Abstract!Next]_<<Stored, ret>>
  BY StoreNext
<1>3. Spec => []MapInv
  BY SpecInv
<1> QED BY <1>1, <1>2, <1>3, PTL DEF Spec, StoreSpec, Abstract!Spec, Stored

=============================================================================
