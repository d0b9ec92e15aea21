--------------------------------- MODULE Map ---------------------------------
(***************************************************************************)
(* libutils/map.c with array_map.c and hash_map.c, and set.c, whose sets   *)
(* are maps of elements to themselves: an array searched linearly up to    *)
(* TINY_LIMIT entries, then a table of chained buckets that doubles and    *)
(* halves with its load.                                                   *)
(*                                                                         *)
(* Keys that equal_fn identifies are one key here; an object stands for    *)
(* the key and the value that one insertion hands over, of which the map   *)
(* is the owner from then on.                                              *)
(***************************************************************************)
EXTENDS Naturals, Sequences, FiniteSets, FiniteSetsExt, SequencesExt

CONSTANTS Maps, Keys, Objects,
          Hash,         \* hash_fn
          TINY_LIMIT,   \* entries of an array map
          INIT_SIZE,    \* DEFAULT_HASHMAP_INIT_SIZE, within HashMapNew's bounds
          MAX_BUCKETS,  \* MAX_HASHMAP_BUCKETS
          None, Absent

PowersOfTwo ==
  {1, 2, 4, 8, 16, 32, 64, 128, 256, 512, 1024, 2048, 4096, 8192, 16384, 32768,
   65536, 131072, 262144, 524288, 1048576, 2097152, 4194304, 8388608, 16777216,
   33554432, 67108864, 134217728, 268435456, 536870912, 1073741824}

Sizes     == PowersOfTwo \cap INIT_SIZE..MAX_BUCKETS
Entries   == [key : Keys, obj : Objects]
ArrayMaps == [is_array : {TRUE}, values : Seq(Entries)]

HashMaps(size) == [is_array : {FALSE}, size : {size}, load : Nat, max_threshold : Nat,
                   min_threshold : Nat, buckets : [0..(size - 1) -> Seq(Entries)]]

ASSUME MapAssumption ==
  /\ IsFiniteSet(Maps) /\ IsFiniteSet(Keys) /\ IsFiniteSet(Objects)
  /\ Hash \in [Keys -> Nat]
  /\ TINY_LIMIT \in Nat \ {0}
  /\ {INIT_SIZE, MAX_BUCKETS} \subseteq PowersOfTwo /\ INIT_SIZE <= MAX_BUCKETS
  /\ None \notin Objects /\ None \notin Entries
  /\ Absent \notin ArrayMaps /\ \A n \in Sizes : Absent \notin HashMaps(n)
  /\ Absent \notin [Keys -> Objects \cup {None}]

VARIABLES maps,   \* an ArrayMap, a HashMap, or Absent, for every map
          alive,  \* the objects that were handed over and not destroyed
          ret     \* what the last MapInsert or MapRemove returned

vars == <<maps, alive, ret>>

Live(m)       == maps[m] # Absent
Entry(k, o)   == [key |-> k, obj |-> o]
IndexOf(s, k) == SelectInSeq(s, LAMBDA e : e.key = k)

-----------------------------------------------------------------------------
(***************************************************************************)
(* ArrayMap.  A result has the new map, the objects destroyed and what is  *)
(* returned.                                                               *)
(***************************************************************************)
ArrayMapNew == [is_array |-> TRUE, values |-> <<>>]

\* 0: no room, 1: replaced, 2: added.
ArrayMapInsert(a, k, o) ==
  LET i == IndexOf(a.values, k) IN
  CASE Len(a.values) = TINY_LIMIT ->
         [map |-> a, dead |-> {}, ret |-> 0]
    [] Len(a.values) # TINY_LIMIT /\ i # 0 ->
         [map |-> [a EXCEPT !.values[i] = Entry(k, o)],
          dead |-> {a.values[i].obj}, ret |-> 1]
    [] OTHER ->
         [map |-> [a EXCEPT !.values = Append(@, Entry(k, o))], dead |-> {}, ret |-> 2]

ArrayMapRemove(a, k) ==
  LET i == IndexOf(a.values, k) IN
  IF i = 0 THEN [map |-> a, dead |-> {}, ret |-> FALSE]
  ELSE [map |-> [a EXCEPT !.values = RemoveAt(@, i)],
        dead |-> {a.values[i].obj}, ret |-> TRUE]

-----------------------------------------------------------------------------
(***************************************************************************)
(* HashMap.                                                                *)
(***************************************************************************)
\* max_threshold and min_threshold: load factors 0.75 and 0.35, truncated.
MaxThreshold(size) == (size * 75) \div 100
MinThreshold(size) == (size * 35) \div 100

HashMapNew ==
  [is_array |-> FALSE, size |-> INIT_SIZE, load |-> 0,
   max_threshold |-> MaxThreshold(INIT_SIZE), min_threshold |-> MinThreshold(INIT_SIZE),
   buckets |-> [b \in 0..(INIT_SIZE - 1) |-> <<>>]]

\* hash & (size - 1), size being a power of two.
HashMapGetBucket(size, k) == Hash[k] % size

\* Where the items of a table are: bucket and position in its chain.
Places(h) == UNION {{b} \X DOMAIN h.buckets[b] : b \in DOMAIN h.buckets}

\* The loop over one old chain: each item is put in front of its new bucket.
MoveItem(table, size, e) ==
  [table EXCEPT ![HashMapGetBucket(size, e.key)] = <<e>> \o @]

MoveChain(table, size, chain) ==
  LET move[j \in 0..Len(chain)] ==
        IF j = 0 THEN table ELSE MoveItem(move[j - 1], size, chain[j])
  IN  move[Len(chain)]

\* The loop over the old buckets.
MoveChains(buckets, old_size, size) ==
  LET moved[i \in 0..old_size] ==
        IF i = 0 THEN [b \in 0..(size - 1) |-> <<>>]
        ELSE MoveChain(moved[i - 1], size, buckets[i - 1])
  IN  moved[old_size]

\* Mutant: only the first item of each bucket is moved.
HashMapResizeHeads(h, new_size) ==
  [h EXCEPT
     !.size = new_size,
     !.max_threshold = MaxThreshold(new_size),
     !.min_threshold = MinThreshold(new_size),
     !.buckets = MoveChains([b \in DOMAIN h.buckets |->
                               IF h.buckets[b] = <<>> THEN <<>> ELSE <<h.buckets[b][1]>>],
                            h.size, new_size)]

HashMapResize(h, new_size) ==
  [h EXCEPT
     !.size = new_size,
     !.max_threshold = MaxThreshold(new_size),
     !.min_threshold = MinThreshold(new_size),
     !.buckets = MoveChains(h.buckets, h.size, new_size)]

\* Mutant: what is replaced is not destroyed.
HashMapInsertLeaks(h, k, o) ==
  LET b == HashMapGetBucket(h.size, k)
      i == IndexOf(h.buckets[b], k)
      g == [h EXCEPT !.buckets[b] = <<Entry(k, o)>> \o @, !.load = @ + 1]
  IN  IF i # 0
        THEN [map |-> [h EXCEPT !.buckets[b][i] = Entry(k, o)],
              dead |-> {}, ret |-> TRUE]
        ELSE [map |-> IF g.load > g.max_threshold /\ g.size < MAX_BUCKETS
                        THEN HashMapResize(g, g.size * 2) ELSE g,
              dead |-> {}, ret |-> FALSE]

\* Mutant: the load is compared before it is counted.
HashMapInsertLateGrowth(h, k, o) ==
  LET b == HashMapGetBucket(h.size, k)
      i == IndexOf(h.buckets[b], k)
      g == [h EXCEPT !.buckets[b] = <<Entry(k, o)>> \o @, !.load = @ + 1]
  IN  IF i # 0
        THEN [map |-> [h EXCEPT !.buckets[b][i] = Entry(k, o)],
              dead |-> {h.buckets[b][i].obj}, ret |-> TRUE]
        ELSE [map |-> IF h.load > g.max_threshold /\ g.size < MAX_BUCKETS
                        THEN HashMapResize(g, g.size * 2) ELSE g,
              dead |-> {}, ret |-> FALSE]

HashMapInsert(h, k, o) ==
  LET b == HashMapGetBucket(h.size, k)
      i == IndexOf(h.buckets[b], k)
      g == [h EXCEPT !.buckets[b] = <<Entry(k, o)>> \o @, !.load = @ + 1]
  IN  IF i # 0
        THEN [map |-> [h EXCEPT !.buckets[b][i] = Entry(k, o)],
              dead |-> {h.buckets[b][i].obj}, ret |-> TRUE]
        ELSE [map |-> IF g.load > g.max_threshold /\ g.size < MAX_BUCKETS
                        THEN HashMapResize(g, g.size * 2) ELSE g,
              dead |-> {}, ret |-> FALSE]

HashMapRemove(h, k) ==
  LET b == HashMapGetBucket(h.size, k)
      i == IndexOf(h.buckets[b], k)
      g == [h EXCEPT !.buckets[b] = RemoveAt(@, i), !.load = @ - 1]
  IN  IF i = 0 THEN [map |-> h, dead |-> {}, ret |-> FALSE]
      ELSE [map |-> IF g.load < g.min_threshold /\ g.size > INIT_SIZE
                      THEN HashMapResize(g, g.size \div 2) ELSE g,
            dead |-> {h.buckets[b][i].obj}, ret |-> TRUE]

\* The buckets keep their number; load is decremented for every item freed.
HashMapClear(h) == [h EXCEPT !.buckets = [b \in DOMAIN @ |-> <<>>],
                             !.load = @ - Cardinality(Places(h))]

(***************************************************************************)
(* HashMapIteratorNext: cur is what is left of the current bucket.         *)
(***************************************************************************)
HashMapIteratorInit(h) == [bucket |-> 0, cur |-> h.buckets[0]]

\* Mutant: the last bucket is never reached.
HashMapIteratorNextShort(h, it) ==
  IF it.cur # <<>> THEN [item |-> Head(it.cur), iter |-> [it EXCEPT !.cur = Tail(@)]]
  ELSE LET later == {b \in (it.bucket + 1)..(h.size - 2) : h.buckets[b] # <<>>}
       IN  IF later = {} THEN [item |-> None, iter |-> [bucket |-> h.size, cur |-> <<>>]]
           ELSE LET s == h.buckets[Min(later)]
                IN  [item |-> Head(s), iter |-> [bucket |-> Min(later), cur |-> Tail(s)]]

HashMapIteratorNext(h, it) ==
  IF it.cur # <<>> THEN [item |-> Head(it.cur), iter |-> [it EXCEPT !.cur = Tail(@)]]
  ELSE LET later == {b \in (it.bucket + 1)..(h.size - 1) : h.buckets[b] # <<>>}
       IN  IF later = {} THEN [item |-> None, iter |-> [bucket |-> h.size, cur |-> <<>>]]
           ELSE LET s == h.buckets[Min(later)]
                IN  [item |-> Head(s), iter |-> [bucket |-> Min(later), cur |-> Tail(s)]]

-----------------------------------------------------------------------------
(***************************************************************************)
(* Map.                                                                    *)
(***************************************************************************)
MapSize(x) == IF x.is_array THEN Len(x.values) ELSE x.load

\* The loop over the array: each pair is inserted in the table.
ConvertToHashMap(a) ==
  LET conv[i \in 0..Len(a.values)] ==
        IF i = 0 THEN HashMapNew
        ELSE HashMapInsert(conv[i - 1], a.values[i].key, a.values[i].obj).map
  IN  conv[Len(a.values)]

InsertResult(x, k, o) ==
  LET r == ArrayMapInsert(x, k, o) IN
  IF ~x.is_array THEN HashMapInsert(x, k, o)
  ELSE IF r.ret # 0 THEN [r EXCEPT !.ret = (@ = 1)]
  ELSE HashMapInsert(ConvertToHashMap(x), k, o)

RemoveResult(x, k) == IF x.is_array THEN ArrayMapRemove(x, k) ELSE HashMapRemove(x, k)

\* MapGetRaw: the object found for a key, or None.
MapGet(x, k) ==
  LET s == IF x.is_array THEN x.values ELSE x.buckets[HashMapGetBucket(x.size, k)]
      i == IndexOf(s, k)
  IN  IF i = 0 THEN None ELSE s[i].obj

MapHasKey(x, k) == MapGet(x, k) # None

\* What a loop over MapIteratorNext visits until it returns NULL.
Advance(x, w) ==
  LET r == HashMapIteratorNext(x, w.iter)
  IN  IF w.done \/ r.item = None THEN [w EXCEPT !.done = TRUE]
      ELSE [seq |-> Append(w.seq, r.item), iter |-> r.iter, done |-> FALSE]

Visited(x) ==
  LET walk[n \in 0..(Cardinality(Objects) + 1)] ==
        IF n = 0 THEN [seq |-> <<>>, iter |-> HashMapIteratorInit(x), done |-> FALSE]
        ELSE Advance(x, walk[n - 1])
  IN  IF x.is_array THEN x.values ELSE walk[Cardinality(Objects) + 1].seq

MapContainsSameKeys(x, y) ==
  /\ \A e \in Range(Visited(x)) : MapHasKey(y, e.key)
  /\ Len(Visited(x)) = MapSize(y)

\* The entries that MapClear and MapDestroy free.
Items(x) == IF x.is_array THEN Range(x.values)
            ELSE UNION {Range(x.buckets[b]) : b \in DOMAIN x.buckets}
Objs(x)  == {e.obj : e \in Items(x)}

-----------------------------------------------------------------------------
Init ==
  /\ maps = [m \in Maps |-> Absent]
  /\ alive = {}
  /\ ret = FALSE

MapNew(m) ==
  /\ ~Live(m)
  /\ maps' = [maps EXCEPT ![m] = ArrayMapNew]
  /\ UNCHANGED <<alive, ret>>

\* The caller hands over an object that nobody else owns.
MapInsert(m, k, o) ==
  /\ Live(m) /\ o \notin alive
  /\ LET r == InsertResult(maps[m], k, o)
     IN  /\ maps' = [maps EXCEPT ![m] = r.map]
         /\ alive' = (alive \cup {o}) \ r.dead
         /\ ret' = r.ret

MapRemove(m, k) ==
  /\ Live(m)
  /\ LET r == RemoveResult(maps[m], k)
     IN  /\ maps' = [maps EXCEPT ![m] = r.map]
         /\ alive' = alive \ r.dead
         /\ ret' = r.ret

MapClear(m) ==
  /\ Live(m)
  /\ maps' = [maps EXCEPT ![m] = IF @.is_array THEN ArrayMapNew ELSE HashMapClear(@)]
  /\ alive' = alive \ Objs(maps[m])
  /\ UNCHANGED ret

\* MapDestroy, and MapSoftDestroy, which leaves the values to the caller.
MapDestroy(m) ==
  /\ Live(m)
  /\ maps' = [maps EXCEPT ![m] = Absent]
  /\ alive' = alive \ Objs(maps[m])
  /\ UNCHANGED ret

(***************************************************************************)
(* SetJoin with a copy function: each element visited is copied and added. *)
(* Without one (set.c:108-111) both sets hold the same elements, which is  *)
(* for sets that do not own them (destroy_fn NULL): their elements are not *)
(* objects here, and the keys of the join are those of a join with copies. *)
(***************************************************************************)
JoinStep(acc, e, copy) ==
  LET r == InsertResult(acc.map, e.key, copy)
  IN  [map |-> r.map, alive |-> (acc.alive \cup {copy}) \ r.dead]

JoinResult(acc, s, copies) ==
  LET join[i \in 0..Len(s)] ==
        IF i = 0 THEN acc ELSE JoinStep(join[i - 1], s[i], copies[i])
  IN  join[Len(s)]

SetJoin(m, n) ==
  /\ Live(m) /\ Live(n) /\ m # n
  /\ LET s == Visited(maps[n]) IN
     \E copies \in [1..Len(s) -> Objects \ alive] :
       /\ IsInjective(copies)
       /\ LET r == JoinResult([map |-> maps[m], alive |-> alive], s, copies)
          IN  /\ maps' = [maps EXCEPT ![m] = r.map]
              /\ alive' = r.alive
  /\ UNCHANGED ret

Next ==
  \E m \in Maps :
    \/ MapNew(m) \/ MapClear(m) \/ MapDestroy(m)
    \/ \E k \in Keys : MapRemove(m, k) \/ \E o \in Objects : MapInsert(m, k, o)
    \/ \E n \in Maps : SetJoin(m, n)

Spec == Init /\ [][Next]_vars

-----------------------------------------------------------------------------
(***************************************************************************)
(* Properties.                                                             *)
(***************************************************************************)
\* The entries of an array map fit in the TINY_LIMIT slots that ArrayMapNew
\* allocates; a table has a power of two of buckets within the bounds, so
\* that HashMapGetBucket's mask stays inside it.
TypeOK ==
  /\ DOMAIN maps = Maps
  /\ \A m \in Maps : Live(m) =>
       \/ maps[m] \in ArrayMaps /\ Len(maps[m].values) <= TINY_LIMIT
       \/ \E n \in Sizes : maps[m] \in HashMaps(n)
  /\ alive \subseteq Objects
  /\ ret \in BOOLEAN

\* After conversions, growing and shrinking, every entry is in the bucket its
\* key hashes to, load counts the entries, and the table is as large as its
\* load demands; arrays and tables are within their bounds.
TableShape ==
  TypeOK /\ \A m \in Maps : Live(m) /\ ~maps[m].is_array =>
    LET h == maps[m] IN
    /\ \A b \in DOMAIN h.buckets : \A e \in Range(h.buckets[b]) :
         HashMapGetBucket(h.size, e.key) = b
    /\ h.load = Cardinality(Places(h))
    /\ h.load <= MaxThreshold(h.size) \/ h.size = MAX_BUCKETS

\* Every object handed over is in exactly one place or has been destroyed:
\* replacing, converting, resizing, joining and clearing neither leak an
\* object nor keep one that was destroyed.
Ownership ==
  LET Slots(x)    == IF x.is_array THEN {0} \X DOMAIN x.values ELSE Places(x)
      ObjAt(x, p) == IF x.is_array THEN x.values[p[2]].obj ELSE x.buckets[p[1]][p[2]].obj
      live        == {m \in Maps : Live(m)}
  IN  /\ alive = UNION {{ObjAt(maps[m], p) : p \in Slots(maps[m])} : m \in live}
      /\ \A m, n \in live : \A p \in Slots(maps[m]), q \in Slots(maps[n]) :
           ObjAt(maps[m], p) = ObjAt(maps[n], q) => m = n /\ p = q

\* A loop over MapIteratorNext visits every entry once, so MapContainsSameKeys and
\* SetIsEqual, which loop over one map and look into the other, decide equality of
\* the sets of keys whatever representations the two have.
IterationComplete ==
  \A m, n \in Maps : Live(m) /\ Live(n) =>
    LET s == Visited(maps[m])
        KeysOf(x) == {k \in Keys : MapHasKey(x, k)}
    IN  /\ Len(s) = MapSize(maps[m])
        /\ {e.key : e \in Range(s)} = KeysOf(maps[m])
        /\ MapContainsSameKeys(maps[m], maps[n]) <=> KeysOf(maps[m]) = KeysOf(maps[n])

\* What MapGet finds and what MapInsert and MapRemove return are those of a
\* partial function, across both representations.
Abstract == INSTANCE KeyValueStore WITH
  store <- [m \in Maps |-> IF Live(m) THEN [k \in Keys |-> MapGet(maps[m], k)] ELSE Absent]

StoreSpec == Abstract!Spec

=============================================================================
