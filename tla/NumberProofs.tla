---------------------------- MODULE NumberProofs ----------------------------
(***************************************************************************)
(* Facts about numbers, finite sets and loops that several proofs need.    *)
(* The induction theorems of the library take an operator, which the       *)
(* provers cannot instantiate; here induction is about sets of numbers,    *)
(* and a loop is a function of the number of turns.                        *)
(***************************************************************************)
EXTENDS Naturals, Sequences, FiniteSets, FiniteSetsExt, FiniteSetTheorems, TLAPS

\* The least element of a set of numbers.
LEMMA LeastNumber ==
  ASSUME NEW S \in SUBSET Nat, S # {}
  PROVE  Min(S) \in S /\ \A y \in S : Min(S) <= y
<1> DEFINE Less == {ss \in Nat \X Nat : ss[1] < ss[2]}
<1>1. IsWellFoundedOn(Less, Nat)
  BY NatLessThanWellFounded, Zenon DEF OpToRel
<1>2. PICK x \in S : \A y \in S : ~(<<y, x>> \in Less)
  BY <1>1, WFMin, Zenon
<1>3. ASSUME NEW y \in S PROVE x <= y
  <2>1. ~(<<y, x>> \in Nat \X Nat /\ <<y, x>>[1] < <<y, x>>[2])
    BY <1>2, Zenon
  <2>2. x \in Nat /\ y \in Nat /\ <<y, x>> \in Nat \X Nat /\ <<y, x>>[1] = y /\ <<y, x>>[2] = x
    OBVIOUS
  <2>3. ~(y < x)
    BY <2>1, <2>2, Zenon
  <2> QED BY <2>2, <2>3
<1> QED BY <1>3 DEF Min

\* A set of numbers that has 0, and the successor of each of its elements up to
\* a limit, has all numbers up to the limit.
LEMMA UpTo ==
  ASSUME NEW L \in Nat, NEW P \in SUBSET Nat,
         0 \in P, \A n \in P : n < L => n + 1 \in P
  PROVE  0..L \subseteq P
<1> DEFINE Missing == (0..L) \ P
<1>1. SUFFICES ASSUME Missing # {} PROVE FALSE
  OBVIOUS
<1>2. Missing \in SUBSET Nat
  OBVIOUS
<1>3. PICK x \in Missing : \A y \in Missing : x <= y
  <2> HIDE DEF Missing
  <2> QED BY <1>1, <1>2, LeastNumber, Zenon
<1>4. x # 0 /\ x \in 1..L /\ x - 1 \in Nat /\ x - 1 < x /\ x - 1 < L
  BY <1>3
<1>5. x - 1 \in P
  BY <1>3, <1>4
<1> QED BY <1>3, <1>4, <1>5

\* A loop of L turns that starts from a value of S and stays in S is a function.
LoopRuns(L, S, a, g) ==
  \E f \in [0..L -> S] : f[0] = a /\ \A j \in 1..L : f[j] = g[j][f[j - 1]]

LEMMA LoopExists ==
  ASSUME NEW L \in Nat, NEW S, NEW a \in S, NEW g \in [1..L -> [S -> S]]
  PROVE  LoopRuns(L, S, a, g)
<1> DEFINE Run(n) == {f \in [0..n -> S] : f[0] = a /\ \A j \in 1..n : f[j] = g[j][f[j - 1]]}
           P == {n \in Nat : n <= L => Run(n) # {}}
<1>1. 0 \in P
  <2>1. [j \in 0..0 |-> a] \in Run(0)
    OBVIOUS
  <2> QED BY <2>1
<1>2. ASSUME NEW n \in P, n < L PROVE n + 1 \in P
  <2>1. PICK f \in Run(n) : TRUE
    BY <1>2
  <2>2. n \in Nat /\ n + 1 \in 1..L
    BY <1>2
  <2> DEFINE v == g[n + 1][f[n]]
             ff == [j \in 0..(n + 1) |-> IF j = n + 1 THEN v ELSE f[j]]
  <2>3. f \in [0..n -> S] /\ f[0] = a /\ \A j \in 1..n : f[j] = g[j][f[j - 1]]
    BY <2>1
  <2>4. v \in S
    <3>1. f[n] \in S
      BY <2>2, <2>3
    <3> QED BY <2>2, <3>1
  <2>5. \A j \in 0..n : ff[j] = f[j] /\ j \in 0..(n + 1)
    BY <2>2
  <2>6. ff[n + 1] = v
    BY <2>2
  <2>7. ff \in [0..(n + 1) -> S]
    <3> SUFFICES ASSUME NEW j \in 0..(n + 1) PROVE (IF j = n + 1 THEN v ELSE f[j]) \in S
      BY Zenon
    <3>1. CASE j = n + 1
      BY <3>1, <2>4, Zenon
    <3>2. CASE j # n + 1
      <4>1. j \in 0..n
        BY <2>2, <3>2
      <4> QED BY <4>1, <3>2, <2>3
    <3> QED BY <3>1, <3>2
  <2>8. ASSUME NEW j \in 1..(n + 1) PROVE ff[j] = g[j][ff[j - 1]]
    <3> HIDE DEF ff
    <3>1. CASE j = n + 1
      <4>1. j - 1 = n /\ n \in 0..n
        BY <3>1, <2>2
      <4> QED BY <3>1, <4>1, <2>5, <2>6
    <3>2. CASE j # n + 1
      <4>1. j \in 1..n /\ j \in 0..n /\ j - 1 \in 0..n
        BY <3>2, <2>2
      <4> QED BY <4>1, <2>3, <2>5
    <3> QED BY <3>1, <3>2
  <2>9. ff \in Run(n + 1)
    <3>1. ff[0] = a
      BY <2>2, <2>3, <2>5
    <3> HIDE DEF ff
    <3> QED BY <2>7, <2>8, <3>1
  <2>10. Run(n + 1) # {} /\ n + 1 \in Nat
    <3> HIDE DEF ff, Run
    <3> QED BY <2>9, <2>2
  <2> HIDE DEF Run
  <2> QED BY <2>10
<1>3. P \in SUBSET Nat
  OBVIOUS
<1>4. 0..L \subseteq P
  <2> HIDE DEF P
  <2> QED BY <1>1, <1>2, <1>3, UpTo
<1>5. Run(L) # {}
  BY <1>4
<1> QED BY <1>5 DEF LoopRuns

-----------------------------------------------------------------------------
(***************************************************************************)
(* Finite sets.                                                            *)
(***************************************************************************)
\* Numbers that belong to the elements of a finite set have a greatest one.
LEMMA GreatestNumber ==
  ASSUME NEW K, IsFiniteSet(K), K # {}, NEW f \in [K -> Nat]
  PROVE  /\ Max({f[k] : k \in K}) \in Nat
         /\ \A k \in K : f[k] <= Max({f[k2] : k2 \in K})
<1> DEFINE Top(X) == \E x \in X : \A y \in X : f[y] <= f[x]
           L == Cardinality(K)
           P == {m \in Nat : \A X \in SUBSET K : X # {} /\ Cardinality(X) = m => Top(X)}
<1>1. L \in Nat
  BY FS_CardinalityType
<1>2. \A X \in SUBSET K : IsFiniteSet(X) /\ Cardinality(X) \in Nat /\ (Cardinality(X) = 0 <=> X = {})
  <2> TAKE X \in SUBSET K
  <2>1. IsFiniteSet(X)
    BY FS_Subset
  <2> QED BY <2>1, FS_CardinalityType, FS_EmptySet
<1>3. 0 \in P
  BY <1>2
<1>4. ASSUME NEW n \in P, n < L PROVE n + 1 \in P
  <2> SUFFICES ASSUME NEW X \in SUBSET K, X # {}, Cardinality(X) = n + 1 PROVE Top(X)
    BY <1>4
  <2>1. PICK x \in X : TRUE
    OBVIOUS
  <2> DEFINE Y == X \ {x}
  <2>2. Cardinality(Y) = n /\ Y \in SUBSET K /\ n \in Nat
    <3>1. Cardinality(Y) = Cardinality(X) - 1
      BY <1>2, <2>1, FS_RemoveElement
    <3> QED BY <3>1, <1>4
  <2>3. CASE Y = {}
    <3>1. X = {x} /\ f[x] \in Nat
      BY <2>1, <2>3
    <3> QED BY <3>1
  <2>4. CASE Y # {}
    <3>1. Top(Y)
      <4> HIDE DEF Y, Top
      <4> QED BY <1>4, <2>2, <2>4
    <3>2. PICK y \in Y : \A z \in Y : f[z] <= f[y]
      BY <3>1
    <3>3. x \in K /\ y \in K /\ f[x] \in Nat /\ f[y] \in Nat /\ y \in X /\ \A z \in X : f[z] \in Nat
      BY <2>1, <3>2
    <3>4. CASE f[x] <= f[y]
      BY <3>2, <3>3, <3>4
    <3>5. CASE f[y] <= f[x]
      <4>1. \A z \in X : f[z] <= f[x]
        BY <3>2, <3>3, <3>5
      <4> QED BY <4>1, <2>1
    <3> QED BY <3>3, <3>4, <3>5
  <2> QED BY <2>3, <2>4
<1>5. P \in SUBSET Nat
  OBVIOUS
<1>6. L \in P
  <2>1. 0..L \subseteq P
    <3> HIDE DEF P
    <3> QED BY <1>1, <1>3, <1>4, <1>5, UpTo
  <2> QED BY <2>1, <1>1
<1>7. PICK x \in K : \A y \in K : f[y] <= f[x]
  BY <1>6
<1> DEFINE T == {f[k] : k \in K}
<1>8. f[x] \in T /\ \A y \in T : f[x] >= y
  BY <1>7
<1>9. Max(T) \in T /\ \A y \in T : Max(T) >= y
  BY <1>8 DEF Max
<1>10. T \in SUBSET Nat /\ \A k \in K : f[k] \in T
  OBVIOUS
<1> QED BY <1>9, <1>10

\* Sets of at most c elements have at most c times their number together.
LEMMA UnionBound ==
  ASSUME NEW K, IsFiniteSet(K), NEW F, NEW c \in Nat,
         \A k \in K : IsFiniteSet(F[k]) /\ Cardinality(F[k]) <= c
  PROVE  /\ IsFiniteSet(UNION {F[k] : k \in K})
         /\ Cardinality(UNION {F[k] : k \in K}) <= Cardinality(K) * c
<1> DEFINE U(X) == UNION {F[k] : k \in X}
           L == Cardinality(K)
           Bounded(m) == \A X \in SUBSET K : Cardinality(X) = m => IsFiniteSet(U(X)) /\ Cardinality(U(X)) <= m * c
           P == {m \in Nat : Bounded(m)}
<1>1. L \in Nat
  BY FS_CardinalityType
<1>2. \A X \in SUBSET K : IsFiniteSet(X) /\ Cardinality(X) \in Nat /\ (Cardinality(X) = 0 <=> X = {})
  <2> TAKE X \in SUBSET K
  <2>1. IsFiniteSet(X)
    BY FS_Subset
  <2> QED BY <2>1, FS_CardinalityType, FS_EmptySet
<1>3. 0 \in P
  <2>1. U({}) = {} /\ 0 * c = 0
    OBVIOUS
  <2>2. IsFiniteSet({}) /\ Cardinality({}) = 0
    BY FS_EmptySet
  <2>3. \A X \in SUBSET K : Cardinality(X) = 0 => X = {}
    BY <1>2
  <2> QED BY <2>1, <2>2, <2>3
<1>4. ASSUME NEW n \in P, n < L PROVE n + 1 \in P
  <2>0. n \in Nat /\ n + 1 \in Nat /\ Bounded(n)
    <3> HIDE DEF Bounded
    <3> QED BY <1>4
  <2> SUFFICES Bounded(n + 1)
    <3> HIDE DEF Bounded
    <3> QED BY <2>0
  <2> SUFFICES ASSUME NEW X \in SUBSET K, Cardinality(X) = n + 1
               PROVE  IsFiniteSet(U(X)) /\ Cardinality(U(X)) <= (n + 1) * c
    <3> HIDE DEF U
    <3> QED OBVIOUS
  <2>1. PICK x \in X : TRUE
    <3>1. Cardinality(X) # 0
      BY <2>0
    <3> QED BY <3>1, <1>2
  <2> DEFINE Y == X \ {x}
  <2>2. Cardinality(Y) = n /\ Y \in SUBSET K
    <3>1. Cardinality(Y) = Cardinality(X) - 1
      BY <1>2, <2>1, FS_RemoveElement
    <3> QED BY <3>1, <2>0
  <2>3. IsFiniteSet(U(Y)) /\ Cardinality(U(Y)) <= n * c
    <3> HIDE DEF U, Y
    <3> QED BY <2>0, <2>2
  <2>4. U(X) = U(Y) \cup F[x]
    BY <2>1
  <2>5. IsFiniteSet(F[x]) /\ Cardinality(F[x]) <= c
    BY <2>1
  <2> DEFINE A == U(Y)
             B == F[x]
  <2>6. /\ IsFiniteSet(A \cup B) /\ Cardinality(A \cup B) = Cardinality(A) + Cardinality(B) - Cardinality(A \cap B)
        /\ Cardinality(A) \in Nat /\ Cardinality(B) \in Nat /\ Cardinality(A \cap B) \in Nat
    <3> HIDE DEF A, B
    <3>1. IsFiniteSet(A) /\ IsFiniteSet(B) /\ IsFiniteSet(A \cap B)
      <4>1. IsFiniteSet(A) /\ IsFiniteSet(B)
        BY <2>3, <2>5 DEF A, B
      <4> QED BY <4>1, FS_Intersection
    <3> QED BY <3>1, FS_Union, FS_CardinalityType
  <2>7. n * c \in Nat /\ (n + 1) * c = n * c + c
    BY <2>0
  <2> DEFINE p == n * c
             q == (n + 1) * c
  <2>8. p \in Nat /\ q = p + c /\ Cardinality(A) <= p /\ Cardinality(B) <= c
    BY <2>7, <2>3, <2>5
  <2>9. Cardinality(A \cup B) <= q
    <3> HIDE DEF p, q, A, B
    <3> QED BY <2>6, <2>8
  <2> QED BY <2>4, <2>6, <2>9
<1>5. P \in SUBSET Nat
  OBVIOUS
<1>6. L \in P
  <2>1. 0..L \subseteq P
    <3> HIDE DEF P
    <3> QED BY <1>1, <1>3, <1>4, <1>5, UpTo
  <2> QED BY <2>1, <1>1
<1> QED BY <1>6

=============================================================================
