---------------------------- MODULE ShardProofs ----------------------------
(***************************************************************************)
(* The datapath, for any number of shards and vports, any batch and queue  *)
(* sizes and any lengths: types, what stays staged, the runs, the numbers  *)
(* and the accounting of every segment.                                    *)
(*                                                                         *)
(* Sums and the loop of Runs::next are recursive.  What they compute is    *)
(* proved from a least counterexample (MinimalSubset, LeastNat).           *)
(***************************************************************************)
EXTENDS Shard, FiniteSetTheorems, NaturalsInduction, TLAPS

------------------------------------------------------------------------------
(* Sums.                                                                   *)

(* A finite set of sets of which none is minimal is empty: induction over  *)
(* the subsets of a finite set.                                            *)
LEMMA MinimalSubset ==
  ASSUME NEW S, IsFiniteSet(S), NEW T, T \subseteq SUBSET S, T # {}
  PROVE  \E x \in T : \A y \in T : y \subseteq x => y = x
<1>1. IsWellFoundedOn(StrictSubsetOrdering(S), FiniteSubsetsOf(S))
  BY FS_StrictSubsetOrderingWellFounded
<1>2. FiniteSubsetsOf(S) = SUBSET S
  BY FS_FiniteSubsetsOfFinite
<1>3. PICK x \in T : \A y \in T : ~ (<<y, x>> \in StrictSubsetOrdering(S))
  BY <1>1, <1>2, WFMin
<1> QED
  BY <1>3 DEF StrictSubsetOrdering

(* As many pairs as the values of f on s add up to.                        *)
Units(f, s) == {p \in s \X Nat : p[2] \in 1 .. f[p[1]]}
Column(f, x) == {x} \X (1 .. f[x])

LEMMA IntervalSize ==
  ASSUME NEW m \in Nat
  PROVE  IsFiniteSet(1 .. m) /\ Cardinality(1 .. m) = m
  BY FS_Interval

LEMMA ColumnSize ==
  ASSUME NEW S, NEW f \in [S -> Nat], NEW x \in S
  PROVE  IsFiniteSet(Column(f, x)) /\ Cardinality(Column(f, x)) = f[x]
<1>1. IsFiniteSet(1 .. f[x]) /\ Cardinality(1 .. f[x]) = f[x]
  BY IntervalSize
<1>2. IsFiniteSet({x}) /\ Cardinality({x}) = 1
  BY FS_Singleton
<1>3. /\ IsFiniteSet(Column(f, x))
      /\ Cardinality(Column(f, x)) = Cardinality({x}) * Cardinality(1 .. f[x])
  BY <1>1, <1>2, FS_Product DEF Column
<1> QED
  BY <1>1, <1>2, <1>3

LEMMA UnitsSplit ==
  ASSUME NEW S, NEW f \in [S -> Nat], NEW s \in SUBSET S, NEW x \in s
  PROVE  /\ Units(f, s) = Units(f, s \ {x}) \cup Column(f, x)
         /\ Units(f, s \ {x}) \cap Column(f, x) = {}
  BY DEF Units, Column

LEMMA UnitsFinite ==
  ASSUME NEW S, IsFiniteSet(S), NEW f \in [S -> Nat]
  PROVE  \A s \in SUBSET S : IsFiniteSet(Units(f, s))
<1> DEFINE T == {s \in SUBSET S : ~ IsFiniteSet(Units(f, s))}
<1>1. SUFFICES ASSUME T # {} PROVE FALSE
  OBVIOUS
<1>0. T \subseteq SUBSET S
  OBVIOUS
<1>2. PICK s \in T : \A y \in T : y \subseteq s => y = s
  <2> HIDE DEF T
  <2> QED
    BY <1>0, <1>1, MinimalSubset
<1>3. s # {}
  BY <1>2, FS_EmptySet DEF Units
<1>4. PICK x : x \in s
  BY <1>3
<1>5. s \ {x} \notin T
  BY <1>2, <1>4
<1>6. IsFiniteSet(Units(f, s \ {x}))
  BY <1>2, <1>5
<1>7. IsFiniteSet(Column(f, x)) /\ Units(f, s) = Units(f, s \ {x}) \cup Column(f, x)
  BY <1>2, <1>4, ColumnSize, UnitsSplit
<1>8. IsFiniteSet(Units(f, s))
  BY <1>6, <1>7, FS_Union
<1> QED
  BY <1>2, <1>8

LEMMA UnitsStep ==
  ASSUME NEW S, IsFiniteSet(S), NEW f \in [S -> Nat], NEW s \in SUBSET S, NEW x \in s
  PROVE  Cardinality(Units(f, s)) = f[x] + Cardinality(Units(f, s \ {x}))
<1>1. /\ IsFiniteSet(Units(f, s \ {x})) /\ Cardinality(Units(f, s \ {x})) \in Nat
      /\ IsFiniteSet(Column(f, x)) /\ Cardinality(Column(f, x)) = f[x]
  BY UnitsFinite, ColumnSize, FS_CardinalityType
<1>2. Cardinality(Units(f, s)) =
        Cardinality(Units(f, s \ {x})) + Cardinality(Column(f, x)) - Cardinality({})
  BY <1>1, UnitsSplit, FS_Union
<1> QED
  BY <1>1, <1>2, FS_EmptySet

Any(s) == CHOOSE x \in s : TRUE

(* SumFunction adds up: it is the number of units.                         *)
LEMMA SumIsUnits ==
  ASSUME NEW S, IsFiniteSet(S), NEW f \in [S -> Nat]
  PROVE  SumFunction(f) = Cardinality(Units(f, S))
<1> DEFINE body(g) == [s \in SUBSET S |-> IF s = {} THEN 0 ELSE f[Any(s)] + g[s \ {Any(s)}]]
           iter == CHOOSE g : g = body(g)
           units == [s \in SUBSET S |-> Cardinality(Units(f, s))]
<1>1. \A s : s # {} => Any(s) \in s
  BY Zenon DEF Any
<1>2. \A s \in SUBSET S : s # {} => units[s] = f[Any(s)] + units[s \ {Any(s)}]
  BY <1>1, UnitsStep
<1>3. units[{}] = 0
  BY FS_EmptySet DEF Units
<1>4. units = body(units)
  BY <1>2, <1>3
<1>5. iter = body(iter)
  BY <1>4, Zenon
<1>6. SumFunction(f) = iter[S]
  <2>1. DOMAIN f = S
    OBVIOUS
  <2> QED
    BY <2>1, Zenon DEF SumFunction, SumFunctionOnSet, FoldFunctionOnSet, MapThenFoldSet, Any
<1> HIDE DEF iter, units
<1>7. \A s \in SUBSET S : iter[s] = units[s]
  <2> DEFINE T == {s \in SUBSET S : iter[s] # units[s]}
  <2>1. SUFFICES ASSUME T # {} PROVE FALSE
    OBVIOUS
  <2>0. T \subseteq SUBSET S
    OBVIOUS
  <2>2. PICK s \in T : \A y \in T : y \subseteq s => y = s
    <3> HIDE DEF T
    <3> QED
      BY <2>0, <2>1, MinimalSubset
  <2>3. s # {}
    BY <2>2, <1>3, <1>5
  <2>4. s \ {Any(s)} \notin T
    BY <2>2, <2>3, <1>1
  <2>5. iter[s] = f[Any(s)] + iter[s \ {Any(s)}]
    BY <1>5, <2>2, <2>3
  <2> QED
    BY <1>2, <2>2, <2>3, <2>4, <2>5
<1> QED
  BY <1>6, <1>7 DEF units

LEMMA SumType ==
  ASSUME NEW S, IsFiniteSet(S), NEW f \in [S -> Nat]
  PROVE  SumFunction(f) \in Nat
  BY SumIsUnits, UnitsFinite, FS_CardinalityType

LEMMA SumStep ==
  ASSUME NEW S, IsFiniteSet(S), NEW f \in [S -> Nat], NEW x \in S
  PROVE  SumFunction(f) = f[x] + Cardinality(Units(f, S \ {x}))
<1>1. S \in SUBSET S
  OBVIOUS
<1>2. Cardinality(Units(f, S)) = f[x] + Cardinality(Units(f, S \ {x}))
  BY <1>1, UnitsStep
<1> QED
  BY <1>2, SumIsUnits

(* One value changes.                                                      *)
LEMMA SumUpdate ==
  ASSUME NEW S, IsFiniteSet(S), NEW f \in [S -> Nat], NEW g \in [S -> Nat], NEW x \in S,
         \A y \in S \ {x} : g[y] = f[y]
  PROVE  SumFunction(g) = SumFunction(f) + g[x] - f[x]
<1>1. Units(f, S \ {x}) = Units(g, S \ {x})
  BY DEF Units
<1>2. /\ SumFunction(f) = f[x] + Cardinality(Units(f, S \ {x}))
      /\ SumFunction(g) = g[x] + Cardinality(Units(g, S \ {x}))
  BY SumStep
<1>3. Cardinality(Units(f, S \ {x})) \in Nat
  BY UnitsFinite, FS_CardinalityType
<1> QED
  BY <1>1, <1>2, <1>3

LEMMA SumZero ==
  ASSUME NEW S, IsFiniteSet(S), NEW f \in [S -> Nat], \A x \in S : f[x] = 0
  PROVE  SumFunction(f) = 0
<1>1. Units(f, S) = {}
  BY DEF Units
<1> QED
  BY <1>1, SumIsUnits, FS_EmptySet

(* The first of a sequence is taken off.                                   *)
LEMMA SumTail ==
  ASSUME NEW n \in Nat, NEW f \in [1 .. n + 1 -> Nat], NEW g \in [1 .. n -> Nat],
         \A i \in 1 .. n : g[i] = f[i + 1]
  PROVE  SumFunction(f) = f[1] + SumFunction(g)
<1> DEFINE from == Units(f, (1 .. n + 1) \ {1})
           to == Units(g, 1 .. n)
           shift == [p \in from |-> <<p[1] - 1, p[2]>>]
<1>1. IsFiniteSet(1 .. n + 1) /\ IsFiniteSet(1 .. n)
  BY FS_Interval
<1>2. IsFiniteSet(from)
  BY <1>1, UnitsFinite
<1>3. /\ \A p \in from : /\ p = <<p[1], p[2]>> /\ p[1] \in 2 .. n + 1
                         /\ p[2] \in Nat /\ p[2] \in 1 .. f[p[1]]
      /\ \A q \in to : /\ q = <<q[1], q[2]>> /\ q[1] \in 1 .. n
                       /\ q[2] \in Nat /\ q[2] \in 1 .. g[q[1]]
  BY DEF Units
<1>4. \A x \in 1 .. n, k \in Nat : k \in 1 .. g[x] => <<x, k>> \in to /\ <<x + 1, k>> \in from
  BY DEF Units
<1>5. shift \in Bijection(from, to)
  <2> HIDE DEF from, to
  <2>1. \A p \in from : p[1] - 1 \in 1 .. n /\ g[p[1] - 1] = f[p[1]]
    BY <1>3, SMTT(30)
  <2>2. shift \in [from -> to]
    BY <1>3, <1>4, <2>1
  <2>3. \A p, q \in from : shift[p] = shift[q] => p = q
    <3> SUFFICES ASSUME NEW p \in from, NEW q \in from, shift[p] = shift[q]
                 PROVE  p = q
      OBVIOUS
    <3>1. p[1] - 1 = q[1] - 1 /\ p[2] = q[2]
      OBVIOUS
    <3>2. p[1] = q[1]
      BY <1>3, <3>1
    <3> QED
      BY <1>3, <3>1, <3>2
  <2>4. \A q \in to : \E p \in from : shift[p] = q
    <3> TAKE q \in to
    <3>1. <<q[1] + 1, q[2]>> \in from
      BY <1>3, <1>4
    <3> DEFINE p == <<q[1] + 1, q[2]>>
    <3>2. p[1] = q[1] + 1 /\ p[2] = q[2]
      OBVIOUS
    <3> HIDE DEF p
    <3>3. shift[p] = <<p[1] - 1, p[2]>>
      BY <3>1 DEF p
    <3>4. p[1] - 1 = q[1]
      BY <1>3, <3>2
    <3> QED
      BY <1>3, <3>1, <3>2, <3>3, <3>4 DEF p
  <2> QED
    BY <2>2, <2>3, <2>4 DEF Bijection, Injection, Surjection, IsInjective
<1>6. Cardinality(to) = Cardinality(from)
  BY <1>2, <1>5, FS_Bijection DEF ExistsBijection
<1>7. SumFunction(f) = f[1] + Cardinality(from)
  <2>1. 1 \in 1 .. n + 1
    OBVIOUS
  <2> QED
    BY <1>1, <2>1, SumStep
<1> QED
  BY <1>1, <1>6, <1>7, SumIsUnits

(* All but the last are equal.                                             *)
LEMMA SumOfRun ==
  ASSUME NEW n \in Nat, NEW f \in [1 .. n + 1 -> Nat], NEW a \in Nat,
         \A i \in 1 .. n : f[i] = a
  PROVE  SumFunction(f) = n * a + f[n + 1]
<1>1. IsFiniteSet(1 .. n + 1)
  BY FS_Interval
<1>3. (1 .. n + 1) \ {n + 1} = 1 .. n
  OBVIOUS
<1>4. Units(f, 1 .. n) = (1 .. n) \X (1 .. a)
  BY DEF Units
<1>5. Cardinality(Units(f, 1 .. n)) = n * a
  <2>1. /\ IsFiniteSet(1 .. n) /\ Cardinality(1 .. n) = n
        /\ IsFiniteSet(1 .. a) /\ Cardinality(1 .. a) = a
    BY IntervalSize
  <2>2. Cardinality((1 .. n) \X (1 .. a)) = Cardinality(1 .. n) * Cardinality(1 .. a)
    BY <2>1, FS_Product, ZenonT(30)
  <2> QED
    BY <1>4, <2>1, <2>2, ZenonT(30)
<1>6. SumFunction(f) = f[n + 1] + Cardinality(Units(f, 1 .. n))
  BY <1>1, <1>3, SumStep
<1>7. n * a \in Nat
  OBVIOUS
<1> QED
  BY <1>5, <1>6, <1>7
------------------------------------------------------------------------------
(* Least numbers, and the runs.                                            *)
LEMMA LeastNat ==
  ASSUME NEW S, S \subseteq Nat, S # {}
  PROVE  \E m \in S : \A n \in S : m <= n
<1> DEFINE R == {p \in Nat \X Nat : p[1] < p[2]}
<1>1. IsWellFoundedOn(R, Nat)
  BY NatLessThanWellFounded, Zenon DEF OpToRel
<1>2. PICK m \in S : \A n \in S : ~ (<<n, m>> \in R)
  BY <1>1, WFMin
<1>3. \A n \in S : m <= n
  <2> TAKE n \in S
  <2>1. n \in Nat /\ m \in Nat /\ <<n, m>> \in Nat \X Nat /\ ~ (<<n, m>>[1] < <<n, m>>[2])
    BY <1>2
  <2> QED
    BY <2>1
<1> QED
  BY <1>3

LEMMA MinIs ==
  ASSUME NEW S, S \subseteq Nat, S # {}
  PROVE  Min(S) \in S /\ \A n \in S : Min(S) <= n
<1>1. \E m \in S : \A n \in S : m <= n
  BY LeastNat
<1> QED
  BY <1>1, Zenon DEF Min


(* Why a run of k segments of q goes no further, and that its last one is  *)
(* shorter than its first.                                                 *)
Limit == IF MaxSegments > 1 THEN MaxSegments ELSE 1
Bounded(q, k) ==
  \/ k = Limit \/ k = Len(q)
  \/ k > 0 /\ k * q[1].len + q[k + 1].len > MaxBytes
  \/ q[k + 1].len > q[1].len
Short(q, k) == q[k].len < q[1].len

Ends(q, c) == {k \in c .. Len(q) : Bounded(q, k) \/ (k > c /\ Short(q, k))}

(* The equation RunLength's loop satisfies.                                *)
Grown(q, grow) ==
  LET limit == IF MaxSegments > 1 THEN MaxSegments ELSE 1
      size == q[1].len
  IN  grow = [c \in 0 .. Len(q) |->
        IF c = limit \/ c = Len(q) THEN c
        ELSE IF c > 0 /\ c * size + q[c + 1].len > MaxBytes THEN c
        ELSE IF q[c + 1].len > size THEN c
        ELSE IF q[c + 1].len < size THEN c + 1
        ELSE grow[c + 1]]

LEMMA BoundsAreNat ==
  /\ Vports \subseteq Nat /\ Lens \subseteq Nat
  /\ Mtu \in Nat /\ Hdr \in Nat /\ RxBatch \in Nat /\ GroMax \in Nat /\ TxBatch \in Nat
  /\ MaxSegments \in Nat /\ MaxBytes \in Nat /\ MaxFrames \in Nat
  /\ TxBatch > 0
  BY ShardAssumption DEF ShardAssumption

LEMMA SegType ==
  ASSUME NEW q \in Seq(Segs), NEW i \in 1 .. Len(q)
  PROVE  q[i].len \in Nat /\ q[i].seq \in Nat
<1>1. q[i] \in Segs
  OBVIOUS
<1> QED
  BY <1>1 DEF Segs

LEMMA EndsNonempty ==
  ASSUME NEW q \in Seq(Segs), NEW c \in 0 .. Len(q)
  PROVE  Min(Ends(q, c)) \in Ends(q, c) /\ \A k \in Ends(q, c) : Min(Ends(q, c)) <= k
<1>1. Ends(q, c) \subseteq Nat /\ Len(q) \in Ends(q, c)
  BY DEF Ends, Bounded
<1> QED
  BY <1>1, MinIs

LEMMA GrownHas ==
  ASSUME NEW q \in Seq(Segs), q # <<>>, NEW g, g = [c \in 0 .. Len(q) |-> Min(Ends(q, c))]
  PROVE  Grown(q, g)
<1>1. ASSUME NEW c \in 0 .. Len(q), Bounded(q, c)
      PROVE  g[c] = c
  <2>1. c \in Ends(q, c)
    BY <1>1 DEF Ends
  <2> QED
    BY <2>1, EndsNonempty DEF Ends
<1>2. ASSUME NEW c \in 0 .. Len(q), ~Bounded(q, c), Short(q, c + 1)
      PROVE  g[c] = c + 1
  <2>1. c + 1 \in 0 .. Len(q) /\ c + 1 > c
    BY <1>2 DEF Bounded
  <2>2. c + 1 \in Ends(q, c) /\ c \notin Ends(q, c)
    BY <1>2, <2>1 DEF Ends
  <2> QED
    BY <2>2, EndsNonempty DEF Ends
<1>3. ASSUME NEW c \in 0 .. Len(q), ~Bounded(q, c), ~Short(q, c + 1)
      PROVE  g[c] = g[c + 1]
  <2>1. c + 1 \in 0 .. Len(q)
    BY <1>3 DEF Bounded
  <2>2. Ends(q, c) = Ends(q, c + 1)
    BY <1>3, <2>1 DEF Ends
  <2> QED
    BY <2>1, <2>2
<1>4. \A c \in 0 .. Len(q) : c # Len(q) => q[c + 1].len \in Nat /\ q[1].len \in Nat
  <2> SUFFICES ASSUME NEW c \in 0 .. Len(q), c # Len(q)
               PROVE  q[c + 1].len \in Nat /\ q[1].len \in Nat
    OBVIOUS
  <2>1. c + 1 \in 1 .. Len(q) /\ 1 \in 1 .. Len(q)
    OBVIOUS
  <2> QED
    BY <2>1, SegType
<1> DEFINE body == [c \in 0 .. Len(q) |->
             IF c = Limit \/ c = Len(q) THEN c
             ELSE IF c > 0 /\ c * q[1].len + q[c + 1].len > MaxBytes THEN c
             ELSE IF q[c + 1].len > q[1].len THEN c
             ELSE IF q[c + 1].len < q[1].len THEN c + 1
             ELSE g[c + 1]]
<1>5. \A c \in 0 .. Len(q) : g[c] = body[c]
  <2> TAKE c \in 0 .. Len(q)
  <2>1. CASE Bounded(q, c)
    BY <1>1, <1>4, <2>1 DEF Bounded
  <2>2. CASE ~Bounded(q, c)
    BY <1>2, <1>3, <1>4, <2>2 DEF Bounded, Short
  <2> QED
    BY <2>1, <2>2
<1>6. g = body
  BY <1>5
<1> QED
  BY <1>6 DEF Grown, Limit

(* A run ends at the first place where it must.                            *)
LEMMA RunLengthIs ==
  ASSUME NEW q \in Seq(Segs), q # <<>>
  PROVE  /\ RunLength(q) \in 1 .. Len(q)
         /\ Bounded(q, RunLength(q)) \/ Short(q, RunLength(q))
         /\ \A j \in 1 .. RunLength(q) - 1 : ~Bounded(q, j) /\ ~Short(q, j)
<1> DEFINE g == CHOOSE h : Grown(q, h)
           K == Min(Ends(q, 0))
<1>1. RunLength(q) = g[0]
  BY Zenon DEF RunLength, Grown
<1>2. Grown(q, g)
  <2>1. \E h : Grown(q, h)
    BY GrownHas
  <2> QED
    BY <2>1, Zenon
<1> HIDE DEF g
<1>3. /\ Len(q) \in Nat /\ Len(q) > 0 /\ q[1].len \in Nat
      /\ \A c \in 1 .. Len(q) : q[c].len \in Nat
  <2>1. Len(q) \in Nat /\ Len(q) > 0
    OBVIOUS
  <2>2. 1 \in 1 .. Len(q)
    BY <2>1
  <2> QED
    BY <2>1, <2>2, SegType
<1>4. /\ K \in 1 .. Len(q)
      /\ Bounded(q, K) \/ Short(q, K)
      /\ \A j \in 0 .. K - 1 : ~Bounded(q, j) /\ (j > 0 => ~Short(q, j))
  <2>1. K \in Ends(q, 0) /\ \A k \in Ends(q, 0) : K <= k
    BY <1>3, EndsNonempty
  <2> HIDE DEF K
  <2>2. 0 \notin Ends(q, 0)
    BY <1>3, BoundsAreNat DEF Ends, Bounded, Limit
  <2>3. K \in 1 .. Len(q) /\ (Bounded(q, K) \/ Short(q, K))
    BY <1>3, <2>1, <2>2 DEF Ends
  <2>4. \A j \in 0 .. K - 1 : j \notin Ends(q, 0)
    BY <2>1, <2>3
  <2>5. \A j \in 0 .. K - 1 : j \in 0 .. Len(q)
    BY <1>3, <2>3
  <2>6. \A j \in 0 .. K - 1 : ~Bounded(q, j) /\ (j > 0 => ~Short(q, j))
    BY <2>4, <2>5 DEF Ends
  <2> QED
    BY <2>3, <2>6
<1> HIDE DEF K
<1>5. \A c \in 0 .. Len(q) :
        g[c] = IF c = Limit \/ c = Len(q) THEN c
               ELSE IF c > 0 /\ c * q[1].len + q[c + 1].len > MaxBytes THEN c
               ELSE IF q[c + 1].len > q[1].len THEN c
               ELSE IF q[c + 1].len < q[1].len THEN c + 1
               ELSE g[c + 1]
  <2>1. g = [c \in 0 .. Len(q) |->
               IF c = Limit \/ c = Len(q) THEN c
               ELSE IF c > 0 /\ c * q[1].len + q[c + 1].len > MaxBytes THEN c
               ELSE IF q[c + 1].len > q[1].len THEN c
               ELSE IF q[c + 1].len < q[1].len THEN c + 1
               ELSE g[c + 1]]
    BY <1>2, Zenon DEF Grown, Limit
  <2> QED
    BY <2>1
<1>6. /\ Bounded(q, K) => g[K] = K
      /\ \A c \in 0 .. K - 1 : g[c] = IF Short(q, c + 1) THEN c + 1 ELSE g[c + 1]
  <2>1. Bounded(q, K) => g[K] = K
    BY <1>3, <1>4, <1>5 DEF Bounded
  <2>2. ASSUME NEW c \in 0 .. K - 1
        PROVE  g[c] = IF Short(q, c + 1) THEN c + 1 ELSE g[c + 1]
    <3>1. c \in 0 .. Len(q) /\ ~Bounded(q, c)
      BY <1>3, <1>4
    <3> QED
      BY <1>3, <1>5, <3>1 DEF Bounded, Short
  <2> QED
    BY <2>1, <2>2
<1>7. \A d \in 1 .. K : g[K - d] = K
  <2> DEFINE T == {d \in 1 .. K : g[K - d] # K}
  <2>1. SUFFICES ASSUME T # {} PROVE FALSE
    OBVIOUS
  <2>2. T \subseteq Nat
    BY <1>4
  <2>3. PICK d \in T : \A e \in T : d <= e
    <3> HIDE DEF T
    <3> QED
      BY <2>1, <2>2, LeastNat
  <2>4. d \in 1 .. K /\ g[K - d] # K /\ K \in Nat
    BY <2>3, <1>4
  <2>5. K - d \in 0 .. K - 1 /\ (K - d) + 1 = K - (d - 1)
    BY <2>4
  <2>6. CASE d = 1
    BY <1>4, <1>6, <2>4, <2>5, <2>6
  <2>7. CASE d # 1
    <3>1. d - 1 \in 1 .. K /\ d - 1 \notin T
      BY <2>3, <2>4, <2>7
    <3>2. g[K - (d - 1)] = K
      BY <3>1
    <3>3. K - (d - 1) \in 0 .. K - 1 /\ K - (d - 1) > 0
      BY <2>4, <2>7
    <3>4. ~Short(q, K - (d - 1))
      BY <1>4, <3>3
    <3> QED
      BY <1>6, <2>4, <2>5, <3>2, <3>4
  <2> QED
    BY <2>6, <2>7
<1>8. g[0] = K
  <2>1. K \in 1 .. K /\ K - K = 0
    BY <1>4
  <2> QED
    BY <1>7, <2>1
<1> QED
  BY <1>1, <1>4, <1>8

(* Runs::next cuts off what the kernel accepts, and no less.               *)
LEMMA RunAccepted ==
  ASSUME NEW q \in Seq(Segs), q # <<>>
  PROVE  GsoAccepts(SubSeq(q, 1, RunLength(q)))
<1> DEFINE k == RunLength(q)
           run == SubSeq(q, 1, k)
           lens == [i \in DOMAIN run |-> run[i].len]
<1>1. /\ k \in 1 .. Len(q)
      /\ \A j \in 1 .. k - 1 : ~Bounded(q, j) /\ ~Short(q, j)
  BY RunLengthIs
<1> HIDE DEF k
<1>2. /\ Len(q) \in Nat /\ k \in Nat /\ k > 0 /\ k <= Len(q)
      /\ \A i \in 1 .. Len(q) : q[i].len \in Nat
  BY <1>1, SegType
<1>3. run \in Seq(Segs) /\ Len(run) = k /\ \A i \in 1 .. k : run[i] = q[i]
  BY <1>2
<1> HIDE DEF run
<1>4. \A j \in 1 .. k - 1 :
        /\ j # Limit
        /\ j * q[1].len + q[j + 1].len <= MaxBytes
        /\ q[j + 1].len <= q[1].len
        /\ q[j].len >= q[1].len
  <2> SUFFICES ASSUME NEW j \in 1 .. k - 1
               PROVE  /\ j # Limit
                      /\ j * q[1].len + q[j + 1].len <= MaxBytes
                      /\ q[j + 1].len <= q[1].len
                      /\ q[j].len >= q[1].len
    OBVIOUS
  <2>1. j \in Nat /\ j > 0 /\ j \in 1 .. Len(q) /\ j + 1 \in 1 .. Len(q) /\ 1 \in 1 .. Len(q)
    BY <1>2
  <2>2. q[j].len \in Nat /\ q[j + 1].len \in Nat /\ q[1].len \in Nat
    BY <1>2, <2>1
  <2>3. PICK m \in Nat : m = j * q[1].len
    BY <2>1, <2>2
  <2>4. ~Bounded(q, j) /\ ~Short(q, j)
    BY <1>1
  <2>5. /\ j # Limit /\ ~(j > 0 /\ m + q[j + 1].len > MaxBytes)
        /\ ~(q[j + 1].len > q[1].len) /\ ~(q[j].len < q[1].len)
    BY <2>3, <2>4, Zenon DEF Bounded, Short
  <2>6. m + q[j + 1].len <= MaxBytes /\ q[j + 1].len <= q[1].len /\ q[j].len >= q[1].len
    BY <2>1, <2>2, <2>5, BoundsAreNat
  <2> QED
    BY <2>3, <2>5, <2>6
<1>5. \A i \in 1 .. k - 1 : q[i].len = q[1].len
  <2> SUFFICES ASSUME NEW i \in 1 .. k - 1, i # 1 PROVE q[i].len = q[1].len
    OBVIOUS
  <2>1. i - 1 \in 1 .. k - 1 /\ (i - 1) + 1 = i /\ i \in 1 .. Len(q) /\ 1 \in 1 .. Len(q)
    BY <1>2
  <2>2. q[i].len <= q[1].len /\ q[i].len >= q[1].len
    BY <1>4, <2>1
  <2> QED
    BY <1>2, <2>1, <2>2
<1>6. k <= MaxSegments \/ k = 1
  <2>1. ASSUME k > MaxSegments, k # 1 PROVE FALSE
    <3>1. Limit \in 1 .. k - 1
      BY <1>2, <2>1, BoundsAreNat DEF Limit
    <3> QED
      BY <1>4, <3>1
  <2> QED
    BY <1>2, <2>1, BoundsAreNat
<1>7. q[k].len <= q[1].len
  <2>1. CASE k = 1
    BY <1>2, <2>1
  <2>2. CASE k # 1
    <3>1. k - 1 \in 1 .. k - 1 /\ (k - 1) + 1 = k
      BY <1>2, <2>2
    <3> QED
      BY <1>4, <3>1
  <2> QED
    BY <2>1, <2>2
<1>8. ASSUME k > 1 PROVE SumFunction(lens) <= MaxBytes
  <2> DEFINE n == k - 1
  <2>1. n \in Nat /\ n + 1 = k /\ n \in 1 .. k - 1
    BY <1>2, <1>8
  <2>2. lens \in [1 .. n + 1 -> Nat] /\ \A i \in 1 .. n : lens[i] = q[1].len
    BY <1>2, <1>3, <1>5, <2>1, SMTT(30)
  <2>3. q[1].len \in Nat /\ lens[n + 1] = q[n + 1].len
    BY <1>2, <1>3, <2>1
  <2> HIDE DEF n, lens
  <2>4. SumFunction(lens) = n * q[1].len + lens[n + 1]
    BY <2>1, <2>2, <2>3, SumOfRun
  <2> QED
    BY <1>4, <2>1, <2>3, <2>4
<1>9. run[1] = q[1] /\ run[k] = q[k]
  BY <1>2, <1>3
<1>10. \A i \in 1 .. Len(run) - 1 : run[i].len = run[1].len
  BY <1>2, <1>3, <1>5, <1>9
<1> QED
  BY <1>3, <1>6, <1>7, <1>8, <1>9, <1>10 DEF GsoAccepts, run, k

LEMMA RunMaximal ==
  ASSUME NEW q \in Seq(Segs), q # <<>>, RunLength(q) < Len(q)
  PROVE  ~GsoAccepts(SubSeq(q, 1, RunLength(q) + 1))
<1> DEFINE k == RunLength(q)
           run == SubSeq(q, 1, k + 1)
           lens == [i \in DOMAIN run |-> run[i].len]
<1>1. k \in 1 .. Len(q) /\ (Bounded(q, k) \/ Short(q, k)) /\ k < Len(q)
  BY RunLengthIs
<1> HIDE DEF k
<1>2. /\ Len(q) \in Nat /\ k \in Nat /\ k > 0 /\ k + 1 <= Len(q)
      /\ \A i \in 1 .. Len(q) : q[i].len \in Nat
  BY <1>1, SegType
<1>3. run \in Seq(Segs) /\ Len(run) = k + 1 /\ \A i \in 1 .. k + 1 : run[i] = q[i]
  BY <1>2
<1> HIDE DEF run
<1>4. SUFFICES ASSUME GsoAccepts(run) PROVE FALSE
  BY DEF run, k
<1>5. /\ k + 1 <= MaxSegments
      /\ \A i \in 1 .. k : q[i].len = q[1].len
      /\ q[k + 1].len <= q[1].len
      /\ SumFunction(lens) <= MaxBytes
  <2>1. run[1] = q[1] /\ run[k + 1] = q[k + 1] /\ \A i \in 1 .. k : run[i] = q[i]
    BY <1>2, <1>3
  <2>2. (k + 1) - 1 = k /\ k + 1 > 1 /\ k + 1 # 1
    BY <1>2
  <2> QED
    BY <1>3, <1>4, <2>1, <2>2 DEF GsoAccepts
<1>6. SumFunction(lens) = k * q[1].len + q[k + 1].len
  <2>0. DOMAIN run = 1 .. k + 1 /\ \A i \in 1 .. k + 1 : run[i].len \in Nat
    BY <1>2, <1>3
  <2>1. lens \in [1 .. k + 1 -> Nat] /\ \A i \in 1 .. k : lens[i] = q[1].len
    BY <1>2, <1>3, <1>5, <2>0
  <2>2. q[1].len \in Nat /\ lens[k + 1] = q[k + 1].len
    BY <1>2, <1>3
  <2> HIDE DEF lens
  <2>3. SumFunction(lens) = k * q[1].len + lens[k + 1]
    BY <1>2, <2>1, <2>2, SumOfRun
  <2> QED
    BY <2>2, <2>3
<1> HIDE DEF lens
<1>7. ~Short(q, k)
  BY <1>2, <1>5 DEF Short
<1>8. ~Bounded(q, k)
  <2>1. k # Limit
    BY <1>2, <1>5, BoundsAreNat DEF Limit
  <2>2. k * q[1].len \in Nat /\ q[k + 1].len \in Nat /\ q[1].len \in Nat
    BY <1>2
  <2> QED
    BY <1>1, <1>2, <1>5, <1>6, <2>1, <2>2, BoundsAreNat DEF Bounded
<1> QED
  BY <1>1, <1>7, <1>8

------------------------------------------------------------------------------
(* Types and control.                                                      *)

Env == punt_on \in BOOLEAN /\ stop \in BOOLEAN

Data ==
  /\ pc \in [Shards -> Labels]
  /\ reads \in [Shards -> Seq(Reads)]
  /\ frame \in [Shards -> Nat]
  /\ targets \in [Shards -> SUBSET Vports]
  /\ tx \in [Shards -> [Vports -> Seq(Segs)]]
  /\ \A s \in Shards, v \in Vports : Len(tx[s][v]) <= TxBatch
  /\ tx_seq \in [Shards -> [Vports -> Nat]]
  /\ egress \in [Shards -> Vports \cup {Unknown}]
  /\ unsent \in [Shards -> Seq(Segs)]
  /\ sent \in [Shards -> Nat]
  /\ back \in [Shards -> Labels]
  /\ ctr \in [Counters -> Nat]
  /\ rx_pkts \in [Vports -> Nat]
  /\ tx_pkts \in [Vports -> Nat]
  /\ tx_broadcast \in [Vports -> Nat]
  /\ received \in Nat /\ punted \in Nat
  /\ wire \in [Vports -> Seq([from : Shards, seq : Nat])]
  /\ lost \in [Shards -> [Vports -> Nat]]

LEMMA TypeSplit == (TypeOK <=> Env /\ Data) /\ (TypeOK' <=> Env' /\ Data')
  BY DEF TypeOK, Env, Data

(* Where a shard is when it has a batch, a frame or a queue in hand.       *)
InStage(s) == pc[s] = "stage" \/ (pc[s] = "flush" /\ back[s] = "stage")

ControlInv ==
  \A s \in Shards :
    /\ pc[s] = "flush" => egress[s] \in Vports /\ back[s] \in {"stage", "flush_all", "final"}
    /\ reads[s] # <<>> => pc[s] = "segments" \/ InStage(s)
    /\ targets[s] # {} => InStage(s)

TInv == TypeOK /\ ControlInv

LEMMA InitTInv == Init => TInv /\ NothingStranded
<1> SUFFICES ASSUME Init PROVE TInv /\ NothingStranded
  OBVIOUS
<1>1. Env
  BY DEF Init, Env
<1>2. Data
  BY BoundsAreNat DEF Init, Data, Labels, Reads, Segs, Counters
<1>3. ControlInv
  BY DEF Init, ControlInv
<1>4. NothingStranded
  BY DEF Init, NothingStranded, Waiting
<1> QED
  BY <1>1, <1>2, <1>3, <1>4, TypeSplit DEF TInv

(* The run about to be sent, and what is left behind it.                   *)
Rest(s) == SubSeq(unsent[s], Len(Run(s)) + 1, Len(unsent[s]))

LEMMA RunIs ==
  ASSUME TypeOK, NEW s \in Shards, unsent[s] # <<>>
  PROVE  /\ Len(Run(s)) \in 1 .. Len(unsent[s])
         /\ Run(s) \in Seq(Segs) /\ \A i \in 1 .. Len(Run(s)) : Run(s)[i] = unsent[s][i]
         /\ Rest(s) \in Seq(Segs) /\ Len(Rest(s)) = Len(unsent[s]) - Len(Run(s))
         /\ \A i \in 1 .. Len(Rest(s)) : Rest(s)[i] = unsent[s][Len(Run(s)) + i]
<1> DEFINE q == unsent[s]
           k == RunLength(q)
<1>1. q \in Seq(Segs)
  BY DEF TypeOK
<1>2. k \in 1 .. Len(q)
  BY <1>1, RunLengthIs
<1> HIDE DEF q, k
<1>3. Len(SubSeq(q, 1, k)) = k /\ SubSeq(q, 1, k) \in Seq(Segs)
      /\ \A i \in 1 .. k : SubSeq(q, 1, k)[i] = q[i]
  BY <1>1, <1>2
<1>4. Len(SubSeq(q, k + 1, Len(q))) = Len(q) - k /\ SubSeq(q, k + 1, Len(q)) \in Seq(Segs)
      /\ \A i \in 1 .. Len(q) - k : SubSeq(q, k + 1, Len(q))[i] = q[k + i]
  BY <1>1, <1>2
<1>5. Run(s) = SubSeq(q, 1, k)
  BY DEF Run, q, k
<1>6. Rest(s) = SubSeq(q, k + 1, Len(q))
  BY <1>3, <1>5 DEF Rest, q
<1> QED
  BY <1>1, <1>2, <1>3, <1>4, <1>5, <1>6 DEF q

(* The least vport of a nonempty set of them.                              *)
LEMMA MinVport ==
  ASSUME NEW S \in SUBSET Vports, S # {}
  PROVE  Min(S) \in S
  BY MinIs, BoundsAreNat

LEMMA PendingType ==
  ASSUME NEW q \in Seq(Reads)
  PROVE  /\ [i \in DOMAIN q |-> q[i].left] \in [1 .. Len(q) -> Nat]
         /\ IsFiniteSet(1 .. Len(q))
         /\ Pending(q) \in Nat
<1>1. \A i \in DOMAIN q : q[i].left \in Nat
  <2> TAKE i \in DOMAIN q
  <2>1. q[i] \in Reads
    OBVIOUS
  <2> QED
    BY <2>1, BoundsAreNat DEF Reads
<1>2. [i \in DOMAIN q |-> q[i].left] \in [1 .. Len(q) -> Nat]
  BY <1>1
<1>3. IsFiniteSet(1 .. Len(q))
  BY IntervalSize
<1> QED
  BY <1>2, <1>3, SumType DEF Pending

(* The loop of Shard::run.                                                 *)
LEMMA LoopKeeps ==
  ASSUME TInv, NothingStranded, NEW s \in Shards,
         \/ Poll(s) \/ RecvTimeout(s) \/ RecvError(s) \/ StopSeen(s)
         \/ BatchDone(s) \/ Staged(s) \/ FlushedAll(s)
  PROVE  TInv' /\ NothingStranded'
<1> USE DEF envVars, countVars, histVars, localVars, queueVars, flushVars, Goto
<1>1. CASE Poll(s)
  <2>1. Env'
    BY <1>1, TypeSplit DEF TInv, Env, Poll
  <2>2. Data'
    BY <1>1, TypeSplit, BoundsAreNat DEF TInv, Data, Labels, Poll
  <2>3. ControlInv'
    BY <1>1, TypeSplit DEF TInv, Data, ControlInv, InStage, Poll
  <2>4. NothingStranded'
    BY <1>1, TypeSplit DEF TInv, Data, ControlInv, NothingStranded, Waiting, Ended, Poll
  <2> QED
    BY <2>1, <2>2, <2>3, <2>4, TypeSplit DEF TInv
<1>2. CASE RecvTimeout(s)
  <2>1. Env'
    BY <1>2, TypeSplit DEF TInv, Env, RecvTimeout
  <2>2. Data'
    BY <1>2, TypeSplit, BoundsAreNat DEF TInv, Data, Labels, RecvTimeout
  <2>3. ControlInv'
    BY <1>2, TypeSplit DEF TInv, Data, ControlInv, InStage, RecvTimeout
  <2>4. NothingStranded'
    BY <1>2, TypeSplit DEF TInv, Data, ControlInv, NothingStranded, Waiting, Ended, RecvTimeout
  <2> QED
    BY <2>1, <2>2, <2>3, <2>4, TypeSplit DEF TInv
<1>3. CASE RecvError(s)
  <2>1. Env'
    BY <1>3, TypeSplit DEF TInv, Env, RecvError
  <2>2. Data'
    BY <1>3, TypeSplit, BoundsAreNat DEF TInv, Data, Labels, RecvError
  <2>3. ControlInv'
    BY <1>3, TypeSplit DEF TInv, Data, ControlInv, InStage, RecvError
  <2>4. NothingStranded'
    BY <1>3, TypeSplit DEF TInv, Data, ControlInv, NothingStranded, Waiting, Ended, RecvError
  <2> QED
    BY <2>1, <2>2, <2>3, <2>4, TypeSplit DEF TInv
<1>4. CASE StopSeen(s)
  <2>1. Env'
    BY <1>4, TypeSplit DEF TInv, Env, StopSeen
  <2>2. Data'
    BY <1>4, TypeSplit, BoundsAreNat DEF TInv, Data, Labels, StopSeen
  <2>3. ControlInv'
    BY <1>4, TypeSplit DEF TInv, Data, ControlInv, InStage, StopSeen
  <2>4. NothingStranded'
    BY <1>4, TypeSplit DEF TInv, Data, ControlInv, NothingStranded, Waiting, Ended, StopSeen
  <2> QED
    BY <2>1, <2>2, <2>3, <2>4, TypeSplit DEF TInv
<1>5. CASE BatchDone(s)
  <2>1. Env'
    BY <1>5, TypeSplit DEF TInv, Env, BatchDone
  <2>2. Data'
    BY <1>5, TypeSplit, BoundsAreNat DEF TInv, Data, Labels, BatchDone
  <2>3. ControlInv'
    BY <1>5, TypeSplit DEF TInv, Data, ControlInv, InStage, BatchDone
  <2>4. NothingStranded'
    BY <1>5, TypeSplit DEF TInv, Data, ControlInv, NothingStranded, Waiting, Ended, BatchDone
  <2> QED
    BY <2>1, <2>2, <2>3, <2>4, TypeSplit DEF TInv
<1>6. CASE Staged(s)
  <2>1. Env'
    BY <1>6, TypeSplit DEF TInv, Env, Staged
  <2>2. Data'
    BY <1>6, TypeSplit, BoundsAreNat DEF TInv, Data, Labels, Staged
  <2>3. ControlInv'
    BY <1>6, TypeSplit DEF TInv, Data, ControlInv, InStage, Staged
  <2>4. NothingStranded'
    BY <1>6, TypeSplit DEF TInv, Data, ControlInv, NothingStranded, Waiting, Ended, Staged
  <2> QED
    BY <2>1, <2>2, <2>3, <2>4, TypeSplit DEF TInv
<1>7. CASE FlushedAll(s)
  <2>1. Env'
    BY <1>7, TypeSplit DEF TInv, Env, FlushedAll
  <2>2. Data'
    BY <1>7, TypeSplit, BoundsAreNat DEF TInv, Data, Labels, FlushedAll
  <2>3. ControlInv'
    BY <1>7, TypeSplit DEF TInv, Data, ControlInv, InStage, FlushedAll
  <2>4. NothingStranded'
    <3> SUFFICES ASSUME NEW t \in Shards, (pc[t] \in {"loop", "recv"} \/ Ended(t))'
                 PROVE  Waiting(t)' = {}
      BY DEF NothingStranded
    <3>1. Waiting(t)' = Waiting(t)
      BY <1>7 DEF FlushedAll, Waiting
    <3>2. CASE t = s
      BY <1>7, <3>1, <3>2 DEF FlushedAll
    <3>3. CASE t # s
      BY <1>7, <3>1, <3>3, TypeSplit DEF FlushedAll, TInv, Data, NothingStranded, Ended
    <3> QED
      BY <3>2, <3>3
  <2> QED
    BY <2>1, <2>2, <2>3, <2>4, TypeSplit DEF TInv
<1> QED
  BY <1>1, <1>2, <1>3, <1>4, <1>5, <1>6, <1>7

(* The read in hand.                                                       *)
LEMMA ReadIs ==
  ASSUME NEW q \in Seq(Reads), q # <<>>
  PROVE  /\ q[1].from \in Vports \cup {Unknown} /\ q[1].left \in 0 .. GroMax
         /\ Len(q) \in Nat /\ Len(q) > 0
         /\ Tail(q) \in Seq(Reads)
         /\ \A r \in Reads : [q EXCEPT ![1] = r] \in Seq(Reads)
<1>1. Len(q) \in Nat /\ Len(q) > 0 /\ 1 \in 1 .. Len(q) /\ q[1] \in Reads
  OBVIOUS
<1>2. q[1].from \in Vports \cup {Unknown} /\ q[1].left \in 0 .. GroMax
  BY <1>1 DEF Reads
<1>3. Tail(q) \in Seq(Reads)
  OBVIOUS
<1>4. ASSUME NEW r \in Reads PROVE [q EXCEPT ![1] = r] \in Seq(Reads)
  BY <1>1, <1>4
<1> QED
  BY <1>1, <1>2, <1>3, <1>4

LEMMA TakeIs ==
  ASSUME TypeOK, NEW s \in Shards, HasSegment(s), TakeSegment(s)
  PROVE  /\ reads[s][1].from \in Vports
         /\ reads[s][1].left - 1 \in 0 .. GroMax
         /\ [reads[s][1] EXCEPT !.left = @ - 1] \in Reads
         /\ reads' = [reads EXCEPT ![s] =
                        [@ EXCEPT ![1] = [reads[s][1] EXCEPT !.left = @ - 1]]]
         /\ reads' \in [Shards -> Seq(Reads)]
         /\ pc[s] = "segments"
<1> DEFINE q == reads[s]
           r == [q[1] EXCEPT !.left = @ - 1]
<1>1. q \in Seq(Reads) /\ q # <<>> /\ q[1].from # Unknown /\ q[1].left > 0 /\ pc[s] = "segments"
  BY DEF TypeOK, HasSegment
<1>2. q[1].from \in Vports /\ q[1].left \in 0 .. GroMax /\ q[1] \in Reads
  BY <1>1, ReadIs
<1>3. q[1].left - 1 \in 0 .. GroMax
  BY <1>1, <1>2, BoundsAreNat
<1>4. r \in Reads
  BY <1>2, <1>3 DEF Reads
<1>5. reads' = [reads EXCEPT ![s] = [@ EXCEPT ![1] = r]]
  BY <1>1 DEF TakeSegment
<1>6. [q EXCEPT ![1] = r] \in Seq(Reads)
  BY <1>1, <1>4, ReadIs
<1>7. reads' \in [Shards -> Seq(Reads)]
  BY <1>5, <1>6 DEF TypeOK
<1> QED
  BY <1>1, <1>2, <1>3, <1>4, <1>5, <1>7

LEMMA AcceptIs ==
  ASSUME TypeOK, NEW s \in Shards, Accept(s)
  PROVE  /\ pc[s] = "segments" /\ reads' \in [Shards -> Seq(Reads)]
         /\ \A t \in Shards \ {s} : reads'[t] = reads[t]
         /\ reads[s][1].from \in Vports
         /\ rx_pkts' \in [Vports -> Nat]
<1>1. HasSegment(s) /\ TakeSegment(s)
  BY DEF Accept
<1>2. /\ pc[s] = "segments" /\ reads' \in [Shards -> Seq(Reads)]
      /\ reads[s][1].from \in Vports
  BY <1>1, TakeIs
<1>3. \A t \in Shards \ {s} : reads'[t] = reads[t]
  BY <1>1 DEF TakeSegment, TypeOK
<1>4. rx_pkts' \in [Vports -> Nat]
  <2>1. rx_pkts' = [rx_pkts EXCEPT ![reads[s][1].from] = @ + 1]
    BY DEF Accept
  <2>2. rx_pkts \in [Vports -> Nat]
    BY DEF TypeOK
  <2> QED
    BY <1>2, <2>1, <2>2
<1> QED
  BY <1>2, <1>3, <1>4

(* What a step that takes a segment, or drops a read, does elsewhere.      *)
LEMMA ReceiveKeeps ==
  ASSUME TInv, NothingStranded, NEW s \in Shards, pc[s] = "segments",
         reads' \in [Shards -> Seq(Reads)],
         \A t \in Shards \ {s} : reads'[t] = reads[t],
         ctr' \in [Counters -> Nat], rx_pkts' \in [Vports -> Nat], punted' \in Nat,
         UNCHANGED <<envVars, pc, frame, targets, queueVars, flushVars, tx_pkts,
                     tx_broadcast, received, wire, lost>>
  PROVE  TInv' /\ NothingStranded'
<1> USE DEF envVars, queueVars, flushVars
<1>1. Env'
  BY TypeSplit DEF TInv, Env
<1>2. Data'
  BY TypeSplit DEF TInv, Data
<1>3. ControlInv'
  BY TypeSplit DEF TInv, Data, ControlInv, InStage
<1>4. NothingStranded'
  BY DEF NothingStranded, Waiting, Ended
<1> QED
  BY <1>1, <1>2, <1>3, <1>4, TypeSplit DEF TInv

LEMMA SegmentKeeps ==
  ASSUME TInv, NothingStranded, NEW s \in Shards,
         \/ NextRead(s) \/ UnknownPeer(s) \/ BadHeader(s) \/ Punt(s)
         \/ \E reason \in Counters : Discard(s, reason)
  PROVE  TInv' /\ NothingStranded'
<1> USE DEF countVars, histVars
<1>0. /\ reads \in [Shards -> Seq(Reads)] /\ ctr \in [Counters -> Nat]
      /\ rx_pkts \in [Vports -> Nat] /\ punted \in Nat /\ TypeOK
  BY DEF TInv, TypeOK
<1>1. CASE NextRead(s)
  <2>1. /\ pc[s] = "segments" /\ reads[s] \in Seq(Reads) /\ reads[s] # <<>>
        /\ reads' = [reads EXCEPT ![s] = Tail(@)]
    BY <1>0, <1>1 DEF NextRead
  <2>2. reads' \in [Shards -> Seq(Reads)]
    BY <1>0, <2>1, ReadIs
  <2> QED
    BY <1>0, <1>1, <2>1, <2>2, ReceiveKeeps DEF NextRead
<1>2. CASE UnknownPeer(s)
  <2>1. /\ pc[s] = "segments" /\ reads[s] \in Seq(Reads) /\ reads[s] # <<>>
        /\ reads' = [reads EXCEPT ![s] = Tail(@)]
    BY <1>0, <1>2 DEF UnknownPeer
  <2>2. reads' \in [Shards -> Seq(Reads)] /\ reads[s][1].left \in Nat
    BY <1>0, <2>1, ReadIs, BoundsAreNat
  <2>3. ctr' \in [Counters -> Nat]
    BY <1>0, <1>2, <2>2, SMTT(30) DEF UnknownPeer, Bump, Counters
  <2> QED
    BY <1>0, <1>2, <2>1, <2>2, <2>3, ReceiveKeeps DEF UnknownPeer
<1>3. CASE BadHeader(s)
  <2>1. /\ pc[s] = "segments" /\ reads' \in [Shards -> Seq(Reads)]
        /\ \A t \in Shards \ {s} : reads'[t] = reads[t]
    BY <1>0, <1>3, TakeIs DEF BadHeader
  <2>2. ctr' \in [Counters -> Nat]
    BY <1>0, <1>3 DEF BadHeader, Bump, Counters
  <2> QED
    BY <1>0, <1>3, <2>1, <2>2, ReceiveKeeps DEF BadHeader
<1>4. CASE Punt(s)
  <2>1. /\ pc[s] = "segments" /\ reads' \in [Shards -> Seq(Reads)]
        /\ \A t \in Shards \ {s} : reads'[t] = reads[t]
        /\ reads[s][1].from \in Vports
    BY <1>0, <1>4, AcceptIs DEF Punt
  <2>2. rx_pkts' \in [Vports -> Nat] /\ punted' \in Nat
    BY <1>0, <1>4, AcceptIs DEF Punt
  <2> QED
    BY <1>0, <1>4, <2>1, <2>2, ReceiveKeeps DEF Punt
<1>5. CASE \E reason \in Counters : Discard(s, reason)
  <2>0. PICK reason \in Counters : Discard(s, reason)
    BY <1>5
  <2>1. /\ pc[s] = "segments" /\ reads' \in [Shards -> Seq(Reads)]
        /\ \A t \in Shards \ {s} : reads'[t] = reads[t]
        /\ reads[s][1].from \in Vports
    BY <1>0, <2>0, AcceptIs DEF Discard
  <2>2. rx_pkts' \in [Vports -> Nat] /\ ctr' \in [Counters -> Nat]
    BY <1>0, <2>0, AcceptIs DEF Discard, Bump
  <2> QED
    BY <1>0, <2>0, <2>1, <2>2, ReceiveKeeps DEF Discard
<1> QED
  BY <1>1, <1>2, <1>3, <1>4, <1>5

LEMMA RecvKeeps ==
  ASSUME TInv, NothingStranded, NEW s \in Shards, Recv(s)
  PROVE  TInv' /\ NothingStranded'
<1> USE DEF envVars, queueVars, flushVars, countVars, Goto
<1>0. PICK n \in 1 .. RxBatch : \E batch \in [1 .. n -> Reads] :
       /\ reads' = [reads EXCEPT ![s] = batch]
       /\ received' = received + Pending(batch)
  BY DEF Recv
<1>1. PICK batch \in [1 .. n -> Reads] :
       /\ reads' = [reads EXCEPT ![s] = batch]
       /\ received' = received + Pending(batch)
  BY <1>0
<1>2. n \in Nat /\ batch \in Seq(Reads)
  BY BoundsAreNat
<1>3. Pending(batch) \in Nat
  BY <1>2, PendingType
<1>4. Env'
  BY TypeSplit DEF TInv, Env, Recv
<1>5. Data'
  <2>1. reads \in [Shards -> Seq(Reads)] /\ received \in Nat
    BY TypeSplit DEF TInv, Data
  <2>2. reads' \in [Shards -> Seq(Reads)] /\ received' \in Nat
    BY <1>1, <1>2, <1>3, <2>1
  <2> QED
    BY <2>2, TypeSplit DEF TInv, Data, Recv, Labels
<1>6. ControlInv'
  BY <1>1, TypeSplit DEF TInv, Data, ControlInv, InStage, Recv
<1>7. NothingStranded'
  BY TypeSplit DEF TInv, Data, NothingStranded, Waiting, Ended, Recv
<1> QED
  BY <1>4, <1>5, <1>6, <1>7, TypeSplit DEF TInv

LEMMA DispatchKeeps ==
  ASSUME TInv, NothingStranded, NEW s \in Shards, NEW len \in Lens,
         Broadcast(s, len) \/ \E port \in Vports : Forward(s, len, port)
  PROVE  TInv' /\ NothingStranded'
<1> USE DEF envVars, queueVars, flushVars, histVars, Goto, DispatchTo
<1>0. TypeOK /\ rx_pkts \in [Vports -> Nat] /\ tx_broadcast \in [Vports -> Nat]
  BY DEF TInv, TypeOK
<1>1. Accept(s)
  BY DEF Broadcast, Forward
<1>2. /\ pc[s] = "segments" /\ reads' \in [Shards -> Seq(Reads)]
      /\ \A t \in Shards \ {s} : reads'[t] = reads[t]
      /\ reads[s][1].from \in Vports
  BY <1>0, <1>1, AcceptIs
<1>3. rx_pkts' \in [Vports -> Nat]
  BY <1>0, <1>1, AcceptIs
<1>4. tx_broadcast' \in [Vports -> Nat]
  <2>1. CASE Broadcast(s, len)
    BY <1>0, <1>2, <2>1 DEF Broadcast
  <2>2. CASE \E port \in Vports : Forward(s, len, port)
    BY <1>0, <2>2 DEF Forward
  <2> QED
    BY <2>1, <2>2
<1>5. PICK out \in SUBSET Vports : DispatchTo(s, len, out)
  BY DEF Broadcast, Forward
<1>6. UNCHANGED <<envVars, queueVars, flushVars, ctr, tx_pkts, histVars>>
  BY DEF Broadcast, Forward
<1>7. Env'
  BY <1>6, TypeSplit DEF TInv, Env
<1>8. Data'
  <2>1. len \in Nat
    BY BoundsAreNat
  <2> QED
    BY <1>2, <1>3, <1>4, <1>5, <1>6, <2>1, TypeSplit DEF TInv, Data, Labels
<1>9. ControlInv'
  BY <1>2, <1>5, <1>6, TypeSplit DEF TInv, Data, ControlInv, InStage
<1>10. NothingStranded'
  BY <1>2, <1>5, <1>6, TypeSplit DEF TInv, Data, NothingStranded, Waiting, Ended
<1> QED
  BY <1>7, <1>8, <1>9, <1>10, TypeSplit DEF TInv

(* Shard::stage and ::flush.                                               *)
LEMMA TargetIs ==
  ASSUME TypeOK, NEW s \in Shards, Staging(s)
  PROVE  Target(s) \in Vports /\ Target(s) \in targets[s] /\ pc[s] = "stage"
<1>1. targets[s] \in SUBSET Vports /\ targets[s] # {} /\ pc[s] = "stage"
  BY DEF TypeOK, Staging
<1> QED
  BY <1>1, MinVport DEF Target

(* Stage, told for the vport it stages for.                                *)
StageFor(s, v) ==
  /\ pc[s] = "stage" /\ v \in targets[s] /\ Len(tx[s][v]) < TxBatch
  /\ tx' = [tx EXCEPT ![s][v] =
              Append(@, [seq |-> tx_seq[s][v], len |-> Hdr + frame[s]])]
  /\ tx_seq' = [tx_seq EXCEPT ![s][v] = @ + 1]
  /\ targets' = [targets EXCEPT ![s] = @ \ {v}]
  /\ UNCHANGED <<envVars, pc, reads, frame, flushVars, countVars, histVars>>

LEMMA StageIs ==
  ASSUME TypeOK, NEW s \in Shards, Stage(s)
  PROVE  \E v \in Vports : StageFor(s, v)
<1>1. Staging(s)
  BY DEF Stage
<1>2. Target(s) \in Vports /\ Target(s) \in targets[s] /\ pc[s] = "stage"
  BY <1>1, TargetIs
<1>3. Len(tx[s][Target(s)]) < TxBatch
  <2>1. Len(tx[s][Target(s)]) \in Nat
    BY <1>2 DEF TypeOK
  <2> QED
    BY <2>1, BoundsAreNat DEF Stage, Full
<1>4. StageFor(s, Target(s))
  BY <1>2, <1>3, Zenon DEF Stage, StageFor
<1> QED
  BY <1>2, <1>4

LEMMA StageKeeps ==
  ASSUME TInv, NothingStranded, NEW s \in Shards, Stage(s)
  PROVE  TInv' /\ NothingStranded'
<1> USE DEF envVars, flushVars, countVars, histVars
<1>1. PICK v \in Vports : StageFor(s, v)
  BY StageIs DEF TInv
<1>2. /\ tx \in [Shards -> [Vports -> Seq(Segs)]] /\ tx_seq \in [Shards -> [Vports -> Nat]]
      /\ \A t \in Shards, w \in Vports : Len(tx[t][w]) <= TxBatch
      /\ frame \in [Shards -> Nat] /\ targets \in [Shards -> SUBSET Vports]
      /\ pc \in [Shards -> Labels]
  BY TypeSplit DEF TInv, Data
<1>3. [seq |-> tx_seq[s][v], len |-> Hdr + frame[s]] \in Segs
  BY <1>2, BoundsAreNat DEF Segs
<1>4. /\ tx' \in [Shards -> [Vports -> Seq(Segs)]]
      /\ tx_seq' \in [Shards -> [Vports -> Nat]]
      /\ targets' \in [Shards -> SUBSET Vports]
  BY <1>1, <1>2, <1>3 DEF StageFor
<1>5. \A t \in Shards, w \in Vports : Len(tx'[t][w]) <= TxBatch
  <2> TAKE t \in Shards, w \in Vports
  <2>1. CASE t = s /\ w = v
    <3>1. tx'[s][v] = Append(tx[s][v], [seq |-> tx_seq[s][v], len |-> Hdr + frame[s]])
      BY <1>1, <1>2 DEF StageFor
    <3>2. Len(tx'[s][v]) = Len(tx[s][v]) + 1 /\ Len(tx[s][v]) \in Nat
      BY <1>2, <1>3, <3>1
    <3> QED
      BY <1>1, <2>1, <3>2, BoundsAreNat, SMTT(30) DEF StageFor
  <2>2. CASE ~(t = s /\ w = v)
    <3>1. tx'[t][w] = tx[t][w]
      BY <1>1, <1>2, <2>2 DEF StageFor
    <3> QED
      BY <1>2, <3>1
  <2> QED
    BY <2>1, <2>2
<1>6. Env'
  BY <1>1, TypeSplit DEF TInv, Env, StageFor
<1>7. Data'
  BY <1>1, <1>4, <1>5, TypeSplit DEF TInv, Data, StageFor
<1>8. ControlInv'
  BY <1>1, <1>2 DEF TInv, ControlInv, InStage, StageFor
<1>9. NothingStranded'
  <2> SUFFICES ASSUME NEW t \in Shards, (pc[t] \in {"loop", "recv"} \/ Ended(t))'
               PROVE  Waiting(t)' = {}
    BY DEF NothingStranded
  <2>1. t # s /\ tx'[t] = tx[t] /\ (pc[t] \in {"loop", "recv"} \/ Ended(t))
    BY <1>1, <1>2 DEF StageFor, Ended
  <2> QED
    BY <2>1 DEF NothingStranded, Waiting
<1> QED
  BY <1>6, <1>7, <1>8, <1>9, TypeSplit DEF TInv

LEMMA FlushBegins ==
  ASSUME TypeOK, NEW s \in Shards, StageFull(s) \/ FlushAll(s)
  PROVE  \E v \in Vports :
           /\ tx[s][v] # <<>> /\ BeginFlush(s, v)
           /\ pc[s] \in {"stage", "flush_all", "final"}
<1>1. CASE StageFull(s)
  <2>1. Target(s) \in Vports /\ pc[s] = "stage"
    BY <1>1, TargetIs DEF StageFull
  <2>2. Len(tx[s][Target(s)]) >= TxBatch /\ BeginFlush(s, Target(s))
    BY <1>1 DEF StageFull, Full
  <2>3. tx[s][Target(s)] # <<>>
    BY <2>2, BoundsAreNat
  <2> QED
    BY <2>1, <2>2, <2>3
<1>2. CASE FlushAll(s)
  <2>1. Waiting(s) \in SUBSET Vports /\ Waiting(s) # {}
    BY <1>2 DEF FlushAll, Waiting
  <2>2. Min(Waiting(s)) \in Waiting(s)
    BY <2>1, MinVport
  <2>3. Min(Waiting(s)) \in Vports /\ tx[s][Min(Waiting(s))] # <<>>
    BY <2>2 DEF Waiting
  <2> QED
    BY <1>2, <2>3 DEF FlushAll
<1> QED
  BY <1>1, <1>2

LEMMA BeginFlushKeeps ==
  ASSUME TInv, NothingStranded, NEW s \in Shards, StageFull(s) \/ FlushAll(s)
  PROVE  TInv' /\ NothingStranded'
<1> USE DEF envVars, localVars, queueVars, countVars, histVars, Goto
<1>1. PICK v \in Vports :
        tx[s][v] # <<>> /\ BeginFlush(s, v) /\ pc[s] \in {"stage", "flush_all", "final"}
  BY FlushBegins DEF TInv
<1>2. Env'
  BY <1>1, TypeSplit DEF TInv, Env, BeginFlush
<1>3. Data'
  BY <1>1, TypeSplit DEF TInv, Data, BeginFlush, Labels
<1>4. ControlInv'
  BY <1>1, TypeSplit DEF TInv, Data, ControlInv, InStage, BeginFlush
<1>5. NothingStranded'
  BY <1>1, TypeSplit DEF TInv, Data, NothingStranded, Waiting, Ended, BeginFlush
<1> QED
  BY <1>2, <1>3, <1>4, <1>5, TypeSplit DEF TInv

(* What a run looks like on the wire.                                      *)
Sent == [from : Shards, seq : Nat]
Out(s) == [i \in DOMAIN Run(s) |-> [from |-> s, seq |-> Run(s)[i].seq]]

LEMMA OutIs ==
  ASSUME TypeOK, NEW s \in Shards, unsent[s] # <<>>
  PROVE  /\ Out(s) \in Seq(Sent) /\ Len(Out(s)) = Len(Run(s))
         /\ \A i \in 1 .. Len(Run(s)) : Out(s)[i] = [from |-> s, seq |-> unsent[s][i].seq]
<1> DEFINE n == Len(Run(s))
<1>1. /\ Run(s) \in Seq(Segs) /\ n \in Nat /\ DOMAIN Run(s) = 1 .. n
      /\ \A i \in 1 .. n : Run(s)[i] = unsent[s][i]
  BY RunIs
<1> HIDE DEF n
<1>2. \A i \in 1 .. n : [from |-> s, seq |-> Run(s)[i].seq] \in Sent
  BY <1>1, SegType DEF Sent, n
<1>3. Out(s) \in [1 .. n -> Sent]
  BY <1>1, <1>2 DEF Out
<1>4. Out(s) \in Seq(Sent) /\ Len(Out(s)) = n
  BY <1>1, <1>3
<1>5. \A i \in 1 .. n : Out(s)[i] = [from |-> s, seq |-> unsent[s][i].seq]
  BY <1>1 DEF Out
<1> QED
  BY <1>4, <1>5 DEF n

LEMMA SendKeeps ==
  ASSUME TInv, NothingStranded, NEW s \in Shards,
         SendRun(s) \/ \E reason \in Counters : SendFails(s, reason)
  PROVE  TInv' /\ NothingStranded'
<1> USE DEF envVars, localVars, queueVars, countVars
<1>0. TypeOK /\ pc[s] = "flush" /\ unsent[s] # <<>> /\ egress[s] \in Vports
  BY DEF TInv, ControlInv, SendRun, SendFails
<1>1. /\ Len(Run(s)) \in Nat /\ Run(s) \in Seq(Segs) /\ Rest(s) \in Seq(Segs)
  BY <1>0, RunIs
<1>2. /\ unsent' = [unsent EXCEPT ![s] = Rest(s)]
      /\ UNCHANGED <<envVars, pc, localVars, queueVars, egress, back, rx_pkts, tx_pkts,
                     tx_broadcast, received, punted>>
  BY DEF SendRun, SendFails, Rest
<1>3. /\ unsent \in [Shards -> Seq(Segs)] /\ sent \in [Shards -> Nat]
      /\ wire \in [Vports -> Seq(Sent)]
      /\ lost \in [Shards -> [Vports -> Nat]] /\ ctr \in [Counters -> Nat]
  BY <1>0 DEF TypeOK, Sent
<1>4. /\ sent' \in [Shards -> Nat] /\ lost' \in [Shards -> [Vports -> Nat]]
      /\ ctr' \in [Counters -> Nat]
      /\ wire' \in [Vports -> Seq(Sent)]
  <2>1. CASE SendRun(s)
    <3>1. Out(s) \in Seq(Sent)
      BY <1>0, OutIs
    <3>2. wire' = [wire EXCEPT ![egress[s]] = @ \o Out(s)]
      BY <2>1 DEF SendRun, Out
    <3>3. wire' \in [Vports -> Seq(Sent)]
      BY <1>0, <1>3, <3>1, <3>2
    <3> QED
      BY <1>1, <1>3, <2>1, <3>3 DEF SendRun
  <2>2. CASE \E reason \in Counters : SendFails(s, reason)
    BY <1>0, <1>1, <1>3, <2>2 DEF SendFails, Bump
  <2> QED
    BY <2>1, <2>2
<1>5. unsent' \in [Shards -> Seq(Segs)]
  BY <1>1, <1>2, <1>3
<1>6. Env'
  BY <1>2, TypeSplit DEF TInv, Env
<1>7. Data'
  BY <1>2, <1>4, <1>5, TypeSplit DEF TInv, Data, Sent
<1>8. ControlInv'
  BY <1>2 DEF TInv, ControlInv, InStage
<1>9. NothingStranded'
  BY <1>2 DEF NothingStranded, Waiting, Ended
<1> QED
  BY <1>6, <1>7, <1>8, <1>9, TypeSplit DEF TInv

LEMMA FlushEndKeeps ==
  ASSUME TInv, NothingStranded, NEW s \in Shards, FlushEnd(s)
  PROVE  TInv' /\ NothingStranded'
<1> USE DEF envVars, localVars, histVars, Goto
<1>0. /\ TypeOK /\ pc[s] = "flush" /\ egress[s] \in Vports
      /\ back[s] \in {"stage", "flush_all", "final"}
  BY DEF TInv, ControlInv, FlushEnd
<1>1. /\ tx \in [Shards -> [Vports -> Seq(Segs)]]
      /\ \A t \in Shards, w \in Vports : Len(tx[t][w]) <= TxBatch
  BY <1>0 DEF TypeOK
<1>2. tx' = [tx EXCEPT ![s][egress[s]] = <<>>]
  BY DEF FlushEnd
<1>3. tx' \in [Shards -> [Vports -> Seq(Segs)]]
  BY <1>0, <1>1, <1>2
<1>4. \A t \in Shards, w \in Vports : tx'[t][w] = tx[t][w] \/ tx'[t][w] = <<>>
  BY <1>0, <1>1, <1>2
<1>5. \A t \in Shards, w \in Vports : Len(tx'[t][w]) <= TxBatch
  BY <1>1, <1>4, BoundsAreNat
<1>6. Env'
  BY TypeSplit DEF TInv, Env, FlushEnd
<1>7. Data'
  <2>1. tx_pkts \in [Vports -> Nat] /\ sent \in [Shards -> Nat]
    BY <1>0 DEF TypeOK
  <2>2. tx_pkts' \in [Vports -> Nat]
    BY <1>0, <2>1 DEF FlushEnd
  <2>3. pc' \in [Shards -> Labels] /\ sent' \in [Shards -> Nat]
        /\ egress' \in [Shards -> Vports \cup {Unknown}]
    BY <1>0 DEF TypeOK, FlushEnd, Labels
  <2> QED
    BY <1>3, <1>5, <2>2, <2>3, TypeSplit DEF TInv, Data, FlushEnd
<1>8. ControlInv'
  BY <1>0, TypeSplit DEF TInv, Data, ControlInv, InStage, FlushEnd
<1>9. NothingStranded'
  <2> SUFFICES ASSUME NEW t \in Shards, (pc[t] \in {"loop", "recv"} \/ Ended(t))'
               PROVE  Waiting(t)' = {}
    BY DEF NothingStranded
  <2>1. t # s /\ (pc[t] \in {"loop", "recv"} \/ Ended(t))
    BY <1>0, TypeSplit DEF FlushEnd, TInv, Data, Ended
  <2>2. tx'[t] = tx[t]
    BY <1>1, <1>2, <2>1
  <2> QED
    BY <2>1, <2>2 DEF NothingStranded, Waiting
<1> QED
  BY <1>6, <1>7, <1>8, <1>9, TypeSplit DEF TInv

LEMMA NextTInv == TInv /\ NothingStranded /\ [Next]_vars => TInv' /\ NothingStranded'
<1> SUFFICES ASSUME TInv, NothingStranded, [Next]_vars PROVE TInv' /\ NothingStranded'
  OBVIOUS
<1>1. CASE UNCHANGED vars
  <2> USE DEF vars, envVars, countVars, histVars, localVars, queueVars, flushVars
  <2>1. Env'
    BY <1>1, TypeSplit DEF TInv, Env
  <2>2. Data'
    BY <1>1, TypeSplit DEF TInv, Data
  <2>3. ControlInv'
    BY <1>1 DEF TInv, ControlInv, InStage
  <2>4. NothingStranded'
    BY <1>1 DEF NothingStranded, Waiting, Ended
  <2> QED
    BY <2>1, <2>2, <2>3, <2>4, TypeSplit DEF TInv
<1>2. CASE RequestStop
  <2> USE DEF countVars, histVars, localVars, queueVars, flushVars
  <2>1. Env'
    BY <1>2, TypeSplit DEF TInv, Env, RequestStop
  <2>2. Data'
    BY <1>2, TypeSplit DEF TInv, Data, RequestStop
  <2>3. ControlInv'
    BY <1>2 DEF TInv, ControlInv, InStage, RequestStop
  <2>4. NothingStranded'
    BY <1>2 DEF NothingStranded, Waiting, Ended, RequestStop
  <2> QED
    BY <2>1, <2>2, <2>3, <2>4, TypeSplit DEF TInv
<1>3. ASSUME NEW s \in Shards, ShardStep(s) PROVE TInv' /\ NothingStranded'
  <2>1. CASE Segment(s)
    <3>1. \/ BadHeader(s) \/ Punt(s) \/ (\E reason \in Counters : Discard(s, reason))
          \/ \E len \in Lens : Broadcast(s, len) \/ \E port \in Vports : Forward(s, len, port)
      BY <2>1 DEF Segment, Counters
    <3> QED
      BY <3>1, SegmentKeeps, DispatchKeeps
  <2>2. CASE SendFails(s, "would_block") \/ SendFails(s, "send_error")
    <3>1. \E reason \in Counters : SendFails(s, reason)
      BY <2>2 DEF Counters
    <3> QED
      BY <3>1, SendKeeps
  <2> QED
    BY <1>3, <2>1, <2>2, LoopKeeps, RecvKeeps, SegmentKeeps, StageKeeps, BeginFlushKeeps,
       SendKeeps, FlushEndKeeps DEF ShardStep
<1> QED
  BY <1>1, <1>2, <1>3 DEF Next, Terminated

------------------------------------------------------------------------------
(* What each step does to the queues.                                      *)

QueuesStay == \A t \in Shards, w \in Vports : Queued(t, w)' = Queued(t, w)

(* A step that touches no queue, no number and nothing sent.               *)
Quiet ==
  /\ UNCHANGED <<tx, tx_seq, wire, lost, tx_pkts, egress, unsent, sent>>
  /\ \A t \in Shards : pc'[t] = "flush" <=> pc[t] = "flush"

LEMMA QuietSteps ==
  ASSUME TypeOK, NEW s \in Shards,
         \/ Poll(s) \/ Recv(s) \/ RecvTimeout(s) \/ RecvError(s) \/ StopSeen(s)
         \/ NextRead(s) \/ BatchDone(s) \/ UnknownPeer(s) \/ Segment(s)
         \/ Staged(s) \/ FlushedAll(s)
  PROVE  Quiet
<1> USE DEF queueVars, flushVars, countVars, histVars, Goto
<1>0. pc \in [Shards -> Labels]
  BY DEF TypeOK
<1>1. CASE \/ Poll(s) \/ RecvTimeout(s) \/ RecvError(s) \/ StopSeen(s)
           \/ BatchDone(s) \/ Staged(s) \/ FlushedAll(s) \/ Recv(s)
  BY <1>0, <1>1
  DEF Quiet, Poll, Recv, RecvTimeout, RecvError, StopSeen, BatchDone, Staged, FlushedAll
<1>2. CASE NextRead(s) \/ UnknownPeer(s)
  BY <1>2 DEF Quiet, NextRead, UnknownPeer
<1>3. CASE Segment(s)
  <2>1. \/ BadHeader(s) \/ Punt(s) \/ (\E reason \in Counters : Discard(s, reason))
        \/ \E len \in Lens : Broadcast(s, len) \/ \E port \in Vports : Forward(s, len, port)
    BY <1>3 DEF Segment, Counters
  <2>2. CASE BadHeader(s) \/ Punt(s) \/ \E reason \in Counters : Discard(s, reason)
    BY <2>2 DEF Quiet, BadHeader, Punt, Discard
  <2>3. ASSUME NEW len \in Lens,
               Broadcast(s, len) \/ \E port \in Vports : Forward(s, len, port)
        PROVE  Quiet
    <3>1. pc[s] = "segments"
      BY <2>3 DEF Broadcast, Forward, Accept, HasSegment
    <3> QED
      BY <1>0, <2>3, <3>1 DEF Quiet, Broadcast, Forward, DispatchTo
  <2> QED
    BY <2>1, <2>2, <2>3
<1> QED
  BY <1>1, <1>2, <1>3

LEMMA QuietQueues == Quiet => QueuesStay
  BY DEF Quiet, QueuesStay, Queued

LEMMA QueuedType ==
  ASSUME TypeOK, NEW s \in Shards, NEW v \in Vports
  PROVE  Queued(s, v) \in Seq(Segs)
  BY DEF TypeOK, Queued

LEMMA StageQueues ==
  ASSUME TypeOK, NEW s \in Shards, NEW v \in Vports, StageFor(s, v)
  PROVE  /\ Queued(s, v)' = Append(Queued(s, v), [seq |-> tx_seq[s][v], len |-> Hdr + frame[s]])
         /\ \A t \in Shards, w \in Vports : ~(t = s /\ w = v) => Queued(t, w)' = Queued(t, w)
<1> USE DEF flushVars
<1>1. tx \in [Shards -> [Vports -> Seq(Segs)]] /\ pc[s] = "stage" /\ pc' = pc
      /\ UNCHANGED <<egress, unsent>>
  BY DEF TypeOK, StageFor
<1>2. tx' = [tx EXCEPT ![s][v] = Append(@, [seq |-> tx_seq[s][v], len |-> Hdr + frame[s]])]
  BY DEF StageFor
<1>3. /\ tx'[s][v] = Append(tx[s][v], [seq |-> tx_seq[s][v], len |-> Hdr + frame[s]])
      /\ \A t \in Shards, w \in Vports : ~(t = s /\ w = v) => tx'[t][w] = tx[t][w]
  BY <1>1, <1>2
<1> QED
  BY <1>1, <1>3 DEF Queued

LEMMA BeginFlushQueues ==
  ASSUME TypeOK, NEW s \in Shards, NEW v \in Vports, BeginFlush(s, v), pc[s] # "flush"
  PROVE  QueuesStay
<1> USE DEF queueVars, Goto
<1>1. /\ pc \in [Shards -> Labels] /\ egress \in [Shards -> Vports \cup {Unknown}]
      /\ unsent \in [Shards -> Seq(Segs)]
  BY DEF TypeOK
<1>2. /\ pc'[s] = "flush" /\ egress'[s] = v /\ unsent'[s] = tx[s][v] /\ tx' = tx
      /\ \A t \in Shards \ {s} : pc'[t] = pc[t] /\ egress'[t] = egress[t] /\ unsent'[t] = unsent[t]
  BY <1>1 DEF BeginFlush
<1> QED
  BY <1>2 DEF QueuesStay, Queued

LEMMA SendQueues ==
  ASSUME TypeOK, NEW s \in Shards, pc[s] = "flush", pc' = pc,
         unsent' = [unsent EXCEPT ![s] = Rest(s)], UNCHANGED <<tx, egress>>
  PROVE  /\ Queued(s, egress[s]) = unsent[s] /\ Queued(s, egress[s])' = Rest(s)
         /\ \A t \in Shards, w \in Vports :
              ~(t = s /\ w = egress[s]) => Queued(t, w)' = Queued(t, w)
<1>1. unsent'[s] = Rest(s) /\ \A t \in Shards \ {s} : unsent'[t] = unsent[t]
  BY DEF TypeOK
<1> QED
  BY <1>1 DEF Queued

LEMMA FlushEndQueues ==
  ASSUME TInv, NEW s \in Shards, FlushEnd(s)
  PROVE  QueuesStay
<1> USE DEF Goto
<1>0. /\ tx \in [Shards -> [Vports -> Seq(Segs)]] /\ pc \in [Shards -> Labels]
      /\ egress \in [Shards -> Vports \cup {Unknown}]
  BY DEF TInv, TypeOK
<1>1. /\ pc[s] = "flush" /\ unsent[s] = <<>> /\ egress[s] \in Vports /\ back[s] # "flush"
      /\ unsent' = unsent
  BY DEF TInv, ControlInv, FlushEnd
<1>2. /\ tx' = [tx EXCEPT ![s][egress[s]] = <<>>]
      /\ egress' = [egress EXCEPT ![s] = Unknown]
      /\ pc' = [pc EXCEPT ![s] = back[s]]
  BY DEF FlushEnd
<1>3. /\ pc'[s] # "flush" /\ tx'[s][egress[s]] = <<>>
      /\ \A w \in Vports \ {egress[s]} : tx'[s][w] = tx[s][w]
      /\ \A t \in Shards \ {s} : tx'[t] = tx[t] /\ pc'[t] = pc[t] /\ egress'[t] = egress[t]
  BY <1>0, <1>1, <1>2
<1> QED
  BY <1>1, <1>3 DEF QueuesStay, Queued

------------------------------------------------------------------------------
(* Numbers.                                                                *)

Mine(s, v) == {i \in DOMAIN wire[v] : wire[v][i].from = s}

FlowAt(s, v) ==
  /\ \A i, j \in Mine(s, v) : i < j => wire[v][i].seq < wire[v][j].seq
  /\ \A i, j \in DOMAIN Queued(s, v) : i < j => Queued(s, v)[i].seq < Queued(s, v)[j].seq
  /\ \A i \in Mine(s, v), j \in DOMAIN Queued(s, v) : wire[v][i].seq < Queued(s, v)[j].seq
  /\ \A i \in Mine(s, v) : wire[v][i].seq < tx_seq[s][v]
  /\ \A i \in DOMAIN Queued(s, v) : Queued(s, v)[i].seq < tx_seq[s][v]
  /\ Cardinality(Mine(s, v)) + Len(Queued(s, v)) + lost[s][v] = tx_seq[s][v]

LEMMA FlowSplit ==
  /\ FlowNumbers <=> \A s \in Shards, v \in Vports : FlowAt(s, v)
  /\ FlowNumbers' <=> \A s \in Shards, v \in Vports : FlowAt(s, v)'
  BY Zenon DEF FlowNumbers, FlowAt, Mine

LEMMA InitFlow == Init => FlowNumbers
<1> SUFFICES ASSUME Init, NEW s \in Shards, NEW v \in Vports PROVE FlowAt(s, v)
  BY FlowSplit
<1>1. /\ wire[v] = <<>> /\ Queued(s, v) = <<>> /\ lost[s][v] = 0 /\ tx_seq[s][v] = 0
  BY DEF Init, Queued
<1>2. Mine(s, v) = {}
  BY <1>1 DEF Mine
<1> QED
  BY <1>1, <1>2, FS_EmptySet DEF FlowAt

LEMMA FlowKept ==
  ASSUME NEW s, NEW v, FlowAt(s, v), Queued(s, v)' = Queued(s, v), wire'[v] = wire[v],
         tx_seq'[s][v] = tx_seq[s][v], lost'[s][v] = lost[s][v]
  PROVE  FlowAt(s, v)'
  BY DEF FlowAt, Mine

LEMMA MineFinite ==
  ASSUME TypeOK, NEW s \in Shards, NEW v \in Vports
  PROVE  /\ IsFiniteSet(Mine(s, v)) /\ Cardinality(Mine(s, v)) \in Nat
         /\ Mine(s, v) \subseteq 1 .. Len(wire[v]) /\ Len(wire[v]) \in Nat
<1>1. wire[v] \in Seq(Sent)
  BY DEF TypeOK, Sent
<1>2. Mine(s, v) \in SUBSET (1 .. Len(wire[v])) /\ Len(wire[v]) \in Nat
  BY <1>1 DEF Mine
<1>3. IsFiniteSet(1 .. Len(wire[v]))
  BY <1>2, IntervalSize
<1>4. IsFiniteSet(Mine(s, v))
  BY <1>2, <1>3, FS_Subset
<1> QED
  BY <1>2, <1>4, FS_CardinalityType

LEMMA WireType ==
  ASSUME TypeOK, NEW s \in Shards, NEW v \in Vports, NEW i \in Mine(s, v)
  PROVE  wire[v][i].seq \in Nat
<1>1. wire[v] \in Seq(Sent) /\ i \in 1 .. Len(wire[v])
  BY MineFinite DEF TypeOK, Sent
<1>2. wire[v][i] \in Sent
  BY <1>1
<1> QED
  BY <1>2 DEF Sent

LEMMA StageFlow ==
  ASSUME TInv, FlowNumbers, NEW s \in Shards, Stage(s)
  PROVE  FlowNumbers'
<1> USE DEF histVars
<1>0. TypeOK
  BY DEF TInv
<1>1. PICK v \in Vports : StageFor(s, v)
  BY <1>0, StageIs
<1> DEFINE seg == [seq |-> tx_seq[s][v], len |-> Hdr + frame[s]]
           q == Queued(s, v)
<1>2. /\ Queued(s, v)' = Append(q, seg)
      /\ \A t \in Shards, w \in Vports : ~(t = s /\ w = v) => Queued(t, w)' = Queued(t, w)
  BY <1>0, <1>1, StageQueues
<1>3. /\ tx_seq \in [Shards -> [Vports -> Nat]] /\ tx_seq[s][v] \in Nat /\ lost[s][v] \in Nat
      /\ q \in Seq(Segs) /\ frame[s] \in Nat
  BY <1>0, QueuedType DEF TypeOK
<1>4. /\ tx_seq'[s][v] = tx_seq[s][v] + 1 /\ wire' = wire /\ lost' = lost
      /\ \A t \in Shards, w \in Vports : ~(t = s /\ w = v) => tx_seq'[t][w] = tx_seq[t][w]
  BY <1>1, <1>3 DEF StageFor
<1>5. ASSUME NEW t \in Shards, NEW w \in Vports, ~(t = s /\ w = v)
      PROVE  FlowAt(t, w)'
  BY <1>2, <1>4, <1>5, FlowSplit, FlowKept
<1>6. FlowAt(s, v)'
  <2>1. FlowAt(s, v) /\ Mine(s, v)' = Mine(s, v)
    BY <1>4, FlowSplit DEF Mine
  <2>2. Cardinality(Mine(s, v)) \in Nat
    BY <1>0, MineFinite
  <2>3. seg \in Segs /\ seg.seq = tx_seq[s][v]
    BY <1>3, BoundsAreNat DEF Segs
  <2> HIDE DEF seg, q
  <2>4. /\ Len(Append(q, seg)) = Len(q) + 1 /\ Len(q) \in Nat
        /\ DOMAIN Append(q, seg) = 1 .. Len(q) + 1 /\ DOMAIN q = 1 .. Len(q)
        /\ Append(q, seg)[Len(q) + 1] = seg
        /\ \A i \in 1 .. Len(q) : Append(q, seg)[i] = q[i] /\ q[i].seq \in Nat
    BY <1>3, <2>3, SegType
  <2>5. \A i \in Mine(s, v) : wire[v][i].seq < tx_seq[s][v]
    BY <2>1 DEF FlowAt
  <2>6. \A i \in 1 .. Len(q) : q[i].seq < tx_seq[s][v]
    BY <2>1, <2>4 DEF FlowAt, q
  <2>7. \A i, j \in 1 .. Len(q) + 1 : i < j => Append(q, seg)[i].seq < Append(q, seg)[j].seq
    <3> SUFFICES ASSUME NEW i \in 1 .. Len(q) + 1, NEW j \in 1 .. Len(q) + 1, i < j
                 PROVE  Append(q, seg)[i].seq < Append(q, seg)[j].seq
      OBVIOUS
    <3>1. i \in 1 .. Len(q)
      BY <2>4
    <3>2. CASE j = Len(q) + 1
      BY <2>3, <2>4, <2>6, <3>1, <3>2
    <3>3. CASE j # Len(q) + 1
      <4>1. j \in 1 .. Len(q)
        BY <2>4, <3>3
      <4>2. q[i].seq < q[j].seq
        BY <2>1, <2>4, <3>1, <4>1 DEF FlowAt, q
      <4> QED
        BY <2>4, <3>1, <4>1, <4>2
    <3> QED
      BY <3>2, <3>3
  <2>8. \A i \in Mine(s, v), j \in 1 .. Len(q) + 1 : wire[v][i].seq < Append(q, seg)[j].seq
    <3> TAKE i \in Mine(s, v), j \in 1 .. Len(q) + 1
    <3>1. CASE j = Len(q) + 1
      BY <2>3, <2>4, <2>5, <3>1
    <3>2. CASE j # Len(q) + 1
      <4>1. j \in 1 .. Len(q)
        BY <2>4, <3>2
      <4> QED
        BY <2>1, <2>4, <4>1 DEF FlowAt, q
    <3> QED
      BY <3>1, <3>2
  <2>9. \A i \in Mine(s, v) : wire[v][i].seq < tx_seq[s][v] + 1
    <3> TAKE i \in Mine(s, v)
    <3>1. wire[v][i].seq \in Nat
      BY <1>0, WireType
    <3> QED
      BY <1>3, <2>5, <3>1
  <2>10. \A i \in 1 .. Len(q) + 1 : Append(q, seg)[i].seq < tx_seq[s][v] + 1
    BY <1>3, <2>3, <2>4, <2>6
  <2>11. Cardinality(Mine(s, v)) + (Len(q) + 1) + lost[s][v] = tx_seq[s][v] + 1
    <3>1. Cardinality(Mine(s, v)) + Len(q) + lost[s][v] = tx_seq[s][v]
      BY <2>1 DEF FlowAt, q
    <3> QED
      BY <1>3, <2>2, <2>4, <3>1
  <2> QED
    BY <1>2, <1>4, <2>1, <2>4, <2>7, <2>8, <2>9, <2>10, <2>11 DEF FlowAt, q, seg
<1> QED
  BY <1>5, <1>6, FlowSplit

LEMMA Concat ==
  ASSUME NEW T, NEW a \in Seq(T), NEW b \in Seq(T)
  PROVE  /\ a \o b \in Seq(T) /\ Len(a) \in Nat /\ Len(b) \in Nat
         /\ Len(a \o b) = Len(a) + Len(b) /\ DOMAIN (a \o b) = 1 .. Len(a) + Len(b)
         /\ \A i \in 1 .. Len(a) : (a \o b)[i] = a[i]
         /\ \A i \in Len(a) + 1 .. Len(a) + Len(b) : (a \o b)[i] = b[i - Len(a)]
  OBVIOUS

LEMMA Beyond ==
  ASSUME NEW n \in Nat, NEW k \in Nat
  PROVE  IsFiniteSet(n + 1 .. n + k) /\ Cardinality(n + 1 .. n + k) = k
<1>1. n + 1 \in Int /\ n + k \in Int
  OBVIOUS
<1>2. IsFiniteSet(n + 1 .. n + k)
      /\ Cardinality(n + 1 .. n + k) = IF n + 1 > n + k THEN 0 ELSE n + k - (n + 1) + 1
  BY <1>1, FS_Interval
<1> QED
  BY <1>2

(* A run of k segments appended to the n that one vport was sent.          *)
Appended(s, v, n, k) ==
  /\ n \in Nat /\ k \in Nat /\ Len(wire'[v]) = n + k
  /\ \A i \in 1 .. n : wire'[v][i] = wire[v][i]
  /\ \A i \in n + 1 .. n + k : wire'[v][i] = [from |-> s, seq |-> unsent[s][i - n].seq]
  /\ Mine(s, v)' = Mine(s, v) \cup (n + 1 .. n + k)
  /\ Cardinality(Mine(s, v)') = Cardinality(Mine(s, v)) + k
  /\ \A t \in Shards \ {s} : Mine(t, v)' = Mine(t, v)
  /\ \A w \in Vports \ {v} : wire'[w] = wire[w]

LEMMA RunAppended ==
  ASSUME TypeOK, NEW s \in Shards, NEW v \in Vports, unsent[s] # <<>>,
         wire' = [wire EXCEPT ![v] = @ \o Out(s)]
  PROVE  Appended(s, v, Len(wire[v]), Len(Run(s)))
<1>n. PICK n : n = Len(wire[v])
  OBVIOUS
<1>k. PICK k : k = Len(Run(s))
  OBVIOUS
<1> DEFINE o == Out(s)
           w0 == wire[v]
<1>0. wire \in [Vports -> Seq(Sent)]
  BY DEF TypeOK, Sent
<1>1. wire \in [Vports -> Seq(Sent)] /\ w0 \in Seq(Sent) /\ n \in Nat
  BY <1>0, <1>n
<1>2. k \in Nat /\ o \in Seq(Sent) /\ Len(o) = k
      /\ \A i \in 1 .. k : o[i] = [from |-> s, seq |-> unsent[s][i].seq]
  BY <1>k, RunIs, OutIs
<1>3. wire'[v] = w0 \o o /\ \A w \in Vports \ {v} : wire'[w] = wire[w]
  BY <1>1
<1>4. n = Len(w0)
  BY <1>n
<1> HIDE DEF o, w0
<1>5. /\ \A i \in 1 .. n : wire'[v][i] = w0[i]
      /\ \A i \in n + 1 .. n + k : wire'[v][i] = o[i - n]
      /\ Len(wire'[v]) = n + k /\ DOMAIN wire'[v] = 1 .. n + k /\ DOMAIN w0 = 1 .. n
  <2>1. DOMAIN w0 = 1 .. n
    BY <1>1, <1>4
  <2>2. /\ Len(w0 \o o) = n + k /\ DOMAIN (w0 \o o) = 1 .. n + k
        /\ \A i \in 1 .. n : (w0 \o o)[i] = w0[i]
        /\ \A i \in n + 1 .. n + k : (w0 \o o)[i] = o[i - n]
    BY <1>1, <1>2, <1>4, Concat
  <2> QED
    BY <1>3, <2>1, <2>2
<1>6. \A i \in n + 1 .. n + k : wire'[v][i] = [from |-> s, seq |-> unsent[s][i - n].seq]
  <2> TAKE i \in n + 1 .. n + k
  <2>1. i - n \in 1 .. k
    BY <1>1, <1>2
  <2> QED
    BY <1>2, <1>5, <2>1
<1>7. \A i \in n + 1 .. n + k : wire'[v][i].from = s
  <2> TAKE i \in n + 1 .. n + k
  <2>1. wire'[v][i] = [from |-> s, seq |-> unsent[s][i - n].seq]
    BY <1>6
  <2>2. [from |-> s, seq |-> unsent[s][i - n].seq].from = s
    BY Zenon
  <2> QED
    BY <2>1, <2>2, Zenon
<1>8. 1 .. n + k = (1 .. n) \cup (n + 1 .. n + k) /\ (1 .. n) \cap (n + 1 .. n + k) = {}
  BY <1>1, <1>2
<1>9. ASSUME NEW t PROVE Mine(t, v) = {i \in 1 .. n : w0[i].from = t}
  BY <1>5 DEF Mine, w0
<1>10. ASSUME NEW t PROVE Mine(t, v)' = {i \in 1 .. n + k : wire'[v][i].from = t}
  <2>1. Mine(t, v)' = {i \in DOMAIN wire'[v] : wire'[v][i].from = t}
    BY DEF Mine
  <2> QED
    BY <1>5, <2>1
<1>11. ASSUME NEW t PROVE {i \in 1 .. n : wire'[v][i].from = t} = {i \in 1 .. n : w0[i].from = t}
  BY <1>5
<1>12. ASSUME NEW t
       PROVE Mine(t, v)' = Mine(t, v) \cup {i \in n + 1 .. n + k : wire'[v][i].from = t}
  <2>1. {i \in 1 .. n + k : wire'[v][i].from = t} =
          {i \in 1 .. n : wire'[v][i].from = t} \cup {i \in n + 1 .. n + k : wire'[v][i].from = t}
    BY <1>8
  <2> QED
    BY <1>9, <1>10, <1>11, <2>1
<1>13. Mine(s, v)' = Mine(s, v) \cup (n + 1 .. n + k)
  BY <1>7, <1>12
<1>14. ASSUME NEW t \in Shards \ {s} PROVE Mine(t, v)' = Mine(t, v)
  <2>1. {i \in n + 1 .. n + k : wire'[v][i].from = t} = {}
    BY <1>7
  <2> QED
    BY <1>12, <2>1
<1>15. Cardinality(Mine(s, v)') = Cardinality(Mine(s, v)) + k
  <2>1. IsFiniteSet(n + 1 .. n + k) /\ Cardinality(n + 1 .. n + k) = k
    BY <1>1, <1>2, Beyond
  <2>2. IsFiniteSet(Mine(s, v)) /\ Cardinality(Mine(s, v)) \in Nat
    BY MineFinite
  <2>3. Mine(s, v) \cap (n + 1 .. n + k) = {}
    BY <1>8, <1>9
  <2>4. Cardinality(Mine(s, v) \cup (n + 1 .. n + k)) = Cardinality(Mine(s, v)) + k
    <3> DEFINE A == Mine(s, v)
               B == n + 1 .. n + k
    <3>1. IsFiniteSet(A) /\ IsFiniteSet(B) /\ A \cap B = {} /\ Cardinality(B) = k
          /\ Cardinality(A) \in Nat
      BY <2>1, <2>2, <2>3
    <3> HIDE DEF A, B
    <3>2. Cardinality(A \cup B) = Cardinality(A) + Cardinality(B) - Cardinality({})
      BY <3>1, FS_Union
    <3>3. Cardinality(A \cup B) = Cardinality(A) + k
      BY <1>2, <3>1, <3>2, FS_EmptySet
    <3> QED
      BY <3>3 DEF A, B
  <2> QED
    BY <1>13, <2>4
<1>16. Appended(s, v, n, k)
  BY <1>1, <1>2, <1>3, <1>5, <1>6, <1>13, <1>14, <1>15 DEF Appended, w0
<1> QED
  BY <1>n, <1>k, <1>16, Zenon

LEMMA RestIs ==
  ASSUME TypeOK, NEW s \in Shards, unsent[s] # <<>>, NEW k, k = Len(Run(s))
  PROVE  /\ k \in 1 .. Len(unsent[s]) /\ Len(Rest(s)) = Len(unsent[s]) - k
         /\ Len(unsent[s]) \in Nat
         /\ DOMAIN Rest(s) = 1 .. Len(unsent[s]) - k /\ DOMAIN unsent[s] = 1 .. Len(unsent[s])
         /\ \A i \in 1 .. Len(unsent[s]) - k : Rest(s)[i] = unsent[s][k + i]
<1>1. unsent[s] \in Seq(Segs) /\ Rest(s) \in Seq(Segs)
  BY RunIs DEF TypeOK
<1> QED
  BY <1>1, RunIs

(* What both outcomes of Shard::send have in common.                       *)
LEMMA SendTakes ==
  ASSUME TInv, NEW s \in Shards, SendRun(s) \/ \E reason \in Counters : SendFails(s, reason)
  PROVE  /\ TypeOK /\ pc[s] = "flush" /\ unsent[s] # <<>> /\ egress[s] \in Vports
         /\ pc' = pc /\ egress' = egress /\ tx' = tx /\ tx_seq' = tx_seq
         /\ unsent' = [unsent EXCEPT ![s] = Rest(s)]
         /\ SendRun(s) => wire' = [wire EXCEPT ![egress[s]] = @ \o Out(s)] /\ lost' = lost
  BY DEF TInv, ControlInv, SendRun, SendFails, Rest, queueVars, Out

LEMMA SendFlow ==
  ASSUME TInv, FlowNumbers, NEW s \in Shards, SendRun(s)
  PROVE  FlowNumbers'
<1>0. /\ TypeOK /\ pc[s] = "flush" /\ unsent[s] # <<>> /\ egress[s] \in Vports
      /\ pc' = pc /\ egress' = egress /\ tx' = tx /\ tx_seq' = tx_seq
      /\ unsent' = [unsent EXCEPT ![s] = Rest(s)]
      /\ wire' = [wire EXCEPT ![egress[s]] = @ \o Out(s)] /\ lost' = lost
  BY SendTakes
<1>1. PICK v \in Vports : v = egress[s]
  BY <1>0
<1>2. PICK n : n = Len(wire[v])
  OBVIOUS
<1>3. PICK k : k = Len(Run(s))
  OBVIOUS
<1>4. /\ n \in Nat /\ k \in Nat /\ Len(wire'[v]) = n + k
      /\ \A i \in 1 .. n : wire'[v][i] = wire[v][i]
      /\ \A i \in n + 1 .. n + k : wire'[v][i] = [from |-> s, seq |-> unsent[s][i - n].seq]
      /\ Mine(s, v)' = Mine(s, v) \cup (n + 1 .. n + k)
      /\ Cardinality(Mine(s, v)') = Cardinality(Mine(s, v)) + k
      /\ \A t \in Shards \ {s} : Mine(t, v)' = Mine(t, v)
      /\ \A w \in Vports \ {v} : wire'[w] = wire[w]
  <2>1. wire' = [wire EXCEPT ![v] = @ \o Out(s)]
    BY <1>0, <1>1
  <2>2. Appended(s, v, Len(wire[v]), Len(Run(s)))
    BY <1>0, <2>1, RunAppended
  <2>3. Appended(s, v, n, k)
    BY <1>2, <1>3, <2>2, Zenon
  <2> QED
    BY <2>3 DEF Appended
<1>5. /\ Queued(s, v) = unsent[s] /\ Queued(s, v)' = Rest(s)
      /\ \A t \in Shards, w \in Vports : ~(t = s /\ w = v) => Queued(t, w)' = Queued(t, w)
  BY <1>0, <1>1, SendQueues
<1>6. ASSUME NEW t \in Shards, NEW w \in Vports, w # v PROVE FlowAt(t, w)'
  BY <1>0, <1>4, <1>5, <1>6, FlowSplit, FlowKept
<1>7. ASSUME NEW t \in Shards, t # s PROVE FlowAt(t, v)'
  <2>1. FlowAt(t, v) /\ Mine(t, v)' = Mine(t, v) /\ Queued(t, v)' = Queued(t, v)
        /\ tx_seq'[t][v] = tx_seq[t][v] /\ lost'[t][v] = lost[t][v]
    BY <1>0, <1>4, <1>5, <1>7, FlowSplit
  <2>2. Mine(t, v) \subseteq 1 .. n
    BY <1>0, <1>2, MineFinite
  <2>3. \A i \in Mine(t, v) : wire'[v][i] = wire[v][i]
    BY <1>4, <2>2
  <2> QED
    BY <2>1, <2>3 DEF FlowAt
<1>8. FlowAt(s, v)'
  <2> DEFINE q == unsent[s]
             r == Rest(s)
             M == Mine(s, v)
             a(i) == wire[v][i].seq
             b(i) == wire'[v][i].seq
  <2>1. FlowAt(s, v)
    BY FlowSplit
  <2>2. /\ \A i, j \in M : i < j => a(i) < a(j)
        /\ \A i, j \in DOMAIN q : i < j => q[i].seq < q[j].seq
        /\ \A i \in M, j \in DOMAIN q : a(i) < q[j].seq
        /\ \A i \in M : a(i) < tx_seq[s][v]
        /\ \A i \in DOMAIN q : q[i].seq < tx_seq[s][v]
        /\ Cardinality(M) + Len(q) + lost[s][v] = tx_seq[s][v]
    BY <1>5, <2>1 DEF FlowAt
  <2>3. /\ k \in 1 .. Len(q) /\ Len(r) = Len(q) - k /\ Len(q) \in Nat
        /\ DOMAIN r = 1 .. Len(q) - k /\ DOMAIN q = 1 .. Len(q)
        /\ \A i \in 1 .. Len(q) - k : r[i] = q[k + i]
    BY <1>0, <1>3, RestIs
  <2>4. M \subseteq 1 .. n /\ Cardinality(M) \in Nat
    BY <1>0, <1>2, MineFinite
  <2>5. \A i \in M : b(i) = a(i)
    BY <1>4, <2>4
  <2>6. \A i \in n + 1 .. n + k : b(i) = q[i - n].seq /\ i - n \in 1 .. k
    <3> TAKE i \in n + 1 .. n + k
    <3>1. wire'[v][i] = [from |-> s, seq |-> unsent[s][i - n].seq]
      BY <1>4
    <3>2. [from |-> s, seq |-> unsent[s][i - n].seq].seq = unsent[s][i - n].seq
      BY Zenon
    <3>3. b(i) = q[i - n].seq
      BY <3>1, <3>2, Zenon
    <3> QED
      BY <1>4, <3>3
  <2>7. Mine(s, v)' = M \cup (n + 1 .. n + k)
        /\ Cardinality(Mine(s, v)') = Cardinality(M) + k
    BY <1>4
  <2>8. lost[s][v] \in Nat /\ tx_seq[s][v] \in Nat /\ k \in Nat /\ n \in Nat
    BY <1>0, <1>4 DEF TypeOK
  <2> HIDE DEF q, r, M, a, b
  <2>9. \A i, j \in M \cup (n + 1 .. n + k) : i < j => b(i) < b(j)
    <3> SUFFICES ASSUME NEW i \in M \cup (n + 1 .. n + k), NEW j \in M \cup (n + 1 .. n + k),
                        i < j
                 PROVE  b(i) < b(j)
      OBVIOUS
    <3>1. CASE i \in M /\ j \in M
      BY <2>2, <2>5, <3>1
    <3>2. CASE i \in M /\ j \in n + 1 .. n + k
      <4>1. j - n \in DOMAIN q
        BY <2>3, <2>6, <3>2
      <4> QED
        BY <2>2, <2>5, <2>6, <3>2, <4>1
    <3>3. CASE i \in n + 1 .. n + k /\ j \in n + 1 .. n + k
      <4>1. i - n \in DOMAIN q /\ j - n \in DOMAIN q /\ i - n < j - n
        BY <2>3, <2>6, <2>8, <3>3
      <4> QED
        BY <2>2, <2>6, <3>3, <4>1
    <3>4. ~(i \in n + 1 .. n + k /\ j \in M)
      BY <2>4, <2>8
    <3> QED
      BY <3>1, <3>2, <3>3, <3>4
  <2>10. \A i, j \in 1 .. Len(q) - k : i < j => r[i].seq < r[j].seq
    <3> SUFFICES ASSUME NEW i \in 1 .. Len(q) - k, NEW j \in 1 .. Len(q) - k, i < j
                 PROVE  r[i].seq < r[j].seq
      OBVIOUS
    <3>1. k + i \in DOMAIN q /\ k + j \in DOMAIN q /\ k + i < k + j
      BY <2>3
    <3>2. q[k + i].seq < q[k + j].seq
      BY <2>2, <3>1
    <3> QED
      BY <2>3, <3>2
  <2>11. \A i \in M \cup (n + 1 .. n + k), j \in 1 .. Len(q) - k : b(i) < r[j].seq
    <3> TAKE i \in M \cup (n + 1 .. n + k), j \in 1 .. Len(q) - k
    <3>1. k + j \in DOMAIN q /\ r[j] = q[k + j]
      BY <2>3
    <3>2. CASE i \in M
      BY <2>2, <2>5, <3>1, <3>2
    <3>3. CASE i \in n + 1 .. n + k
      <4>1. i - n \in DOMAIN q /\ i - n < k + j
        BY <2>3, <2>6, <2>8, <3>3
      <4>2. q[i - n].seq < q[k + j].seq
        BY <2>2, <3>1, <4>1
      <4> QED
        BY <2>6, <3>1, <3>3, <4>2
    <3> QED
      BY <3>2, <3>3
  <2>12. \A i \in M \cup (n + 1 .. n + k) : b(i) < tx_seq[s][v]
    <3> TAKE i \in M \cup (n + 1 .. n + k)
    <3>1. CASE i \in M
      BY <2>2, <2>5, <3>1
    <3>2. CASE i \in n + 1 .. n + k
      <4>1. i - n \in DOMAIN q
        BY <2>3, <2>6, <3>2
      <4> QED
        BY <2>2, <2>6, <3>2, <4>1
    <3> QED
      BY <3>1, <3>2
  <2>13. \A i \in 1 .. Len(q) - k : r[i].seq < tx_seq[s][v]
    <3> TAKE i \in 1 .. Len(q) - k
    <3>1. k + i \in DOMAIN q /\ r[i] = q[k + i]
      BY <2>3
    <3> QED
      BY <2>2, <3>1
  <2>14. (Cardinality(M) + k) + Len(r) + lost[s][v] = tx_seq[s][v]
    BY <2>2, <2>3, <2>4, <2>8
  <2> QED
    BY <1>0, <1>5, <2>3, <2>7, <2>9, <2>10, <2>11, <2>12, <2>13, <2>14 DEF FlowAt, b, r
<1> QED
  BY <1>1, <1>6, <1>7, <1>8, FlowSplit

LEMMA LossFlow ==
  ASSUME TInv, FlowNumbers, NEW s \in Shards, NEW reason \in Counters, SendFails(s, reason)
  PROVE  FlowNumbers'
<1>0. /\ TypeOK /\ pc[s] = "flush" /\ unsent[s] # <<>> /\ egress[s] \in Vports
      /\ pc' = pc /\ egress' = egress /\ tx' = tx /\ tx_seq' = tx_seq
      /\ unsent' = [unsent EXCEPT ![s] = Rest(s)]
  BY SendTakes
<1>1. PICK v \in Vports : v = egress[s]
  BY <1>0
<1>2. PICK k : k = Len(Run(s))
  OBVIOUS
<1>3. wire' = wire /\ lost' = [lost EXCEPT ![s][v] = @ + k]
  BY <1>1, <1>2 DEF SendFails
<1>4. lost \in [Shards -> [Vports -> Nat]] /\ tx_seq[s][v] \in Nat /\ lost[s][v] \in Nat
  BY <1>0 DEF TypeOK
<1>5. /\ lost'[s][v] = lost[s][v] + k
      /\ \A t \in Shards, w \in Vports : ~(t = s /\ w = v) => lost'[t][w] = lost[t][w]
  BY <1>3, <1>4
<1>6. /\ Queued(s, v) = unsent[s] /\ Queued(s, v)' = Rest(s)
      /\ \A t \in Shards, w \in Vports : ~(t = s /\ w = v) => Queued(t, w)' = Queued(t, w)
  BY <1>0, <1>1, SendQueues
<1>7. ASSUME NEW t \in Shards, NEW w \in Vports, ~(t = s /\ w = v) PROVE FlowAt(t, w)'
  BY <1>0, <1>3, <1>5, <1>6, <1>7, FlowSplit, FlowKept
<1>8. FlowAt(s, v)'
  <2> DEFINE q == unsent[s]
             r == Rest(s)
             M == Mine(s, v)
             a(i) == wire[v][i].seq
  <2>1. FlowAt(s, v)
    BY FlowSplit
  <2>2. /\ \A i, j \in M : i < j => a(i) < a(j)
        /\ \A i, j \in DOMAIN q : i < j => q[i].seq < q[j].seq
        /\ \A i \in M, j \in DOMAIN q : a(i) < q[j].seq
        /\ \A i \in M : a(i) < tx_seq[s][v]
        /\ \A i \in DOMAIN q : q[i].seq < tx_seq[s][v]
        /\ Cardinality(M) + Len(q) + lost[s][v] = tx_seq[s][v]
    BY <1>6, <2>1 DEF FlowAt
  <2>3. /\ k \in 1 .. Len(q) /\ Len(r) = Len(q) - k /\ Len(q) \in Nat
        /\ DOMAIN r = 1 .. Len(q) - k /\ DOMAIN q = 1 .. Len(q)
        /\ \A i \in 1 .. Len(q) - k : r[i] = q[k + i]
    BY <1>0, <1>2, RestIs
  <2>4. Cardinality(M) \in Nat /\ Mine(s, v)' = M
    BY <1>0, <1>3, MineFinite DEF Mine
  <2> HIDE DEF q, r, M, a
  <2>5. \A i \in 1 .. Len(q) - k : k + i \in DOMAIN q /\ r[i] = q[k + i]
    BY <2>3
  <2>6. \A i, j \in 1 .. Len(q) - k : i < j => r[i].seq < r[j].seq
    <3> SUFFICES ASSUME NEW i \in 1 .. Len(q) - k, NEW j \in 1 .. Len(q) - k, i < j
                 PROVE  r[i].seq < r[j].seq
      OBVIOUS
    <3>1. k + i < k + j
      BY <2>3
    <3>2. q[k + i].seq < q[k + j].seq
      BY <2>2, <2>5, <3>1
    <3> QED
      BY <2>5, <3>2
  <2>7. /\ \A i \in M, j \in 1 .. Len(q) - k : a(i) < r[j].seq
        /\ \A i \in 1 .. Len(q) - k : r[i].seq < tx_seq[s][v]
    BY <2>2, <2>5
  <2>8. Cardinality(M) + Len(r) + (lost[s][v] + k) = tx_seq[s][v]
    BY <1>4, <2>2, <2>3, <2>4
  <2> QED
    BY <1>0, <1>3, <1>5, <1>6, <2>2, <2>3, <2>4, <2>6, <2>7, <2>8 DEF FlowAt, a, r
<1> QED
  BY <1>7, <1>8, FlowSplit

LEMMA NextFlow == TInv /\ FlowNumbers /\ [Next]_vars => FlowNumbers'
<1> SUFFICES ASSUME TInv, FlowNumbers, [Next]_vars PROVE FlowNumbers'
  OBVIOUS
<1>0. TypeOK /\ \A t \in Shards, w \in Vports : FlowAt(t, w)
  BY FlowSplit DEF TInv
<1>1. ASSUME QueuesStay, UNCHANGED <<tx_seq, wire, lost>> PROVE FlowNumbers'
  BY <1>0, <1>1, FlowKept, FlowSplit DEF QueuesStay
<1>2. CASE Quiet
  BY <1>1, <1>2, QuietQueues DEF Quiet
<1>3. CASE UNCHANGED vars \/ RequestStop
  <2>1. Quiet
    BY <1>3 DEF Quiet, RequestStop, vars, queueVars, flushVars, countVars, histVars
  <2> QED
    BY <1>2, <2>1
<1>4. ASSUME NEW s \in Shards, ShardStep(s) PROVE FlowNumbers'
  <2>1. CASE StageFull(s) \/ FlushAll(s)
    <3>1. PICK v \in Vports : BeginFlush(s, v) /\ pc[s] # "flush"
      BY <1>0, <2>1, FlushBegins
    <3> QED
      BY <1>0, <1>1, <3>1, BeginFlushQueues DEF BeginFlush, queueVars, histVars
  <2>2. CASE FlushEnd(s)
    BY <1>1, <2>2, FlushEndQueues DEF FlushEnd, histVars
  <2>3. CASE SendFails(s, "would_block") \/ SendFails(s, "send_error")
    <3>1. PICK reason \in Counters : SendFails(s, reason)
      BY <2>3 DEF Counters
    <3> QED
      BY <3>1, LossFlow
  <2> QED
    BY <1>0, <1>2, <1>4, <2>1, <2>2, <2>3, QuietSteps, StageFlow, SendFlow DEF ShardStep
<1> QED
  BY <1>3, <1>4 DEF Next, Terminated

------------------------------------------------------------------------------
(* Credit: a vport's tx_pkts lags what was sent to it by exactly what the  *)
(* flushes under way have sent and not yet credited.                       *)
InFlight(v) == [s \in Shards |-> IF pc[s] = "flush" /\ egress[s] = v THEN sent[s] ELSE 0]

CreditInv == \A v \in Vports : tx_pkts[v] + SumFunction(InFlight(v)) = Len(wire[v])

LEMMA ShardsFinite == IsFiniteSet(Shards) /\ IsFiniteSet(Vports)
  BY ShardAssumption DEF ShardAssumption

LEMMA CountType ==
  /\ TypeOK => \A v \in Vports : tx_pkts[v] \in Nat /\ Len(wire[v]) \in Nat
  /\ TypeOK' => \A v \in Vports : tx_pkts'[v] \in Nat /\ Len(wire'[v]) \in Nat
<1>1. ASSUME TypeOK PROVE \A v \in Vports : tx_pkts[v] \in Nat /\ Len(wire[v]) \in Nat
  <2>1. tx_pkts \in [Vports -> Nat] /\ wire \in [Vports -> Seq(Sent)]
    BY <1>1 DEF TypeOK, Sent
  <2> QED
    BY <2>1
<1>2. ASSUME TypeOK' PROVE \A v \in Vports : tx_pkts'[v] \in Nat /\ Len(wire'[v]) \in Nat
  <2>1. tx_pkts' \in [Vports -> Nat] /\ wire' \in [Vports -> Seq(Sent)]
    BY <1>2 DEF TypeOK, Sent
  <2> QED
    BY <2>1
<1> QED
  BY <1>1, <1>2

LEMMA InFlightType ==
  ASSUME TypeOK, NEW v
  PROVE  InFlight(v) \in [Shards -> Nat] /\ SumFunction(InFlight(v)) \in Nat
<1>1. sent \in [Shards -> Nat]
  BY DEF TypeOK
<1>2. InFlight(v) \in [Shards -> Nat]
  BY <1>1 DEF InFlight
<1> QED
  BY <1>2, ShardsFinite, SumType

LEMMA NoneInFlight ==
  ASSUME TypeOK, NEW v, \A s \in Shards : pc[s] # "flush"
  PROVE  SumFunction(InFlight(v)) = 0
<1>1. InFlight(v) \in [Shards -> Nat] /\ \A s \in Shards : InFlight(v)[s] = 0
  BY InFlightType DEF InFlight
<1> QED
  BY <1>1, ShardsFinite, SumZero

LEMMA InitCredit == Init => CreditInv
<1> SUFFICES ASSUME Init, NEW v \in Vports
             PROVE  tx_pkts[v] + SumFunction(InFlight(v)) = Len(wire[v])
  BY DEF CreditInv
<1>1. TypeOK /\ \A s \in Shards : pc[s] # "flush"
  BY InitTInv DEF Init, TInv
<1>2. SumFunction(InFlight(v)) = 0 /\ tx_pkts[v] = 0 /\ wire[v] = <<>>
  BY <1>1, NoneInFlight DEF Init
<1> QED
  BY <1>2

LEMMA CreditExact == TInv /\ CreditInv => TxPktsExact
<1> SUFFICES ASSUME TInv, CreditInv, \A s \in Shards : pc[s] # "flush", NEW v \in Vports
             PROVE  tx_pkts[v] = Len(wire[v])
  BY DEF TxPktsExact
<1>1. SumFunction(InFlight(v)) = 0 /\ tx_pkts[v] \in Nat
  BY NoneInFlight DEF TInv, TypeOK
<1> QED
  BY <1>1 DEF CreditInv

LEMMA CreditKept ==
  ASSUME CreditInv, UNCHANGED <<tx_pkts, wire>>,
         \A t \in Shards, w \in Vports : InFlight(w)'[t] = InFlight(w)[t]
  PROVE  CreditInv'
<1> SUFFICES ASSUME NEW w \in Vports
             PROVE  (tx_pkts[w] + SumFunction(InFlight(w)) = Len(wire[w]))'
  BY DEF CreditInv
<1>1. InFlight(w)' = InFlight(w)
  BY DEF InFlight
<1>2. SumFunction(InFlight(w)') = SumFunction(InFlight(w))
  BY <1>1, Zenon
<1> QED
  BY <1>2 DEF CreditInv

(* One shard's share of what is in flight to one vport changes.            *)
LEMMA CreditMoves ==
  ASSUME TypeOK, TypeOK', CreditInv, NEW s \in Shards, NEW v \in Vports,
         \A t \in Shards, w \in Vports : ~(t = s /\ w = v) => InFlight(w)'[t] = InFlight(w)[t],
         \A w \in Vports \ {v} : tx_pkts'[w] = tx_pkts[w] /\ Len(wire'[w]) = Len(wire[w]),
         tx_pkts'[v] + InFlight(v)'[s] - Len(wire'[v]) = tx_pkts[v] + InFlight(v)[s] - Len(wire[v])
  PROVE  CreditInv'
<1> SUFFICES ASSUME NEW w \in Vports
             PROVE  (tx_pkts[w] + SumFunction(InFlight(w)) = Len(wire[w]))'
  BY DEF CreditInv
<1>1. tx_pkts[w] + SumFunction(InFlight(w)) = Len(wire[w])
  BY DEF CreditInv
<1>2. CASE w # v
  <2>1. InFlight(w)' = InFlight(w)
    BY <1>2 DEF InFlight
  <2>2. SumFunction(InFlight(w)') = SumFunction(InFlight(w))
    BY <2>1, Zenon
  <2> QED
    BY <1>1, <1>2, <2>2
<1>3. CASE w = v
  <2>1. PICK f : f = InFlight(v)
    OBVIOUS
  <2>2. PICK g : g = InFlight(v)'
    OBVIOUS
  <2>3. /\ f \in [Shards -> Nat] /\ SumFunction(f) \in Nat
        /\ tx_pkts[v] \in Nat /\ Len(wire[v]) \in Nat
    BY <2>1, InFlightType, CountType
  <2>4. tx_pkts'[v] \in Nat /\ Len(wire'[v]) \in Nat
    BY CountType
  <2>5. g \in [Shards -> Nat]
    <3>1. sent' \in [Shards -> Nat]
      BY DEF TypeOK
    <3> QED
      BY <2>2, <3>1 DEF InFlight
  <2>6. \A t \in Shards \ {s} : g[t] = f[t]
    BY <2>1, <2>2
  <2>7. tx_pkts'[v] + g[s] - Len(wire'[v]) = tx_pkts[v] + f[s] - Len(wire[v])
    BY <2>1, <2>2
  <2>8. SumFunction(g) = SumFunction(f) + g[s] - f[s]
    BY <2>3, <2>5, <2>6, ShardsFinite, SumUpdate, SMTT(30)
  <2>9. f[s] \in Nat /\ g[s] \in Nat
    BY <2>3, <2>5
  <2>10. tx_pkts[v] + SumFunction(f) = Len(wire[v])
    BY <1>1, <1>3, <2>1
  <2>11. PICK p \in Nat, q \in Nat, l \in Nat, m \in Nat :
           p = tx_pkts[v] /\ q = tx_pkts'[v] /\ l = Len(wire[v]) /\ m = Len(wire'[v])
    BY <2>3, <2>4
  <2>12. PICK a \in Nat, b \in Nat, x \in Nat : a = f[s] /\ b = g[s] /\ x = SumFunction(f)
    BY <2>3, <2>9
  <2>13. q + b - m = p + a - l
    BY <2>7, <2>11, <2>12, Zenon
  <2>14. p + x = l
    BY <2>10, <2>11, <2>12, Zenon
  <2>15. q + (x + b - a) = m
    BY <2>13, <2>14
  <2>16. SumFunction(g) = x + b - a
    BY <2>8, <2>12, Zenon
  <2> QED
    BY <1>3, <2>2, <2>11, <2>15, <2>16, Zenon
<1> QED
  BY <1>2, <1>3

LEMMA NextCredit == TInv /\ TInv' /\ CreditInv /\ [Next]_vars => CreditInv'
<1> SUFFICES ASSUME TInv, TInv', CreditInv, [Next]_vars PROVE CreditInv'
  OBVIOUS
<1>0. TypeOK /\ TypeOK' /\ pc \in [Shards -> Labels] /\ sent \in [Shards -> Nat]
      /\ egress \in [Shards -> Vports \cup {Unknown}]
  BY DEF TInv, TypeOK
<1>1. ASSUME UNCHANGED <<tx_pkts, wire, egress, sent>>,
             \A t \in Shards : pc'[t] = "flush" <=> pc[t] = "flush"
      PROVE  CreditInv'
  <2>1. \A t \in Shards, w \in Vports : InFlight(w)'[t] = InFlight(w)[t]
    BY <1>1 DEF InFlight
  <2> QED
    BY <1>1, <2>1, CreditKept
<1>2. CASE Quiet
  BY <1>1, <1>2 DEF Quiet
<1>3. CASE UNCHANGED vars \/ RequestStop
  <2>1. Quiet
    BY <1>3 DEF Quiet, RequestStop, vars, queueVars, flushVars, countVars, histVars
  <2> QED
    BY <1>2, <2>1
<1>4. ASSUME NEW s \in Shards, ShardStep(s) PROVE CreditInv'
  <2>1. CASE Stage(s)
    BY <1>1, <2>1 DEF Stage, flushVars, countVars, histVars
  <2>2. CASE StageFull(s) \/ FlushAll(s)
    <3>1. PICK v \in Vports : BeginFlush(s, v) /\ pc[s] # "flush"
      BY <1>0, <2>2, FlushBegins
    <3>2. /\ pc' = [pc EXCEPT ![s] = "flush"] /\ egress' = [egress EXCEPT ![s] = v]
          /\ sent' = [sent EXCEPT ![s] = 0] /\ UNCHANGED <<tx_pkts, wire>>
      BY <3>1 DEF BeginFlush, Goto, countVars, histVars
    <3>3. sent'[s] = 0 /\ \A t \in Shards \ {s} :
             pc'[t] = pc[t] /\ egress'[t] = egress[t] /\ sent'[t] = sent[t]
      BY <1>0, <3>2
    <3>4. \A t \in Shards, w \in Vports : InFlight(w)'[t] = InFlight(w)[t]
      BY <3>1, <3>3 DEF InFlight
    <3> QED
      BY <3>2, <3>4, CreditKept
  <2>3. CASE SendRun(s)
    <3>1. /\ pc[s] = "flush" /\ unsent[s] # <<>> /\ egress[s] \in Vports
          /\ pc' = pc /\ egress' = egress
          /\ wire' = [wire EXCEPT ![egress[s]] = @ \o Out(s)]
      BY <2>3, SendTakes
    <3>2. PICK v \in Vports : v = egress[s]
      BY <3>1
    <3>3. wire' = [wire EXCEPT ![v] = @ \o Out(s)]
      BY <3>1, <3>2
    <3>4. Appended(s, v, Len(wire[v]), Len(Run(s)))
      BY <1>0, <3>1, <3>3, RunAppended
    <3>5. /\ Len(Run(s)) \in Nat /\ Len(wire[v]) \in Nat
          /\ Len(wire'[v]) = Len(wire[v]) + Len(Run(s))
          /\ \A w \in Vports \ {v} : wire'[w] = wire[w]
      BY <3>4 DEF Appended
    <3>6. tx_pkts' = tx_pkts /\ sent' = [sent EXCEPT ![s] = @ + Len(Run(s))]
      BY <2>3 DEF SendRun, countVars
    <3>7. sent'[s] = sent[s] + Len(Run(s)) /\ \A t \in Shards \ {s} : sent'[t] = sent[t]
      BY <1>0, <3>6
    <3>8. \A t \in Shards, w \in Vports : ~(t = s /\ w = v) => InFlight(w)'[t] = InFlight(w)[t]
      BY <3>1, <3>2, <3>7 DEF InFlight
    <3>9. InFlight(v)'[s] = sent[s] + Len(Run(s)) /\ InFlight(v)[s] = sent[s]
      BY <3>1, <3>2, <3>7 DEF InFlight
    <3>10. tx_pkts'[v] + InFlight(v)'[s] - Len(wire'[v])
             = tx_pkts[v] + InFlight(v)[s] - Len(wire[v])
      <4>1. sent[s] \in Nat /\ tx_pkts[v] \in Nat /\ tx_pkts'[v] = tx_pkts[v]
        BY <1>0, <3>6 DEF TypeOK
      <4> QED
        BY <3>5, <3>9, <4>1
    <3> QED
      BY <1>0, <3>5, <3>6, <3>8, <3>10, CreditMoves
  <2>4. CASE SendFails(s, "would_block") \/ SendFails(s, "send_error")
    BY <1>1, <2>4 DEF SendFails
  <2>5. CASE FlushEnd(s)
    <3>1. /\ pc[s] = "flush" /\ egress[s] \in Vports /\ back[s] # "flush"
      BY <2>5 DEF TInv, ControlInv, FlushEnd
    <3>2. PICK v \in Vports : v = egress[s]
      BY <3>1
    <3>3. /\ pc' = [pc EXCEPT ![s] = back[s]] /\ egress' = [egress EXCEPT ![s] = Unknown]
          /\ sent' = [sent EXCEPT ![s] = 0] /\ wire' = wire
          /\ tx_pkts' = [tx_pkts EXCEPT ![v] = @ + sent[s]]
      BY <2>5, <3>2 DEF FlushEnd, Goto, histVars
    <3>4. /\ pc'[s] # "flush"
          /\ \A t \in Shards \ {s} :
               pc'[t] = pc[t] /\ egress'[t] = egress[t] /\ sent'[t] = sent[t]
      BY <1>0, <3>1, <3>3
    <3>5. \A t \in Shards, w \in Vports : ~(t = s /\ w = v) => InFlight(w)'[t] = InFlight(w)[t]
      BY <3>1, <3>2, <3>4 DEF InFlight
    <3>6. InFlight(v)'[s] = 0 /\ InFlight(v)[s] = sent[s]
      BY <3>1, <3>2, <3>4 DEF InFlight
    <3>7. tx_pkts \in [Vports -> Nat] /\ sent[s] \in Nat /\ Len(wire[v]) \in Nat
      BY <1>0, CountType DEF TypeOK
    <3>8. /\ tx_pkts'[v] = tx_pkts[v] + sent[s] /\ tx_pkts[v] \in Nat
          /\ \A w \in Vports \ {v} : tx_pkts'[w] = tx_pkts[w]
      BY <3>3, <3>7
    <3>9. tx_pkts'[v] + InFlight(v)'[s] - Len(wire'[v])
             = tx_pkts[v] + InFlight(v)[s] - Len(wire[v])
      BY <3>3, <3>6, <3>7, <3>8
    <3> QED
      BY <1>0, <3>3, <3>5, <3>8, <3>9, CreditMoves
  <2> QED
    BY <1>0, <1>2, <1>4, <2>1, <2>2, <2>3, <2>4, <2>5, QuietSteps DEF ShardStep
<1> QED
  BY <1>3, <1>4 DEF Next, Terminated

------------------------------------------------------------------------------
(* Frames.  The two sums of FrameConservation, by their summands.          *)
QueueLens(s) == [v \in Vports |-> Len(Queued(s, v)) + lost[s][v]]
CopiesOf == [s \in Shards |-> Cardinality(targets[s]) + SumFunction(QueueLens(s))]
WireLens == [v \in Vports |-> Len(wire[v])]
PendingOf == [s \in Shards |-> Pending(reads[s])]

Accepted == SumFunction(rx_pkts)
Floods == SumFunction(tx_broadcast)
Refused == ctr["engine_drop"] + ctr["oversize"] + ctr["unconfigured"]
             + ctr["overflow"] + ctr["unknown_port"] + punted

InBalance ==
  received = ctr["unknown_peer"] + ctr["bad_header"] + Accepted + SumFunction(PendingOf)
OutBalance ==
  Accepted - Refused - Floods + Floods * (Cardinality(Vports) - 1)
    = SumFunction(CopiesOf) + SumFunction(WireLens)

LEMMA FrameSplit == FrameConservation <=> InBalance /\ OutBalance
  BY Zenon DEF FrameConservation, InBalance, OutBalance, PerShard, PerVport, QueueLens, CopiesOf,
               WireLens, PendingOf, Accepted, Floods, Refused

Summable ==
  /\ PendingOf \in [Shards -> Nat]
  /\ WireLens \in [Vports -> Nat]
  /\ \A s \in Shards : QueueLens(s) \in [Vports -> Nat]
  /\ CopiesOf \in [Shards -> Nat]

LEMMA Summands == TypeOK => Summable
<1> SUFFICES ASSUME TypeOK PROVE Summable
  OBVIOUS
<1>1. PendingOf \in [Shards -> Nat]
  <2>1. \A s \in Shards : Pending(reads[s]) \in Nat
    BY PendingType DEF TypeOK
  <2> QED
    BY <2>1 DEF PendingOf
<1>2. WireLens \in [Vports -> Nat]
  BY CountType DEF WireLens
<1>3. ASSUME NEW s \in Shards PROVE QueueLens(s) \in [Vports -> Nat]
  <2>1. \A v \in Vports : Len(Queued(s, v)) \in Nat
    <3> TAKE v \in Vports
    <3>1. Queued(s, v) \in Seq(Segs)
      BY QueuedType
    <3> QED
      BY <3>1
  <2>2. \A v \in Vports : lost[s][v] \in Nat
    BY DEF TypeOK
  <2> QED
    BY <2>1, <2>2 DEF QueueLens
<1>4. ASSUME NEW s \in Shards PROVE Cardinality(targets[s]) + SumFunction(QueueLens(s)) \in Nat
  <2>1. SumFunction(QueueLens(s)) \in Nat
    BY <1>3, ShardsFinite, SumType
  <2>2. targets[s] \in SUBSET Vports
    BY DEF TypeOK
  <2>3. Cardinality(targets[s]) \in Nat
    BY <2>2, ShardsFinite, FS_Subset, FS_CardinalityType
  <2> QED
    BY <2>1, <2>3
<1>5. CopiesOf \in [Shards -> Nat]
  BY <1>4 DEF CopiesOf
<1> QED
  BY <1>1, <1>2, <1>3, <1>5 DEF Summable

LEMMA SummandsNext == TypeOK' => Summable'
  BY Summands, PTL

LEMMA Increment ==
  ASSUME NEW S, IsFiniteSet(S), NEW f \in [S -> Nat], NEW x \in S
  PROVE  SumFunction([f EXCEPT ![x] = @ + 1]) = SumFunction(f) + 1
<1>1. PICK g : g = [f EXCEPT ![x] = @ + 1]
  OBVIOUS
<1>2. g \in [S -> Nat] /\ g[x] = f[x] + 1 /\ f[x] \in Nat /\ \A y \in S \ {x} : g[y] = f[y]
  BY <1>1
<1>3. SumFunction(g) = SumFunction(f) + g[x] - f[x]
  BY <1>2, SumUpdate
<1>4. SumFunction(f) \in Nat
  BY SumType
<1>5. SumFunction(g) = SumFunction(f) + 1
  BY <1>2, <1>3, <1>4
<1> QED
  BY <1>1, <1>5

(* The reads of one batch.                                                 *)
LEMMA PendingNone == Pending(<<>>) = 0
<1>1. PICK f : f = [i \in DOMAIN <<>> |-> <<>>[i].left]
  OBVIOUS
<1>2. DOMAIN <<>> = {}
  OBVIOUS
<1>3. f \in [{} -> Nat] /\ \A x \in {} : f[x] = 0
  BY <1>1, <1>2
<1>4. SumFunction(f) = 0
  BY <1>3, SumZero, FS_EmptySet
<1> QED
  BY <1>1, <1>4, Zenon DEF Pending

LEMMA PendingTail ==
  ASSUME NEW q \in Seq(Reads), q # <<>>
  PROVE  Pending(q) = q[1].left + Pending(Tail(q))
<1>1. PICK f : f = [i \in DOMAIN q |-> q[i].left]
  OBVIOUS
<1>2. PICK g : g = [i \in DOMAIN Tail(q) |-> Tail(q)[i].left]
  OBVIOUS
<1>3. PICK n \in Nat : Len(q) = n + 1
  <2>1. Len(q) \in Nat /\ Len(q) > 0
    BY ReadIs
  <2>2. Len(q) - 1 \in Nat /\ Len(q) = (Len(q) - 1) + 1
    BY <2>1
  <2> QED
    BY <2>2
<1>4. /\ Tail(q) \in Seq(Reads) /\ Len(Tail(q)) = n
      /\ DOMAIN q = 1 .. n + 1 /\ DOMAIN Tail(q) = 1 .. n
      /\ \A i \in 1 .. n : Tail(q)[i] = q[i + 1]
  BY <1>3, ReadIs
<1>5. f \in [1 .. n + 1 -> Nat] /\ g \in [1 .. n -> Nat]
  BY <1>1, <1>2, <1>3, <1>4, PendingType
<1>6. \A i \in 1 .. n : g[i] = f[i + 1]
  BY <1>1, <1>2, <1>4
<1>7. SumFunction(f) = f[1] + SumFunction(g)
  BY <1>5, <1>6, SumTail
<1>8. f[1] = q[1].left
  BY <1>1, <1>4
<1> QED
  BY <1>1, <1>2, <1>7, <1>8, Zenon DEF Pending

LEMMA PendingTakes ==
  ASSUME NEW q \in Seq(Reads), q # <<>>, NEW p \in Seq(Reads),
         q[1].left > 0, p = [q EXCEPT ![1] = [q[1] EXCEPT !.left = @ - 1]]
  PROVE  Pending(q) = Pending(p) + 1
<1>1. PICK f : f = [i \in DOMAIN q |-> q[i].left]
  OBVIOUS
<1>2. PICK g : g = [i \in DOMAIN p |-> p[i].left]
  OBVIOUS
<1>3. /\ Len(q) \in Nat /\ Len(q) > 0 /\ q[1].left \in Nat
      /\ DOMAIN q = 1 .. Len(q) /\ q[1] \in Reads
  BY ReadIs, BoundsAreNat
<1>4. DOMAIN p = 1 .. Len(q) /\ Len(p) = Len(q)
  BY <1>3
<1>5. p[1].left = q[1].left - 1 /\ \A i \in (1 .. Len(q)) \ {1} : p[i] = q[i]
  BY <1>3 DEF Reads
<1>6. f \in [1 .. Len(q) -> Nat] /\ g \in [1 .. Len(q) -> Nat] /\ IsFiniteSet(1 .. Len(q))
  BY <1>1, <1>2, <1>4, PendingType
<1>7. 1 \in 1 .. Len(q) /\ f[1] = q[1].left /\ g[1] = q[1].left - 1
      /\ \A i \in (1 .. Len(q)) \ {1} : g[i] = f[i]
  BY <1>1, <1>2, <1>3, <1>4, <1>5
<1>8. SumFunction(g) = SumFunction(f) + g[1] - f[1]
  <2>1. PICK S : S = 1 .. Len(q)
    OBVIOUS
  <2>2. f \in [S -> Nat] /\ g \in [S -> Nat] /\ IsFiniteSet(S) /\ 1 \in S
        /\ \A i \in S \ {1} : g[i] = f[i]
    BY <1>6, <1>7, <2>1
  <2> QED
    BY <2>2, SumUpdate, SMTT(30)
<1>9. SumFunction(f) \in Nat
  BY <1>6, SumType
<1>10. SumFunction(f) = SumFunction(g) + 1
  BY <1>3, <1>7, <1>8, <1>9
<1> QED
  BY <1>1, <1>2, <1>10, Zenon DEF Pending

LEMMA InMoves ==
  ASSUME TypeOK, TypeOK', InBalance, NEW s \in Shards,
         \A t \in Shards \ {s} : reads'[t] = reads[t],
         NEW n \in Nat, NEW u \in Nat, NEW b \in Nat, NEW a \in Nat,
         received' = received + n, Accepted' = Accepted + a,
         ctr'["unknown_peer"] = ctr["unknown_peer"] + u,
         ctr'["bad_header"] = ctr["bad_header"] + b,
         Pending(reads[s]) + n = Pending(reads'[s]) + u + b + a
  PROVE  InBalance'
<1>1. PICK f : f = PendingOf
  OBVIOUS
<1>2. PICK g : g = PendingOf'
  OBVIOUS
<1>3. f \in [Shards -> Nat] /\ g \in [Shards -> Nat]
  BY <1>1, <1>2, Summands, SummandsNext DEF Summable
<1>4. f[s] = Pending(reads[s]) /\ g[s] = Pending(reads'[s]) /\ \A t \in Shards \ {s} : g[t] = f[t]
  BY <1>1, <1>2 DEF PendingOf
<1>5. SumFunction(g) = SumFunction(f) + g[s] - f[s]
  BY <1>3, <1>4, ShardsFinite, SumUpdate
<1>6. /\ ctr["unknown_peer"] \in Nat /\ ctr["bad_header"] \in Nat /\ rx_pkts \in [Vports -> Nat]
      /\ received \in Nat
  BY DEF TypeOK, Counters
<1>7. Accepted \in Nat /\ SumFunction(f) \in Nat /\ f[s] \in Nat /\ g[s] \in Nat
  BY <1>3, <1>6, ShardsFinite, SumType DEF Accepted
<1>8. PICK r \in Nat, up \in Nat, bh \in Nat, acc \in Nat, x \in Nat, old \in Nat, new \in Nat :
        /\ r = received /\ up = ctr["unknown_peer"] /\ bh = ctr["bad_header"] /\ acc = Accepted
        /\ x = SumFunction(f) /\ old = f[s] /\ new = g[s]
  BY <1>6, <1>7
<1>9. r = up + bh + acc + x
  BY <1>1, <1>8, Zenon DEF InBalance
<1>10. old + n = new + u + b + a
  BY <1>4, <1>8, Zenon
<1>11. r + n = (up + u) + (bh + b) + (acc + a) + (x + new - old)
  BY <1>9, <1>10
<1>12. SumFunction(PendingOf') = x + new - old
  BY <1>2, <1>5, <1>8, Zenon
<1>13. /\ received' = r + n /\ Accepted' = acc + a
       /\ ctr'["unknown_peer"] = up + u /\ ctr'["bad_header"] = bh + b
  BY <1>8, Zenon
<1> QED
  BY <1>11, <1>12, <1>13, Zenon DEF InBalance

(* The pipeline's and the fabric's reasons to go no further.               *)
Reasons == {"engine_drop", "oversize", "unconfigured", "overflow", "unknown_port"}

LEMMA SegmentIs ==
  ASSUME NEW s \in Shards, Segment(s)
  PROVE  \/ BadHeader(s) \/ Punt(s) \/ (\E reason \in Reasons : Discard(s, reason))
         \/ \E len \in Lens : Broadcast(s, len) \/ \E port \in Vports : Forward(s, len, port)
  BY DEF Segment, Reasons

LEMMA AcceptedGrows ==
  ASSUME TypeOK, NEW s \in Shards, Accept(s)
  PROVE  Accepted' = Accepted + 1
<1>1. PICK v \in Vports : v = reads[s][1].from
  BY AcceptIs
<1>2. rx_pkts \in [Vports -> Nat]
  BY DEF TypeOK
<1>3. rx_pkts' = [rx_pkts EXCEPT ![v] = @ + 1]
  BY <1>1 DEF Accept
<1>4. SumFunction([rx_pkts EXCEPT ![v] = @ + 1]) = SumFunction(rx_pkts) + 1
  BY <1>2, ShardsFinite, Increment
<1> QED
  BY <1>3, <1>4, Zenon DEF Accepted

LEMMA TakePending ==
  ASSUME TypeOK, NEW s \in Shards, HasSegment(s), TakeSegment(s)
  PROVE  /\ Pending(reads[s]) = Pending(reads'[s]) + 1
         /\ \A t \in Shards \ {s} : reads'[t] = reads[t]
<1>1. reads \in [Shards -> Seq(Reads)] /\ reads[s] # <<>> /\ reads[s][1].left > 0
  BY DEF TypeOK, HasSegment
<1>2. PICK r : r = [reads[s][1] EXCEPT !.left = @ - 1]
  OBVIOUS
<1>3. reads' = [reads EXCEPT ![s] = [@ EXCEPT ![1] = r]] /\ reads' \in [Shards -> Seq(Reads)]
  BY <1>2, TakeIs
<1>4. reads'[s] = [reads[s] EXCEPT ![1] = r] /\ \A t \in Shards \ {s} : reads'[t] = reads[t]
  BY <1>1, <1>3
<1>5. PICK q \in Seq(Reads) : q = reads[s]
  BY <1>1
<1>6. PICK p \in Seq(Reads) : p = reads'[s]
  BY <1>3
<1>7. q # <<>> /\ q[1].left > 0 /\ p = [q EXCEPT ![1] = [q[1] EXCEPT !.left = @ - 1]]
  BY <1>1, <1>2, <1>4, <1>5, <1>6
<1>8. Pending(q) = Pending(p) + 1
  BY <1>7, PendingTakes
<1> QED
  BY <1>4, <1>5, <1>6, <1>8

LEMMA NextIn == TInv /\ TInv' /\ InBalance /\ [Next]_vars => InBalance'
<1> SUFFICES ASSUME TInv, TInv', InBalance, [Next]_vars PROVE InBalance'
  OBVIOUS
<1>0. TypeOK /\ TypeOK' /\ reads \in [Shards -> Seq(Reads)] /\ ctr \in [Counters -> Nat]
      /\ pc \in [Shards -> Labels]
  BY DEF TInv, TypeOK
<1>1. ASSUME UNCHANGED <<reads, received, rx_pkts>>,
             ctr'["unknown_peer"] = ctr["unknown_peer"], ctr'["bad_header"] = ctr["bad_header"]
      PROVE  InBalance'
  <2>1. PendingOf' = PendingOf /\ Accepted' = Accepted
    BY <1>1 DEF PendingOf, Accepted
  <2> QED
    BY <1>1, <2>1, Zenon DEF InBalance
<1>2. CASE UNCHANGED vars \/ RequestStop
  BY <1>1, <1>2 DEF RequestStop, vars, localVars, countVars, histVars
<1>3. ASSUME NEW s \in Shards, ShardStep(s) PROVE InBalance'
  <2> USE DEF localVars, countVars, histVars
  <2>1. CASE \/ Poll(s) \/ RecvTimeout(s) \/ RecvError(s) \/ StopSeen(s) \/ BatchDone(s)
             \/ Stage(s) \/ Staged(s) \/ FlushedAll(s) \/ FlushEnd(s)
    BY <1>1, <2>1 DEF Poll, RecvTimeout, RecvError, StopSeen, BatchDone, Stage, Staged,
                      FlushedAll, FlushEnd
  <2>2. CASE StageFull(s) \/ FlushAll(s) \/ SendRun(s)
    BY <1>1, <2>2 DEF StageFull, FlushAll, BeginFlush, SendRun
  <2>3. CASE SendFails(s, "would_block") \/ SendFails(s, "send_error")
    BY <1>0, <1>1, <2>3 DEF SendFails, Bump, Counters
  <2>4. CASE Recv(s)
    <3>1. PICK n \in 1 .. RxBatch : \E batch \in [1 .. n -> Reads] :
            reads' = [reads EXCEPT ![s] = batch] /\ received' = received + Pending(batch)
      BY <2>4 DEF Recv
    <3>2. PICK batch \in [1 .. n -> Reads] :
            reads' = [reads EXCEPT ![s] = batch] /\ received' = received + Pending(batch)
      BY <3>1
    <3>3. batch \in Seq(Reads)
      BY BoundsAreNat
    <3>4. PICK k \in Nat : k = Pending(batch)
      BY <3>3, PendingType
    <3>5. reads[s] = <<>>
      BY <2>4 DEF TInv, ControlInv, InStage, Recv
    <3>6. reads'[s] = batch /\ \A t \in Shards \ {s} : reads'[t] = reads[t]
      BY <1>0, <3>2
    <3>7. Pending(reads[s]) = 0 /\ Pending(reads'[s]) = k
      BY <3>4, <3>5, <3>6, PendingNone
    <3>8. received' = received + k /\ rx_pkts' = rx_pkts /\ ctr' = ctr
      BY <2>4, <3>2, <3>4 DEF Recv
    <3>9. rx_pkts \in [Vports -> Nat] /\ ctr["unknown_peer"] \in Nat /\ ctr["bad_header"] \in Nat
      BY <1>0 DEF TypeOK, Counters
    <3>10. Accepted' = Accepted + 0 /\ ctr'["unknown_peer"] = ctr["unknown_peer"] + 0
           /\ ctr'["bad_header"] = ctr["bad_header"] + 0
      <4>1. Accepted' = Accepted /\ Accepted \in Nat
        BY <3>8, <3>9, ShardsFinite, SumType DEF Accepted
      <4> QED
        BY <3>8, <3>9, <4>1
    <3>11. Pending(reads[s]) + k = Pending(reads'[s]) + 0 + 0 + 0
      BY <3>7
    <3> QED
      BY <1>0, <3>6, <3>8, <3>10, <3>11, InMoves
  <2>5. ASSUME NEW u \in Nat, \A t \in Shards \ {s} : reads'[t] = reads[t],
               reads[s] # <<>>, reads[s][1].left = u, reads' = [reads EXCEPT ![s] = Tail(@)],
               ctr'["unknown_peer"] = ctr["unknown_peer"] + u,
               ctr'["bad_header"] = ctr["bad_header"], rx_pkts' = rx_pkts, received' = received
        PROVE  InBalance'
    <3>1. reads[s] \in Seq(Reads) /\ reads'[s] = Tail(reads[s])
      BY <1>0, <2>5
    <3>2. Pending(reads[s]) = u + Pending(reads'[s])
      BY <2>5, <3>1, PendingTail
    <3>3. Pending(reads'[s]) \in Nat
      BY <2>5, <3>1, ReadIs, PendingType
    <3>4. Pending(reads[s]) + 0 = Pending(reads'[s]) + u + 0 + 0
      BY <3>2, <3>3
    <3>5. rx_pkts \in [Vports -> Nat] /\ ctr["bad_header"] \in Nat /\ received \in Nat
      BY <1>0 DEF TypeOK, Counters
    <3>6. Accepted' = Accepted /\ Accepted \in Nat
      BY <2>5, <3>5, ShardsFinite, SumType DEF Accepted
    <3>7. Accepted' = Accepted + 0 /\ ctr'["bad_header"] = ctr["bad_header"] + 0
          /\ received' = received + 0
      BY <2>5, <3>5, <3>6
    <3> QED
      BY <1>0, <2>5, <3>4, <3>7, InMoves
  <2>6. CASE NextRead(s)
    <3>1. ctr["unknown_peer"] \in Nat
      BY <1>0 DEF Counters
    <3>2. ctr'["unknown_peer"] = ctr["unknown_peer"] + 0 /\ 0 \in Nat
      BY <2>6, <3>1 DEF NextRead
    <3> QED
      BY <1>0, <2>5, <2>6, <3>2 DEF NextRead
  <2>7. CASE UnknownPeer(s)
    <3>1. reads[s] \in Seq(Reads) /\ reads[s] # <<>>
      BY <1>0, <2>7 DEF UnknownPeer
    <3>2. PICK u \in Nat : u = reads[s][1].left
      BY <3>1, ReadIs, BoundsAreNat
    <3>3. ctr'["unknown_peer"] = ctr["unknown_peer"] + u /\ ctr'["bad_header"] = ctr["bad_header"]
      BY <1>0, <2>7, <3>2 DEF UnknownPeer, Bump, Counters
    <3> QED
      BY <1>0, <2>5, <2>7, <3>1, <3>2, <3>3 DEF UnknownPeer
  <2>8. ASSUME NEW b \in {0, 1}, HasSegment(s), TakeSegment(s), received' = received,
               ctr'["unknown_peer"] = ctr["unknown_peer"],
               ctr'["bad_header"] = ctr["bad_header"] + b, Accepted' = Accepted + (1 - b)
        PROVE  InBalance'
    <3>1. /\ Pending(reads[s]) = Pending(reads'[s]) + 1
          /\ \A t \in Shards \ {s} : reads'[t] = reads[t]
      BY <1>0, <2>8, TakePending
    <3>2. PICK a \in Nat : a = 1 - b
      BY <2>8
    <3>3. ctr["unknown_peer"] \in Nat /\ received \in Nat /\ b \in Nat
      BY <1>0, <2>8 DEF TypeOK, Counters
    <3>4. ctr'["unknown_peer"] = ctr["unknown_peer"] + 0 /\ received' = received + 0
          /\ Accepted' = Accepted + a
      BY <2>8, <3>2, <3>3
    <3>5. Pending(reads'[s]) \in Nat
      BY <1>0, PendingType DEF TypeOK
    <3>6. Pending(reads[s]) + 0 = Pending(reads'[s]) + 0 + b + a
      BY <3>1, <3>2, <3>3, <3>5
    <3> QED
      BY <1>0, <2>8, <3>1, <3>3, <3>4, <3>6, InMoves
  <2>9. CASE BadHeader(s)
    <3>1. rx_pkts \in [Vports -> Nat] /\ rx_pkts' = rx_pkts
      BY <1>0, <2>9 DEF TypeOK, BadHeader
    <3>2. Accepted' = Accepted /\ Accepted \in Nat
      BY <3>1, ShardsFinite, SumType DEF Accepted
    <3>3. Accepted' = Accepted + (1 - 1)
      BY <3>2
    <3>4. ctr'["bad_header"] = ctr["bad_header"] + 1 /\ ctr'["unknown_peer"] = ctr["unknown_peer"]
      BY <1>0, <2>9 DEF BadHeader, Bump, Counters
    <3> QED
      BY <2>8, <2>9, <3>3, <3>4 DEF BadHeader
  <2>10. ASSUME Accept(s), received' = received, ctr'["unknown_peer"] = ctr["unknown_peer"],
                ctr'["bad_header"] = ctr["bad_header"]
         PROVE  InBalance'
    <3>1. Accepted' = Accepted + (1 - 0)
      BY <1>0, <2>10, AcceptedGrows
    <3>2. ctr'["bad_header"] = ctr["bad_header"] + 0
      BY <1>0, <2>10 DEF Counters
    <3> QED
      BY <2>8, <2>10, <3>1, <3>2 DEF Accept
  <2>11. ASSUME NEW reason \in Reasons, Discard(s, reason) PROVE InBalance'
    BY <1>0, <2>10, <2>11 DEF Discard, Bump, Reasons, Counters
  <2>12. CASE Punt(s)
    BY <2>10, <2>12 DEF Punt
  <2>13. ASSUME NEW len \in Lens, Broadcast(s, len) \/ \E port \in Vports : Forward(s, len, port)
         PROVE  InBalance'
    BY <2>10, <2>13 DEF Broadcast, Forward
  <2>14. CASE Segment(s)
    BY <2>9, <2>11, <2>12, <2>13, <2>14, SegmentIs
  <2> QED
    BY <1>3, <2>1, <2>2, <2>3, <2>4, <2>6, <2>7, <2>14 DEF ShardStep
<1> QED
  BY <1>2, <1>3 DEF Next, Terminated

LEMMA CountsAreNat ==
  TypeOK => /\ Accepted \in Nat /\ Floods \in Nat /\ Refused \in Nat
            /\ Cardinality(Vports) \in Nat
<1> SUFFICES ASSUME TypeOK
             PROVE  /\ Accepted \in Nat /\ Floods \in Nat /\ Refused \in Nat
                    /\ Cardinality(Vports) \in Nat
  OBVIOUS
<1>1. /\ rx_pkts \in [Vports -> Nat] /\ tx_broadcast \in [Vports -> Nat]
      /\ ctr \in [Counters -> Nat] /\ punted \in Nat
  BY DEF TypeOK
<1>2. Accepted \in Nat /\ Floods \in Nat
  BY <1>1, ShardsFinite, SumType DEF Accepted, Floods
<1>3. Refused \in Nat
  BY <1>1 DEF Refused, Counters
<1> QED
  BY <1>2, <1>3, ShardsFinite, FS_CardinalityType

LEMMA OutMoves ==
  ASSUME TypeOK, TypeOK', OutBalance, NEW s \in Shards,
         \A t \in Shards \ {s} : CopiesOf'[t] = CopiesOf[t],
         NEW a \in Nat, NEW r \in Nat, NEW f \in {0, 1}, NEW w \in Nat,
         Accepted' = Accepted + a, Refused' = Refused + r, Floods' = Floods + f,
         SumFunction(WireLens') = SumFunction(WireLens) + w,
         CopiesOf'[s] + w = CopiesOf[s] + a - r - f + f * (Cardinality(Vports) - 1)
  PROVE  OutBalance'
<1>1. PICK p : p = CopiesOf
  OBVIOUS
<1>2. PICK q : q = CopiesOf'
  OBVIOUS
<1>3. p \in [Shards -> Nat] /\ q \in [Shards -> Nat] /\ \A t \in Shards \ {s} : q[t] = p[t]
  BY <1>1, <1>2, Summands, SummandsNext DEF Summable
<1>4. SumFunction(q) = SumFunction(p) + q[s] - p[s]
  BY <1>3, ShardsFinite, SumUpdate
<1>5. SumFunction(p) \in Nat /\ p[s] \in Nat /\ q[s] \in Nat
  BY <1>3, ShardsFinite, SumType
<1>6. SumFunction(WireLens) \in Nat
  BY Summands, ShardsFinite, SumType DEF Summable
<1>7. PICK acc \in Nat, ref \in Nat, fl \in Nat, n \in Nat :
        acc = Accepted /\ ref = Refused /\ fl = Floods /\ n = Cardinality(Vports)
  BY CountsAreNat
<1>8. PICK x \in Nat, old \in Nat, new \in Nat, y \in Nat :
        x = SumFunction(p) /\ old = p[s] /\ new = q[s] /\ y = SumFunction(WireLens)
  BY <1>5, <1>6
<1>9. acc - ref - fl + fl * (n - 1) = x + y
  BY <1>1, <1>7, <1>8, Zenon DEF OutBalance
<1>10. new + w = old + a - r - f + f * (n - 1)
  BY <1>1, <1>2, <1>7, <1>8, Zenon
<1>11. (acc + a) - (ref + r) - (fl + f) + (fl + f) * (n - 1) = (x + new - old) + (y + w)
  <2>1. CASE f = 0
    <3>1. new + w = old + a - r
      BY <1>10, <2>1
    <3> QED
      BY <1>9, <2>1, <3>1
  <2>2. CASE f = 1
    <3>1. new + w = old + a - r - 1 + (n - 1)
      BY <1>10, <2>2
    <3>2. (fl + 1) * (n - 1) = fl * (n - 1) + (n - 1) /\ fl * (n - 1) \in Int
      OBVIOUS
    <3>3. PICK m \in Int : m = fl * (n - 1)
      BY <3>2
    <3> QED
      BY <1>9, <2>2, <3>1, <3>2, <3>3
  <2> QED
    BY <2>1, <2>2
<1>12. SumFunction(CopiesOf') = x + new - old
  BY <1>2, <1>4, <1>8, Zenon
<1>13. /\ Accepted' = acc + a /\ Refused' = ref + r /\ Floods' = fl + f
       /\ SumFunction(WireLens') = y + w
  BY <1>7, <1>8, Zenon
<1> QED
  BY <1>7, <1>11, <1>12, <1>13, Zenon DEF OutBalance

LEMMA QueueMoves ==
  ASSUME TypeOK, TypeOK', NEW s \in Shards, NEW v \in Vports, NEW d \in Int,
         \A w \in Vports \ {v} : QueueLens(s)'[w] = QueueLens(s)[w],
         QueueLens(s)'[v] = QueueLens(s)[v] + d
  PROVE  SumFunction(QueueLens(s)') = SumFunction(QueueLens(s)) + d
<1>1. PICK p : p = QueueLens(s)
  OBVIOUS
<1>2. PICK q : q = QueueLens(s)'
  OBVIOUS
<1>3. /\ p \in [Vports -> Nat] /\ q \in [Vports -> Nat]
      /\ \A w \in Vports \ {v} : q[w] = p[w] /\ q[v] = p[v] + d
  BY <1>1, <1>2, Summands, SummandsNext DEF Summable
<1>4. SumFunction(q) = SumFunction(p) + q[v] - p[v]
  BY <1>3, ShardsFinite, SumUpdate
<1>5. SumFunction(p) \in Nat /\ p[v] \in Nat /\ q[v] = p[v] + d
  BY <1>1, <1>2, <1>3, ShardsFinite, SumType
<1>6. SumFunction(q) = SumFunction(p) + d
  BY <1>4, <1>5
<1> QED
  BY <1>1, <1>2, <1>6, Zenon

LEMMA CopiesAt ==
  ASSUME NEW t \in Shards
  PROVE  /\ CopiesOf[t] = Cardinality(targets[t]) + SumFunction(QueueLens(t))
         /\ CopiesOf'[t] = Cardinality(targets'[t]) + SumFunction(QueueLens(t)')
<1>1. CopiesOf[t] = Cardinality(targets[t]) + SumFunction(QueueLens(t))
  BY Zenon DEF CopiesOf
<1>2. CopiesOf'[t] = Cardinality(targets'[t]) + SumFunction(QueueLens(t)')
  BY Zenon DEF CopiesOf
<1> QED
  BY <1>1, <1>2

(* The copies of a shard whose targets and queues stay.                    *)
LEMMA CopiesStay ==
  ASSUME NEW t \in Shards, targets'[t] = targets[t],
         \A w \in Vports : Queued(t, w)' = Queued(t, w) /\ lost'[t][w] = lost[t][w]
  PROVE  CopiesOf'[t] = CopiesOf[t]
<1>1. QueueLens(t)' = QueueLens(t)
  BY DEF QueueLens
<1> QED
  BY <1>1, CopiesAt, Zenon

LEMMA TargetsFinite ==
  ASSUME TypeOK, NEW s \in Shards
  PROVE  /\ IsFiniteSet(targets[s]) /\ Cardinality(targets[s]) \in Nat
         /\ SumFunction(QueueLens(s)) \in Nat
<1>1. targets[s] \in SUBSET Vports
  BY DEF TypeOK
<1> QED
  BY <1>1, Summands, ShardsFinite, FS_Subset, FS_CardinalityType, SumType DEF Summable

(* A dispatched segment: refused, or copied to its targets.                *)
LEMMA DispatchOut ==
  ASSUME TInv, TInv', OutBalance, NEW s \in Shards, Accept(s), Quiet,
         \A t \in Shards \ {s} : targets'[t] = targets[t],
         NEW r \in {0, 1}, NEW f \in {0, 1}, Refused' = Refused + r, Floods' = Floods + f,
         Cardinality(targets'[s]) = Cardinality(targets[s])
                                      + 1 - r - f + f * (Cardinality(Vports) - 1)
  PROVE  OutBalance'
<1>0. TypeOK /\ TypeOK' /\ QueuesStay /\ lost' = lost /\ wire' = wire
  BY QuietQueues DEF TInv, Quiet
<1>1. \A t \in Shards \ {s} : CopiesOf'[t] = CopiesOf[t]
  BY <1>0, CopiesStay DEF QueuesStay
<1>2. QueueLens(s)' = QueueLens(s)
  BY <1>0 DEF QueueLens, QueuesStay
<1>3. PICK x \in Nat : x = SumFunction(QueueLens(s))
  BY <1>0, TargetsFinite
<1>4. PICK old \in Nat : old = Cardinality(targets[s])
  BY <1>0, TargetsFinite
<1>5. PICK n \in Nat : n = Cardinality(Vports)
  BY <1>0, CountsAreNat
<1>6. CopiesOf[s] = old + x /\ CopiesOf'[s] = (old + 1 - r - f + f * (n - 1)) + x
  BY <1>2, <1>3, <1>4, <1>5, CopiesAt, Zenon
<1>7. CopiesOf'[s] + 0 = CopiesOf[s] + 1 - r - f + f * (n - 1)
  <2>1. PICK m \in Int : m = f * (n - 1)
    BY <1>5
  <2>2. CopiesOf'[s] = (old + 1 - r - f + m) + x
    BY <1>6, <2>1
  <2>3. CopiesOf'[s] + 0 = CopiesOf[s] + 1 - r - f + m
    BY <1>6, <2>2
  <2> QED
    BY <2>1, <2>3
<1>8. WireLens' = WireLens /\ SumFunction(WireLens) \in Nat
  BY <1>0, Summands, ShardsFinite, SumType DEF WireLens, Summable
<1>9. SumFunction(WireLens') = SumFunction(WireLens) + 0
  BY <1>8
<1>10. Accepted' = Accepted + 1
  BY <1>0, AcceptedGrows
<1>11. r \in Nat /\ 0 \in Nat /\ 1 \in Nat
  OBVIOUS
<1>12. CopiesOf'[s] + 0 = CopiesOf[s] + 1 - r - f + f * (Cardinality(Vports) - 1)
  BY <1>5, <1>7, Zenon
<1> QED
  BY <1>0, <1>1, <1>9, <1>10, <1>11, <1>12, OutMoves

(* A step of one shard that is not a segment's verdict.                    *)
LEMMA QueueOut ==
  ASSUME TInv, TInv', OutBalance, NEW s \in Shards, NEW w \in Nat,
         \A t \in Shards \ {s} : CopiesOf'[t] = CopiesOf[t],
         UNCHANGED <<rx_pkts, tx_broadcast, punted>>, Refused' = Refused,
         SumFunction(WireLens') = SumFunction(WireLens) + w,
         CopiesOf'[s] + w = CopiesOf[s]
  PROVE  OutBalance'
<1>0. TypeOK /\ TypeOK'
  BY DEF TInv
<1>1. Accepted' = Accepted /\ Floods' = Floods
  BY DEF Accepted, Floods
<1>2. Accepted' = Accepted + 0 /\ Floods' = Floods + 0 /\ Refused' = Refused + 0
  BY <1>0, <1>1, CountsAreNat
<1>3. CopiesOf[s] \in Nat /\ Cardinality(Vports) \in Nat
  BY <1>0, Summands, CountsAreNat DEF Summable
<1>4. CopiesOf'[s] + w = CopiesOf[s] + 0 - 0 - 0 + 0 * (Cardinality(Vports) - 1)
  BY <1>3
<1>5. 0 \in Nat /\ 0 \in {0, 1}
  OBVIOUS
<1> QED
  BY <1>0, <1>2, <1>4, <1>5, OutMoves

LEMMA StageOut ==
  ASSUME TInv, TInv', OutBalance, NEW s \in Shards, Stage(s)
  PROVE  OutBalance'
<1> USE DEF countVars, histVars
<1>0. TypeOK /\ TypeOK'
  BY DEF TInv
<1>1. PICK v \in Vports : StageFor(s, v)
  BY <1>0, StageIs
<1>2. /\ Queued(s, v)' = Append(Queued(s, v), [seq |-> tx_seq[s][v], len |-> Hdr + frame[s]])
      /\ \A t \in Shards, w \in Vports : ~(t = s /\ w = v) => Queued(t, w)' = Queued(t, w)
  BY <1>0, <1>1, StageQueues
<1>3. Len(Queued(s, v)') = Len(Queued(s, v)) + 1 /\ Len(Queued(s, v)) \in Nat
  <2>1. Queued(s, v) \in Seq(Segs)
    BY <1>0, QueuedType
  <2>2. [seq |-> tx_seq[s][v], len |-> Hdr + frame[s]] \in Segs
    <3>1. tx_seq[s][v] \in Nat /\ frame[s] \in Nat
      BY <1>0 DEF TypeOK
    <3> QED
      BY <3>1, BoundsAreNat DEF Segs
  <2> QED
    BY <1>2, <2>1, <2>2
<1>4. /\ lost' = lost /\ wire' = wire /\ UNCHANGED <<rx_pkts, tx_broadcast, punted, ctr>>
      /\ targets' = [targets EXCEPT ![s] = @ \ {v}] /\ v \in targets[s]
  BY <1>1 DEF StageFor
<1>5. targets'[s] = targets[s] \ {v} /\ \A t \in Shards \ {s} : targets'[t] = targets[t]
  BY <1>0, <1>4 DEF TypeOK
<1>6. \A t \in Shards \ {s} : CopiesOf'[t] = CopiesOf[t]
  BY <1>2, <1>4, <1>5, CopiesStay
<1>7. SumFunction(QueueLens(s)') = SumFunction(QueueLens(s)) + 1
  <2>1. \A w \in Vports \ {v} : QueueLens(s)'[w] = QueueLens(s)[w]
    BY <1>2, <1>4 DEF QueueLens
  <2>2. QueueLens(s)[v] = Len(Queued(s, v)) + lost[s][v]
        /\ QueueLens(s)'[v] = Len(Queued(s, v)') + lost[s][v]
    BY <1>4 DEF QueueLens
  <2>3. lost[s][v] \in Nat
    BY <1>0 DEF TypeOK
  <2>4. PICK l \in Nat, m \in Nat : l = lost[s][v] /\ m = Len(Queued(s, v))
    BY <1>3, <2>3
  <2>5. QueueLens(s)[v] = m + l /\ QueueLens(s)'[v] = (m + 1) + l
    BY <1>3, <2>2, <2>4, Zenon
  <2>6. QueueLens(s)'[v] = QueueLens(s)[v] + 1 /\ 1 \in Int
    BY <2>5
  <2> QED
    BY <1>0, <2>1, <2>6, QueueMoves
<1>8. Cardinality(targets'[s]) = Cardinality(targets[s]) - 1
  BY <1>0, <1>4, <1>5, TargetsFinite, FS_RemoveElement
<1>9. PICK x \in Nat, c \in Nat : x = SumFunction(QueueLens(s)) /\ c = Cardinality(targets[s])
  BY <1>0, TargetsFinite
<1>10. CopiesOf[s] = c + x /\ CopiesOf'[s] = (c - 1) + (x + 1)
  BY <1>7, <1>8, <1>9, CopiesAt, Zenon
<1>11. CopiesOf'[s] + 0 = CopiesOf[s]
  BY <1>10
<1>12. Refused' = Refused
  BY <1>4 DEF Refused
<1>13. WireLens' = WireLens /\ SumFunction(WireLens) \in Nat
  BY <1>0, <1>4, Summands, ShardsFinite, SumType DEF WireLens, Summable
<1>14. SumFunction(WireLens') = SumFunction(WireLens) + 0 /\ 0 \in Nat
  BY <1>13
<1> QED
  BY <1>4, <1>6, <1>11, <1>12, <1>14, QueueOut

LEMMA SendOut ==
  ASSUME TInv, TInv', OutBalance, NEW s \in Shards, SendRun(s)
  PROVE  OutBalance'
<1> USE DEF countVars, localVars
<1>0. /\ TypeOK /\ TypeOK' /\ pc[s] = "flush" /\ unsent[s] # <<>> /\ egress[s] \in Vports
      /\ pc' = pc /\ egress' = egress /\ tx' = tx
      /\ unsent' = [unsent EXCEPT ![s] = Rest(s)]
      /\ wire' = [wire EXCEPT ![egress[s]] = @ \o Out(s)] /\ lost' = lost
  BY SendTakes DEF TInv
<1>1. PICK v \in Vports : v = egress[s]
  BY <1>0
<1>2. Appended(s, v, Len(wire[v]), Len(Run(s)))
  <2>1. wire' = [wire EXCEPT ![v] = @ \o Out(s)]
    BY <1>0, <1>1
  <2> QED
    BY <1>0, <2>1, RunAppended
<1>3. PICK k \in Nat : k = Len(Run(s))
  BY <1>2 DEF Appended
<1>4. UNCHANGED <<rx_pkts, tx_broadcast, punted, ctr, targets>>
  BY DEF SendRun
<1>5. /\ Queued(s, v) = unsent[s] /\ Queued(s, v)' = Rest(s)
      /\ \A t \in Shards, w \in Vports : ~(t = s /\ w = v) => Queued(t, w)' = Queued(t, w)
  BY <1>0, <1>1, SendQueues
<1>6. Len(Queued(s, v)') = Len(Queued(s, v)) - k /\ Len(Queued(s, v)) \in Nat
  <2>1. Len(Rest(s)) = Len(unsent[s]) - k /\ Len(unsent[s]) \in Nat
    BY <1>0, <1>3, RestIs
  <2> QED
    BY <1>5, <2>1, Zenon
<1>7. \A t \in Shards \ {s} : CopiesOf'[t] = CopiesOf[t]
  BY <1>0, <1>4, <1>5, CopiesStay
<1>8. SumFunction(QueueLens(s)') = SumFunction(QueueLens(s)) + (0 - k)
  <2>1. \A w \in Vports \ {v} : QueueLens(s)'[w] = QueueLens(s)[w]
    BY <1>0, <1>5 DEF QueueLens
  <2>2. QueueLens(s)[v] = Len(Queued(s, v)) + lost[s][v]
        /\ QueueLens(s)'[v] = Len(Queued(s, v)') + lost[s][v]
    BY <1>0 DEF QueueLens
  <2>3. lost[s][v] \in Nat
    BY <1>0 DEF TypeOK
  <2>4. PICK l \in Nat, m \in Nat : l = lost[s][v] /\ m = Len(Queued(s, v))
    BY <1>6, <2>3
  <2>5. QueueLens(s)[v] = m + l /\ QueueLens(s)'[v] = (m - k) + l
    BY <1>6, <2>2, <2>4, Zenon
  <2>6. QueueLens(s)'[v] = QueueLens(s)[v] + (0 - k) /\ 0 - k \in Int
    BY <2>5
  <2> QED
    BY <1>0, <2>1, <2>6, QueueMoves
<1>9. SumFunction(WireLens') = SumFunction(WireLens) + k
  <2>1. PICK p : p = WireLens
    OBVIOUS
  <2>2. PICK q : q = WireLens'
    OBVIOUS
  <2>3. p \in [Vports -> Nat] /\ q \in [Vports -> Nat]
    BY <1>0, <2>1, <2>2, Summands, SummandsNext DEF Summable
  <2>4. q[v] = p[v] + k /\ \A w \in Vports \ {v} : q[w] = p[w]
    <3>1. Len(wire'[v]) = Len(wire[v]) + k /\ \A w \in Vports \ {v} : wire'[w] = wire[w]
      BY <1>2, <1>3 DEF Appended
    <3> QED
      BY <2>1, <2>2, <3>1 DEF WireLens
  <2>5. SumFunction(q) = SumFunction(p) + q[v] - p[v]
    BY <2>3, <2>4, ShardsFinite, SumUpdate
  <2>6. SumFunction(p) \in Nat /\ p[v] \in Nat
    BY <2>3, ShardsFinite, SumType
  <2>7. SumFunction(q) = SumFunction(p) + k
    BY <2>4, <2>5, <2>6
  <2> QED
    BY <2>1, <2>2, <2>7, Zenon
<1>10. PICK x \in Nat, c \in Nat : x = SumFunction(QueueLens(s)) /\ c = Cardinality(targets[s])
  BY <1>0, TargetsFinite
<1>11. CopiesOf[s] = c + x /\ CopiesOf'[s] = c + (x + (0 - k))
  BY <1>4, <1>8, <1>10, CopiesAt, Zenon
<1>12. CopiesOf'[s] + k = CopiesOf[s]
  BY <1>11
<1>13. Refused' = Refused
  BY <1>4 DEF Refused
<1> QED
  BY <1>4, <1>7, <1>9, <1>12, <1>13, QueueOut

LEMMA OutKept ==
  ASSUME OutBalance, UNCHANGED <<targets, rx_pkts, tx_broadcast, wire>>, Refused' = Refused,
         \A t \in Shards : QueueLens(t)' = QueueLens(t)
  PROVE  OutBalance'
<1>1. \A t \in Shards : CopiesOf'[t] = CopiesOf[t]
  BY CopiesAt, Zenon
<1>2. CopiesOf' = CopiesOf
  BY <1>1 DEF CopiesOf
<1>3. WireLens' = WireLens /\ Accepted' = Accepted /\ Floods' = Floods
  BY DEF WireLens, Accepted, Floods
<1> QED
  BY <1>2, <1>3, Zenon DEF OutBalance

LEMMA NextOut == TInv /\ TInv' /\ OutBalance /\ [Next]_vars => OutBalance'
<1> SUFFICES ASSUME TInv, TInv', OutBalance, [Next]_vars PROVE OutBalance'
  OBVIOUS
<1>0. /\ TypeOK /\ TypeOK' /\ ctr \in [Counters -> Nat] /\ punted \in Nat
      /\ pc \in [Shards -> Labels] /\ targets \in [Shards -> SUBSET Vports]
  BY DEF TInv, TypeOK
<1>1. ASSUME QueuesStay, Refused' = Refused,
             UNCHANGED <<targets, lost, rx_pkts, tx_broadcast, wire>>
      PROVE  OutBalance'
  <2>1. \A t \in Shards : QueueLens(t)' = QueueLens(t)
    BY <1>1 DEF QueueLens, QueuesStay
  <2> QED
    BY <1>1, <2>1, OutKept
<1>2. CASE UNCHANGED vars \/ RequestStop
  <2>1. Quiet
    BY <1>2 DEF Quiet, RequestStop, vars, queueVars, flushVars, countVars, histVars
  <2>2. UNCHANGED <<targets, lost, rx_pkts, tx_broadcast, wire, ctr, punted>>
    BY <1>2 DEF RequestStop, vars, localVars, countVars, histVars
  <2> QED
    BY <1>1, <2>1, <2>2, QuietQueues DEF Refused
<1>3. ASSUME NEW s \in Shards, ShardStep(s) PROVE OutBalance'
  <2> USE DEF localVars, countVars, histVars
  <2>1. CASE \/ Poll(s) \/ Recv(s) \/ RecvTimeout(s) \/ RecvError(s) \/ StopSeen(s)
             \/ NextRead(s) \/ BatchDone(s) \/ Staged(s) \/ FlushedAll(s)
    <3>1. Quiet
      BY <1>0, <2>1, QuietSteps
    <3>2. UNCHANGED <<targets, lost, rx_pkts, tx_broadcast, wire, ctr, punted>>
      BY <2>1 DEF Poll, Recv, RecvTimeout, RecvError, StopSeen, NextRead, BatchDone, Staged,
                  FlushedAll
    <3> QED
      BY <1>1, <3>1, <3>2, QuietQueues DEF Refused
  <2>2. CASE UnknownPeer(s) \/ BadHeader(s)
    <3>1. Quiet
      BY <2>2 DEF Quiet, UnknownPeer, BadHeader, queueVars, flushVars
    <3>2. UNCHANGED <<targets, lost, rx_pkts, tx_broadcast, wire, punted>>
      BY <2>2 DEF UnknownPeer, BadHeader
    <3>3. \A c \in Reasons : ctr'[c] = ctr[c]
      BY <1>0, <2>2 DEF UnknownPeer, BadHeader, Bump, Reasons, Counters
    <3>4. Refused' = Refused
      BY <3>2, <3>3 DEF Refused, Reasons
    <3> QED
      BY <1>1, <3>1, <3>2, <3>4, QuietQueues
  <2>3. CASE StageFull(s) \/ FlushAll(s)
    <3>1. PICK v \in Vports : BeginFlush(s, v) /\ pc[s] # "flush"
      BY <1>0, <2>3, FlushBegins
    <3>2. QueuesStay
      BY <1>0, <3>1, BeginFlushQueues
    <3> QED
      BY <1>1, <3>1, <3>2 DEF BeginFlush, Refused
  <2>4. CASE FlushEnd(s)
    BY <1>1, <2>4, FlushEndQueues DEF FlushEnd, Refused
  <2>5. CASE SendFails(s, "would_block") \/ SendFails(s, "send_error")
    <3>0. PICK reason \in {"would_block", "send_error"} : SendFails(s, reason)
      BY <2>5
    <3>1. /\ pc[s] = "flush" /\ unsent[s] # <<>> /\ egress[s] \in Vports
          /\ pc' = pc /\ egress' = egress /\ tx' = tx
          /\ unsent' = [unsent EXCEPT ![s] = Rest(s)]
      BY <3>0, SendTakes DEF Counters
    <3>2. PICK v \in Vports : v = egress[s]
      BY <3>1
    <3>3. PICK k \in Nat : k = Len(Run(s))
      BY <1>0, <3>1, RunIs
    <3>4. /\ Queued(s, v) = unsent[s] /\ Queued(s, v)' = Rest(s)
          /\ \A t \in Shards, w \in Vports : ~(t = s /\ w = v) => Queued(t, w)' = Queued(t, w)
      BY <1>0, <3>1, <3>2, SendQueues
    <3>5. Len(Queued(s, v)') = Len(Queued(s, v)) - k /\ Len(Queued(s, v)) \in Nat
      <4>1. Len(Rest(s)) = Len(unsent[s]) - k /\ Len(unsent[s]) \in Nat
        BY <1>0, <3>1, <3>3, RestIs
      <4> QED
        BY <3>4, <4>1
    <3>6. lost' = [lost EXCEPT ![s][v] = @ + k] /\ lost \in [Shards -> [Vports -> Nat]]
      BY <1>0, <3>0, <3>2, <3>3 DEF SendFails, TypeOK
    <3>7. /\ lost'[s][v] = lost[s][v] + k /\ lost[s][v] \in Nat
          /\ \A t \in Shards, w \in Vports : ~(t = s /\ w = v) => lost'[t][w] = lost[t][w]
      BY <3>6
    <3>8. Len(Queued(s, v)') + lost'[s][v] = Len(Queued(s, v)) + lost[s][v]
      BY <3>5, <3>7
    <3>9. \A t \in Shards, w \in Vports :
            Len(Queued(t, w)') + lost'[t][w] = Len(Queued(t, w)) + lost[t][w]
      BY <3>4, <3>7, <3>8, Zenon
    <3>10. \A t \in Shards : QueueLens(t)' = QueueLens(t)
      BY <3>9, Zenon DEF QueueLens
    <3>11. \A c \in Reasons : ctr'[c] = ctr[c]
      BY <1>0, <3>0 DEF SendFails, Bump, Reasons, Counters
    <3>12. UNCHANGED <<targets, rx_pkts, tx_broadcast, wire, punted>>
      BY <3>0 DEF SendFails
    <3>13. Refused' = Refused
      BY <3>11, <3>12 DEF Refused, Reasons
    <3> QED
      BY <3>10, <3>12, <3>13, OutKept
  <2>6. ASSUME Accept(s), Quiet, UNCHANGED <<targets, tx_broadcast>>, Refused' = Refused + 1
        PROVE  OutBalance'
    <3>1. Floods' = Floods + 0
      <4>1. Floods' = Floods
        BY <2>6 DEF Floods
      <4> QED
        BY <1>0, <4>1, CountsAreNat
    <3>2. Cardinality(targets'[s]) = Cardinality(targets[s])
                                       + 1 - 1 - 0 + 0 * (Cardinality(Vports) - 1)
      BY <1>0, <2>6, TargetsFinite, CountsAreNat
    <3> QED
      BY <2>6, <3>1, <3>2, DispatchOut
  <2>7. ASSUME NEW reason \in Reasons, Discard(s, reason) PROVE OutBalance'
    <3>1. Quiet
      BY <2>7 DEF Quiet, Discard, queueVars, flushVars
    <3>2. ctr'[reason] = ctr[reason] + 1 /\ \A c \in Reasons \ {reason} : ctr'[c] = ctr[c]
      BY <1>0, <2>7 DEF Discard, Bump, Reasons, Counters
    <3>3. \A c \in Reasons : ctr[c] \in Nat
      BY <1>0 DEF Reasons, Counters
    <3>4. punted' = punted
      BY <2>7 DEF Discard
    <3>5. Refused' = Refused + 1
      <4> USE <1>0, <3>2, <3>3, <3>4 DEF Refused, Reasons
      <4>1. CASE reason = "engine_drop"
        BY <4>1
      <4>2. CASE reason = "oversize"
        BY <4>2
      <4>3. CASE reason = "unconfigured"
        BY <4>3
      <4>4. CASE reason = "overflow"
        BY <4>4
      <4>5. CASE reason = "unknown_port"
        BY <4>5
      <4> QED
        BY <4>1, <4>2, <4>3, <4>4, <4>5
    <3> QED
      BY <2>6, <2>7, <3>1, <3>5 DEF Discard
  <2>8. CASE Punt(s)
    <3>1. Quiet
      BY <2>8 DEF Quiet, Punt, queueVars, flushVars
    <3>2. /\ ctr["engine_drop"] \in Nat /\ ctr["oversize"] \in Nat /\ ctr["unconfigured"] \in Nat
          /\ ctr["overflow"] \in Nat /\ ctr["unknown_port"] \in Nat /\ ctr' = ctr
      BY <1>0, <2>8 DEF Punt, Counters
    <3>3. punted' = punted + 1
      BY <2>8 DEF Punt
    <3>4. Refused' = Refused + 1
      BY <1>0, <3>2, <3>3 DEF Refused
    <3> QED
      BY <2>6, <2>8, <3>1, <3>4 DEF Punt
  <2>9. ASSUME NEW len \in Lens, Broadcast(s, len) \/ \E port \in Vports : Forward(s, len, port)
        PROVE  OutBalance'
    <3>0. Segment(s)
      BY <2>9 DEF Segment
    <3>1. Quiet
      BY <1>0, <3>0, QuietSteps
    <3>2. Accept(s) /\ UNCHANGED <<ctr, punted>>
      BY <2>9 DEF Broadcast, Forward
    <3>3. pc[s] = "segments" /\ reads[s][1].from \in Vports
      BY <1>0, <3>2, AcceptIs
    <3>4. targets[s] = {}
      BY <3>3 DEF TInv, ControlInv, InStage
    <3>5. Cardinality(targets[s]) = 0
      BY <3>4, FS_EmptySet
    <3>6. Refused' = Refused + 0
      <4>1. Refused' = Refused
        BY <3>2 DEF Refused
      <4> QED
        BY <1>0, <4>1, CountsAreNat
    <3>7. CASE Broadcast(s, len)
      <4>1. PICK v \in Vports : v = reads[s][1].from
        BY <3>3
      <4>2. /\ targets' = [targets EXCEPT ![s] = Vports \ {v}]
            /\ tx_broadcast' = [tx_broadcast EXCEPT ![v] = @ + 1]
            /\ tx_broadcast \in [Vports -> Nat]
        BY <1>0, <3>7, <4>1 DEF Broadcast, DispatchTo, TypeOK
      <4>3. targets'[s] = Vports \ {v} /\ \A t \in Shards \ {s} : targets'[t] = targets[t]
        BY <1>0, <4>2
      <4>4. Floods' = Floods + 1
        <5>1. SumFunction([tx_broadcast EXCEPT ![v] = @ + 1]) = SumFunction(tx_broadcast) + 1
          BY <4>2, ShardsFinite, Increment
        <5> QED
          BY <4>2, <5>1, Zenon DEF Floods
      <4>5. Cardinality(Vports \ {v}) = Cardinality(Vports) - 1 /\ Cardinality(Vports) \in Nat
        BY <1>0, ShardsFinite, FS_RemoveElement, CountsAreNat
      <4>6. Cardinality(targets'[s]) = Cardinality(targets[s])
                                         + 1 - 0 - 1 + 1 * (Cardinality(Vports) - 1)
        BY <3>5, <4>3, <4>5
      <4> QED
        BY <3>1, <3>2, <3>6, <4>3, <4>4, <4>6, DispatchOut
    <3>8. CASE \E port \in Vports : Forward(s, len, port)
      <4>1. PICK port \in Vports : Forward(s, len, port)
        BY <3>8
      <4>2. targets' = [targets EXCEPT ![s] = {port}] /\ tx_broadcast' = tx_broadcast
        BY <4>1 DEF Forward, DispatchTo
      <4>3. targets'[s] = {port} /\ \A t \in Shards \ {s} : targets'[t] = targets[t]
        BY <1>0, <4>2
      <4>4. Floods' = Floods + 0
        <5>1. Floods' = Floods
          BY <4>2 DEF Floods
        <5> QED
          BY <1>0, <5>1, CountsAreNat
      <4>5. Cardinality(targets'[s]) = Cardinality(targets[s])
                                         + 1 - 0 - 0 + 0 * (Cardinality(Vports) - 1)
        <5>1. Cardinality(targets'[s]) = 1
          BY <4>3, FS_Singleton
        <5> QED
          BY <1>0, <3>5, <5>1, CountsAreNat
      <4> QED
        BY <3>1, <3>2, <3>6, <4>3, <4>4, <4>5, DispatchOut
    <3> QED
      BY <2>9, <3>7, <3>8
  <2>10. CASE Segment(s)
    BY <2>2, <2>7, <2>8, <2>9, <2>10, SegmentIs
  <2> QED
    BY <1>3, <2>1, <2>2, <2>3, <2>4, <2>5, <2>10, StageOut, SendOut DEF ShardStep
<1> QED
  BY <1>2, <1>3 DEF Next, Terminated

LEMMA InitBalance == Init => InBalance /\ OutBalance
<1> SUFFICES ASSUME Init PROVE InBalance /\ OutBalance
  OBVIOUS
<1>0. TypeOK
  BY InitTInv DEF TInv
<1>1. Summable
  BY <1>0, Summands
<1>2. Accepted = 0 /\ Floods = 0
  <2>1. /\ rx_pkts \in [Vports -> Nat] /\ tx_broadcast \in [Vports -> Nat]
        /\ \A v \in Vports : rx_pkts[v] = 0 /\ tx_broadcast[v] = 0
    BY DEF Init
  <2> QED
    BY <2>1, ShardsFinite, SumZero DEF Accepted, Floods
<1>3. /\ Refused = 0 /\ received = 0 /\ ctr["unknown_peer"] = 0 /\ ctr["bad_header"] = 0
  BY DEF Init, Refused, Counters
<1>4. SumFunction(PendingOf) = 0
  <2>1. \A s \in Shards : PendingOf[s] = 0
    BY PendingNone DEF Init, PendingOf
  <2> QED
    BY <1>1, <2>1, ShardsFinite, SumZero DEF Summable
<1>5. SumFunction(WireLens) = 0
  <2>1. \A v \in Vports : WireLens[v] = 0
    BY DEF Init, WireLens
  <2> QED
    BY <1>1, <2>1, ShardsFinite, SumZero DEF Summable
<1>6. SumFunction(CopiesOf) = 0
  <2>1. ASSUME NEW s \in Shards PROVE CopiesOf[s] = 0
    <3>1. \A v \in Vports : QueueLens(s)[v] = 0
      BY DEF Init, QueueLens, Queued
    <3>2. SumFunction(QueueLens(s)) = 0
      BY <1>1, <3>1, ShardsFinite, SumZero DEF Summable
    <3>3. targets[s] = {}
      BY DEF Init
    <3>4. Cardinality(targets[s]) = 0
      BY <3>3, FS_EmptySet
    <3> QED
      BY <3>2, <3>4, CopiesAt
  <2> QED
    BY <1>1, <2>1, ShardsFinite, SumZero DEF Summable
<1>7. Cardinality(Vports) \in Nat
  BY <1>0, CountsAreNat
<1>8. InBalance
  BY <1>2, <1>3, <1>4 DEF InBalance
<1>9. OutBalance
  BY <1>2, <1>3, <1>5, <1>6, <1>7 DEF OutBalance
<1> QED
  BY <1>8, <1>9

------------------------------------------------------------------------------
(* The inductive invariant: types and control, the numbers, the credit and *)
(* the two balances.                                                       *)
ShardInv == TInv /\ NothingStranded /\ FlowNumbers /\ CreditInv /\ InBalance /\ OutBalance

LEMMA ShardInvHolds == Spec => []ShardInv
<1>1. Init => ShardInv
  BY InitTInv, InitFlow, InitCredit, InitBalance DEF ShardInv
<1>2. ShardInv /\ [Next]_vars => ShardInv'
  BY NextTInv, NextFlow, NextCredit, NextIn, NextOut DEF ShardInv
<1> QED
  BY <1>1, <1>2, PTL DEF Spec

(* The datapath's state keeps its types, and a staging queue never holds   *)
(* more than TX_BATCH segments, whatever the traffic: Shard::stage flushes *)
(* a full queue before it adds to it.                                      *)
THEOREM TypesHold == Spec => []TypeOK
<1>1. ShardInv => TypeOK
  BY DEF ShardInv, TInv
<1> QED
  BY <1>1, ShardInvHolds, PTL

(* No shard waits on its socket, or ends, with frames still staged: each   *)
(* pass of Shard::run, and its end, goes through flush_all.                *)
THEOREM NothingStrandedHolds == Spec => []NothingStranded
<1>1. ShardInv => NothingStranded
  BY DEF ShardInv
<1> QED
  BY <1>1, ShardInvHolds, PTL

(* Every run Runs::next cuts off a staging queue is one the kernel accepts *)
(* and the longest such, for every queue, segment limit and byte limit.    *)
THEOREM RunsAreLegal == Spec => []RunsLegal
<1>1. ShardInv => RunsLegal
  <2> SUFFICES ASSUME ShardInv, NEW s \in Shards, unsent[s] # <<>>
               PROVE  /\ Len(Run(s)) > 0 /\ GsoAccepts(Run(s))
                      /\ Len(Run(s)) < Len(unsent[s]) =>
                           ~GsoAccepts(SubSeq(unsent[s], 1, Len(Run(s)) + 1))
    BY DEF RunsLegal
  <2>1. PICK q \in Seq(Segs) : q = unsent[s]
    BY DEF ShardInv, TInv, TypeOK
  <2>2. RunLength(q) \in 1 .. Len(q) /\ Len(q) \in Nat
    BY <2>1, RunLengthIs
  <2>3. Run(s) = SubSeq(q, 1, RunLength(q))
    BY <2>1 DEF Run
  <2>4. Len(Run(s)) = RunLength(q)
    BY <2>2, <2>3
  <2>5. GsoAccepts(Run(s))
    BY <2>1, <2>3, RunAccepted
  <2>6. RunLength(q) < Len(q) => ~GsoAccepts(SubSeq(q, 1, RunLength(q) + 1))
    BY <2>1, RunMaximal
  <2>7. Len(Run(s)) > 0
    BY <2>2, <2>4
  <2> QED
    BY <2>1, <2>4, <2>5, <2>6, <2>7, Zenon
<1> QED
  BY <1>1, ShardInvHolds, PTL

(* The numbers one shard puts on one egress are used once and in order, on *)
(* the wire and in the queue behind it, and a number that never appears    *)
(* belongs to a segment Shard::send lost.                                  *)
THEOREM NumbersHold == Spec => []FlowNumbers
<1>1. ShardInv => FlowNumbers
  BY DEF ShardInv
<1> QED
  BY <1>1, ShardInvHolds, PTL

(* tx_pkts of every vport equals what was sent to its peer whenever no     *)
(* flush is under way, although Shard::flush credits it only at its end.   *)
THEOREM TxPktsHold == Spec => []TxPktsExact
<1>1. ShardInv => TxPktsExact
  BY CreditExact DEF ShardInv
<1> QED
  BY <1>1, ShardInvHolds, PTL

(* Every segment the sockets delivered is pending, counted under the       *)
(* reason it went no further, or copied to its egress vports; every copy   *)
(* is queued, on the wire or in a run Shard::send reported lost.           *)
THEOREM FramesConserved == Spec => []FrameConservation
<1>1. ShardInv => FrameConservation
  BY FrameSplit DEF ShardInv
<1> QED
  BY <1>1, ShardInvHolds, PTL
==============================================================================
