----------------------------- MODULE LoopProofs -----------------------------
(***************************************************************************)
(* What the proofs about data have in common: the greatest and the least   *)
(* of a set of numbers, a finite set in order, folds and the members of    *)
(* sequences.                                                              *)
(*                                                                         *)
(* Induction is had in two steps. EveryNatural says of a set what the      *)
(* induction rule says of a formula, from the well-foundedness of the      *)
(* naturals. FoldExists and FoldRun use it to replace a fold by its run,   *)
(* the sequence of values it goes through, after which a loop has an       *)
(* invariant over the first k elements.                                    *)
(***************************************************************************)
EXTENDS Integers, SortedSets, SequencesExt, FiniteSetTheorems, SequenceTheorems, WellFoundedInduction, TLAPS

(***************************************************************************)
(* Sets of numbers.                                                        *)
(***************************************************************************)

\* What holds at 0 and is handed on by each number holds everywhere.
LEMMA EveryNatural ==
  ASSUME NEW T, 0 \in T, \A n \in Nat : n \in T => n + 1 \in T
  PROVE  \A n \in Nat : n \in T
<1> SUFFICES ASSUME Nat \ T # {} PROVE FALSE
  OBVIOUS
<1>1. PICK n \in Nat \ T : \A m \in Nat \ T : <<m, n>> \notin OpToRel(<, Nat)
  <2>1. Nat \ T \subseteq Nat
    OBVIOUS
  <2> QED
    BY <2>1, WFMin, NatLessThanWellFounded, Zenon
<1>2. n # 0 /\ n - 1 \in Nat /\ n - 1 < n
  OBVIOUS
<1>3. n - 1 \in T
  BY <1>1, <1>2 DEF OpToRel
<1> QED
  BY <1>2, <1>3

\* The greatest and the least of a set, once a member is known to be it.
LEMMA MaxIs ==
  ASSUME NEW S \in SUBSET Int, NEW m \in S, \A x \in S : x <= m
  PROVE  Max(S) = m
<1>1. \A y \in S : (\A x \in S : y >= x) <=> y = m
  <2> TAKE y \in S
  <2>1. y \in Int /\ m \in Int /\ \A x \in S : x \in Int
    OBVIOUS
  <2>2. ASSUME \A x \in S : y >= x PROVE y = m
    BY <2>1, <2>2
  <2>3. y = m => \A x \in S : y >= x
    BY <2>1
  <2> QED
    BY <2>2, <2>3
<1> QED
  BY <1>1 DEF Max

LEMMA MinIs ==
  ASSUME NEW S \in SUBSET Int, NEW m \in S, \A x \in S : m <= x
  PROVE  Min(S) = m
<1>1. \A y \in S : (\A x \in S : y =< x) <=> y = m
  <2> TAKE y \in S
  <2>1. y \in Int /\ m \in Int /\ \A x \in S : x \in Int
    OBVIOUS
  <2>2. ASSUME \A x \in S : y =< x PROVE y = m
    BY <2>1, <2>2
  <2>3. y = m => \A x \in S : y =< x
    BY <2>1
  <2> QED
    BY <2>2, <2>3
<1> QED
  BY <1>1 DEF Min

LEMMA GreatestBelow ==
  ASSUME NEW S \in SUBSET Nat, NEW b \in Nat, \A x \in S : x <= b, S # {}
  PROVE  Max(S) \in S /\ \A x \in S : x <= Max(S)
<1> DEFINE T == {n \in Nat : (\E x \in S : x >= b - n) => \E m \in S : \A x \in S : x <= m}
<1>1. 0 \in T
  OBVIOUS
<1>2. ASSUME NEW n \in Nat, n \in T PROVE n + 1 \in T
  <2> SUFFICES ASSUME NEW x \in S, x >= b - (n + 1) PROVE \E m \in S : \A y \in S : y <= m
    OBVIOUS
  <2>1. CASE \E y \in S : y >= b - n
    BY <1>2, <2>1
  <2>2. CASE \A y \in S : y < b - n
    <3>1. \A y \in S : y <= x
      BY <2>2
    <3> QED
      BY <3>1
  <2> QED
    BY <2>1, <2>2
<1> HIDE DEF T
<1>3. b \in T
  BY <1>1, <1>2, EveryNatural
<1>4. \E x \in S : x >= b - b
  <2>1. PICK x \in S : x \in Nat
    OBVIOUS
  <2> QED
    BY <2>1
<1>5. PICK m \in S : \A x \in S : x <= m
  BY <1>3, <1>4 DEF T
<1> QED
  BY <1>5, MaxIs

LEMMA LeastExists ==
  ASSUME NEW S \in SUBSET Nat, S # {}
  PROVE  Min(S) \in S /\ \A x \in S : Min(S) <= x
<1>1. PICK m \in S : \A x \in S : <<x, m>> \notin OpToRel(<, Nat)
  BY WFMin, NatLessThanWellFounded, Zenon
<1>2. \A x \in S : ~(x < m)
  <2> SUFFICES ASSUME NEW x \in S, x < m PROVE FALSE
    OBVIOUS
  <2>1. <<x, m>> \in OpToRel(<, Nat)
    BY DEF OpToRel
  <2> QED
    BY <1>1, <2>1
<1>3. \A x \in S : m <= x
  BY <1>2
<1> QED
  BY <1>3, MinIs

\* A finite set of integers has a greatest member: the strict subset order on the
\* sets of greater members is well founded.
LEMMA GreatestOfFinite ==
  ASSUME NEW S \in SUBSET Int, IsFiniteSet(S), S # {}
  PROVE  /\ Max(S) \in S
         /\ \A y \in S : y <= Max(S)
<1> DEFINE Above(x) == {y \in S : y > x}
<1> DEFINE T == {Above(x) : x \in S}
<1>1. T \subseteq FiniteSubsetsOf(S) /\ T # {}
  <2>1. \A x \in S : Above(x) \in SUBSET S
    OBVIOUS
  <2>2. \A V \in SUBSET S : IsFiniteSet(V)
    BY FS_Subset
  <2> QED
    BY <2>1, <2>2 DEF FiniteSubsetsOf
<1>2. PICK U \in T : \A V \in T : <<V, U>> \notin StrictSubsetOrdering(S)
  BY <1>1, FS_StrictSubsetOrderingWellFounded, WFMin
<1>3. PICK m \in S : U = Above(m)
  BY <1>2
<1>4. Above(m) = {}
  <2> SUFFICES ASSUME NEW y \in Above(m) PROVE FALSE
    OBVIOUS
  <2>1. y \in S /\ y > m /\ m \in Int /\ y \in Int
    OBVIOUS
  <2>2. Above(y) \subseteq Above(m) /\ y \notin Above(y)
    <3>1. ASSUME NEW z \in S, z > y PROVE z > m
      BY <2>1, <3>1
    <3>2. ~(y > y)
      BY <2>1
    <3> QED
      BY <3>1, <3>2
  <2>3. Above(y) \in T
    BY <2>1
  <2>4. <<Above(y), Above(m)>> \in StrictSubsetOrdering(S)
    BY <2>1, <2>2, <2>3 DEF StrictSubsetOrdering
  <2> QED
    BY <1>2, <1>3, <2>3, <2>4
<1>5. \A y \in S : m >= y
  BY <1>4
<1> HIDE DEF T
<1>6. \E x \in S : \A y \in S : x >= y
  BY <1>5
<1>7. Max(S) \in S /\ \A y \in S : Max(S) >= y
  BY <1>6 DEF Max
<1> QED
  BY <1>7

\* And a least one.
LEMMA LeastOfFinite ==
  ASSUME NEW S \in SUBSET Int, IsFiniteSet(S), S # {}
  PROVE  /\ Min(S) \in S
         /\ \A y \in S : Min(S) <= y
<1> DEFINE Below(x) == {y \in S : y < x}
<1> DEFINE T == {Below(x) : x \in S}
<1>1. T \subseteq FiniteSubsetsOf(S) /\ T # {}
  <2>1. \A x \in S : Below(x) \in SUBSET S
    OBVIOUS
  <2>2. \A V \in SUBSET S : IsFiniteSet(V)
    BY FS_Subset
  <2> QED
    BY <2>1, <2>2 DEF FiniteSubsetsOf
<1>2. PICK U \in T : \A V \in T : <<V, U>> \notin StrictSubsetOrdering(S)
  BY <1>1, FS_StrictSubsetOrderingWellFounded, WFMin
<1>3. PICK m \in S : U = Below(m)
  BY <1>2
<1>4. Below(m) = {}
  <2> SUFFICES ASSUME NEW y \in Below(m) PROVE FALSE
    OBVIOUS
  <2>1. y \in S /\ y < m /\ m \in Int /\ y \in Int
    OBVIOUS
  <2>2. Below(y) \subseteq Below(m) /\ y \notin Below(y)
    <3>1. ASSUME NEW z \in S, z < y PROVE z < m
      BY <2>1, <3>1
    <3>2. ~(y < y)
      BY <2>1
    <3> QED
      BY <3>1, <3>2
  <2>3. Below(y) \in T
    BY <2>1
  <2>4. <<Below(y), Below(m)>> \in StrictSubsetOrdering(S)
    BY <2>1, <2>2, <2>3 DEF StrictSubsetOrdering
  <2> QED
    BY <1>2, <1>3, <2>3, <2>4
<1>5. \A y \in S : m <= y
  BY <1>4
<1> HIDE DEF T
<1>6. \E x \in S : \A y \in S : x <= y
  BY <1>5
<1>7. Min(S) \in S /\ \A y \in S : Min(S) <= y
  BY <1>6 DEF Min
<1> QED
  BY <1>7

(***************************************************************************)
(* InOrder lists the members of a finite set in increasing order.          *)
(***************************************************************************)
UpTo(S, e) == {x \in S : x <= e}

LEMMA InOrderSorted ==
  ASSUME NEW S \in SUBSET Nat, IsFiniteSet(S)
  PROVE  /\ Cardinality(S) \in Nat
         /\ InOrder(S) \in [1..Cardinality(S) -> S]
         /\ \A i, j \in 1..Cardinality(S) : i < j => InOrder(S)[i] < InOrder(S)[j]
         /\ \A e \in S : \E i \in 1..Cardinality(S) : InOrder(S)[i] = e
<1> DEFINE N == Cardinality(S)
<1> DEFINE rank == [e \in S |-> Cardinality(UpTo(S, e))]
<1>1. N \in Nat
  BY FS_CardinalityType
<1>2. \A e \in S : UpTo(S, e) \in SUBSET S /\ e \in UpTo(S, e)
  BY DEF UpTo
<1>3. \A e \in S : IsFiniteSet(UpTo(S, e)) /\ rank[e] \in 1..N
  <2> TAKE e \in S
  <2>1. IsFiniteSet(UpTo(S, e)) /\ Cardinality(UpTo(S, e)) <= N
    BY <1>2, FS_Subset
  <2>2. Cardinality(UpTo(S, e)) \in Nat /\ Cardinality(UpTo(S, e)) # 0
    BY <1>2, <2>1, FS_CardinalityType, FS_EmptySet
  <2> QED
    BY <1>1, <2>1, <2>2
<1>4. ASSUME NEW d \in S, NEW e \in S, d < e PROVE rank[d] < rank[e]
  <2>1. UpTo(S, d) \in SUBSET UpTo(S, e) /\ e \notin UpTo(S, d) /\ e \in UpTo(S, e)
    <3>1. d \in Nat /\ e \in Nat /\ \A x \in S : x \in Nat
      OBVIOUS
    <3>2. \A x \in S : x <= d => x <= e
      BY <1>4, <3>1
    <3>3. ~(e <= d) /\ e <= e
      BY <1>4, <3>1
    <3> QED
      BY <3>2, <3>3 DEF UpTo
  <2>2. rank[d] <= rank[e] /\ rank[d] # rank[e]
    BY <1>3, <2>1, FS_Subset
  <2> QED
    BY <1>3, <2>2
<1>5. rank \in [S -> 1..N]
  BY <1>3
<1> HIDE DEF rank
<1>6. rank \in Injection(S, 1..N)
  <2>1. \A d, e \in S : rank[d] = rank[e] => d = e
    BY <1>4, <1>5
  <2> QED
    BY <1>5, <2>1 DEF Injection, IsInjective
<1>7. IsFiniteSet(1..N) /\ Cardinality(1..N) = N
  BY <1>1, FS_Interval
<1>8. rank \in Surjection(S, 1..N)
  BY <1>6, <1>7, FS_Injection
<1>9. \A k \in 1..N : \E e \in S : rank[e] = k
  BY <1>8 DEF Surjection
<1>10. \A e \in S : rank[e] = Cardinality({x \in S : x <= e})
  BY DEF rank, UpTo
<1>11. InOrder(S) \in [1..N -> S] /\ \A k \in 1..N : rank[InOrder(S)[k]] = k
  <2>1. \A k \in 1..N : InOrder(S)[k] = CHOOSE e \in S : Cardinality({x \in S : x <= e}) = k
    BY DEF InOrder
  <2>2. \A k \in 1..N : \E e \in S : Cardinality({x \in S : x <= e}) = k
    BY <1>9, <1>10
  <2>3. \A k \in 1..N : InOrder(S)[k] \in S /\ Cardinality({x \in S : x <= InOrder(S)[k]}) = k
    BY <2>1, <2>2
  <2>4. InOrder(S) = [k \in 1..N |-> InOrder(S)[k]]
    BY DEF InOrder
  <2> QED
    BY <1>10, <2>3, <2>4
<1>12. \A i, j \in 1..N : i < j => InOrder(S)[i] < InOrder(S)[j]
  <2> SUFFICES ASSUME NEW i \in 1..N, NEW j \in 1..N, i < j, ~(InOrder(S)[i] < InOrder(S)[j])
      PROVE  FALSE
    OBVIOUS
  <2>1. InOrder(S)[i] \in Nat /\ InOrder(S)[j] \in Nat
    BY <1>11
  <2>2. CASE InOrder(S)[i] = InOrder(S)[j]
    BY <1>11, <2>2
  <2>3. CASE InOrder(S)[j] < InOrder(S)[i]
    <3>1. rank[InOrder(S)[j]] < rank[InOrder(S)[i]]
      BY <1>4, <1>11, <2>3
    <3> QED
      BY <1>11, <3>1
  <2> QED
    BY <2>1, <2>2, <2>3
<1>13. \A e \in S : InOrder(S)[rank[e]] = e
  <2> TAKE e \in S
  <2>1. rank[e] \in 1..N
    BY <1>5
  <2>2. InOrder(S)[rank[e]] \in S /\ rank[InOrder(S)[rank[e]]] = rank[e]
    BY <1>11, <2>1
  <2>3. \A d, f \in S : rank[d] = rank[f] => d = f
    BY <1>6 DEF Injection, IsInjective
  <2> QED
    BY <2>2, <2>3
<1> QED
  BY <1>1, <1>5, <1>11, <1>12, <1>13

\* The rows at some places are those rows, each once when the list has each once.
LEMMA RowsAtPlaces ==
  ASSUME NEW R, NEW s \in Seq(R), NEW P \in SUBSET (1..Len(s))
  PROVE  /\ RowsAt(s, P) \in Seq(R)
         /\ ToSet(RowsAt(s, P)) = {s[i] : i \in P}
         /\ IsInjective(s) => IsInjective(RowsAt(s, P))
<1>1. PICK n \in Nat : n = Len(s) /\ DOMAIN s = 1..n
  OBVIOUS
<1>2. \A i \in P : i \in 1..n /\ i \in Nat /\ s[i] \in R
  BY <1>1
<1>3. IsFiniteSet(P) /\ P \in SUBSET Nat
  <2>1. IsFiniteSet(1..n) /\ P \in SUBSET (1..n)
    BY <1>1, FS_Interval
  <2> QED
    BY <1>2, <2>1, FS_Subset
<1>4. PICK m \in Nat : m = Cardinality(P)
  BY <1>3, FS_CardinalityType
<1>5. PICK at \in [1..m -> P] :
        /\ at = InOrder(P)
        /\ \A i, j \in 1..m : i < j => at[i] < at[j]
        /\ \A e \in P : \E i \in 1..m : at[i] = e
  BY <1>3, <1>4, InOrderSorted
<1>6. \A k \in 1..m : at[k] \in 1..n /\ at[k] \in Nat /\ s[at[k]] \in R
  BY <1>2, <1>5
<1>7. PICK f : f = RowsAt(s, P) /\ f = [k \in 1..m |-> s[at[k]]]
  BY <1>5 DEF RowsAt
<1>8. f \in Seq(R)
  <2>1. f \in [1..m -> R]
    BY <1>6, <1>7
  <2> QED
    BY <2>1
<1>9. ToSet(f) = {s[i] : i \in P}
  <2>1. DOMAIN f = 1..m /\ \A k \in 1..m : f[k] = s[at[k]]
    BY <1>7
  <2>2. ASSUME NEW x \in ToSet(f) PROVE x \in {s[i] : i \in P}
    <3>1. PICK k \in 1..m : x = s[at[k]]
      BY <2>1, <2>2 DEF ToSet
    <3>2. at[k] \in P
      BY <1>5
    <3> QED
      BY <3>1, <3>2
  <2>3. ASSUME NEW i \in P PROVE s[i] \in ToSet(f)
    <3>1. PICK k \in 1..m : at[k] = i
      BY <1>5
    <3> QED
      BY <2>1, <3>1 DEF ToSet
  <2> QED
    BY <2>2, <2>3
<1>10. ASSUME IsInjective(s), NEW i \in 1..m, NEW j \in 1..m, f[i] = f[j] PROVE i = j
  <2>1. at[i] = at[j]
    BY <1>1, <1>6, <1>7, <1>10 DEF IsInjective
  <2>2. ~(i < j) /\ ~(j < i)
    BY <1>5, <1>6, <2>1
  <2> QED
    BY <2>2
<1>11. IsInjective(s) => IsInjective(f)
  BY <1>7, <1>10 DEF IsInjective
<1> QED
  BY <1>7, <1>8, <1>9, <1>11

\* A stretch of numbers, listed in order.
LEMMA InOrderStretch ==
  ASSUME NEW a \in Nat, NEW b \in Nat, a <= b + 1
  PROVE  InOrder(a..b) = [k \in 1..(b - a + 1) |-> a + k - 1]
<1>1. Cardinality(a..b) = b - a + 1
  BY FS_Interval
<1>2. ASSUME NEW e \in a..b PROVE Cardinality({x \in a..b : x <= e}) = e - a + 1
  <2>1. {x \in a..b : x <= e} = a..e
    OBVIOUS
  <2>2. Cardinality(a..e) = e - a + 1
    BY FS_Interval
  <2> QED
    BY <2>1, <2>2
<1>3. \A k \in 1..(b - a + 1) :
        (CHOOSE e \in a..b : Cardinality({x \in a..b : x <= e}) = k) = a + k - 1
  <2> TAKE k \in 1..(b - a + 1)
  <2>1. a + k - 1 \in a..b /\ \A e \in a..b : e - a + 1 = k <=> e = a + k - 1
    OBVIOUS
  <2>2. \A e \in a..b : Cardinality({x \in a..b : x <= e}) = k <=> e = a + k - 1
    BY <1>2, <2>1
  <2> HIDE <1>2
  <2> QED
    BY <2>1, <2>2
<1> QED
  BY <1>1, <1>3 DEF InOrder

LEMMA MaxPair ==
  ASSUME NEW a \in Int, NEW b \in Int
  PROVE  Max({a, b}) = IF a >= b THEN a ELSE b
<1>1. CASE a >= b
  <2>1. {a, b} \in SUBSET Int /\ a \in {a, b} /\ \A x \in {a, b} : x <= a
    BY <1>1
  <2> QED
    BY <1>1, <2>1, MaxIs
<1>2. CASE ~(a >= b)
  <2>1. {a, b} \in SUBSET Int /\ b \in {a, b} /\ \A x \in {a, b} : x <= b
    BY <1>2
  <2> QED
    BY <1>2, <2>1, MaxIs
<1> QED
  BY <1>1, <1>2

-----------------------------------------------------------------------------
(* A loop over a sequence. FoldLeft applies an operator along the sets of    *)
(* positions, and a function in place of the operator shows that the         *)
(* recursion has a solution; the values after each position are its run.     *)

\* g is the fold of the first k positions, over each set of them.
SolvesFold(g, k, base, step) ==
  \A s \in SUBSET (1..k) :
    g[s] = IF s = {} THEN base ELSE step[<<g[s \ {Max(s)}], Max(s)>>]

Foldable(Typ, k, base, step) ==
  \E g \in [SUBSET (1..k) -> Typ] : SolvesFold(g, k, base, step)

LEMMA FoldExtends ==
  ASSUME NEW n \in Nat, NEW Typ, NEW base \in Typ, NEW step \in [Typ \X (1..n) -> Typ],
         NEW k \in Nat, k + 1 <= n, Foldable(Typ, k, base, step)
  PROVE  Foldable(Typ, k + 1, base, step)
<1>1. PICK f \in [SUBSET (1..k) -> Typ] : SolvesFold(f, k, base, step)
  BY DEF Foldable
<1> DEFINE g == [s \in SUBSET (1..(k + 1)) |->
                   IF k + 1 \in s THEN step[<<f[s \ {k + 1}], k + 1>>] ELSE f[s]]
<1>2. k + 1 \in 1..n /\ k \in 0..n
  OBVIOUS
<1>3. \A s \in SUBSET (1..(k + 1)) : s \ {k + 1} \in SUBSET (1..k)
  OBVIOUS
<1>4. \A s \in SUBSET (1..(k + 1)) : k + 1 \notin s => s \in SUBSET (1..k)
  OBVIOUS
<1>5. g \in [SUBSET (1..(k + 1)) -> Typ]
  <2> SUFFICES ASSUME NEW s \in SUBSET (1..(k + 1))
      PROVE (IF k + 1 \in s THEN step[<<f[s \ {k + 1}], k + 1>>] ELSE f[s]) \in Typ
    OBVIOUS
  <2>1. f[s \ {k + 1}] \in Typ
    BY <1>3
  <2>2. k + 1 \notin s => f[s] \in Typ
    BY <1>4
  <2> QED
    BY <1>2, <2>1, <2>2
<1>6. ASSUME NEW s \in SUBSET (1..(k + 1))
      PROVE  g[s] = IF s = {} THEN base ELSE step[<<g[s \ {Max(s)}], Max(s)>>]
  <2>1. CASE k + 1 \in s
    <3>1. \A x \in s : x \in Int /\ x <= k + 1
      OBVIOUS
    <3>2. Max(s) = k + 1
      BY <2>1, <3>1, MaxIs
    <3>3. s \ {k + 1} \in SUBSET (1..(k + 1)) /\ k + 1 \notin s \ {k + 1}
      OBVIOUS
    <3>4. g[s \ {k + 1}] = f[s \ {k + 1}]
      BY <3>3
    <3>5. g[s] = step[<<f[s \ {k + 1}], k + 1>>]
      BY <2>1
    <3> QED
      BY <2>1, <3>2, <3>4, <3>5
  <2>2. CASE k + 1 \notin s
    <3>1. s \in SUBSET (1..k) /\ g[s] = f[s]
      BY <1>4, <2>2
    <3>2. f[s] = IF s = {} THEN base ELSE step[<<f[s \ {Max(s)}], Max(s)>>]
      BY <1>1, <3>1 DEF SolvesFold
    <3>3. s \ {Max(s)} \in SUBSET (1..(k + 1)) /\ k + 1 \notin s \ {Max(s)}
      BY <2>2
    <3>4. g[s \ {Max(s)}] = f[s \ {Max(s)}]
      BY <3>3
    <3> QED
      BY <3>1, <3>2, <3>4
  <2> QED
    BY <2>1, <2>2
<1> HIDE DEF g
<1>7. SolvesFold(g, k + 1, base, step)
  BY <1>6 DEF SolvesFold
<1> QED
  BY <1>5, <1>7 DEF Foldable

LEMMA FoldExists ==
  ASSUME NEW n \in Nat, NEW Typ, NEW base \in Typ, NEW step \in [Typ \X (1..n) -> Typ]
  PROVE  Foldable(Typ, n, base, step)
<1> DEFINE T == {k \in Nat : k <= n => Foldable(Typ, k, base, step)}
<1>1. 0 \in T
  <2> DEFINE g == [s \in SUBSET (1..0) |-> base]
  <2>1. \A s \in SUBSET (1..0) : s = {}
    OBVIOUS
  <2>2. g \in [SUBSET (1..0) -> Typ] /\ \A s \in SUBSET (1..0) : g[s] = base
    OBVIOUS
  <2>3. SolvesFold(g, 0, base, step)
    BY <2>1, <2>2 DEF SolvesFold
  <2> QED
    BY <2>2, <2>3 DEF Foldable
<1>2. ASSUME NEW k \in Nat, k \in T PROVE k + 1 \in T
  <2>1. k + 1 <= n => Foldable(Typ, k, base, step)
    BY <1>2
  <2>2. k + 1 <= n => Foldable(Typ, k + 1, base, step)
    BY <2>1, FoldExtends
  <2> QED
    BY <2>2
<1>3. n \in T
  <2> HIDE DEF T
  <2> QED
    BY <1>1, <1>2, EveryNatural
<1> QED
  BY <1>3

\* h follows step along the first positions, as long as its values are typed.
StepsAlong(h, n, Typ, base, step) ==
  /\ h[{}] = base
  /\ \A k \in 1..n : h[1..(k - 1)] \in Typ => h[1..k] = step[<<h[1..(k - 1)], k>>]

\* The values after each position: base at first and end at last.
RunOf(F, n, Typ, base, step, end) ==
  /\ F \in [0..n -> Typ]
  /\ F[0] = base
  /\ F[n] = end
  /\ \A k \in 1..n : F[k] = step[<<F[k - 1], k>>]

LEMMA FoldRun ==
  ASSUME NEW n \in Nat, NEW Typ, NEW base \in Typ, NEW step \in [Typ \X (1..n) -> Typ],
         NEW h, StepsAlong(h, n, Typ, base, step), NEW end, end = h[1..n]
  PROVE  \E F : RunOf(F, n, Typ, base, step, end)
<1> DEFINE T == {k \in Nat : k <= n => h[1..k] \in Typ}
<1>1. 0 \in T
  <2>1. 1..0 = {}
    OBVIOUS
  <2> QED
    BY <2>1 DEF StepsAlong
<1>2. ASSUME NEW k \in Nat, k \in T PROVE k + 1 \in T
  <2> SUFFICES ASSUME k + 1 <= n PROVE h[1..(k + 1)] \in Typ
    OBVIOUS
  <2>1. k + 1 \in 1..n /\ (k + 1) - 1 = k /\ h[1..k] \in Typ
    BY <1>2
  <2>2. h[1..(k + 1)] = step[<<h[1..k], k + 1>>]
    BY <2>1 DEF StepsAlong
  <2> QED
    BY <2>1, <2>2
<1>3. \A k \in 0..n : h[1..k] \in Typ
  <2>1. \A k \in Nat : k \in T
    <3> HIDE DEF T
    <3> QED
      BY <1>1, <1>2, EveryNatural
  <2> QED
    BY <2>1
<1> DEFINE F == [k \in 0..n |-> h[1..k]]
<1>4. F \in [0..n -> Typ] /\ F[n] = h[1..n]
  BY <1>3
<1>5. F[0] = base
  <2>1. 1..0 = {} /\ 0 \in 0..n
    OBVIOUS
  <2> QED
    BY <2>1 DEF StepsAlong
<1>6. ASSUME NEW k \in 1..n PROVE F[k] = step[<<F[k - 1], k>>]
  <2>1. k - 1 \in 0..n /\ k \in 0..n
    OBVIOUS
  <2>2. h[1..k] = step[<<h[1..(k - 1)], k>>]
    BY <1>3, <2>1 DEF StepsAlong
  <2> QED
    BY <2>1, <2>2
<1> HIDE DEF F
<1> QED
  BY <1>4, <1>5, <1>6 DEF RunOf

\* The greatest of the first positions, and the positions before it.
LEMMA FirstPositions ==
  ASSUME NEW k \in Nat \ {0}
  PROVE  /\ 1..k # {}
         /\ Max(1..k) = k
         /\ (1..k) \ {k} = 1..(k - 1)
<1>1. k \in 1..k /\ 1..k \in SUBSET Int /\ \A x \in 1..k : x <= k
  OBVIOUS
<1>2. Max(1..k) = k
  BY <1>1, MaxIs
<1> QED
  BY <1>1, <1>2

-----------------------------------------------------------------------------
(* Sequences that are put together.                                          *)

LEMMA MembersOfConcat ==
  ASSUME NEW S, NEW s \in Seq(S), NEW t \in Seq(S)
  PROVE  s \o t \in Seq(S) /\ ToSet(s \o t) = ToSet(s) \cup ToSet(t)
<1> DEFINE m == Len(s)
<1> DEFINE n == Len(t)
<1>1. m \in Nat /\ n \in Nat /\ DOMAIN s = 1..m /\ DOMAIN t = 1..n
  OBVIOUS
<1>2. /\ s \o t \in Seq(S) /\ DOMAIN (s \o t) = 1..(m + n)
      /\ \A i \in 1..m : (s \o t)[i] = s[i]
      /\ \A i \in (m + 1)..(m + n) : (s \o t)[i] = t[i - m]
  BY ConcatProperties
<1>3. ASSUME NEW x \in ToSet(s \o t) PROVE x \in ToSet(s) \cup ToSet(t)
  <2>1. PICK i \in 1..(m + n) : (s \o t)[i] = x
    BY <1>2, <1>3 DEF ToSet
  <2>2. CASE i \in 1..m
    BY <1>1, <1>2, <2>1, <2>2 DEF ToSet
  <2>3. CASE i \in (m + 1)..(m + n)
    <3>1. i - m \in 1..n /\ x = t[i - m]
      BY <1>1, <1>2, <2>1, <2>3
    <3> QED
      BY <1>1, <3>1 DEF ToSet
  <2> QED
    BY <1>1, <2>2, <2>3
<1>4. ASSUME NEW i \in 1..m PROVE s[i] \in ToSet(s \o t)
  <2>1. i \in 1..(m + n) /\ (s \o t)[i] = s[i]
    BY <1>1, <1>2
  <2> QED
    BY <1>2, <2>1 DEF ToSet
<1>5. ASSUME NEW i \in 1..n PROVE t[i] \in ToSet(s \o t)
  <2>1. i + m \in (m + 1)..(m + n) /\ i + m \in 1..(m + n) /\ (i + m) - m = i
    BY <1>1
  <2>2. (s \o t)[i + m] = t[i]
    BY <1>2, <2>1
  <2> QED
    BY <1>2, <2>1, <2>2 DEF ToSet
<1> HIDE DEF m, n
<1> QED
  BY <1>1, <1>2, <1>3, <1>4, <1>5, ZenonT(40) DEF ToSet

LEMMA MembersOfAppend ==
  ASSUME NEW S, NEW s \in Seq(S), NEW e \in S
  PROVE  Append(s, e) \in Seq(S) /\ ToSet(Append(s, e)) = ToSet(s) \cup {e}
<1>1. Append(s, e) = s \o <<e>> /\ <<e>> \in Seq(S)
  BY AppendIsConcat
<1>2. ToSet(<<e>>) = {e}
  BY DEF ToSet
<1>3. s \o <<e>> \in Seq(S) /\ ToSet(s \o <<e>>) = ToSet(s) \cup ToSet(<<e>>)
  BY <1>1, MembersOfConcat, ZenonT(40)
<1> QED
  BY <1>1, <1>2, <1>3

\* FlattenSeq has the members of all its parts.
LEMMA MembersOfFlatten ==
  ASSUME NEW S, NEW s \in Seq(Seq(S)), NEW F, F = FlattenSeq(s)
  PROVE  /\ F \in Seq(S)
         /\ \A x : x \in ToSet(F) <=> \E i \in 1..Len(s) : x \in ToSet(s[i])
<1> DEFINE n == Len(s)
<1>1. n \in Nat /\ \A i \in 1..n : s[i] \in Seq(S)
  OBVIOUS
<1>2. CASE n = 0
  <2>1. F = <<>> /\ s = <<>>
    BY <1>2 DEF FlattenSeq
  <2> QED
    BY <1>2, <2>1 DEF ToSet
<1>3. CASE n # 0
  <2> DEFINE Joins(f, k) ==
        \A i \in 1..k : f[i] = IF i = 1 THEN s[i] ELSE f[i - 1] \o s[i]
  <2> DEFINE Is(f) == f = [i \in 1..n |-> IF i = 1 THEN s[i] ELSE f[i - 1] \o s[i]]
  <2> DEFINE T == {k \in Nat : k <= n => \E f \in [1..k -> Seq(S)] : Joins(f, k)}
  <2>1. 0 \in T
    <3> DEFINE f == [i \in 1..0 |-> s[i]]
    <3>1. f \in [1..0 -> Seq(S)]
      OBVIOUS
    <3>2. Joins(f, 0)
      OBVIOUS
    <3> QED
      BY <3>1, <3>2
  <2>2. ASSUME NEW k \in Nat, k \in T PROVE k + 1 \in T
    <3>1. k + 1 \in Nat
      OBVIOUS
    <3> SUFFICES ASSUME k + 1 <= n PROVE \E f \in [1..(k + 1) -> Seq(S)] : Joins(f, k + 1)
      BY <3>1, Zenon
    <3>2. PICK g \in [1..k -> Seq(S)] : Joins(g, k)
      <4>1. k <= n
        BY <1>1
      <4> QED
        BY <2>2, <4>1
    <3> DEFINE next == IF k + 1 = 1 THEN s[k + 1] ELSE g[k] \o s[k + 1]
    <3>3. next \in Seq(S)
      <4>1. s[k + 1] \in Seq(S)
        BY <1>1
      <4>2. k + 1 # 1 => g[k] \in Seq(S)
        OBVIOUS
      <4> QED
        BY <4>1, <4>2, ConcatProperties
    <3> HIDE DEF next
    <3> DEFINE f == [i \in 1..(k + 1) |-> IF i = k + 1 THEN next ELSE g[i]]
    <3>4. f \in [1..(k + 1) -> Seq(S)]
      BY <3>3
    <3>5. ASSUME NEW i \in 1..(k + 1)
          PROVE  f[i] = IF i = 1 THEN s[i] ELSE f[i - 1] \o s[i]
      <4>1. CASE i = k + 1
        <5>1. f[i] = next
          BY <4>1
        <5>2. i # 1 => i - 1 \in 1..(k + 1) /\ i - 1 # k + 1 /\ i - 1 = k
          BY <4>1
        <5>3. i # 1 => f[i - 1] = g[k]
          BY <5>2
        <5> QED
          BY <4>1, <5>1, <5>3 DEF next
      <4>2. CASE i \in 1..k
        <5>1. f[i] = g[i]
          BY <4>2
        <5>2. i # 1 => i - 1 \in 1..(k + 1) /\ i - 1 # k + 1
          BY <4>2
        <5>3. i # 1 => f[i - 1] = g[i - 1]
          BY <5>2
        <5>4. g[i] = IF i = 1 THEN s[i] ELSE g[i - 1] \o s[i]
          BY <3>2, <4>2
        <5> QED
          BY <5>1, <5>3, <5>4
      <4> QED
        BY <4>1, <4>2
    <3> HIDE DEF f
    <3> QED
      BY <3>4, <3>5
  <2>3. n \in T
    <3> HIDE DEF T
    <3> QED
      BY <1>1, <2>1, <2>2, EveryNatural
  <2>4. PICK g \in [1..n -> Seq(S)] : Joins(g, n)
    BY <1>1, <2>3
  <2>5. Is(g)
    <3>1. g = [i \in 1..n |-> g[i]]
      OBVIOUS
    <3> QED
      BY <2>4, <3>1
  <2> DEFINE h == CHOOSE f : Is(f)
  <2>6. Is(h)
    BY <2>5
  <2>7. F = h[n]
    BY <1>3 DEF FlattenSeq
  <2> HIDE DEF h
  <2>8. \A i \in 1..n : h[i] = IF i = 1 THEN s[i] ELSE h[i - 1] \o s[i]
    BY <2>6
  <2> DEFINE Through(k) ==
        /\ h[k] \in Seq(S)
        /\ \A x : x \in ToSet(h[k]) <=> \E i \in 1..k : x \in ToSet(s[i])
  <2> DEFINE U == {k \in Nat : k \in 1..n => Through(k)}
  <2>9. 0 \in U
    OBVIOUS
  <2>10. ASSUME NEW k \in Nat, k \in U PROVE k + 1 \in U
    <3> SUFFICES ASSUME k + 1 \in 1..n PROVE Through(k + 1)
      OBVIOUS
    <3>1. CASE k = 0
      <4>1. h[k + 1] = s[k + 1] /\ 1..(k + 1) = {k + 1}
        BY <2>8, <3>1
      <4> QED
        BY <1>1, <4>1
    <3>2. CASE k # 0
      <4>1. k \in 1..n /\ Through(k)
        BY <1>1, <2>10, <3>2
      <4>2. h[k + 1] = h[k] \o s[k + 1]
        <5>1. k + 1 # 1 /\ (k + 1) - 1 = k
          BY <3>2
        <5> QED
          BY <2>8, <5>1
      <4>3. h[k + 1] \in Seq(S) /\ ToSet(h[k + 1]) = ToSet(h[k]) \cup ToSet(s[k + 1])
        BY <1>1, <4>1, <4>2, MembersOfConcat
      <4>4. 1..(k + 1) = 1..k \cup {k + 1}
        OBVIOUS
      <4>5. \A x : x \in ToSet(h[k + 1]) <=> \E i \in 1..(k + 1) : x \in ToSet(s[i])
        BY <4>1, <4>3, <4>4
      <4> QED
        BY <4>3, <4>5
    <3> QED
      BY <3>1, <3>2
  <2>11. Through(n)
    <3>1. n \in U
      <4> HIDE DEF U
      <4> QED
        BY <1>1, <2>9, <2>10, EveryNatural
    <3> QED
      BY <1>1, <1>3, <3>1
  <2> QED
    BY <2>7, <2>11
<1> QED
  BY <1>2, <1>3
=============================================================================
