------------------------ MODULE ReturnMetricsProofs ------------------------
(***************************************************************************)
(* Proofs about ReturnMetrics: each figure that the program computes in    *)
(* several loops is the same in all of them, and is what its definition    *)
(* without a loop says, for every frame: any number of rows, any net       *)
(* values, any months and any division of the months into years.           *)
(*                                                                         *)
(* The loops are folds, and what a loop has after k rows is shown from     *)
(* what it has after k - 1 (LoopProofs): FoldRun replaces each fold by its *)
(* run, after which each loop has an invariant over the first k rows:      *)
(* RepairUpTo, YearsUpTo, LightUpTo, StreakUpTo, HighsUpTo.                *)
(*                                                                         *)
(* The groups of a frame are stretches of it, since its months never go    *)
(* back: FrameInv, the only invariant of the frames themselves. A year     *)
(* begins where the one before ended (YearsDivide), so the growths of the  *)
(* years and those of the months multiply to the same product, in which    *)
(* all closes but the last cancel (Telescope).                             *)
(***************************************************************************)
EXTENDS ReturnMetrics, LoopProofs

(* The loops of the metrics: what each of them keeps, and its run.           *)

RepairAcc == [peak : Int, days : Nat, longest : Nat]

LEMMA RepairTyped ==
  ASSUME NEW acc \in RepairAcc, NEW row \in FrameRows
  PROVE  RepairStep(acc, row) \in RepairAcc
<1>1. row.nav \in Int
  BY FrameAssumption DEF FrameRows
<1>2. acc.longest \in Nat /\ acc.days \in Nat
  BY DEF RepairAcc
<1>3. Max({acc.longest, acc.days}) \in Nat
  BY <1>2, MaxPair
<1> QED
  BY <1>1, <1>3 DEF RepairStep, RepairAcc

LEMMA RepairRun ==
  ASSUME NEW n \in Nat, NEW s \in [1..n -> FrameRows], NEW base \in RepairAcc
  PROVE  \E F \in [0..n -> RepairAcc] :
           /\ F[0] = base
           /\ F[n] = RepairFrom(base, s)
           /\ \A k \in 1..n : F[k] = RepairStep(F[k - 1], s[k])
<1> DEFINE step == [p \in RepairAcc \X (1..n) |-> RepairStep(p[1], s[p[2]])]
<1> DEFINE Recursion(g) ==
      g = [t \in SUBSET (1..n) |->
             IF t = {} THEN base ELSE RepairStep(g[t \ {Max(t)}], s[Max(t)])]
<1>1. \A acc \in RepairAcc, k \in 1..n :
        step[<<acc, k>>] = RepairStep(acc, s[k]) /\ RepairStep(acc, s[k]) \in RepairAcc
  BY RepairTyped
<1>2. step \in [RepairAcc \X (1..n) -> RepairAcc]
  BY <1>1
<1> HIDE DEF step
<1>3. \E g : Recursion(g)
  <2>1. PICK g \in [SUBSET (1..n) -> RepairAcc] : SolvesFold(g, n, base, step)
    BY <1>2, FoldExists DEF Foldable
  <2>2. ASSUME NEW t \in SUBSET (1..n), t # {}
        PROVE  Max(t) \in 1..n /\ g[t \ {Max(t)}] \in RepairAcc
    <3>1. \A x \in t : x \in Nat /\ x <= n
      OBVIOUS
    <3>2. Max(t) \in t
      BY <2>2, <3>1, GreatestBelow
    <3> QED
      BY <3>2
  <2>3. \A t \in SUBSET (1..n) :
          g[t] = IF t = {} THEN base ELSE RepairStep(g[t \ {Max(t)}], s[Max(t)])
    BY <1>1, <2>1, <2>2 DEF SolvesFold
  <2> QED
    BY <2>3
<1> DEFINE h == CHOOSE g : Recursion(g)
<1>4. RepairFrom(base, s) = h[1..n]
  <2>1. DOMAIN s = 1..n
    OBVIOUS
  <2> QED
    BY <2>1 DEF RepairFrom, FoldLeft, MapThenFoldSet
<1>5. Recursion(h)
  BY <1>3
<1> HIDE DEF h
<1>6. h[{}] = base /\ \A k \in 1..n : h[1..k] = RepairStep(h[1..(k - 1)], s[k])
  <2>1. h[{}] = base
    BY <1>5
  <2>2. ASSUME NEW k \in 1..n PROVE h[1..k] = RepairStep(h[1..(k - 1)], s[k])
    <3>1. 1..k \in SUBSET (1..n)
      OBVIOUS
    <3>2. 1..k # {} /\ Max(1..k) = k /\ (1..k) \ {k} = 1..(k - 1)
      <4>1. k \in Nat \ {0}
        OBVIOUS
      <4> QED
        BY <4>1, FirstPositions, Zenon
    <3>3. h[1..k] = IF 1..k = {} THEN base ELSE RepairStep(h[(1..k) \ {Max(1..k)}], s[Max(1..k)])
      BY <1>5, <3>1
    <3> QED
      BY <3>2, <3>3
  <2> QED
    BY <2>1, <2>2
<1> HIDE DEF Recursion
<1>7. StepsAlong(h, n, RepairAcc, base, step)
  BY <1>1, <1>6 DEF StepsAlong
<1>8. PICK F : RunOf(F, n, RepairAcc, base, step, RepairFrom(base, s))
  BY <1>2, <1>4, <1>7, FoldRun
<1>9. \A k \in 1..n : F[k - 1] \in RepairAcc
  BY <1>8 DEF RunOf
<1> QED
  BY <1>1, <1>8, <1>9 DEF RunOf

LightAcc == [i : Nat, peak : Nat, fall : Int \X Nat, at : Nat]
LightFrom(base, s) == FoldLeft(LightStep, base, s)

LEMMA LightTyped ==
  ASSUME NEW acc \in LightAcc, NEW row \in FrameRows
  PROVE  LightStep(acc, row) \in LightAcc
<1>1. row.nav \in Int
  BY FrameAssumption DEF FrameRows
<1>2. acc.i + 1 \in Nat /\ acc.peak \in Nat
  BY DEF LightAcc
<1>3. PICK peak \in Nat : peak = IF row.nav > acc.peak THEN row.nav ELSE acc.peak
  BY <1>1, <1>2
<1>4. PICK fall \in Int \X Nat : fall = Fall(peak, row.nav)
  <2>1. PICK nav \in Int : nav = row.nav
    BY <1>1
  <2>2. Fall(peak, nav) = <<peak - nav, peak>> \/ Fall(peak, nav) = <<0, 1>>
    BY DEF Fall
  <2>3. Fall(peak, nav) \in Int \X Nat
    BY <2>2
  <2> QED
    BY <2>1, <2>3
<1>5. LightStep(acc, row) =
        IF Less(acc.fall, fall)
        THEN [i |-> acc.i + 1, peak |-> peak, fall |-> fall, at |-> acc.i + 1]
        ELSE [acc EXCEPT !.i = acc.i + 1, !.peak = peak]
  BY <1>3, <1>4 DEF LightStep
<1>6. CASE Less(acc.fall, fall)
  BY <1>2, <1>5, <1>6 DEF LightAcc
<1>7. CASE ~Less(acc.fall, fall)
  BY <1>2, <1>5, <1>7 DEF LightAcc
<1> QED
  BY <1>6, <1>7

LEMMA LightRun ==
  ASSUME NEW n \in Nat, NEW s \in [1..n -> FrameRows], NEW base \in LightAcc
  PROVE  \E F \in [0..n -> LightAcc] :
           /\ F[0] = base
           /\ F[n] = LightFrom(base, s)
           /\ \A k \in 1..n : F[k] = LightStep(F[k - 1], s[k])
<1> DEFINE step == [p \in LightAcc \X (1..n) |-> LightStep(p[1], s[p[2]])]
<1> DEFINE Recursion(g) ==
      g = [t \in SUBSET (1..n) |->
             IF t = {} THEN base ELSE LightStep(g[t \ {Max(t)}], s[Max(t)])]
<1>1. \A acc \in LightAcc, k \in 1..n :
        step[<<acc, k>>] = LightStep(acc, s[k]) /\ LightStep(acc, s[k]) \in LightAcc
  BY LightTyped
<1>2. step \in [LightAcc \X (1..n) -> LightAcc]
  BY <1>1
<1> HIDE DEF step
<1>3. \E g : Recursion(g)
  <2>1. PICK g \in [SUBSET (1..n) -> LightAcc] : SolvesFold(g, n, base, step)
    BY <1>2, FoldExists DEF Foldable
  <2>2. ASSUME NEW t \in SUBSET (1..n), t # {}
        PROVE  Max(t) \in 1..n /\ g[t \ {Max(t)}] \in LightAcc
    <3>1. \A x \in t : x \in Nat /\ x <= n
      OBVIOUS
    <3>2. Max(t) \in t
      BY <2>2, <3>1, GreatestBelow
    <3> QED
      BY <3>2
  <2>3. \A t \in SUBSET (1..n) :
          g[t] = IF t = {} THEN base ELSE LightStep(g[t \ {Max(t)}], s[Max(t)])
    BY <1>1, <2>1, <2>2 DEF SolvesFold
  <2> QED
    BY <2>3
<1> DEFINE h == CHOOSE g : Recursion(g)
<1>4. LightFrom(base, s) = h[1..n]
  <2>1. DOMAIN s = 1..n
    OBVIOUS
  <2> QED
    BY <2>1 DEF LightFrom, FoldLeft, MapThenFoldSet
<1>5. Recursion(h)
  BY <1>3
<1> HIDE DEF h
<1>6. h[{}] = base /\ \A k \in 1..n : h[1..k] = LightStep(h[1..(k - 1)], s[k])
  <2>1. h[{}] = base
    BY <1>5
  <2>2. ASSUME NEW k \in 1..n PROVE h[1..k] = LightStep(h[1..(k - 1)], s[k])
    <3>1. 1..k \in SUBSET (1..n)
      OBVIOUS
    <3>2. 1..k # {} /\ Max(1..k) = k /\ (1..k) \ {k} = 1..(k - 1)
      <4>1. k \in Nat \ {0}
        OBVIOUS
      <4> QED
        BY <4>1, FirstPositions, Zenon
    <3>3. h[1..k] = IF 1..k = {} THEN base ELSE LightStep(h[(1..k) \ {Max(1..k)}], s[Max(1..k)])
      BY <1>5, <3>1
    <3> QED
      BY <3>2, <3>3
  <2> QED
    BY <2>1, <2>2
<1> HIDE DEF Recursion
<1>7. StepsAlong(h, n, LightAcc, base, step)
  BY <1>1, <1>6 DEF StepsAlong
<1>8. PICK F : RunOf(F, n, LightAcc, base, step, LightFrom(base, s))
  BY <1>2, <1>4, <1>7, FoldRun
<1>9. \A k \in 1..n : F[k - 1] \in LightAcc
  BY <1>8 DEF RunOf
<1> QED
  BY <1>1, <1>8, <1>9 DEF RunOf

StreakAcc == [gain : Nat, loss : Nat, maxGain : Nat, maxLoss : Nat]
StreakFrom(base, s) == FoldLeft(StreakStep, base, s)
Ratios == (Nat \ {0}) \X (Nat \ {0})

LEMMA StreakTyped ==
  ASSUME NEW acc \in StreakAcc, NEW g \in Ratios
  PROVE  StreakStep(acc, g) \in StreakAcc
<1> DEFINE gain == IF g[1] > g[2] THEN acc.gain + 1 ELSE 0
<1> DEFINE loss == IF g[1] < g[2] THEN acc.loss + 1 ELSE 0
<1>1. gain \in Nat /\ loss \in Nat /\ acc.maxGain \in Nat /\ acc.maxLoss \in Nat
  BY DEF StreakAcc, Ratios
<1> HIDE DEF gain, loss
<1>2. Max({acc.maxGain, gain}) \in Nat /\ Max({acc.maxLoss, loss}) \in Nat
  BY <1>1, MaxPair
<1> QED
  BY <1>1, <1>2 DEF StreakStep, StreakAcc, gain, loss

LEMMA StreakRun ==
  ASSUME NEW n \in Nat, NEW s \in [1..n -> Ratios], NEW base \in StreakAcc
  PROVE  \E F \in [0..n -> StreakAcc] :
           /\ F[0] = base
           /\ F[n] = StreakFrom(base, s)
           /\ \A k \in 1..n : F[k] = StreakStep(F[k - 1], s[k])
<1> DEFINE step == [p \in StreakAcc \X (1..n) |-> StreakStep(p[1], s[p[2]])]
<1> DEFINE Recursion(g) ==
      g = [t \in SUBSET (1..n) |->
             IF t = {} THEN base ELSE StreakStep(g[t \ {Max(t)}], s[Max(t)])]
<1>1. \A acc \in StreakAcc, k \in 1..n :
        step[<<acc, k>>] = StreakStep(acc, s[k]) /\ StreakStep(acc, s[k]) \in StreakAcc
  BY StreakTyped
<1>2. step \in [StreakAcc \X (1..n) -> StreakAcc]
  BY <1>1
<1> HIDE DEF step
<1>3. \E g : Recursion(g)
  <2>1. PICK g \in [SUBSET (1..n) -> StreakAcc] : SolvesFold(g, n, base, step)
    BY <1>2, FoldExists DEF Foldable
  <2>2. ASSUME NEW t \in SUBSET (1..n), t # {}
        PROVE  Max(t) \in 1..n /\ g[t \ {Max(t)}] \in StreakAcc
    <3>1. \A x \in t : x \in Nat /\ x <= n
      OBVIOUS
    <3>2. Max(t) \in t
      BY <2>2, <3>1, GreatestBelow
    <3> QED
      BY <3>2
  <2>3. \A t \in SUBSET (1..n) :
          g[t] = IF t = {} THEN base ELSE StreakStep(g[t \ {Max(t)}], s[Max(t)])
    BY <1>1, <2>1, <2>2 DEF SolvesFold
  <2> QED
    BY <2>3
<1> DEFINE h == CHOOSE g : Recursion(g)
<1>4. StreakFrom(base, s) = h[1..n]
  <2>1. DOMAIN s = 1..n
    OBVIOUS
  <2> QED
    BY <2>1 DEF StreakFrom, FoldLeft, MapThenFoldSet
<1>5. Recursion(h)
  BY <1>3
<1> HIDE DEF h
<1>6. h[{}] = base /\ \A k \in 1..n : h[1..k] = StreakStep(h[1..(k - 1)], s[k])
  <2>1. h[{}] = base
    BY <1>5
  <2>2. ASSUME NEW k \in 1..n PROVE h[1..k] = StreakStep(h[1..(k - 1)], s[k])
    <3>1. 1..k \in SUBSET (1..n)
      OBVIOUS
    <3>2. 1..k # {} /\ Max(1..k) = k /\ (1..k) \ {k} = 1..(k - 1)
      <4>1. k \in Nat \ {0}
        OBVIOUS
      <4> QED
        BY <4>1, FirstPositions, Zenon
    <3>3. h[1..k] = IF 1..k = {} THEN base ELSE StreakStep(h[(1..k) \ {Max(1..k)}], s[Max(1..k)])
      BY <1>5, <3>1
    <3> QED
      BY <3>2, <3>3
  <2> QED
    BY <2>1, <2>2
<1> HIDE DEF Recursion
<1>7. StepsAlong(h, n, StreakAcc, base, step)
  BY <1>1, <1>6 DEF StepsAlong
<1>8. PICK F : RunOf(F, n, StreakAcc, base, step, StreakFrom(base, s))
  BY <1>2, <1>4, <1>7, FoldRun
<1>9. \A k \in 1..n : F[k - 1] \in StreakAcc
  BY <1>8 DEF RunOf
<1> QED
  BY <1>1, <1>8, <1>9 DEF RunOf

HighAcc == [highest : Int, next : Nat, positions : Seq(Nat)]
HighFrom(base, s) == FoldLeft(HighStep, base, s)

LEMMA HighTyped ==
  ASSUME NEW acc \in HighAcc, NEW row \in FrameRows
  PROVE  HighStep(acc, row) \in HighAcc
<1>1. row.nav \in Int
  BY FrameAssumption DEF FrameRows
<1> QED
  BY <1>1 DEF HighStep, HighAcc

LEMMA HighRun ==
  ASSUME NEW n \in Nat, NEW s \in [1..n -> FrameRows], NEW base \in HighAcc
  PROVE  \E F \in [0..n -> HighAcc] :
           /\ F[0] = base
           /\ F[n] = HighFrom(base, s)
           /\ \A k \in 1..n : F[k] = HighStep(F[k - 1], s[k])
<1> DEFINE step == [p \in HighAcc \X (1..n) |-> HighStep(p[1], s[p[2]])]
<1> DEFINE Recursion(g) ==
      g = [t \in SUBSET (1..n) |->
             IF t = {} THEN base ELSE HighStep(g[t \ {Max(t)}], s[Max(t)])]
<1>1. \A acc \in HighAcc, k \in 1..n :
        step[<<acc, k>>] = HighStep(acc, s[k]) /\ HighStep(acc, s[k]) \in HighAcc
  BY HighTyped
<1>2. step \in [HighAcc \X (1..n) -> HighAcc]
  BY <1>1
<1> HIDE DEF step
<1>3. \E g : Recursion(g)
  <2>1. PICK g \in [SUBSET (1..n) -> HighAcc] : SolvesFold(g, n, base, step)
    BY <1>2, FoldExists DEF Foldable
  <2>2. ASSUME NEW t \in SUBSET (1..n), t # {}
        PROVE  Max(t) \in 1..n /\ g[t \ {Max(t)}] \in HighAcc
    <3>1. \A x \in t : x \in Nat /\ x <= n
      OBVIOUS
    <3>2. Max(t) \in t
      BY <2>2, <3>1, GreatestBelow
    <3> QED
      BY <3>2
  <2>3. \A t \in SUBSET (1..n) :
          g[t] = IF t = {} THEN base ELSE HighStep(g[t \ {Max(t)}], s[Max(t)])
    BY <1>1, <2>1, <2>2 DEF SolvesFold
  <2> QED
    BY <2>3
<1> DEFINE h == CHOOSE g : Recursion(g)
<1>4. HighFrom(base, s) = h[1..n]
  <2>1. DOMAIN s = 1..n
    OBVIOUS
  <2> QED
    BY <2>1 DEF HighFrom, FoldLeft, MapThenFoldSet
<1>5. Recursion(h)
  BY <1>3
<1> HIDE DEF h
<1>6. h[{}] = base /\ \A k \in 1..n : h[1..k] = HighStep(h[1..(k - 1)], s[k])
  <2>1. h[{}] = base
    BY <1>5
  <2>2. ASSUME NEW k \in 1..n PROVE h[1..k] = HighStep(h[1..(k - 1)], s[k])
    <3>1. 1..k \in SUBSET (1..n)
      OBVIOUS
    <3>2. 1..k # {} /\ Max(1..k) = k /\ (1..k) \ {k} = 1..(k - 1)
      <4>1. k \in Nat \ {0}
        OBVIOUS
      <4> QED
        BY <4>1, FirstPositions, Zenon
    <3>3. h[1..k] = IF 1..k = {} THEN base ELSE HighStep(h[(1..k) \ {Max(1..k)}], s[Max(1..k)])
      BY <1>5, <3>1
    <3> QED
      BY <3>2, <3>3
  <2> QED
    BY <2>1, <2>2
<1> HIDE DEF Recursion
<1>7. StepsAlong(h, n, HighAcc, base, step)
  BY <1>1, <1>6 DEF StepsAlong
<1>8. PICK F : RunOf(F, n, HighAcc, base, step, HighFrom(base, s))
  BY <1>2, <1>4, <1>7, FoldRun
<1>9. \A k \in 1..n : F[k - 1] \in HighAcc
  BY <1>8 DEF RunOf
<1> QED
  BY <1>1, <1>8, <1>9 DEF RunOf

ProductFrom(base, s) == FoldLeft(Times, base, s)

LEMMA ProductTyped ==
  ASSUME NEW a \in Ratios, NEW b \in Ratios
  PROVE  Times(a, b) \in Ratios
<1>1. a[1] \in Nat \ {0} /\ a[2] \in Nat \ {0} /\ b[1] \in Nat \ {0} /\ b[2] \in Nat \ {0}
  BY DEF Ratios
<1>2. \A x, y \in Nat \ {0} : x * y \in Nat \ {0}
  OBVIOUS
<1> QED
  BY <1>1, <1>2 DEF Times, Ratios

LEMMA ProductRun ==
  ASSUME NEW n \in Nat, NEW s \in [1..n -> Ratios], NEW base \in Ratios
  PROVE  \E F \in [0..n -> Ratios] :
           /\ F[0] = base
           /\ F[n] = ProductFrom(base, s)
           /\ \A k \in 1..n : F[k] = Times(F[k - 1], s[k])
<1> DEFINE step == [p \in Ratios \X (1..n) |-> Times(p[1], s[p[2]])]
<1> DEFINE Recursion(g) ==
      g = [t \in SUBSET (1..n) |->
             IF t = {} THEN base ELSE Times(g[t \ {Max(t)}], s[Max(t)])]
<1>1. \A acc \in Ratios, k \in 1..n :
        step[<<acc, k>>] = Times(acc, s[k]) /\ Times(acc, s[k]) \in Ratios
  BY ProductTyped
<1>2. step \in [Ratios \X (1..n) -> Ratios]
  BY <1>1
<1> HIDE DEF step
<1>3. \E g : Recursion(g)
  <2>1. PICK g \in [SUBSET (1..n) -> Ratios] : SolvesFold(g, n, base, step)
    BY <1>2, FoldExists DEF Foldable
  <2>2. ASSUME NEW t \in SUBSET (1..n), t # {}
        PROVE  Max(t) \in 1..n /\ g[t \ {Max(t)}] \in Ratios
    <3>1. \A x \in t : x \in Nat /\ x <= n
      OBVIOUS
    <3>2. Max(t) \in t
      BY <2>2, <3>1, GreatestBelow
    <3> QED
      BY <3>2
  <2>3. \A t \in SUBSET (1..n) :
          g[t] = IF t = {} THEN base ELSE Times(g[t \ {Max(t)}], s[Max(t)])
    BY <1>1, <2>1, <2>2 DEF SolvesFold
  <2> QED
    BY <2>3
<1> DEFINE h == CHOOSE g : Recursion(g)
<1>4. ProductFrom(base, s) = h[1..n]
  <2>1. DOMAIN s = 1..n
    OBVIOUS
  <2> QED
    BY <2>1 DEF ProductFrom, FoldLeft, MapThenFoldSet
<1>5. Recursion(h)
  BY <1>3
<1> HIDE DEF h
<1>6. h[{}] = base /\ \A k \in 1..n : h[1..k] = Times(h[1..(k - 1)], s[k])
  <2>1. h[{}] = base
    BY <1>5
  <2>2. ASSUME NEW k \in 1..n PROVE h[1..k] = Times(h[1..(k - 1)], s[k])
    <3>1. 1..k \in SUBSET (1..n)
      OBVIOUS
    <3>2. 1..k # {} /\ Max(1..k) = k /\ (1..k) \ {k} = 1..(k - 1)
      <4>1. k \in Nat \ {0}
        OBVIOUS
      <4> QED
        BY <4>1, FirstPositions, Zenon
    <3>3. h[1..k] = IF 1..k = {} THEN base ELSE Times(h[(1..k) \ {Max(1..k)}], s[Max(1..k)])
      BY <1>5, <3>1
    <3> QED
      BY <3>2, <3>3
  <2> QED
    BY <2>1, <2>2
<1> HIDE DEF Recursion
<1>7. StepsAlong(h, n, Ratios, base, step)
  BY <1>1, <1>6 DEF StepsAlong
<1>8. PICK F : RunOf(F, n, Ratios, base, step, ProductFrom(base, s))
  BY <1>2, <1>4, <1>7, FoldRun
<1>9. \A k \in 1..n : F[k - 1] \in Ratios
  BY <1>8 DEF RunOf
<1> QED
  BY <1>1, <1>8, <1>9 DEF RunOf

-----------------------------------------------------------------------------
(* Rows at chosen positions. *)

\* A frame that has rows: its months do not decrease.
IsFrame(f) ==
  /\ f \in Seq(FrameRows) /\ Len(f) \in Nat \ {0}
  /\ \A i, j \in 1..Len(f) : i <= j => f[i].month <= f[j].month

LEMMA RowTypes ==
  ASSUME NEW r \in FrameRows
  PROVE  r.nav \in Int /\ r.month \in Month /\ r.month \in Nat /\ YearOf[r.month] \in Nat
<1>1. r.nav \in NetValue /\ r.month \in Month
  BY DEF FrameRows
<1> QED
  BY <1>1, FrameAssumption

LEMMA RowsAtListed ==
  ASSUME NEW n \in Nat, NEW f \in [1..n -> FrameRows], NEW S \in SUBSET (1..n)
  PROVE  /\ Cardinality(S) \in Nat
         /\ InOrder(S) \in [1..Cardinality(S) -> S]
         /\ \A i, j \in 1..Cardinality(S) : i < j => InOrder(S)[i] < InOrder(S)[j]
         /\ \A e \in S : \E i \in 1..Cardinality(S) : InOrder(S)[i] = e
         /\ RowsAt(f, S) \in [1..Cardinality(S) -> FrameRows]
         /\ \A k \in 1..Cardinality(S) : RowsAt(f, S)[k] = f[InOrder(S)[k]]
         /\ RowsAt(f, S) \in Seq(FrameRows) /\ Len(RowsAt(f, S)) = Cardinality(S)
<1>1. IsFiniteSet(S)
  <2>1. IsFiniteSet(1..n)
    BY FS_Interval
  <2> QED
    BY <2>1, FS_Subset
<1>2. S \in SUBSET Nat
  OBVIOUS
<1>3. /\ Cardinality(S) \in Nat
      /\ InOrder(S) \in [1..Cardinality(S) -> S]
      /\ \A i, j \in 1..Cardinality(S) : i < j => InOrder(S)[i] < InOrder(S)[j]
      /\ \A e \in S : \E i \in 1..Cardinality(S) : InOrder(S)[i] = e
  BY <1>1, <1>2, InOrderSorted
<1>4. DOMAIN InOrder(S) = 1..Cardinality(S)
  BY <1>3
<1>5. RowsAt(f, S) = [k \in 1..Cardinality(S) |-> f[InOrder(S)[k]]]
  BY <1>4 DEF RowsAt
<1>6. \A k \in 1..Cardinality(S) : f[InOrder(S)[k]] \in FrameRows
  BY <1>3
<1>7. RowsAt(f, S) \in [1..Cardinality(S) -> FrameRows]
  BY <1>5, <1>6
<1>8. RowsAt(f, S) \in Seq(FrameRows) /\ Len(RowsAt(f, S)) = Cardinality(S)
  BY <1>3, <1>7
<1> QED
  BY <1>3, <1>5, <1>7, <1>8

-----------------------------------------------------------------------------
(* Streaks. *)

\* The trailing streak and the longest one of the first k positions.
StreakUpTo(k, B, c, M) ==
  /\ c[k] <= k
  /\ \A i \in (k - c[k] + 1)..k : i \in B
  /\ k - c[k] >= 1 => k - c[k] \notin B
  /\ \A p, q \in 1..k : p <= q /\ (\A i \in p..q : i \in B) => q - p + 1 <= M[k]
  /\ M[k] = 0 \/ \E p, q \in 1..k : p <= q /\ (\A i \in p..q : i \in B) /\ M[k] = q - p + 1

LEMMA LongestStreak ==
  ASSUME NEW m \in Nat, NEW B, NEW c \in [0..m -> Nat], NEW M \in [0..m -> Nat],
         c[0] = 0, M[0] = 0,
         \A k \in 1..m : c[k] = IF k \in B THEN c[k - 1] + 1 ELSE 0,
         \A k \in 1..m : M[k] = IF M[k - 1] >= c[k] THEN M[k - 1] ELSE c[k]
  PROVE  StreakUpTo(m, B, c, M)
<1> DEFINE T == {k \in Nat : k <= m => StreakUpTo(k, B, c, M)}
<1>1. 0 \in T
  BY DEF StreakUpTo
<1>2. ASSUME NEW k \in Nat, k \in T PROVE k + 1 \in T
  <2> SUFFICES ASSUME k + 1 <= m PROVE StreakUpTo(k + 1, B, c, M)
    OBVIOUS
  <2>1. StreakUpTo(k, B, c, M)
    BY <1>2
  <2>2. /\ c[k] \in Nat /\ M[k] \in Nat /\ c[k + 1] \in Nat /\ M[k + 1] \in Nat
        /\ c[k + 1] = IF k + 1 \in B THEN c[k] + 1 ELSE 0
        /\ M[k + 1] = IF M[k] >= c[k + 1] THEN M[k] ELSE c[k + 1]
    <3>1. k + 1 \in 1..m /\ (k + 1) - 1 = k /\ k \in 0..m /\ k + 1 \in 0..m
      OBVIOUS
    <3> QED
      BY <3>1
  <2> DEFINE d == c[k]
             e == c[k + 1]
             L == M[k]
             N == M[k + 1]
  <2>3. /\ d <= k
        /\ \A i \in (k - d + 1)..k : i \in B
        /\ k - d >= 1 => k - d \notin B
        /\ \A p, q \in 1..k : p <= q /\ (\A i \in p..q : i \in B) => q - p + 1 <= L
        /\ L = 0 \/ \E p, q \in 1..k : p <= q /\ (\A i \in p..q : i \in B) /\ L = q - p + 1
    BY <2>1 DEF StreakUpTo
  <2>4. /\ d \in Nat /\ L \in Nat /\ e \in Nat /\ N \in Nat
        /\ e = IF k + 1 \in B THEN d + 1 ELSE 0
        /\ N = IF L >= e THEN L ELSE e
    BY <2>2
  <2> HIDE DEF d, e, L, N
  <2>5. e <= k + 1 /\ L <= N /\ e <= N
    <3>1. d <= k /\ k \in Int
      BY <2>3
    <3>2. CASE k + 1 \in B
      <4>1. e = d + 1
        BY <2>4, <3>2
      <4> QED
        BY <2>4, <3>1, <4>1
    <3>3. CASE k + 1 \notin B
      <4>1. e = 0
        BY <2>4, <3>3
      <4> QED
        BY <2>4, <3>1, <4>1
    <3> QED
      BY <3>2, <3>3
  <2>6. \A i \in ((k + 1) - e + 1)..(k + 1) : i \in B
    <3>1. CASE k + 1 \in B
      <4> SUFFICES ASSUME NEW i \in ((k + 1) - e + 1)..(k + 1) PROVE i \in B
        OBVIOUS
      <4>1. i = k + 1 \/ i \in (k - d + 1)..k
        BY <2>4, <3>1
      <4> QED
        BY <2>3, <3>1, <4>1
    <3>2. CASE k + 1 \notin B
      BY <2>4, <3>2
    <3> QED
      BY <3>1, <3>2
  <2>7. (k + 1) - e >= 1 => (k + 1) - e \notin B
    <3>1. CASE k + 1 \in B
      <4>1. (k + 1) - e = k - d
        BY <2>4, <3>1
      <4> QED
        BY <2>3, <4>1
    <3>2. CASE k + 1 \notin B
      BY <2>4, <3>2
    <3> QED
      BY <3>1, <3>2
  <2>8. ASSUME NEW p \in 1..(k + 1), NEW q \in 1..(k + 1), p <= q, \A i \in p..q : i \in B
        PROVE  q - p + 1 <= N
    <3>1. CASE q <= k
      <4>1. p \in 1..k /\ q \in 1..k
        BY <2>8, <3>1
      <4>2. q - p + 1 <= L
        BY <2>3, <2>8, <4>1
      <4> QED
        BY <2>4, <2>5, <4>1, <4>2, SMTT(40)
    <3>2. CASE q = k + 1
      <4>1. k + 1 \in B
        BY <2>8, <3>2
      <4>2. ~(p <= k - d)
        <5> SUFFICES ASSUME p <= k - d PROVE FALSE
          OBVIOUS
        <5>1. k - d >= 1 /\ k - d \in p..q
          BY <2>4, <3>2
        <5> QED
          BY <2>3, <2>8, <5>1
      <4> QED
        BY <2>4, <2>5, <3>2, <4>1, <4>2
    <3> QED
      BY <3>1, <3>2
  <2>9. N = 0 \/ \E p, q \in 1..(k + 1) :
                    p <= q /\ (\A i \in p..q : i \in B) /\ N = q - p + 1
    <3>1. CASE N = L
      <4>1. 1..k \subseteq 1..(k + 1)
        OBVIOUS
      <4> QED
        BY <2>3, <3>1, <4>1
    <3>2. CASE N = e /\ e # 0
      <4> DEFINE p == (k + 1) - e + 1
      <4>1. p \in 1..(k + 1) /\ k + 1 \in 1..(k + 1) /\ p <= k + 1 /\ N = (k + 1) - p + 1
        BY <2>4, <2>5, <3>2
      <4>2. \A i \in p..(k + 1) : i \in B
        BY <2>6
      <4> HIDE DEF p
      <4> QED
        BY <4>1, <4>2
    <3> QED
      BY <2>4, <3>1, <3>2
  <2> HIDE <2>3, <2>4
  <2> USE DEF e, N
  <2>10. \A p, q \in 1..(k + 1) : p <= q /\ (\A i \in p..q : i \in B) => q - p + 1 <= M[k + 1]
    BY <2>8
  <2>11. /\ c[k + 1] <= k + 1
         /\ \A i \in ((k + 1) - c[k + 1] + 1)..(k + 1) : i \in B
         /\ (k + 1) - c[k + 1] >= 1 => (k + 1) - c[k + 1] \notin B
    BY <2>5, <2>6, <2>7
  <2>12. M[k + 1] = 0 \/ \E p, q \in 1..(k + 1) :
                    p <= q /\ (\A i \in p..q : i \in B) /\ M[k + 1] = q - p + 1
    BY <2>9
  <2> QED
    BY <2>10, <2>11, <2>12, Zenon DEF StreakUpTo
<1> HIDE DEF T
<1>3. m \in T
  BY <1>1, <1>2, EveryNatural
<1> QED
  BY <1>3 DEF T

\* The lengths of the runs inside B.
RunsIn(B, m) ==
  {0} \cup {r[2] - r[1] + 1 : r \in {q \in (1..m) \X (1..m) :
                                       q[1] <= q[2] /\ \A k \in q[1]..q[2] : k \in B}}

LEMMA LongestIsMax ==
  ASSUME NEW m \in Nat, NEW B, NEW c \in [0..m -> Nat], NEW M \in [0..m -> Nat],
         StreakUpTo(m, B, c, M)
  PROVE  M[m] = Max(RunsIn(B, m))
<1>1. RunsIn(B, m) \in SUBSET Int
  BY DEF RunsIn
<1>2. ASSUME NEW x \in RunsIn(B, m) PROVE x <= M[m]
  <2>1. M[m] \in Nat
    OBVIOUS
  <2>2. CASE x = 0
    BY <2>1, <2>2
  <2>3. CASE x # 0
    <3>1. PICK r \in (1..m) \X (1..m) :
            r[1] <= r[2] /\ (\A k \in r[1]..r[2] : k \in B) /\ x = r[2] - r[1] + 1
      BY <2>3 DEF RunsIn
    <3>2. r[1] \in 1..m /\ r[2] \in 1..m
      OBVIOUS
    <3> QED
      BY <3>1, <3>2 DEF StreakUpTo
  <2> QED
    BY <2>2, <2>3
<1>3. M[m] \in RunsIn(B, m)
  <2>1. CASE M[m] = 0
    BY <2>1 DEF RunsIn
  <2>2. CASE M[m] # 0
    <3>1. PICK p \in 1..m, q \in 1..m :
            p <= q /\ (\A i \in p..q : i \in B) /\ M[m] = q - p + 1
      BY <2>2 DEF StreakUpTo
    <3> DEFINE Inside == {r \in (1..m) \X (1..m) : r[1] <= r[2] /\ \A k \in r[1]..r[2] : k \in B}
    <3>2. <<p, q>> \in Inside
      BY <3>1
    <3>3. RunsIn(B, m) = {0} \cup {r[2] - r[1] + 1 : r \in Inside}
      BY DEF RunsIn
    <3> HIDE DEF Inside
    <3>4. \A r \in Inside : r[2] - r[1] + 1 \in RunsIn(B, m)
      BY <3>3
    <3>5. <<p, q>>[2] - <<p, q>>[1] + 1 \in RunsIn(B, m)
      BY <3>2, <3>4
    <3> QED
      BY <3>1, <3>5
  <2> QED
    BY <2>1, <2>2
<1> QED
  BY <1>1, <1>2, <1>3, MaxIs

LEMMA StreaksAreLongest ==
  ASSUME NEW m \in Nat, NEW growth \in [1..m -> Ratios]
  PROVE  /\ Streaks(growth).maxGain = Max(RunLengths(growth, Gains))
         /\ Streaks(growth).maxLoss = Max(RunLengths(growth, Losses))
         /\ Streaks(growth).maxGain + Streaks(growth).maxLoss <= m
<1> DEFINE start == [gain |-> 0, loss |-> 0, maxGain |-> 0, maxLoss |-> 0]
<1> DEFINE Up   == {k \in 1..m : Gains(growth[k])}
<1> DEFINE Down == {k \in 1..m : Losses(growth[k])}
<1>1. start \in StreakAcc
  BY DEF StreakAcc
<1>2. PICK F \in [0..m -> StreakAcc] :
        /\ F[0] = start
        /\ F[m] = StreakFrom(start, growth)
        /\ \A k \in 1..m : F[k] = StreakStep(F[k - 1], growth[k])
  <2> HIDE DEF start
  <2> QED
    BY <1>1, StreakRun, ZenonT(40)
<1>3. Streaks(growth) = F[m]
  BY <1>2 DEF Streaks, StreakFrom
<1> DEFINE cu == [k \in 0..m |-> F[k].gain]
<1> DEFINE mu == [k \in 0..m |-> F[k].maxGain]
<1> DEFINE cd == [k \in 0..m |-> F[k].loss]
<1> DEFINE md == [k \in 0..m |-> F[k].maxLoss]
<1>4. \A k \in 0..m : F[k].gain \in Nat /\ F[k].maxGain \in Nat /\ F[k].loss \in Nat /\ F[k].maxLoss \in Nat
  BY DEF StreakAcc
<1>5. /\ cu \in [0..m -> Nat] /\ mu \in [0..m -> Nat]
      /\ cd \in [0..m -> Nat] /\ md \in [0..m -> Nat]
  BY <1>4
<1>6. cu[0] = 0 /\ mu[0] = 0 /\ cd[0] = 0 /\ md[0] = 0
  BY <1>2
<1>7. ASSUME NEW k \in 1..m
      PROVE  /\ cu[k] = IF k \in Up THEN cu[k - 1] + 1 ELSE 0
             /\ mu[k] = IF mu[k - 1] >= cu[k] THEN mu[k - 1] ELSE cu[k]
             /\ cd[k] = IF k \in Down THEN cd[k - 1] + 1 ELSE 0
             /\ md[k] = IF md[k - 1] >= cd[k] THEN md[k - 1] ELSE cd[k]
  <2>1. k \in 0..m /\ k - 1 \in 0..m
    OBVIOUS
  <2>2. growth[k][1] \in Int /\ growth[k][2] \in Int
    BY DEF Ratios
  <2>3. (growth[k][1] > growth[k][2] <=> k \in Up) /\ (growth[k][1] < growth[k][2] <=> k \in Down)
    BY <2>2 DEF Gains, Losses
  <2> DEFINE gain == IF k \in Up THEN F[k - 1].gain + 1 ELSE 0
  <2> DEFINE loss == IF k \in Down THEN F[k - 1].loss + 1 ELSE 0
  <2>4. F[k] = [gain |-> gain, loss |-> loss,
                maxGain |-> Max({F[k - 1].maxGain, gain}), maxLoss |-> Max({F[k - 1].maxLoss, loss})]
    BY <1>2, <2>3 DEF StreakStep
  <2>5. gain \in Nat /\ loss \in Nat /\ F[k - 1].maxGain \in Nat /\ F[k - 1].maxLoss \in Nat
    BY <1>4, <2>1
  <2> HIDE DEF gain, loss
  <2>6. /\ F[k].gain = gain /\ F[k].loss = loss
        /\ F[k].maxGain = IF F[k - 1].maxGain >= gain THEN F[k - 1].maxGain ELSE gain
        /\ F[k].maxLoss = IF F[k - 1].maxLoss >= loss THEN F[k - 1].maxLoss ELSE loss
    BY <2>4, <2>5, MaxPair, SMTT(40)
  <2>7. /\ cu[k] = F[k].gain /\ cu[k - 1] = F[k - 1].gain
        /\ mu[k] = F[k].maxGain /\ mu[k - 1] = F[k - 1].maxGain
        /\ cd[k] = F[k].loss /\ cd[k - 1] = F[k - 1].loss
        /\ md[k] = F[k].maxLoss /\ md[k - 1] = F[k - 1].maxLoss
    BY <2>1
  <2> HIDE DEF cu, mu, cd, md, Up, Down
  <2> QED
    BY <2>6, <2>7 DEF gain, loss
<1>8. mu[m] = F[m].maxGain /\ md[m] = F[m].maxLoss /\ mu[m] \in Nat /\ md[m] \in Nat
  BY <1>5
<1>9. RunLengths(growth, Gains) = RunsIn(Up, m) /\ RunLengths(growth, Losses) = RunsIn(Down, m)
  <2>1. DOMAIN growth = 1..m
    OBVIOUS
  <2>2. ASSUME NEW q \in (1..m) \X (1..m)
        PROVE  /\ (\A k \in q[1]..q[2] : Gains(growth[k])) <=> (\A k \in q[1]..q[2] : k \in Up)
               /\ (\A k \in q[1]..q[2] : Losses(growth[k])) <=> (\A k \in q[1]..q[2] : k \in Down)
    <3>1. \A k \in q[1]..q[2] : k \in 1..m
      OBVIOUS
    <3> QED
      BY <3>1
  <2> QED
    BY <2>1, <2>2 DEF RunLengths, RunsIn
<1> HIDE DEF cu, mu, cd, md
<1>10. StreakUpTo(m, Up, cu, mu) /\ StreakUpTo(m, Down, cd, md)
  <2> HIDE DEF Up, Down
  <2> QED
    BY <1>5, <1>6, <1>7, LongestStreak
<1>11. mu[m] = Max(RunsIn(Up, m)) /\ md[m] = Max(RunsIn(Down, m))
  <2> HIDE DEF Up, Down
  <2> QED
    BY <1>5, <1>10, LongestIsMax
<1>12. mu[m] + md[m] <= m
  <2>1. \A k \in 1..m : ~(k \in Up /\ k \in Down)
    <3> TAKE k \in 1..m
    <3>1. growth[k][1] \in Int /\ growth[k][2] \in Int
      BY DEF Ratios
    <3> QED
      BY <3>1 DEF Gains, Losses
  <2> HIDE DEF Up, Down
  <2>2. mu[m] = 0 \/ \E p, q \in 1..m : p <= q /\ (\A i \in p..q : i \in Up) /\ mu[m] = q - p + 1
    BY <1>10 DEF StreakUpTo
  <2>3. md[m] = 0 \/ \E p, q \in 1..m : p <= q /\ (\A i \in p..q : i \in Down) /\ md[m] = q - p + 1
    BY <1>10 DEF StreakUpTo
  <2>4. CASE mu[m] = 0 \/ md[m] = 0
    BY <1>8, <2>2, <2>3, <2>4
  <2>5. CASE mu[m] # 0 /\ md[m] # 0
    <3>1. PICK p \in 1..m, q \in 1..m : p <= q /\ (\A i \in p..q : i \in Up) /\ mu[m] = q - p + 1
      BY <2>2, <2>5
    <3>2. PICK u \in 1..m, v \in 1..m : u <= v /\ (\A i \in u..v : i \in Down) /\ md[m] = v - u + 1
      BY <2>3, <2>5
    <3>3. q < u \/ v < p
      <4> SUFFICES ASSUME ~(q < u), ~(v < p) PROVE FALSE
        OBVIOUS
      <4>1. CASE p <= u
        <5>1. u \in p..q /\ u \in u..v
          BY <3>1, <3>2, <4>1
        <5> QED
          BY <2>1, <3>1, <3>2, <5>1
      <4>2. CASE u <= p
        <5>1. p \in p..q /\ p \in u..v
          BY <3>1, <3>2, <4>2
        <5> QED
          BY <2>1, <3>1, <3>2, <5>1
      <4> QED
        BY <4>1, <4>2
    <3> QED
      BY <3>1, <3>2, <3>3
  <2> QED
    BY <2>4, <2>5
<1> QED
  BY <1>3, <1>8, <1>9, <1>11, <1>12

-----------------------------------------------------------------------------
(* New highs. *)

HighAt(ends, n) == \A j \in 1..(n - 1) : ends[j].nav < ends[n].nav

\* After the first k closes: their greatest, and the new highs among them.
HighsUpTo(k, ends, acc) ==
  /\ acc.next = k
  /\ \A j \in 1..k : ends[j].nav <= acc.highest
  /\ k = 0 \/ \E j \in 1..k : acc.highest = ends[j].nav
  /\ \A x : (\E i \in 1..Len(acc.positions) : acc.positions[i] = x)
               <=> (\E n \in 1..k : HighAt(ends, n) /\ x = n - 1)

LEMMA HighsContinue ==
  ASSUME NEW m \in Nat, NEW ends \in [1..m -> FrameRows], NEW k \in Nat, k + 1 <= m,
         NEW acc \in HighAcc, HighsUpTo(k, ends, acc)
  PROVE  HighsUpTo(k + 1, ends, HighStep(acc, ends[k + 1]))
<1>1. k + 1 \in 1..m /\ ends[k + 1].nav \in Int
  <2>1. k + 1 \in 1..m /\ ends[k + 1] \in FrameRows
    OBVIOUS
  <2> QED
    BY <2>1, RowTypes
<1>2. \A j \in 1..k : ends[j].nav \in Int
  <2> TAKE j \in 1..k
  <2>1. ends[j] \in FrameRows
    OBVIOUS
  <2> QED
    BY <2>1, RowTypes
<1>3. PICK nav \in Int : nav = ends[k + 1].nav
  BY <1>1
<1>4. acc.highest \in Int /\ acc.positions \in Seq(Nat) /\ acc.next = k
  BY DEF HighAcc, HighsUpTo
<1>5. k = 0 \/ nav > acc.highest <=> HighAt(ends, k + 1)
  <2>1. (k + 1) - 1 = k /\ (k = 0 => 1..k = {})
    OBVIOUS
  <2>2. ASSUME nav > acc.highest, NEW j \in 1..k PROVE ends[j].nav < nav
    <3>1. ends[j].nav <= acc.highest
      BY DEF HighsUpTo
    <3> QED
      BY <1>2, <1>4, <2>2, <3>1
  <2>3. ASSUME k # 0, \A j \in 1..k : ends[j].nav < nav PROVE nav > acc.highest
    <3>1. \E j \in 1..k : acc.highest = ends[j].nav
      BY <2>3 DEF HighsUpTo
    <3> QED
      BY <1>4, <2>3, <3>1
  <2> QED
    BY <1>3, <2>1, <2>2, <2>3 DEF HighAt
<1>6. \A x : (\E n \in 1..(k + 1) : HighAt(ends, n) /\ x = n - 1)
               <=> (\E n \in 1..k : HighAt(ends, n) /\ x = n - 1) \/ (HighAt(ends, k + 1) /\ x = k)
  <2>1. \A n : n \in 1..(k + 1) <=> n \in 1..k \/ n = k + 1
    OBVIOUS
  <2>2. (k + 1) - 1 = k
    OBVIOUS
  <2> QED
    BY <2>1, <2>2
<1>7. CASE k = 0 \/ nav > acc.highest
  <2> DEFINE new == [highest |-> nav, next |-> acc.next + 1, positions |-> Append(acc.positions, acc.next)]
  <2>1. HighStep(acc, ends[k + 1]) = new
    BY <1>3, <1>4, <1>7 DEF HighStep
  <2>2. new.highest = nav /\ new.next = k + 1 /\ new.positions = Append(acc.positions, k)
    BY <1>4
  <2> HIDE DEF new
  <2>3. \A j \in 1..(k + 1) : ends[j].nav <= nav
    <3> TAKE j \in 1..(k + 1)
    <3>1. CASE j = k + 1
      BY <1>3, <3>1
    <3>2. CASE j # k + 1
      <4>1. j \in 1..k
        BY <3>2
      <4>2. ends[j].nav <= acc.highest /\ ends[j].nav \in Int /\ k # 0
        BY <1>2, <4>1 DEF HighsUpTo
      <4> QED
        BY <1>4, <1>7, <4>2
    <3> QED
      BY <3>1, <3>2
  <2>4. \E j \in 1..(k + 1) : nav = ends[j].nav
    BY <1>3
  <2>5. \A x : (\E i \in 1..Len(new.positions) : new.positions[i] = x)
                 <=> (\E i \in 1..Len(acc.positions) : acc.positions[i] = x) \/ x = k
    <3> DEFINE p == acc.positions
    <3>1. p \in Seq(Nat) /\ new.positions = Append(p, k)
      BY <1>4, <2>2
    <3> HIDE DEF p
    <3>2. Len(Append(p, k)) = Len(p) + 1 /\ Len(p) \in Nat
      BY <3>1
    <3>3. \A i \in 1..Len(p) : Append(p, k)[i] = p[i]
      BY <3>1
    <3>4. Append(p, k)[Len(p) + 1] = k
      BY <3>1
    <3>5. \A i : i \in 1..(Len(p) + 1) <=> i \in 1..Len(p) \/ i = Len(p) + 1
      BY <3>2
    <3>6. \A x : (\E i \in 1..Len(Append(p, k)) : Append(p, k)[i] = x)
                 <=> (\E i \in 1..Len(p) : p[i] = x) \/ x = k
      BY <3>2, <3>3, <3>4, <3>5
    <3> QED
      BY <3>1, <3>6 DEF p
  <2>6. \A x : (\E i \in 1..Len(new.positions) : new.positions[i] = x)
                 <=> (\E n \in 1..(k + 1) : HighAt(ends, n) /\ x = n - 1)
    <3>1. \A x : (\E i \in 1..Len(acc.positions) : acc.positions[i] = x)
                   <=> (\E n \in 1..k : HighAt(ends, n) /\ x = n - 1)
      BY DEF HighsUpTo
    <3>2. HighAt(ends, k + 1)
      BY <1>5, <1>7
    <3> QED
      BY <1>6, <2>5, <3>1, <3>2
  <2>7. /\ new.next = k + 1
        /\ \A j \in 1..(k + 1) : ends[j].nav <= new.highest
        /\ k + 1 = 0 \/ \E j \in 1..(k + 1) : new.highest = ends[j].nav
    BY <2>2, <2>3, <2>4
  <2>8. HighsUpTo(k + 1, ends, new)
    BY <2>6, <2>7, Zenon DEF HighsUpTo
  <2> QED
    BY <2>1, <2>8
<1>8. CASE ~(k = 0 \/ nav > acc.highest)
  <2> DEFINE new == [acc EXCEPT !.next = @ + 1]
  <2>1. HighStep(acc, ends[k + 1]) = new
    BY <1>3, <1>4, <1>8 DEF HighStep
  <2>2. new.highest = acc.highest /\ new.next = k + 1 /\ new.positions = acc.positions
    BY <1>4 DEF HighAcc
  <2> HIDE DEF new
  <2>3. \A j \in 1..(k + 1) : ends[j].nav <= acc.highest
    <3> TAKE j \in 1..(k + 1)
    <3>1. CASE j = k + 1
      BY <1>3, <1>4, <1>8, <3>1
    <3>2. CASE j # k + 1
      <4>1. j \in 1..k
        BY <3>2
      <4> QED
        BY <4>1 DEF HighsUpTo
    <3> QED
      BY <3>1, <3>2
  <2>4. k + 1 = 0 \/ \E j \in 1..(k + 1) : acc.highest = ends[j].nav
    <3>1. \A j \in 1..k : j \in 1..(k + 1)
      OBVIOUS
    <3> QED
      BY <1>8, <3>1 DEF HighsUpTo
  <2>5. \A x : (\E i \in 1..Len(acc.positions) : acc.positions[i] = x)
                 <=> (\E n \in 1..(k + 1) : HighAt(ends, n) /\ x = n - 1)
    <3>1. \A x : (\E i \in 1..Len(acc.positions) : acc.positions[i] = x)
                   <=> (\E n \in 1..k : HighAt(ends, n) /\ x = n - 1)
      BY DEF HighsUpTo
    <3>2. ~HighAt(ends, k + 1)
      BY <1>5, <1>8
    <3> QED
      BY <1>6, <3>1, <3>2
  <2> QED
    BY <2>1, <2>2, <2>3, <2>4, <2>5 DEF HighsUpTo
<1> QED
  BY <1>7, <1>8

LEMMA HighsAreRecords ==
  ASSUME NEW m \in Nat, NEW ends \in [1..m -> FrameRows]
  PROVE  ToSet(HighFrom([highest |-> 0, next |-> 0, positions |-> <<>>], ends).positions)
           = {k - 1 : k \in {n \in 1..m : \A j \in 1..(n - 1) : ends[j].nav < ends[n].nav}}
<1> DEFINE start == [highest |-> 0, next |-> 0, positions |-> <<>>]
<1>1. start \in HighAcc
  BY DEF HighAcc
<1>2. start.highest = 0 /\ start.next = 0 /\ start.positions = <<>>
  OBVIOUS
<1> HIDE DEF start
<1>3. PICK F \in [0..m -> HighAcc] :
        /\ F[0] = start
        /\ F[m] = HighFrom(start, ends)
        /\ \A k \in 1..m : F[k] = HighStep(F[k - 1], ends[k])
  BY <1>1, HighRun, ZenonT(40)
<1> DEFINE T == {k \in Nat : k <= m => HighsUpTo(k, ends, F[k])}
<1>4. 0 \in T
  <2>1. HighsUpTo(0, ends, start)
    <3>1. Len(start.positions) = 0 /\ 1..0 = {}
      BY <1>2
    <3> QED
      BY <1>2, <3>1 DEF HighsUpTo
  <2> QED
    BY <1>3, <2>1
<1>5. ASSUME NEW k \in Nat, k \in T PROVE k + 1 \in T
  <2> SUFFICES ASSUME k + 1 <= m PROVE HighsUpTo(k + 1, ends, F[k + 1])
    OBVIOUS
  <2>1. HighsUpTo(k, ends, F[k]) /\ F[k] \in HighAcc
    BY <1>5
  <2>2. F[k + 1] = HighStep(F[k], ends[k + 1])
    <3>1. k + 1 \in 1..m /\ (k + 1) - 1 = k
      OBVIOUS
    <3> QED
      BY <1>3, <3>1
  <2>3. HighsUpTo(k + 1, ends, HighStep(F[k], ends[k + 1]))
    BY <2>1, HighsContinue
  <2> QED
    BY <2>2, <2>3
<1>6. HighsUpTo(m, ends, F[m])
  <2>1. m \in T
    <3> HIDE DEF T
    <3> QED
      BY <1>4, <1>5, EveryNatural
  <2> QED
    BY <2>1
<1>7. F[m].positions \in Seq(Nat)
  BY DEF HighAcc
<1>8. ToSet(F[m].positions) = {k - 1 : k \in {n \in 1..m : HighAt(ends, n)}}
  <2>1. DOMAIN F[m].positions = 1..Len(F[m].positions)
    BY <1>7
  <2>2. \A x : x \in ToSet(F[m].positions) <=> \E i \in 1..Len(F[m].positions) : F[m].positions[i] = x
    BY <2>1 DEF ToSet
  <2>3. \A x : x \in ToSet(F[m].positions) <=> \E n \in 1..m : HighAt(ends, n) /\ x = n - 1
    BY <1>6, <2>2 DEF HighsUpTo
  <2> QED
    BY <2>3
<1> QED
  BY <1>3, <1>8 DEF start, HighAt

-----------------------------------------------------------------------------
(* Products of growth that telescope. *)

LEMMA Rearranged ==
  ASSUME NEW a \in Int, NEW b \in Int, NEW x \in Int, NEW y \in Int, NEW z \in Int, a * z = x * b
  PROVE  (a * y) * z = y * (b * x)
<1>1. (a * y) * z = (a * z) * y
  OBVIOUS
<1>2. y * (b * x) = (x * b) * y
  OBVIOUS
<1> QED
  BY <1>1, <1>2

LEMMA Telescope ==
  ASSUME NEW m \in Nat, NEW g \in [1..m -> Ratios], NEW c \in [0..m -> Nat \ {0}],
         \A k \in 1..m : g[k] = <<c[k], c[k - 1]>>
  PROVE  Equal(Product(g), <<c[m], c[0]>>) /\ Product(g) \in Ratios
<1>1. <<1, 1>> \in Ratios
  BY DEF Ratios
<1>2. PICK F \in [0..m -> Ratios] :
        /\ F[0] = <<1, 1>>
        /\ F[m] = ProductFrom(<<1, 1>>, g)
        /\ \A k \in 1..m : F[k] = Times(F[k - 1], g[k])
  BY <1>1, ProductRun, ZenonT(40)
<1> DEFINE T == {k \in Nat : k <= m => F[k][1] * c[0] = c[k] * F[k][2]}
<1>3. 0 \in T
  <2>1. F[0][1] = 1 /\ F[0][2] = 1 /\ c[0] \in Nat
    BY <1>2
  <2> QED
    BY <2>1
<1>4. ASSUME NEW k \in Nat, k \in T PROVE k + 1 \in T
  <2> SUFFICES ASSUME k + 1 <= m PROVE F[k + 1][1] * c[0] = c[k + 1] * F[k + 1][2]
    OBVIOUS
  <2>1. k + 1 \in 1..m /\ k \in 0..m /\ k + 1 \in 0..m /\ 0 \in 0..m /\ (k + 1) - 1 = k
    OBVIOUS
  <2>2. F[k] \in Ratios /\ c[k] \in Nat /\ c[k + 1] \in Nat /\ c[0] \in Nat
    BY <2>1
  <2>3. F[k][1] \in Int /\ F[k][2] \in Int /\ c[k] \in Int /\ c[k + 1] \in Int /\ c[0] \in Int
    BY <2>2, SMTT(40) DEF Ratios
  <2>4. F[k][1] * c[0] = c[k] * F[k][2]
    BY <1>4
  <2>5. F[k + 1] = Times(F[k], <<c[k + 1], c[k]>>)
    BY <1>2, <2>1
  <2>6. F[k + 1][1] = F[k][1] * c[k + 1] /\ F[k + 1][2] = F[k][2] * c[k]
    BY <2>5 DEF Times
  <2> QED
    BY <2>3, <2>4, <2>6, Rearranged, SMTT(40)
<1>5. F[m][1] * c[0] = c[m] * F[m][2]
  <2>1. m \in T
    <3> HIDE DEF T
    <3> QED
      BY <1>3, <1>4, EveryNatural
  <2> QED
    BY <2>1
<1>6. Product(g) = F[m] /\ F[m] \in Ratios
  BY <1>2 DEF Product, ProductFrom
<1> QED
  BY <1>5, <1>6 DEF Equal

-----------------------------------------------------------------------------
(* Fractions: pairs of a number and a positive one, ordered by Less. *)

Fractions == Int \X (Nat \ {0})

LEMMA TimesKeepsOrder ==
  ASSUME NEW x \in Int, NEW y \in Int, NEW k \in Nat, x <= y
  PROVE  x * k <= y * k
<1>1. (y - x) \in Nat
  OBVIOUS
<1>2. (y - x) * k \in Nat
  BY <1>1
<1>3. (y - x) * k = y * k - x * k
  OBVIOUS
<1>4. x * k \in Int /\ y * k \in Int
  OBVIOUS
<1> QED
  BY <1>2, <1>3, <1>4

LEMMA TimesReflectsOrder ==
  ASSUME NEW x \in Int, NEW y \in Int, NEW k \in Nat \ {0}, x * k <= y * k
  PROVE  x <= y
<1> SUFFICES ASSUME y + 1 <= x PROVE FALSE
  OBVIOUS
<1>1. (y + 1) * k <= x * k
  BY TimesKeepsOrder
<1>2. (y + 1) * k = y * k + k
  OBVIOUS
<1>3. x * k \in Int /\ y * k \in Int
  OBVIOUS
<1> QED
  BY <1>1, <1>2, <1>3

LEMMA NotLess ==
  ASSUME NEW a \in Fractions, NEW b \in Fractions
  PROVE  /\ ~Less(a, b) <=> b[1] * a[2] <= a[1] * b[2]
         /\ ~Less(a, b) \/ ~Less(b, a)
         /\ ~Less(a, a) /\ Equal(a, a)
         /\ Equal(a, b) <=> ~Less(a, b) /\ ~Less(b, a)
<1>1. a[1] \in Int /\ a[2] \in Int /\ b[1] \in Int /\ b[2] \in Int
  BY DEF Fractions
<1>2. a[1] * b[2] \in Int /\ b[1] * a[2] \in Int /\ a[1] * a[2] \in Int
  BY <1>1
<1> QED
  BY <1>2 DEF Less, Equal

LEMMA NotLessTransitive ==
  ASSUME NEW a \in Fractions, NEW b \in Fractions, NEW c \in Fractions,
         ~Less(a, b), ~Less(b, c)
  PROVE  ~Less(a, c)
<1>1. PICK a1 \in Int, a2 \in Nat \ {0} : a[1] = a1 /\ a[2] = a2
  BY DEF Fractions
<1>2. PICK b1 \in Int, b2 \in Nat \ {0} : b[1] = b1 /\ b[2] = b2
  BY DEF Fractions
<1>3. PICK c1 \in Int, c2 \in Nat \ {0} : c[1] = c1 /\ c[2] = c2
  BY DEF Fractions
<1>4. b1 * a2 <= a1 * b2 /\ c1 * b2 <= b1 * c2
  BY <1>1, <1>2, <1>3, NotLess
<1>5. (b1 * a2) * c2 <= (a1 * b2) * c2
  <2>1. b1 * a2 \in Int /\ a1 * b2 \in Int
    OBVIOUS
  <2> QED
    BY <1>4, <2>1, TimesKeepsOrder
<1>6. (c1 * b2) * a2 <= (b1 * c2) * a2
  <2>1. c1 * b2 \in Int /\ b1 * c2 \in Int
    OBVIOUS
  <2> QED
    BY <1>4, <2>1, TimesKeepsOrder
<1>7. (b1 * a2) * c2 = (b1 * c2) * a2 /\ (c1 * b2) * a2 = (c1 * a2) * b2
      /\ (a1 * b2) * c2 = (a1 * c2) * b2
  OBVIOUS
<1>8. (c1 * a2) * b2 \in Int /\ (a1 * c2) * b2 \in Int /\ (b1 * a2) * c2 \in Int
      /\ c1 * a2 \in Int /\ a1 * c2 \in Int
  OBVIOUS
<1>9. (c1 * a2) * b2 <= (a1 * c2) * b2
  BY <1>5, <1>6, <1>7, <1>8
<1>10. c1 * a2 <= a1 * c2
  BY <1>8, <1>9, TimesReflectsOrder
<1> QED
  BY <1>1, <1>3, <1>10, NotLess

\* Of finitely many fractions one is the greatest.
LEMMA GreatestFraction ==
  ASSUME NEW m \in Nat \ {0}, NEW d \in [1..m -> Fractions]
  PROVE  \E i \in 1..m : \A j \in 1..m : ~Less(d[i], d[j])
<1> DEFINE T == {k \in Nat : k + 1 <= m => \E i \in 1..(k + 1) : \A j \in 1..(k + 1) : ~Less(d[i], d[j])}
<1>1. 0 \in T
  <2>1. 1 \in 1..m
    OBVIOUS
  <2>2. d[1] \in Fractions
    BY <2>1
  <2>3. ~Less(d[1], d[1])
    BY <2>2, NotLess
  <2>4. \A j \in 1..(0 + 1) : j = 1
    OBVIOUS
  <2> QED
    BY <2>3, <2>4
<1>2. ASSUME NEW k \in Nat, k \in T PROVE k + 1 \in T
  <2> SUFFICES ASSUME (k + 1) + 1 <= m
      PROVE  \E i \in 1..((k + 1) + 1) : \A j \in 1..((k + 1) + 1) : ~Less(d[i], d[j])
    OBVIOUS
  <2>1. PICK i \in 1..(k + 1) : \A j \in 1..(k + 1) : ~Less(d[i], d[j])
    BY <1>2
  <2> DEFINE e == (k + 1) + 1
  <2>2. e \in 1..e /\ i \in 1..e /\ \A j \in 1..e : j \in 1..m /\ (j = e \/ j \in 1..(k + 1))
    OBVIOUS
  <2> HIDE DEF e
  <2>3. \A j \in 1..e : d[j] \in Fractions
    BY <2>2
  <2>4. CASE ~Less(d[i], d[e])
    <3>1. \A j \in 1..e : ~Less(d[i], d[j])
      BY <2>1, <2>2, <2>4
    <3> QED
      BY <2>2, <3>1 DEF e
  <2>5. CASE Less(d[i], d[e])
    <3>1. ~Less(d[e], d[i]) /\ ~Less(d[e], d[e])
      BY <2>2, <2>3, <2>5, NotLess
    <3>2. \A j \in 1..e : ~Less(d[e], d[j])
      <4> TAKE j \in 1..e
      <4>1. CASE j = e
        BY <3>1, <4>1
      <4>2. CASE j \in 1..(k + 1)
        <5>1. ~Less(d[i], d[j])
          BY <2>1, <4>2
        <5>2. d[e] \in Fractions /\ d[i] \in Fractions /\ d[j] \in Fractions
          BY <2>2, <2>3
        <5> QED
          BY <3>1, <5>1, <5>2, NotLessTransitive
      <4> QED
        BY <2>2, <4>1, <4>2
    <3> QED
      BY <2>2, <3>2 DEF e
  <2> QED
    BY <2>4, <2>5
<1>3. m - 1 \in T
  <2>1. m - 1 \in Nat
    OBVIOUS
  <2> HIDE DEF T
  <2> QED
    BY <1>1, <1>2, <2>1, EveryNatural
<1>4. (m - 1) + 1 = m
  OBVIOUS
<1> QED
  BY <1>3, <1>4

-----------------------------------------------------------------------------
(* Drawdowns. *)

LEMMA NavIsInt ==
  ASSUME NEW n, NEW f \in [1..n -> FrameRows], NEW i \in 1..n
  PROVE  f[i].nav \in Int
<1>1. f[i] \in FrameRows
  OBVIOUS
<1> QED
  BY <1>1, RowTypes

LEMMA RunningMaxIs ==
  ASSUME NEW n \in Nat \ {0}, NEW f \in [1..n -> FrameRows]
  PROVE  /\ RunningMax(f) \in [1..n -> Int]
         /\ \A i \in 1..n : /\ \E j \in 1..i : RunningMax(f)[i] = f[j].nav
                            /\ \A j \in 1..i : f[j].nav <= RunningMax(f)[i]
<1> DEFINE T == {k \in Nat : k \in 1..n => \E j \in 1..k : \A i \in 1..k : f[i].nav <= f[j].nav}
<1>1. 0 \in T
  OBVIOUS
<1>2. ASSUME NEW k \in Nat, k \in T PROVE k + 1 \in T
  <2> SUFFICES ASSUME k + 1 \in 1..n
      PROVE  \E j \in 1..(k + 1) : \A i \in 1..(k + 1) : f[i].nav <= f[j].nav
    OBVIOUS
  <2>1. \A i \in 1..(k + 1) : f[i].nav \in Int /\ (i = k + 1 \/ i \in 1..k)
    <3> TAKE i \in 1..(k + 1)
    <3>1. i \in 1..n /\ (i = k + 1 \/ i \in 1..k)
      OBVIOUS
    <3> QED
      BY <3>1, NavIsInt
  <2>2. k + 1 \in 1..(k + 1)
    OBVIOUS
  <2>3. CASE k = 0
    BY <2>1, <2>2, <2>3
  <2>4. CASE k # 0
    <3>1. PICK j \in 1..k : \A i \in 1..k : f[i].nav <= f[j].nav
      BY <1>2, <2>4
    <3>2. j \in 1..(k + 1)
      OBVIOUS
    <3>3. CASE f[k + 1].nav <= f[j].nav
      BY <2>1, <3>1, <3>2, <3>3
    <3>4. CASE ~(f[k + 1].nav <= f[j].nav)
      <4>1. \A i \in 1..(k + 1) : f[i].nav <= f[k + 1].nav
        BY <2>1, <2>2, <3>1, <3>2, <3>4
      <4> QED
        BY <2>2, <4>1
    <3> QED
      BY <3>3, <3>4
  <2> QED
    BY <2>3, <2>4
<1>3. ASSUME NEW i \in 1..n
      PROVE  \E j \in 1..i : /\ RunningMax(f)[i] = f[j].nav
                             /\ \A k \in 1..i : f[k].nav <= f[j].nav
  <2>1. i \in T
    <3>1. i \in Nat
      OBVIOUS
    <3> HIDE DEF T
    <3> QED
      BY <1>1, <1>2, <3>1, EveryNatural
  <2>2. PICK j \in 1..i : \A k \in 1..i : f[k].nav <= f[j].nav
    BY <2>1
  <2> DEFINE S == {f[k].nav : k \in 1..i}
  <2>3. S \in SUBSET Int
    <3>1. \A k \in 1..i : k \in 1..n
      OBVIOUS
    <3>2. \A k \in 1..i : f[k].nav \in Int
      BY <3>1, NavIsInt
    <3> QED
      BY <3>2
  <2>4. f[j].nav \in S /\ \A x \in S : x <= f[j].nav
    BY <2>2
  <2>5. Max(S) = f[j].nav
    <3> HIDE DEF S
    <3> QED
      BY <2>3, <2>4, MaxIs
  <2>6. RunningMax(f)[i] = Max(S)
    <3>1. DOMAIN f = 1..n
      OBVIOUS
    <3> QED
      BY <3>1 DEF RunningMax
  <2> QED
    BY <2>2, <2>5, <2>6
<1>4. \A i \in 1..n : RunningMax(f)[i] \in Int
  <2> TAKE i \in 1..n
  <2>1. PICK j \in 1..i : RunningMax(f)[i] = f[j].nav
    BY <1>3
  <2>2. j \in 1..n
    OBVIOUS
  <2> QED
    BY <2>1, <2>2, NavIsInt
<1>5. RunningMax(f) = [i \in 1..n |-> RunningMax(f)[i]]
  <2>1. DOMAIN f = 1..n
    OBVIOUS
  <2> QED
    BY <2>1 DEF RunningMax
<1>6. RunningMax(f) \in [1..n -> Int]
  BY <1>4, <1>5
<1>7. ASSUME NEW i \in 1..n
      PROVE  /\ \E j \in 1..i : RunningMax(f)[i] = f[j].nav
             /\ \A j \in 1..i : f[j].nav <= RunningMax(f)[i]
  BY <1>3
<1> QED
  BY <1>6, <1>7

\* The running maximum grows by the rows.
LEMMA RunningMaxSteps ==
  ASSUME NEW n \in Nat \ {0}, NEW f \in [1..n -> FrameRows]
  PROVE  /\ RunningMax(f)[1] = f[1].nav
         /\ \A k \in 1..(n - 1) :
              RunningMax(f)[k + 1] =
                IF f[k + 1].nav > RunningMax(f)[k] THEN f[k + 1].nav ELSE RunningMax(f)[k]
<1> DEFINE R == RunningMax(f)
<1>1. /\ R \in [1..n -> Int]
      /\ \A i \in 1..n : /\ \E j \in 1..i : R[i] = f[j].nav
                         /\ \A j \in 1..i : f[j].nav <= R[i]
  BY RunningMaxIs
<1> HIDE DEF R
<1>2. R[1] = f[1].nav
  <2>1. 1 \in 1..n /\ \A j \in 1..1 : j = 1
    OBVIOUS
  <2> QED
    BY <1>1, <2>1
<1>3. ASSUME NEW k \in 1..(n - 1)
      PROVE  R[k + 1] = IF f[k + 1].nav > R[k] THEN f[k + 1].nav ELSE R[k]
  <2>1. k \in 1..n /\ k + 1 \in 1..n /\ k + 1 \in 1..(k + 1)
        /\ \A j \in 1..(k + 1) : j \in 1..n /\ (j \in 1..k \/ j = k + 1)
    OBVIOUS
  <2>2. R[k] \in Int /\ R[k + 1] \in Int /\ f[k + 1].nav \in Int
    BY <1>1, <2>1, NavIsInt
  <2>3. PICK i \in 1..(k + 1) : R[k + 1] = f[i].nav
    BY <1>1, <2>1
  <2>4. PICK h \in 1..k : R[k] = f[h].nav
    BY <1>1, <2>1
  <2>5. f[k + 1].nav <= R[k + 1] /\ R[k] <= R[k + 1]
    <3>1. h \in 1..(k + 1)
      OBVIOUS
    <3> QED
      BY <1>1, <2>1, <2>4, <3>1
  <2>6. CASE i = k + 1
    BY <2>2, <2>3, <2>5, <2>6
  <2>7. CASE i \in 1..k
    <3>1. R[k + 1] <= R[k]
      BY <1>1, <2>1, <2>3, <2>7
    <3> QED
      BY <2>2, <2>5, <3>1
  <2> QED
    BY <2>1, <2>6, <2>7
<1> QED
  BY <1>2, <1>3 DEF R

LEMMA FallTyped == ASSUME NEW peak \in Int, NEW nav \in Int PROVE Fall(peak, nav) \in Fractions
BY DEF Fall, Fractions

LEMMA FallsTyped ==
  ASSUME NEW n \in Nat \ {0}, NEW f \in [1..n -> FrameRows]
  PROVE  /\ Falls(f) \in [1..n -> Fractions]
         /\ \A i \in 1..n : Falls(f)[i] = Fall(RunningMax(f)[i], f[i].nav)
<1>1. DOMAIN f = 1..n
  OBVIOUS
<1>2. Falls(f) = [i \in 1..n |-> Fall(RunningMax(f)[i], f[i].nav)]
  BY <1>1 DEF Falls
<1>3. \A i \in 1..n : Fall(RunningMax(f)[i], f[i].nav) \in Fractions
  <2> TAKE i \in 1..n
  <2>1. RunningMax(f)[i] \in Int /\ f[i].nav \in Int
    BY RunningMaxIs, NavIsInt
  <2> QED
    BY <2>1, FallTyped
<1> QED
  BY <1>2, <1>3

\* The first row of the largest fall.
FirstWorst(d, m, at) ==
  /\ at \in 1..m
  /\ \A j \in 1..m : ~Less(d[at], d[j])
  /\ \A j \in 1..(at - 1) : Less(d[j], d[at])

LEMMA FirstWorstUnique ==
  ASSUME NEW m \in Nat, NEW d, NEW p, NEW q, FirstWorst(d, m, p), FirstWorst(d, m, q)
  PROVE  p = q
<1>1. p \in 1..m /\ q \in 1..m
  BY DEF FirstWorst
<1>2. CASE p < q
  <2>1. p \in 1..(q - 1)
    BY <1>1, <1>2
  <2> QED
    BY <1>1, <2>1 DEF FirstWorst
<1>3. CASE q < p
  <2>1. q \in 1..(p - 1)
    BY <1>1, <1>3
  <2> QED
    BY <1>1, <2>1 DEF FirstWorst
<1> QED
  BY <1>1, <1>2, <1>3

LEMMA FrameDrawdownIs ==
  ASSUME NEW n \in Nat \ {0}, NEW f \in [1..n -> FrameRows]
  PROVE  /\ FirstWorst(Falls(f), n, FrameDrawdown(f).at)
         /\ FrameDrawdown(f).fall = Falls(f)[FrameDrawdown(f).at]
         /\ FrameDrawdown(f).fall \in Fractions
<1> DEFINE d == Falls(f)
<1> DEFINE W == {i \in 1..n : \A j \in 1..n : ~Less(d[i], d[j])}
<1>1. d \in [1..n -> Fractions]
  BY FallsTyped
<1>2. DOMAIN f = 1..n
  OBVIOUS
<1>3. FrameDrawdown(f) = [at |-> Min(W), fall |-> d[Min(W)]]
  BY <1>2 DEF FrameDrawdown
<1> HIDE DEF d
<1>4. W # {}
  BY <1>1, GreatestFraction
<1>5. W \in SUBSET Nat
  OBVIOUS
<1>6. Min(W) \in W /\ \A x \in W : Min(W) <= x
  <2> HIDE DEF W
  <2> QED
    BY <1>4, <1>5, LeastExists
<1>7. PICK at \in 1..n : at = Min(W)
  BY <1>6
<1>8. \A j \in 1..n : ~Less(d[at], d[j])
  BY <1>6, <1>7
<1>9. ASSUME NEW j \in 1..(at - 1) PROVE Less(d[j], d[at])
  <2>1. j \in 1..n /\ j < at
    OBVIOUS
  <2>2. j \notin W
    BY <1>6, <1>7, <2>1
  <2>3. PICK k \in 1..n : Less(d[j], d[k])
    BY <2>1, <2>2
  <2>4. d[j] \in Fractions /\ d[k] \in Fractions /\ d[at] \in Fractions
    BY <1>1, <2>1
  <2>5. ~Less(d[at], d[k])
    BY <1>8
  <2> QED
    BY <2>3, <2>4, <2>5, NotLessTransitive
<1>10. FirstWorst(d, n, at)
  BY <1>8, <1>9 DEF FirstWorst
<1>11. d[at] \in Fractions
  BY <1>1
<1> HIDE DEF W
<1>12. FrameDrawdown(f).at = at /\ FrameDrawdown(f).fall = d[at]
  BY <1>3, <1>7
<1> QED
  BY <1>10, <1>11, <1>12 DEF d

\* Buying at one row and selling at a later one, for no price below zero, never
\* loses more than the fall there.
LEMMA BuySell ==
  ASSUME NEW n \in Nat \ {0}, NEW f \in [1..n -> FrameRows],
         NEW i \in 1..n, NEW j \in 1..n, i <= j, f[i].nav > 0, f[j].nav >= 0
  PROVE  /\ <<f[i].nav - f[j].nav, f[i].nav>> \in Fractions
         /\ ~Less(FrameDrawdown(f).fall, <<f[i].nav - f[j].nav, f[i].nav>>)
<1>1. PICK a \in Nat \ {0} : a = f[i].nav
  BY NavIsInt
<1>2. PICK b \in Nat : b = f[j].nav
  BY NavIsInt
<1>3. PICK M \in Nat \ {0} : M = RunningMax(f)[j] /\ a <= M
  <2>1. i \in 1..j
    OBVIOUS
  <2>2. \A h \in 1..n : \A l \in 1..h : f[l].nav <= RunningMax(f)[h]
    BY RunningMaxIs
  <2>3. RunningMax(f)[j] \in Int
    BY RunningMaxIs
  <2> QED
    BY <1>1, <2>1, <2>2, <2>3
<1>4. Falls(f)[j] = <<M - b, M>>
  <2>1. Falls(f)[j] = Fall(M, b)
    BY <1>2, <1>3, FallsTyped
  <2> QED
    BY <2>1 DEF Fall
<1>5. <<a - b, a>> \in Fractions /\ <<M - b, M>> \in Fractions
  BY DEF Fractions
<1>6. (a - b) * M <= (M - b) * a
  <2>1. a * b <= M * b
    BY <1>3, TimesKeepsOrder
  <2>2. (a - b) * M = a * M - M * b /\ (M - b) * a = a * M - a * b
    OBVIOUS
  <2>3. a * b \in Int /\ M * b \in Int /\ a * M \in Int
    OBVIOUS
  <2> QED
    BY <2>1, <2>2, <2>3
<1>7. ~Less(<<M - b, M>>, <<a - b, a>>)
  BY <1>5, <1>6, NotLess
<1>8. ~Less(FrameDrawdown(f).fall, <<M - b, M>>) /\ FrameDrawdown(f).fall \in Fractions
  <2>1. ~Less(Falls(f)[FrameDrawdown(f).at], Falls(f)[j])
    BY FrameDrawdownIs DEF FirstWorst
  <2> QED
    BY <1>4, <2>1, FrameDrawdownIs
<1> QED
  BY <1>1, <1>2, <1>5, <1>7, <1>8, NotLessTransitive

\* Some such pair of rows loses just that; without a positive price there is no fall.
LEMMA LossAttained ==
  ASSUME NEW n \in Nat \ {0}, NEW f \in [1..n -> FrameRows], NEW at \in 1..n
  PROVE  \/ \E i \in 1..at :
              f[i].nav > 0 /\ Falls(f)[at] = <<f[i].nav - f[at].nav, f[i].nav>>
         \/ Falls(f)[at] = <<0, 1>> /\ \A i \in 1..at : f[i].nav <= 0
<1>1. PICK i \in 1..at : RunningMax(f)[at] = f[i].nav
  BY RunningMaxIs
<1>2. \A j \in 1..at : f[j].nav <= f[i].nav
  BY <1>1, RunningMaxIs
<1>3. Falls(f)[at] = Fall(f[i].nav, f[at].nav)
  BY <1>1, FallsTyped
<1>4. \A j \in 1..at : f[j].nav \in Int
  <2>1. \A j \in 1..at : j \in 1..n
    OBVIOUS
  <2> QED
    BY <2>1, NavIsInt
<1>5. CASE f[i].nav > 0
  BY <1>3, <1>5 DEF Fall
<1>6. CASE ~(f[i].nav > 0)
  <2>1. Falls(f)[at] = <<0, 1>>
    BY <1>3, <1>6 DEF Fall
  <2>2. \A j \in 1..at : f[j].nav <= 0
    BY <1>2, <1>4, <1>6
  <2> QED
    BY <2>1, <2>2
<1> QED
  BY <1>5, <1>6

\* The largest fall is not below zero.
LEMMA FallNotNegative ==
  ASSUME NEW n \in Nat \ {0}, NEW f \in [1..n -> FrameRows]
  PROVE  ~Less(FrameDrawdown(f).fall, <<0, 1>>)
<1>1. 1 \in 1..n
  OBVIOUS
<1>2. PICK nav \in Int : nav = f[1].nav /\ RunningMax(f)[1] = nav
  BY <1>1, NavIsInt, RunningMaxSteps
<1>3. Falls(f)[1] = Fall(nav, nav)
  BY <1>1, <1>2, FallsTyped
<1>4. Fall(nav, nav) \in Fractions /\ <<0, 1>> \in Fractions /\ ~Less(Fall(nav, nav), <<0, 1>>)
  BY DEF Fall, Fractions, Less
<1>5. ~Less(FrameDrawdown(f).fall, Fall(nav, nav)) /\ FrameDrawdown(f).fall \in Fractions
  <2>1. ~Less(Falls(f)[FrameDrawdown(f).at], Falls(f)[1])
    BY <1>1, FrameDrawdownIs DEF FirstWorst
  <2> QED
    BY <1>3, <2>1, FrameDrawdownIs
<1> QED
  BY <1>4, <1>5, NotLessTransitive

-----------------------------------------------------------------------------
(* The loop without a frame. *)

LEMMA SameOrder ==
  ASSUME NEW a \in Fractions, NEW b \in Fractions, NEW c \in Fractions, Equal(a, b)
  PROVE  (Less(a, c) <=> Less(b, c)) /\ (Less(c, a) <=> Less(c, b))
<1>1. ~Less(a, b) /\ ~Less(b, a)
  BY NotLess
<1> QED
  BY <1>1, NotLessTransitive

LEMMA WorstGrows ==
  ASSUME NEW n \in Nat, NEW d \in [1..n -> Fractions], NEW k \in Nat \ {0}, k + 1 <= n,
         NEW at, FirstWorst(d, k, at)
  PROVE  /\ Less(d[at], d[k + 1]) => FirstWorst(d, k + 1, k + 1)
         /\ ~Less(d[at], d[k + 1]) => FirstWorst(d, k + 1, at)
<1>1. /\ at \in 1..k /\ at \in 1..(k + 1) /\ k + 1 \in 1..(k + 1) /\ k + 1 \in 1..n
      /\ \A j \in 1..(k + 1) : j \in 1..n /\ (j \in 1..k \/ j = k + 1)
      /\ (k + 1) - 1 = k
  BY DEF FirstWorst
<1>2. \A j \in 1..(k + 1) : d[j] \in Fractions
  BY <1>1
<1>3. \A j \in 1..k : ~Less(d[at], d[j])
  BY DEF FirstWorst
<1>4. \A j \in 1..(at - 1) : Less(d[j], d[at])
  BY DEF FirstWorst
<1>5. ASSUME Less(d[at], d[k + 1]) PROVE FirstWorst(d, k + 1, k + 1)
  <2>1. ASSUME NEW j \in 1..k PROVE Less(d[j], d[k + 1]) /\ ~Less(d[k + 1], d[j])
    <3>1. d[j] \in Fractions /\ d[at] \in Fractions /\ d[k + 1] \in Fractions
      BY <1>1, <1>2
    <3>2. ~Less(d[at], d[j])
      BY <1>3
    <3>3. Less(d[j], d[k + 1])
      BY <1>5, <3>1, <3>2, NotLessTransitive
    <3> QED
      BY <3>1, <3>3, NotLess
  <2>2. ~Less(d[k + 1], d[k + 1])
    BY <1>1, <1>2, NotLess
  <2> QED
    BY <1>1, <2>1, <2>2 DEF FirstWorst
<1>6. ASSUME ~Less(d[at], d[k + 1]) PROVE FirstWorst(d, k + 1, at)
  <2>1. \A j \in 1..(k + 1) : ~Less(d[at], d[j])
    BY <1>1, <1>3, <1>6
  <2> QED
    BY <1>1, <1>4, <2>1, Zenon DEF FirstWorst
<1> QED
  BY <1>5, <1>6

\* Only a positive peak counts, so 0 stands for any other.
Positive(peak) == IF peak > 0 THEN peak ELSE 0

LEMMA FallOfPositive ==
  ASSUME NEW peak \in Int, NEW nav \in Int
  PROVE  Fall(Positive(peak), nav) = Fall(peak, nav) /\ Positive(peak) \in Nat
BY DEF Fall, Positive

\* What the loop keeps after k rows.
LightUpTo(k, f, acc) ==
  /\ acc.i = k
  /\ acc.peak = Positive(RunningMax(f)[k])
  /\ acc.fall \in Fractions
  /\ FirstWorst(Falls(f), k, acc.at)
  /\ Equal(acc.fall, Falls(f)[acc.at])

LEMMA LightStarts ==
  ASSUME NEW n \in Nat \ {0}, NEW f \in [1..n -> FrameRows]
  PROVE  LightUpTo(1, f, LightStep([i |-> 0, peak |-> 0, fall |-> <<0, 1>>, at |-> 1], f[1]))
<1>1. PICK nav \in Int : nav = f[1].nav /\ 1 \in 1..n
  <2>1. 1 \in 1..n
    OBVIOUS
  <2> QED
    BY <2>1, NavIsInt
<1> DEFINE acc == LightStep([i |-> 0, peak |-> 0, fall |-> <<0, 1>>, at |-> 1], f[1])
<1>2. PICK fall \in Fractions : fall = Fall(nav, nav) /\ fall = Fall(Positive(nav), nav)
  BY FallTyped, FallOfPositive
<1>3. ~Less(<<0, 1>>, fall) /\ Equal(<<0, 1>>, fall) /\ <<0, 1>> \in Fractions
  BY <1>2 DEF Fall, Less, Equal, Fractions
<1>4. acc.i = 1 /\ acc.peak = Positive(nav) /\ acc.fall = <<0, 1>> /\ acc.at = 1
  <2> DEFINE start == [i |-> 0, peak |-> 0, fall |-> <<0, 1>>, at |-> 1]
  <2>1. acc = LightStep(start, f[1])
    OBVIOUS
  <2>2. start.peak = 0 /\ start.i = 0 /\ start.fall = <<0, 1>>
        /\ start.at = 1 /\ start \in LightAcc
    BY DEF LightAcc
  <2> HIDE DEF acc, start
  <2>3. (IF f[1].nav > start.peak THEN f[1].nav ELSE start.peak) = Positive(nav) /\ start.i + 1 = 1
    BY <1>1, <2>2 DEF Positive
  <2>4. acc = IF Less(start.fall, Fall(Positive(nav), f[1].nav))
              THEN [i |-> 1, peak |-> Positive(nav), fall |-> Fall(Positive(nav), f[1].nav), at |-> 1]
              ELSE [start EXCEPT !.i = 1, !.peak = Positive(nav)]
    BY <2>1, <2>3, Zenon DEF LightStep
  <2>5. acc = [start EXCEPT !.i = 1, !.peak = Positive(nav)]
    BY <1>1, <1>2, <1>3, <2>2, <2>4
  <2> QED
    BY <2>2, <2>5 DEF LightAcc
<1> HIDE DEF acc
<1>5. RunningMax(f)[1] = nav /\ Falls(f)[1] = fall
  <2>1. RunningMax(f)[1] = nav
    BY <1>1, RunningMaxSteps
  <2>2. \A i \in 1..n : Falls(f)[i] = Fall(RunningMax(f)[i], f[i].nav)
    BY FallsTyped
  <2> QED
    BY <1>1, <1>2, <2>1, <2>2
<1>6. FirstWorst(Falls(f), 1, 1)
  <2>1. ~Less(Falls(f)[1], Falls(f)[1])
    BY <1>2, <1>5, NotLess
  <2>2. 1 \in 1..1 /\ (\A j \in 1..1 : j = 1) /\ 1..(1 - 1) = {}
    OBVIOUS
  <2> QED
    BY <2>1, <2>2 DEF FirstWorst
<1>7. LightUpTo(1, f, acc)
  BY <1>2, <1>3, <1>4, <1>5, <1>6 DEF LightUpTo
<1> QED
  BY <1>7 DEF acc

LEMMA LightContinues ==
  ASSUME NEW n \in Nat \ {0}, NEW f \in [1..n -> FrameRows], NEW k \in Nat \ {0}, k + 1 <= n,
         NEW acc \in LightAcc, LightUpTo(k, f, acc)
  PROVE  LightUpTo(k + 1, f, LightStep(acc, f[k + 1]))
<1>1. k \in 1..n /\ k + 1 \in 1..n /\ k \in 1..(n - 1)
  OBVIOUS
<1>2. PICK nav \in Int : nav = f[k + 1].nav
  BY <1>1, NavIsInt
<1>3. PICK R \in Int : R = RunningMax(f)[k + 1]
  BY <1>1, RunningMaxIs
<1>4. PICK fall \in Fractions :
        fall = Falls(f)[k + 1] /\ fall = Fall(R, nav) /\ fall = Fall(Positive(R), nav)
  <2>1. Falls(f)[k + 1] = Fall(R, nav) /\ Falls(f)[k + 1] \in Fractions
    BY <1>1, <1>2, <1>3, FallsTyped
  <2> QED
    BY <2>1, FallOfPositive
<1>5. (IF nav > acc.peak THEN nav ELSE acc.peak) = Positive(R)
  <2>1. acc.peak = Positive(RunningMax(f)[k])
    BY DEF LightUpTo
  <2>2. RunningMax(f)[k] \in Int
    BY <1>1, RunningMaxIs
  <2>3. R = IF nav > RunningMax(f)[k] THEN nav ELSE RunningMax(f)[k]
    BY <1>1, <1>2, <1>3, RunningMaxSteps
  <2> QED
    BY <2>1, <2>2, <2>3 DEF Positive
<1>6. LightStep(acc, f[k + 1]) =
        IF Less(acc.fall, fall)
        THEN [i |-> k + 1, peak |-> Positive(R), fall |-> fall, at |-> k + 1]
        ELSE [acc EXCEPT !.i = k + 1, !.peak = Positive(R)]
  <2>1. acc.i = k
    BY DEF LightUpTo
  <2> QED
    BY <1>2, <1>4, <1>5, <2>1 DEF LightStep
<1> DEFINE at == acc.at
<1> DEFINE d == Falls(f)
<1>7. d \in [1..n -> Fractions]
  BY FallsTyped
<1>8. FirstWorst(d, k, at) /\ Equal(acc.fall, d[at]) /\ acc.fall \in Fractions
  BY DEF LightUpTo
<1>9. at \in 1..n
  BY <1>8 DEF FirstWorst
<1> HIDE DEF d
<1>10. d[k + 1] = fall
  BY <1>4 DEF d
<1>11. Less(acc.fall, fall) <=> Less(d[at], d[k + 1])
  <2>1. d[at] \in Fractions
    BY <1>7, <1>9
  <2> QED
    BY <1>8, <1>10, <2>1, SameOrder
<1>12. CASE Less(acc.fall, fall)
  <2>1. FirstWorst(d, k + 1, k + 1)
    BY <1>7, <1>8, <1>11, <1>12, WorstGrows
  <2>2. Equal(fall, fall)
    BY NotLess
  <2> QED
    BY <1>3, <1>6, <1>10, <1>12, <2>1, <2>2 DEF LightUpTo, d
<1>13. CASE ~Less(acc.fall, fall)
  <2>1. FirstWorst(d, k + 1, at)
    BY <1>7, <1>8, <1>11, <1>13, WorstGrows
  <2>2. LightStep(acc, f[k + 1]) = [acc EXCEPT !.i = k + 1, !.peak = Positive(R)]
    BY <1>6, <1>13
  <2>3. LightStep(acc, f[k + 1]).i = k + 1 /\ LightStep(acc, f[k + 1]).peak = Positive(R)
        /\ LightStep(acc, f[k + 1]).fall = acc.fall /\ LightStep(acc, f[k + 1]).at = at
    BY <2>2 DEF LightAcc
  <2> QED
    BY <1>3, <1>8, <2>1, <2>3 DEF LightUpTo, d
<1> QED
  BY <1>12, <1>13

LEMMA LightIs ==
  ASSUME NEW n \in Nat \ {0}, NEW f \in [1..n -> FrameRows]
  PROVE  /\ LightDrawdown(f).at = FrameDrawdown(f).at
         /\ Equal(LightDrawdown(f).fall, FrameDrawdown(f).fall)
<1> DEFINE start == [i |-> 0, peak |-> 0, fall |-> <<0, 1>>, at |-> 1]
<1>1. start \in LightAcc
  BY DEF LightAcc
<1>2. LightDrawdown(f) = [at |-> LightFrom(start, f).at, fall |-> LightFrom(start, f).fall]
  BY DEF LightDrawdown, LightFrom
<1>3. LightUpTo(1, f, LightStep(start, f[1]))
  BY LightStarts
<1> HIDE DEF start
<1>4. PICK F \in [0..n -> LightAcc] :
        /\ F[0] = start
        /\ F[n] = LightFrom(start, f)
        /\ \A k \in 1..n : F[k] = LightStep(F[k - 1], f[k])
  <2>1. n \in Nat
    OBVIOUS
  <2> QED
    BY <1>1, <2>1, LightRun, ZenonT(40)
<1> DEFINE T == {k \in Nat : k + 1 <= n => LightUpTo(k + 1, f, F[k + 1])}
<1>5. 0 \in T
  <2>1. 1 \in 1..n /\ 1 - 1 = 0 /\ 0 + 1 = 1
    OBVIOUS
  <2>2. F[1] = LightStep(start, f[1])
    BY <1>4, <2>1
  <2> QED
    BY <1>3, <2>1, <2>2
<1>6. ASSUME NEW k \in Nat, k \in T PROVE k + 1 \in T
  <2> SUFFICES ASSUME (k + 1) + 1 <= n PROVE LightUpTo((k + 1) + 1, f, F[(k + 1) + 1])
    OBVIOUS
  <2>1. LightUpTo(k + 1, f, F[k + 1])
    BY <1>6
  <2>2. (k + 1) + 1 \in 1..n /\ ((k + 1) + 1) - 1 = k + 1 /\ k + 1 \in 0..n /\ k + 1 \in Nat \ {0}
    OBVIOUS
  <2>3. F[(k + 1) + 1] = LightStep(F[k + 1], f[(k + 1) + 1]) /\ F[k + 1] \in LightAcc
    BY <1>4, <2>2
  <2>4. LightUpTo((k + 1) + 1, f, LightStep(F[k + 1], f[(k + 1) + 1]))
    BY <2>1, <2>2, <2>3, LightContinues
  <2> QED
    BY <2>3, <2>4
<1>7. LightUpTo(n, f, F[n])
  <2>1. n - 1 \in Nat /\ (n - 1) + 1 = n
    OBVIOUS
  <2>2. n - 1 \in T
    <3> HIDE DEF T
    <3> QED
      BY <1>5, <1>6, <2>1, EveryNatural
  <2> QED
    BY <2>1, <2>2
<1>8. F[n].at = FrameDrawdown(f).at
  <2>1. FirstWorst(Falls(f), n, F[n].at)
    BY <1>7 DEF LightUpTo
  <2>2. FirstWorst(Falls(f), n, FrameDrawdown(f).at)
    BY FrameDrawdownIs
  <2> QED
    BY <2>1, <2>2, FirstWorstUnique
<1>9. Equal(F[n].fall, FrameDrawdown(f).fall)
  BY <1>7, <1>8, FrameDrawdownIs DEF LightUpTo
<1> QED
  BY <1>2, <1>4, <1>8, <1>9

-----------------------------------------------------------------------------
(* The rows of a year are a stretch of the frame. *)

LEMMA FrameIs ==
  ASSUME NEW f, IsFrame(f), NEW n, n = Len(f)
  PROVE  /\ n \in Nat \ {0} /\ n \in Nat /\ f \in [1..n -> FrameRows] /\ DOMAIN f = 1..n
         /\ \A i, j \in 1..n : i <= j => YearOf[f[i].month] <= YearOf[f[j].month]
         /\ \A i \in 1..n : YearOf[f[i].month] \in Nat
<1>1. n \in Nat \ {0} /\ f \in [1..n -> FrameRows]
  BY DEF IsFrame
<1>2. \A i \in 1..n : f[i] \in FrameRows
  BY <1>1
<1>3. \A i \in 1..n : f[i].month \in Month /\ YearOf[f[i].month] \in Nat
  BY <1>2, RowTypes
<1>4. \A i, j \in 1..n : i <= j => f[i].month <= f[j].month
  BY DEF IsFrame
<1>5. \A i, j \in 1..n : i <= j => YearOf[f[i].month] <= YearOf[f[j].month]
  BY <1>3, <1>4, FrameAssumption
<1> QED
  BY <1>1, <1>3, <1>5

LEMMA InitialStretch ==
  ASSUME NEW n \in Nat, NEW S \in SUBSET (1..n), \A i \in S : \A j \in 1..i : j \in S
  PROVE  \E b \in 0..n : S = 1..b
<1>1. CASE S = {}
  <2>1. S = 1..0 /\ 0 \in 0..n
    BY <1>1
  <2> QED
    BY <2>1
<1>2. CASE S # {}
  <2>1. S \in SUBSET Nat /\ \A x \in S : x <= n
    OBVIOUS
  <2>2. Max(S) \in S /\ \A x \in S : x <= Max(S)
    BY <1>2, <2>1, GreatestBelow
  <2>3. PICK b \in 1..n : b = Max(S)
    BY <2>2
  <2>4. \A x \in S : x \in 1..b
    BY <2>2, <2>3
  <2>5. \A x \in 1..b : x \in S
    BY <2>2, <2>3
  <2>6. S = 1..b
    BY <2>4, <2>5
  <2>7. b \in 0..n
    OBVIOUS
  <2> QED
    BY <2>6, <2>7
<1> QED
  BY <1>1, <1>2

LEMMA RowsAtStretch ==
  ASSUME NEW n \in Nat, NEW f \in [1..n -> FrameRows], NEW a \in Nat, NEW b \in Nat, a <= b, b <= n
  PROVE  /\ RowsAt(f, (a + 1)..b) = [j \in 1..(b - a) |-> f[a + j]]
         /\ RowsAt(f, (a + 1)..b) \in [1..(b - a) -> FrameRows]
<1>1. InOrder((a + 1)..b) = [k \in 1..(b - (a + 1) + 1) |-> (a + 1) + k - 1]
  <2>1. a + 1 \in Nat /\ a + 1 <= b + 1
    OBVIOUS
  <2> QED
    BY <2>1, InOrderStretch
<1>2. b - (a + 1) + 1 = b - a /\ \A k \in 1..(b - a) : (a + 1) + k - 1 = a + k
  OBVIOUS
<1>3. InOrder((a + 1)..b) = [k \in 1..(b - a) |-> a + k]
  BY <1>1, <1>2
<1>4. DOMAIN InOrder((a + 1)..b) = 1..(b - a)
  BY <1>3
<1>5. \A k \in 1..(b - a) : f[a + k] \in FrameRows
  <2>1. \A k \in 1..(b - a) : a + k \in 1..n
    OBVIOUS
  <2> QED
    BY <2>1
<1> QED
  BY <1>3, <1>4, <1>5 DEF RowsAt

\* The rows of the years that are listed, by the last row of each.
YearBounds(f, m, b) ==
  /\ b \in [0..m -> 0..Len(f)]
  /\ b[0] = 0 /\ b[m] = Len(f)
  /\ \A k \in 1..m : /\ b[k - 1] < b[k]
                     /\ {i \in 1..Len(f) : YearOf[f[i].month] = InOrder(YearsOf(f))[k]}
                          = (b[k - 1] + 1)..b[k]

LEMMA YearsListed ==
  ASSUME NEW f, IsFrame(f)
  PROVE  /\ YearsOf(f) \in SUBSET Nat /\ IsFiniteSet(YearsOf(f))
         /\ Cardinality(YearsOf(f)) \in Nat \ {0}
         /\ InOrder(YearsOf(f)) \in [1..Cardinality(YearsOf(f)) -> YearsOf(f)]
         /\ \A i, j \in 1..Cardinality(YearsOf(f)) :
              i < j => InOrder(YearsOf(f))[i] < InOrder(YearsOf(f))[j]
         /\ \A y \in YearsOf(f) : \E i \in 1..Cardinality(YearsOf(f)) : InOrder(YearsOf(f))[i] = y
         /\ \A y \in YearsOf(f) : \E i \in 1..Len(f) : YearOf[f[i].month] = y
         /\ \A i \in 1..Len(f) : YearOf[f[i].month] \in YearsOf(f)
<1> DEFINE n == Len(f)
<1> DEFINE Y == YearsOf(f)
<1>1. /\ n \in Nat \ {0} /\ f \in [1..n -> FrameRows] /\ DOMAIN f = 1..n
      /\ \A i, j \in 1..n : i <= j => YearOf[f[i].month] <= YearOf[f[j].month]
      /\ \A i \in 1..n : YearOf[f[i].month] \in Nat
  BY FrameIs
<1>2. \A r : r \in ToSet(f) <=> \E i \in 1..n : f[i] = r
  BY <1>1 DEF ToSet
<1>3. \A y : y \in Y <=> \E i \in 1..n : YearOf[f[i].month] = y
  BY <1>2 DEF YearsOf
<1> HIDE DEF n, Y
<1>4. Y \in SUBSET Nat /\ n \in 1..n
  BY <1>1, <1>3
<1>5. IsFiniteSet(Y)
  <2>1. Y \in SUBSET (0..YearOf[f[n].month])
    BY <1>1, <1>3, <1>4
  <2>2. IsFiniteSet(0..YearOf[f[n].month])
    BY <1>1, <1>4, FS_Interval
  <2> QED
    BY <2>1, <2>2, FS_Subset
<1>6. Cardinality(Y) \in Nat \ {0}
  <2>1. Y # {}
    BY <1>3, <1>4
  <2> QED
    BY <1>5, <2>1, FS_CardinalityType, FS_EmptySet
<1>7. /\ InOrder(Y) \in [1..Cardinality(Y) -> Y]
      /\ \A i, j \in 1..Cardinality(Y) : i < j => InOrder(Y)[i] < InOrder(Y)[j]
      /\ \A e \in Y : \E i \in 1..Cardinality(Y) : InOrder(Y)[i] = e
  BY <1>4, <1>5, InOrderSorted
<1> QED
  BY <1>3, <1>4, <1>5, <1>6, <1>7 DEF n, Y

LEMMA YearsDivide ==
  ASSUME NEW f, IsFrame(f), NEW m, m = Cardinality(YearsOf(f))
  PROVE  \E b : YearBounds(f, m, b)
<1> DEFINE n == Len(f)
<1> DEFINE ys == InOrder(YearsOf(f))
<1> DEFINE year == [i \in 1..n |-> YearOf[f[i].month]]
<1>1. /\ n \in Nat /\ n \in 1..n
      /\ \A i, j \in 1..n : i <= j => year[i] <= year[j]
      /\ \A i \in 1..n : year[i] \in Nat
  BY FrameIs
<1>2. /\ m \in Nat \ {0}
      /\ ys \in [1..m -> Nat]
      /\ \A i, j \in 1..m : i < j => ys[i] < ys[j]
      /\ \A i \in 1..n : \E k \in 1..m : ys[k] = year[i]
      /\ \A k \in 1..m : \E i \in 1..n : ys[k] = year[i]
  <2>1. YearsOf(f) \in SUBSET Nat /\ ys \in [1..m -> YearsOf(f)]
    BY YearsListed
  <2>2. \A i \in 1..n : year[i] \in YearsOf(f)
    BY YearsListed
  <2>3. \A y \in YearsOf(f) : (\E k \in 1..m : ys[k] = y) /\ (\E i \in 1..n : year[i] = y)
    BY YearsListed
  <2>4. m \in Nat \ {0} /\ \A i, j \in 1..m : i < j => ys[i] < ys[j]
    BY YearsListed
  <2> HIDE DEF ys, year
  <2> QED
    BY <2>1, <2>2, <2>3, <2>4
<1> HIDE DEF n, ys, year
<1> DEFINE Upto(k) == {i \in 1..n : year[i] <= ys[k]}
<1>3. \A k \in 1..m : \E e \in 0..n : Upto(k) = 1..e
  <2> TAKE k \in 1..m
  <2>1. ys[k] \in Nat
    BY <1>2
  <2>2. \A i \in Upto(k) : \A j \in 1..i : j \in Upto(k)
    <3> TAKE i \in Upto(k)
    <3> TAKE j \in 1..i
    <3>1. i \in 1..n /\ j \in 1..n /\ j <= i /\ year[i] <= ys[k]
      BY <1>1
    <3> QED
      BY <1>1, <2>1, <3>1
  <2>3. Upto(k) \in SUBSET (1..n)
    OBVIOUS
  <2> HIDE DEF Upto
  <2> QED
    BY <1>1, <2>2, <2>3, InitialStretch
<1> DEFINE b == [k \in 0..m |-> IF k = 0 THEN 0 ELSE Cardinality(Upto(k))]
<1> HIDE DEF Upto
<1>4. b \in [0..m -> 0..n] /\ b[0] = 0 /\ \A k \in 1..m : Upto(k) = 1..b[k]
  <2>1. \A k \in 1..m : b[k] \in 0..n /\ Upto(k) = 1..b[k]
    <3> TAKE k \in 1..m
    <3>1. b[k] = Cardinality(Upto(k))
      BY <1>2
    <3>2. PICK e \in 0..n : Upto(k) = 1..e
      BY <1>3
    <3>3. Cardinality(1..e) = e
      <4>1. 1 \in Int /\ e \in Int /\ e - 1 + 1 = e /\ (1 <= e \/ e = 0)
        OBVIOUS
      <4>2. Cardinality(1..e) = IF 1 > e THEN 0 ELSE e - 1 + 1
        BY <4>1, FS_Interval
      <4> QED
        BY <4>1, <4>2
    <3> QED
      BY <3>1, <3>2, <3>3
  <2>2. b[0] = 0 /\ b = [k \in 0..m |-> b[k]]
    BY <1>2
  <2>3. 0 \in 0..n /\ \A k \in 0..m : k = 0 \/ k \in 1..m
    BY <1>1, <1>2
  <2> HIDE DEF b
  <2>4. \A k \in 0..m : b[k] \in 0..n
    BY <2>1, <2>2, <2>3
  <2> QED
    BY <2>1, <2>2, <2>4
<1> HIDE DEF b
<1>5. ASSUME NEW k \in 1..m, NEW i \in 1..n PROVE i <= b[k] <=> year[i] <= ys[k]
  <2>1. i \in 1..b[k] <=> year[i] <= ys[k]
    BY <1>4 DEF Upto
  <2>2. k \in 0..m
    BY <1>2
  <2>3. b[k] \in 0..n
    BY <1>4, <2>2
  <2> QED
    BY <1>1, <2>1, <2>3
<1>6. b[m] = n
  <2>1. PICK k \in 1..m : ys[k] = year[n]
    BY <1>1, <1>2
  <2>2. ys[k] <= ys[m] /\ m \in 1..m
    <3>1. m \in 1..m /\ (k = m \/ k < m)
      BY <1>2
    <3>2. ys[k] \in Nat /\ ys[m] \in Nat
      BY <1>2, <3>1
    <3>3. k < m => ys[k] < ys[m]
      BY <1>2, <3>1
    <3> QED
      BY <3>1, <3>2, <3>3
  <2>3. n <= b[m]
    BY <1>1, <1>5, <2>1, <2>2
  <2>4. b[m] \in 0..n
    BY <1>4, <2>2
  <2> QED
    BY <1>1, <2>3, <2>4
<1>7. ASSUME NEW k \in 1..m, NEW i \in 1..n PROVE i <= b[k - 1] <=> year[i] < ys[k]
  <2>1. year[i] \in Nat /\ ys[k] \in Nat
    BY <1>1, <1>2
  <2>2. CASE k = 1
    <3>1. ~(i <= b[k - 1])
      BY <1>4, <2>2
    <3>2. PICK j \in 1..m : ys[j] = year[i]
      BY <1>2
    <3>3. j = k \/ k < j
      BY <2>2
    <3>4. k < j => ys[k] < ys[j]
      BY <1>2
    <3> QED
      BY <2>1, <3>1, <3>2, <3>3, <3>4
  <2>3. CASE k # 1
    <3>1. k - 1 \in 1..m /\ k - 1 < k
      BY <1>2, <2>3
    <3>2. i <= b[k - 1] <=> year[i] <= ys[k - 1]
      BY <1>5, <3>1
    <3>3. ys[k - 1] \in Nat /\ ys[k - 1] < ys[k]
      BY <1>2, <3>1
    <3>4. PICK j \in 1..m : ys[j] = year[i]
      BY <1>2
    <3>5. j = k - 1 \/ j = k \/ j < k - 1 \/ k < j
      BY <1>2
    <3>6. (j < k - 1 => ys[j] < ys[k - 1]) /\ (k < j => ys[k] < ys[j])
      BY <1>2, <3>1
    <3> QED
      BY <2>1, <3>2, <3>3, <3>4, <3>5, <3>6
  <2> QED
    BY <2>2, <2>3
<1>8. ASSUME NEW k \in 1..m
      PROVE  b[k - 1] < b[k] /\ {i \in 1..n : year[i] = ys[k]} = (b[k - 1] + 1)..b[k]
  <2>1. b[k] \in 0..n /\ b[k - 1] \in 0..n /\ ys[k] \in Nat
    <3>1. k \in 0..m /\ k - 1 \in 0..m
      BY <1>2
    <3> QED
      BY <1>2, <1>4, <3>1
  <2>2. \A i \in 1..n : year[i] = ys[k] <=> (b[k - 1] < i /\ i <= b[k])
    <3> TAKE i \in 1..n
    <3>1. (i <= b[k] <=> year[i] <= ys[k]) /\ (i <= b[k - 1] <=> year[i] < ys[k])
      BY <1>5, <1>7
    <3>2. year[i] \in Nat /\ i \in Nat
      BY <1>1
    <3> QED
      BY <2>1, <3>1, <3>2
  <2>3. PICK h \in 1..n : ys[k] = year[h]
    BY <1>2
  <2>4. b[k - 1] < b[k]
    BY <1>1, <2>1, <2>2, <2>3
  <2>5. \A i : i \in (b[k - 1] + 1)..b[k] <=> i \in 1..n /\ b[k - 1] < i /\ i <= b[k]
    BY <1>1, <2>1
  <2> QED
    BY <2>2, <2>4, <2>5
<1>9. \A k \in 1..m : {i \in 1..n : year[i] = ys[k]} = {i \in 1..Len(f) : YearOf[f[i].month] = InOrder(YearsOf(f))[k]}
  BY DEF n, year, ys
<1>10. YearBounds(f, m, b)
  BY <1>4, <1>6, <1>8, <1>9 DEF YearBounds, n
<1> QED
  BY <1>10

LEMMA InYearIs ==
  ASSUME NEW f, IsFrame(f), NEW m, m = Cardinality(YearsOf(f)), NEW b, YearBounds(f, m, b), NEW k \in 1..m
  PROVE  /\ b[k] - b[k - 1] \in Nat \ {0} /\ b[k - 1] \in Nat /\ b[k] \in 1..Len(f)
         /\ InYear(f, InOrder(YearsOf(f))[k]) = [j \in 1..(b[k] - b[k - 1]) |-> f[b[k - 1] + j]]
         /\ InYear(f, InOrder(YearsOf(f))[k]) \in [1..(b[k] - b[k - 1]) -> FrameRows]
<1> DEFINE n == Len(f)
<1>1. n \in Nat /\ f \in [1..n -> FrameRows] /\ DOMAIN f = 1..n
  BY FrameIs
<1>2. m \in Nat /\ k - 1 \in 0..m /\ k \in 0..m
  <2>1. m \in Nat
    BY YearsListed
  <2> QED
    BY <2>1
<1>3. b[k - 1] \in 0..n /\ b[k] \in 0..n /\ b[k - 1] < b[k]
  BY <1>2 DEF YearBounds
<1>4. {i \in 1..n : YearOf[f[i].month] = InOrder(YearsOf(f))[k]} = (b[k - 1] + 1)..b[k]
  BY DEF YearBounds
<1>5. InYear(f, InOrder(YearsOf(f))[k]) = RowsAt(f, (b[k - 1] + 1)..b[k])
  BY <1>1, <1>4 DEF InYear
<1> HIDE DEF n
<1>6. b[k - 1] \in Nat /\ b[k] \in Nat /\ b[k - 1] <= b[k] /\ b[k] <= n /\ b[k] \in 1..n
      /\ b[k] - b[k - 1] \in Nat \ {0}
  BY <1>1, <1>3
<1>7. /\ RowsAt(f, (b[k - 1] + 1)..b[k]) = [j \in 1..(b[k] - b[k - 1]) |-> f[b[k - 1] + j]]
      /\ RowsAt(f, (b[k - 1] + 1)..b[k]) \in [1..(b[k] - b[k - 1]) -> FrameRows]
  BY <1>1, <1>6, RowsAtStretch
<1> QED
  BY <1>5, <1>6, <1>7 DEF n

-----------------------------------------------------------------------------
(* The largest drawdown of a year. *)

\* A year falls no deeper than the frame, if no value is below zero.
LEMMA YearFalls ==
  ASSUME NEW f, IsFrame(f), NEW m, m = Cardinality(YearsOf(f)), NEW b, YearBounds(f, m, b), NEW k \in 1..m
  PROVE  /\ YearDrawdown(f, InOrder(YearsOf(f))[k]) \in Fractions
         /\ (\A i \in 1..Len(f) : f[i].nav >= 0)
              => ~Less(FrameDrawdown(f).fall, YearDrawdown(f, InOrder(YearsOf(f))[k]))
<1> DEFINE g == InYear(f, InOrder(YearsOf(f))[k])
<1>1. PICK n \in Nat \ {0} : n = Len(f) /\ f \in [1..n -> FrameRows]
  BY FrameIs
<1>2. PICK a \in Nat, e \in Nat \ {0} : a = b[k - 1] /\ e = b[k] - b[k - 1] /\ a + e = b[k] /\ a + e <= n
  <2>1. b[k] - b[k - 1] \in Nat \ {0} /\ b[k - 1] \in Nat /\ b[k] \in 1..n
    BY <1>1, InYearIs
  <2>2. b[k - 1] + (b[k] - b[k - 1]) = b[k] /\ b[k] <= n
    BY <2>1
  <2> QED
    BY <2>1, <2>2
<1>3. g = [j \in 1..e |-> f[a + j]] /\ g \in [1..e -> FrameRows]
  BY <1>2, InYearIs
<1>4. YearDrawdown(f, InOrder(YearsOf(f))[k]) = FrameDrawdown(g).fall
  BY DEF YearDrawdown
<1> HIDE DEF g
<1>5. PICK at \in 1..e : FrameDrawdown(g).fall = Falls(g)[at] /\ FrameDrawdown(g).fall \in Fractions
  BY <1>3, FrameDrawdownIs DEF FirstWorst
<1>6. ASSUME \A i \in 1..n : f[i].nav >= 0
      PROVE  ~Less(FrameDrawdown(f).fall, Falls(g)[at])
  <2>1. CASE Falls(g)[at] = <<0, 1>>
    BY <1>1, <2>1, FallNotNegative
  <2>2. ASSUME NEW i \in 1..at, g[i].nav > 0, Falls(g)[at] = <<g[i].nav - g[at].nav, g[i].nav>>
        PROVE  ~Less(FrameDrawdown(f).fall, Falls(g)[at])
    <3>1. i \in 1..e /\ g[i] = f[a + i] /\ g[at] = f[a + at]
      BY <1>3
    <3>2. a + i \in 1..n /\ a + at \in 1..n /\ a + i <= a + at
      BY <1>2
    <3>3. f[a + i].nav > 0 /\ f[a + at].nav >= 0
      BY <1>6, <2>2, <3>1, <3>2
    <3>4. ~Less(FrameDrawdown(f).fall, <<f[a + i].nav - f[a + at].nav, f[a + i].nav>>)
      BY <1>1, <3>2, <3>3, BuySell
    <3> QED
      BY <2>2, <3>1, <3>4
  <2> QED
    BY <1>3, <2>1, <2>2, LossAttained
<1> QED
  BY <1>1, <1>4, <1>5, <1>6

LEMMA KamaIs ==
  ASSUME NEW f, IsFrame(f)
  PROVE  /\ (\A i \in 1..Len(f) : f[i].nav >= 0) => ~Less(FrameDrawdown(f).fall, KamaDrawdown(f))
         /\ Cardinality(YearsOf(f)) = 1 => Equal(FrameDrawdown(f).fall, KamaDrawdown(f))
<1> DEFINE Y == YearsOf(f)
<1> DEFINE m == Cardinality(Y)
<1> DEFINE ys == InOrder(Y)
<1> DEFINE d == [k \in 1..m |-> YearDrawdown(f, ys[k])]
<1>1. PICK b : YearBounds(f, m, b)
  BY YearsDivide
<1> DEFINE NotBelowZero == \A i \in 1..Len(f) : f[i].nav >= 0
<1>2. \A k \in 1..m : d[k] \in Fractions /\ (NotBelowZero => ~Less(FrameDrawdown(f).fall, d[k]))
  BY <1>1, YearFalls
<1>3. m \in Nat \ {0} /\ ys \in [1..m -> Y] /\ \A y \in Y : \E k \in 1..m : ys[k] = y
  BY YearsListed
<1>4. PICK t \in 1..m : \A j \in 1..m : ~Less(d[t], d[j])
  <2>1. d \in [1..m -> Fractions]
    BY <1>2
  <2> HIDE DEF d, m
  <2> QED
    BY <1>3, <2>1, GreatestFraction
<1> DEFINE OfYears == {YearDrawdown(f, y) : y \in Y}
<1>5. \E x \in OfYears : \A y \in Y : ~Less(x, YearDrawdown(f, y))
  <2>1. ys[t] \in Y
    BY <1>3
  <2>2. YearDrawdown(f, ys[t]) \in OfYears
    BY <2>1
  <2>3. \A y \in Y : ~Less(YearDrawdown(f, ys[t]), YearDrawdown(f, y))
    <3> TAKE y \in Y
    <3>1. PICK k \in 1..m : ys[k] = y
      BY <1>3
    <3>2. ~Less(d[t], d[k]) /\ d[t] = YearDrawdown(f, ys[t]) /\ d[k] = YearDrawdown(f, y)
      BY <1>4, <3>1
    <3> QED
      BY <3>2
  <2> QED
    BY <2>2, <2>3
<1>6. KamaDrawdown(f) \in OfYears
  <2>1. KamaDrawdown(f) = CHOOSE x \in OfYears : \A y \in Y : ~Less(x, YearDrawdown(f, y))
    BY DEF KamaDrawdown
  <2> HIDE DEF OfYears
  <2> QED
    BY <1>5, <2>1
<1>7. PICK y \in Y : KamaDrawdown(f) = YearDrawdown(f, y)
  BY <1>6
<1>8. PICK k \in 1..m : ys[k] = y
  BY <1>3
<1>9. KamaDrawdown(f) = d[k]
  BY <1>7, <1>8
<1>10. KamaDrawdown(f) \in Fractions /\ (NotBelowZero => ~Less(FrameDrawdown(f).fall, KamaDrawdown(f)))
  BY <1>2, <1>9
<1>11. ASSUME m = 1 PROVE Equal(FrameDrawdown(f).fall, KamaDrawdown(f))
  <2>1. k = 1 /\ 1 - 1 = 0
    BY <1>11
  <2>2. b[1] = Len(f) /\ b[0] = 0
    BY <1>1, <1>11 DEF YearBounds
  <2>3. InYear(f, ys[k]) = [j \in 1..(b[k] - b[k - 1]) |-> f[b[k - 1] + j]]
    BY <1>1, InYearIs
  <2>4. Len(f) \in Nat /\ f \in [1..Len(f) -> FrameRows]
    BY FrameIs
  <2>5. InYear(f, ys[k]) = [j \in 1..Len(f) |-> f[j]]
    <3>1. b[k] - b[k - 1] = Len(f) /\ b[k - 1] = 0
      BY <2>1, <2>2, <2>4
    <3>2. \A j \in 1..Len(f) : 0 + j = j
      OBVIOUS
    <3> QED
      BY <2>3, <3>1, <3>2
  <2>6. InYear(f, ys[k]) = f
    BY <2>4, <2>5
  <2>7. KamaDrawdown(f) = FrameDrawdown(f).fall
    BY <1>7, <1>8, <2>6 DEF YearDrawdown
  <2> QED
    BY <1>10, <2>7, NotLess
<1> QED
  BY <1>10, <1>11

LEMMA DrawdownsAgree ==
  ASSUME IsFrame(frame)
  PROVE  DrawdownAgrees
<1>1. PICK n \in Nat \ {0} : n = Len(frame) /\ frame \in [1..n -> FrameRows] /\ DOMAIN frame = 1..n
  BY FrameIs
<1>2. /\ LightDrawdown(frame).at = FrameDrawdown(frame).at
      /\ Equal(LightDrawdown(frame).fall, FrameDrawdown(frame).fall)
  BY <1>1, LightIs
<1>3. PICK total : total = FrameDrawdown(frame)
  OBVIOUS
<1> DEFINE Loss(i, j) == <<frame[i].nav - frame[j].nav, frame[i].nav>>
<1>4. \A i, j \in 1..n :
        i <= j /\ frame[i].nav > 0 /\ frame[j].nav >= 0 => ~Less(total.fall, Loss(i, j))
  BY <1>1, <1>3, BuySell
<1>5. PICK at \in 1..n : /\ at = total.at /\ total.fall = Falls(frame)[at]
                         /\ total.fall \in Fractions
  BY <1>1, <1>3, FrameDrawdownIs DEF FirstWorst
<1>6. \/ \E i \in 1..at : frame[i].nav > 0 /\ Equal(total.fall, Loss(i, at))
      \/ total.fall[1] = 0 /\ \A i \in 1..at : frame[i].nav <= 0
  <2>1. Equal(total.fall, total.fall)
    BY <1>5, NotLess
  <2>2. \/ \E i \in 1..at : frame[i].nav > 0 /\ total.fall = Loss(i, at)
        \/ total.fall = <<0, 1>> /\ \A i \in 1..at : frame[i].nav <= 0
    BY <1>1, <1>5, LossAttained
  <2> QED
    BY <2>1, <2>2
<1>7. /\ NoneBelow(0) => ~Less(total.fall, KamaDrawdown(frame))
      /\ Cardinality(YearsOf(frame)) = 1 => Equal(total.fall, KamaDrawdown(frame))
  BY <1>1, <1>3, KamaIs DEF NoneBelow
<1> QED
  BY <1>1, <1>2, <1>3, <1>4, <1>5, <1>6, <1>7 DEF DrawdownAgrees

-----------------------------------------------------------------------------
(* Repair days year by year: the loop over the groups. *)

YearAcc  == [peak : Int, days : Nat, years : Seq(Nat)]
YearRows == Seq(FrameRows) \ {<<>>}
YearFrom(base, s) == FoldLeft(YearStep, base, s)

LEMMA RepairFromTyped ==
  ASSUME NEW base \in RepairAcc, NEW s \in Seq(FrameRows)
  PROVE  RepairFrom(base, s) \in RepairAcc
<1>1. PICK n \in Nat : n = Len(s) /\ s \in [1..n -> FrameRows]
  OBVIOUS
<1>2. PICK F \in [0..n -> RepairAcc] : F[n] = RepairFrom(base, s)
  BY <1>1, RepairRun
<1> QED
  BY <1>2

LEMMA FirstAndRest ==
  ASSUME NEW group \in YearRows
  PROVE  /\ Tail(group) \in Seq(FrameRows) /\ Head(group) \in FrameRows
         /\ Head(group).nav \in Int
<1>1. Tail(group) \in Seq(FrameRows) /\ Head(group) \in FrameRows
  BY DEF YearRows
<1> QED
  BY <1>1, RowTypes

LEMMA YearTyped ==
  ASSUME NEW acc \in YearAcc, NEW group \in YearRows
  PROVE  YearStep(acc, group) \in YearAcc
<1> DEFINE first == acc.years = <<>>
<1> DEFINE start == [peak |-> IF first THEN Head(group).nav ELSE acc.peak,
                     days |-> acc.days, longest |-> 0]
<1> DEFINE part == IF first THEN Tail(group) ELSE group
<1>1. start \in RepairAcc /\ part \in Seq(FrameRows)
  <2>1. Head(group).nav \in Int /\ Tail(group) \in Seq(FrameRows) /\ group \in Seq(FrameRows)
    BY FirstAndRest DEF YearRows
  <2> QED
    BY <2>1 DEF YearAcc, RepairAcc
<1> HIDE DEF start, part
<1>2. PICK end \in RepairAcc : end = RepairFrom(start, part)
  BY <1>1, RepairFromTyped
<1>3. YearStep(acc, group) =
        [peak |-> end.peak, days |-> end.days, years |-> Append(acc.years, end.longest)]
  BY <1>2 DEF YearStep, start, part
<1>4. acc.years \in Seq(Nat) /\ end.peak \in Int /\ end.days \in Nat /\ end.longest \in Nat
  BY DEF YearAcc, RepairAcc
<1> QED
  BY <1>3, <1>4 DEF YearAcc

LEMMA YearRun ==
  ASSUME NEW n \in Nat, NEW s \in [1..n -> YearRows], NEW base \in YearAcc
  PROVE  \E F \in [0..n -> YearAcc] :
           /\ F[0] = base
           /\ F[n] = YearFrom(base, s)
           /\ \A k \in 1..n : F[k] = YearStep(F[k - 1], s[k])
<1> DEFINE step == [p \in YearAcc \X (1..n) |-> YearStep(p[1], s[p[2]])]
<1> DEFINE Recursion(g) ==
      g = [t \in SUBSET (1..n) |->
             IF t = {} THEN base ELSE YearStep(g[t \ {Max(t)}], s[Max(t)])]
<1>1. \A acc \in YearAcc, k \in 1..n :
        step[<<acc, k>>] = YearStep(acc, s[k]) /\ YearStep(acc, s[k]) \in YearAcc
  BY YearTyped
<1>2. step \in [YearAcc \X (1..n) -> YearAcc]
  BY <1>1
<1> HIDE DEF step
<1>3. \E g : Recursion(g)
  <2>1. PICK g \in [SUBSET (1..n) -> YearAcc] : SolvesFold(g, n, base, step)
    BY <1>2, FoldExists DEF Foldable
  <2>2. ASSUME NEW t \in SUBSET (1..n), t # {}
        PROVE  Max(t) \in 1..n /\ g[t \ {Max(t)}] \in YearAcc
    <3>1. \A x \in t : x \in Nat /\ x <= n
      OBVIOUS
    <3>2. Max(t) \in t
      BY <2>2, <3>1, GreatestBelow
    <3> QED
      BY <3>2
  <2>3. \A t \in SUBSET (1..n) :
          g[t] = IF t = {} THEN base ELSE YearStep(g[t \ {Max(t)}], s[Max(t)])
    BY <1>1, <2>1, <2>2 DEF SolvesFold
  <2> QED
    BY <2>3
<1> DEFINE h == CHOOSE g : Recursion(g)
<1>4. YearFrom(base, s) = h[1..n]
  <2>1. DOMAIN s = 1..n
    OBVIOUS
  <2> QED
    BY <2>1 DEF YearFrom, FoldLeft, MapThenFoldSet
<1>5. Recursion(h)
  BY <1>3
<1> HIDE DEF h
<1>6. h[{}] = base /\ \A k \in 1..n : h[1..k] = YearStep(h[1..(k - 1)], s[k])
  <2>1. h[{}] = base
    BY <1>5
  <2>2. ASSUME NEW k \in 1..n PROVE h[1..k] = YearStep(h[1..(k - 1)], s[k])
    <3>1. 1..k \in SUBSET (1..n)
      OBVIOUS
    <3>2. 1..k # {} /\ Max(1..k) = k /\ (1..k) \ {k} = 1..(k - 1)
      <4>1. k \in Nat \ {0}
        OBVIOUS
      <4> QED
        BY <4>1, FirstPositions, Zenon
    <3>3. h[1..k] = IF 1..k = {} THEN base ELSE YearStep(h[(1..k) \ {Max(1..k)}], s[Max(1..k)])
      BY <1>5, <3>1
    <3> QED
      BY <3>2, <3>3
  <2> QED
    BY <2>1, <2>2
<1> HIDE DEF Recursion
<1>7. StepsAlong(h, n, YearAcc, base, step)
  BY <1>1, <1>6 DEF StepsAlong
<1>8. PICK F : RunOf(F, n, YearAcc, base, step, YearFrom(base, s))
  BY <1>2, <1>4, <1>7, FoldRun
<1>9. \A k \in 1..n : F[k - 1] \in YearAcc
  BY <1>8 DEF RunOf
<1> QED
  BY <1>1, <1>8, <1>9 DEF RunOf

-----------------------------------------------------------------------------
(* Repair days: the loop after each row. *)

\* The rows at least as high as every earlier one, and those that follow each other.
Record(f, i)     == \A j \in 1..(i - 1) : f[j].nav <= f[i].nav
RecordStretch(f, a, c) == a < c /\ Record(f, a) /\ Record(f, c) /\ \A k \in (a + 1)..(c - 1) : ~Record(f, k)

RepairUpTo(i, f, acc) ==
  /\ acc.days < i
  /\ Record(f, i - acc.days)
  /\ acc.peak = f[i - acc.days].nav
  /\ \A j \in 1..i : f[j].nav <= acc.peak
  /\ \A j \in (i - acc.days + 1)..i : f[j].nav < acc.peak
  /\ \A a, c \in 1..i : RecordStretch(f, a, c) => c - a - 1 <= acc.longest
  /\ acc.longest = 0 \/ \E a, c \in 1..i : RecordStretch(f, a, c) /\ acc.longest = c - a - 1

LEMMA RepairContinues ==
  ASSUME NEW n \in Nat, NEW f \in [1..n -> FrameRows], NEW i \in Nat \ {0}, i + 1 <= n,
         NEW acc \in RepairAcc, RepairUpTo(i, f, acc)
  PROVE  RepairUpTo(i + 1, f, RepairStep(acc, f[i + 1]))
<1>1. \A j \in 1..(i + 1) : f[j].nav \in Int /\ (j \in 1..i \/ j = i + 1)
  <2> TAKE j \in 1..(i + 1)
  <2>1. j \in 1..n /\ (j \in 1..i \/ j = i + 1)
    OBVIOUS
  <2> QED
    BY <2>1, NavIsInt
<1>2. PICK d \in Nat, P \in Int, L \in Nat : d = acc.days /\ P = acc.peak /\ L = acc.longest
  BY DEF RepairAcc
<1>3. PICK nav \in Int : nav = f[i + 1].nav
  <2>1. i + 1 \in 1..(i + 1)
    OBVIOUS
  <2> QED
    BY <1>1, <2>1
<1>4. PICK p \in 1..i : p = i - d
  <2>1. d < i
    BY <1>2 DEF RepairUpTo
  <2> QED
    BY <2>1
<1>5. /\ Record(f, p) /\ P = f[p].nav
      /\ \A j \in 1..i : f[j].nav <= P
      /\ \A j \in (p + 1)..i : f[j].nav < P
      /\ \A a, c \in 1..i : RecordStretch(f, a, c) => c - a - 1 <= L
      /\ L = 0 \/ \E a, c \in 1..i : RecordStretch(f, a, c) /\ L = c - a - 1
  BY <1>2, <1>4 DEF RepairUpTo
<1>6. \A j \in (p + 1)..i : ~Record(f, j)
  <2> SUFFICES ASSUME NEW j \in (p + 1)..i, Record(f, j) PROVE FALSE
    OBVIOUS
  <2>1. p \in 1..(j - 1) /\ j \in 1..i
    OBVIOUS
  <2>2. f[p].nav <= f[j].nav
    BY <2>1 DEF Record
  <2>3. f[j].nav \in Int /\ j \in 1..(i + 1)
    BY <1>1, <2>1
  <2> QED
    BY <1>5, <2>2, <2>3
<1>7. CASE nav >= P
  <2> DEFINE N == Max({L, d})
  <2>1. N \in Nat /\ L <= N /\ d <= N /\ (N = L \/ N = d)
    BY MaxPair
  <2>2. RepairStep(acc, f[i + 1]) = [peak |-> nav, days |-> 0, longest |-> N]
    BY <1>2, <1>3, <1>7 DEF RepairStep
  <2> HIDE DEF N
  <2>3. Record(f, i + 1)
    <3>1. ASSUME NEW j \in 1..((i + 1) - 1) PROVE f[j].nav <= nav
      <4>1. j \in 1..i /\ j \in 1..(i + 1)
        OBVIOUS
      <4>2. f[j].nav <= P /\ f[j].nav \in Int
        BY <1>1, <1>5, <4>1
      <4> QED
        BY <1>7, <4>2
    <3> QED
      BY <1>3, <3>1 DEF Record
  <2>4. RecordStretch(f, p, i + 1)
    <3>1. p < i + 1 /\ (i + 1) - 1 = i
      OBVIOUS
    <3> QED
      BY <1>5, <1>6, <2>3, <3>1 DEF RecordStretch
  <2>5. ASSUME NEW a \in 1..(i + 1), NEW c \in 1..(i + 1), RecordStretch(f, a, c)
        PROVE  c - a - 1 <= N
    <3>1. CASE c \in 1..i
      <4>1. a < c
        BY <2>5 DEF RecordStretch
      <4>2. a \in 1..i
        BY <3>1, <4>1
      <4>3. c - a - 1 <= L
        BY <1>5, <2>5, <3>1, <4>2
      <4> QED
        BY <2>1, <3>1, <4>2, <4>3
    <3>2. CASE c = i + 1
      <4>1. a < c /\ Record(f, a) /\ \A k \in (a + 1)..(c - 1) : ~Record(f, k)
        BY <2>5 DEF RecordStretch
      <4>2. ~(a \in (p + 1)..i)
        BY <1>6, <4>1
      <4>3. ~(p \in (a + 1)..(c - 1))
        BY <1>5, <4>1
      <4>4. a = p
        BY <3>2, <4>1, <4>2, <4>3
      <4> QED
        BY <1>4, <2>1, <3>2, <4>4
    <3> QED
      BY <3>1, <3>2
  <2>6. N = 0 \/ \E a, c \in 1..(i + 1) : RecordStretch(f, a, c) /\ N = c - a - 1
    <3>1. CASE N = L
      <4>1. 1..i \subseteq 1..(i + 1)
        OBVIOUS
      <4> QED
        BY <1>5, <3>1, <4>1
    <3>2. CASE N = d
      <4>1. p \in 1..(i + 1) /\ i + 1 \in 1..(i + 1) /\ N = (i + 1) - p - 1
        BY <1>4, <3>2
      <4> QED
        BY <2>4, <4>1
    <3> QED
      BY <2>1, <3>1, <3>2
  <2>7. /\ 0 < i + 1 /\ (i + 1) - 0 = i + 1
        /\ \A j \in 1..(i + 1) : f[j].nav <= nav
        /\ \A j \in ((i + 1) - 0 + 1)..(i + 1) : f[j].nav < nav
    <3>1. \A j \in 1..i : f[j].nav <= P
      BY <1>5
    <3>2. \A j \in 1..(i + 1) : f[j].nav <= nav
      BY <1>1, <1>3, <1>7, <3>1
    <3>3. ((i + 1) - 0 + 1)..(i + 1) = {}
      OBVIOUS
    <3> QED
      BY <3>2, <3>3
  <2> DEFINE new == [peak |-> nav, days |-> 0, longest |-> N]
  <2>8. new.peak = nav /\ new.days = 0 /\ new.longest = N
    OBVIOUS
  <2> HIDE DEF new
  <2>9. RepairUpTo(i + 1, f, new)
    BY <1>3, <2>3, <2>5, <2>6, <2>7, <2>8 DEF RepairUpTo
  <2> QED
    BY <2>2, <2>9 DEF new
<1>8. CASE ~(nav >= P)
  <2>1. PICK new : new = RepairStep(acc, f[i + 1]) /\ new.peak = P /\ new.days = d + 1 /\ new.longest = L
    <3>1. RepairStep(acc, f[i + 1]) = [acc EXCEPT !.days = d + 1]
      BY <1>2, <1>3, <1>8 DEF RepairStep
    <3>2. [acc EXCEPT !.days = d + 1].peak = P /\ [acc EXCEPT !.days = d + 1].days = d + 1
          /\ [acc EXCEPT !.days = d + 1].longest = L
      BY <1>2 DEF RepairAcc
    <3> QED
      BY <3>1, <3>2
  <2>2. ~Record(f, i + 1)
    <3>1. p \in 1..((i + 1) - 1) /\ nav < f[p].nav
      BY <1>5, <1>8
    <3>2. f[p].nav \in Int
      BY <1>5
    <3> QED
      BY <1>3, <3>1, <3>2 DEF Record
  <2>3. /\ d + 1 < i + 1 /\ (i + 1) - (d + 1) = p
        /\ \A j \in 1..(i + 1) : f[j].nav <= P
        /\ \A j \in (p + 1)..(i + 1) : f[j].nav < P
    <3>1. d + 1 < i + 1 /\ (i + 1) - (d + 1) = p
      BY <1>4
    <3>2. \A j \in 1..(i + 1) : f[j].nav <= P
      <4> TAKE j \in 1..(i + 1)
      <4>1. j = i + 1 \/ j \in 1..i
        OBVIOUS
      <4>2. j \in 1..i => f[j].nav <= P
        BY <1>5
      <4>3. nav <= P
        BY <1>8
      <4> QED
        BY <1>3, <4>1, <4>2, <4>3
    <3>3. \A j \in (p + 1)..(i + 1) : f[j].nav < P
      <4> TAKE j \in (p + 1)..(i + 1)
      <4>1. j = i + 1 \/ j \in (p + 1)..i
        OBVIOUS
      <4> QED
        BY <1>3, <1>5, <1>8, <4>1
    <3> QED
      BY <3>1, <3>2, <3>3
  <2>4. ASSUME NEW a \in 1..(i + 1), NEW c \in 1..(i + 1), RecordStretch(f, a, c)
        PROVE  a \in 1..i /\ c \in 1..i
    <3>1. a < c /\ Record(f, c)
      BY <2>4 DEF RecordStretch
    <3>2. c # i + 1
      BY <2>2, <3>1
    <3> QED
      BY <3>1, <3>2
  <2>5. 1..i \subseteq 1..(i + 1)
    OBVIOUS
  <2>6. /\ \A a, c \in 1..(i + 1) : RecordStretch(f, a, c) => c - a - 1 <= L
        /\ L = 0 \/ \E a, c \in 1..(i + 1) : RecordStretch(f, a, c) /\ L = c - a - 1
    BY <1>5, <2>4, <2>5
  <2>7. RepairUpTo(i + 1, f, new)
    BY <1>5, <2>1, <2>3, <2>6 DEF RepairUpTo
  <2> QED
    BY <2>1, <2>7
<1> QED
  BY <1>7, <1>8

LEMMA TailIs ==
  ASSUME NEW s \in Seq(FrameRows), s # <<>>, NEW r, r = Len(s) - 1
  PROVE  /\ r \in Nat /\ Tail(s) \in [1..r -> FrameRows] /\ Head(s) = s[1]
         /\ \A k \in 1..r : Tail(s)[k] = s[k + 1]
<1>1. Tail(s) \in Seq(FrameRows) /\ Len(Tail(s)) = r /\ r \in Nat /\ Head(s) = s[1]
  OBVIOUS
<1>2. \A k \in 1..r : Tail(s)[k] = s[k + 1]
  BY <1>1
<1>3. \A t \in Seq(FrameRows) : t \in [1..Len(t) -> FrameRows]
  OBVIOUS
<1> QED
  BY <1>1, <1>2, <1>3

\* The loop over the whole frame.
FrameRun(R, f) ==
  /\ R \in [1..Len(f) -> RepairAcc]
  /\ R[1] = [peak |-> f[1].nav, days |-> 0, longest |-> 0]
  /\ \A i \in 1..(Len(f) - 1) : R[i + 1] = RepairStep(R[i], f[i + 1])

LEMMA FrameRunExists ==
  ASSUME NEW f, IsFrame(f)
  PROVE  \E R : FrameRun(R, f) /\ RepairDays(f) = R[Len(f)].longest
<1>1. PICK n \in Nat \ {0} : n = Len(f) /\ f \in [1..n -> FrameRows] /\ f \in Seq(FrameRows)
  BY FrameIs DEF IsFrame
<1> DEFINE start == [peak |-> f[1].nav, days |-> 0, longest |-> 0]
<1>2. start \in RepairAcc
  <2>1. 1 \in 1..n
    OBVIOUS
  <2>2. f[1].nav \in Int
    BY <1>1, <2>1, NavIsInt
  <2> QED
    BY <2>2 DEF RepairAcc
<1>3. PICK r \in Nat : r = n - 1
  OBVIOUS
<1>4. Tail(f) \in [1..r -> FrameRows] /\ (\A k \in 1..r : Tail(f)[k] = f[k + 1]) /\ Head(f) = f[1]
  <2>1. f # <<>>
    BY <1>1
  <2> QED
    BY <1>1, <1>3, <2>1, TailIs
<1>5. start.longest = 0
  OBVIOUS
<1> HIDE DEF start
<1>6. PICK F \in [0..r -> RepairAcc] :
        /\ F[0] = start
        /\ F[r] = RepairFrom(start, Tail(f))
        /\ \A k \in 1..r : F[k] = RepairStep(F[k - 1], Tail(f)[k])
  <2>1. PICK part \in [1..r -> FrameRows] : part = Tail(f)
    BY <1>4
  <2>2. \E F \in [0..r -> RepairAcc] :
          /\ F[0] = start
          /\ F[r] = RepairFrom(start, part)
          /\ \A k \in 1..r : F[k] = RepairStep(F[k - 1], part[k])
    BY <1>2, RepairRun, ZenonT(40)
  <2> QED
    BY <2>1, <2>2
<1> DEFINE R == [i \in 1..n |-> F[i - 1]]
<1>7. R \in [1..n -> RepairAcc]
  <2>1. \A i \in 1..n : i - 1 \in 0..r
    BY <1>3
  <2> QED
    BY <2>1
<1>8. R[1] = start
  <2>1. 1 \in 1..n /\ 1 - 1 = 0
    OBVIOUS
  <2> QED
    BY <1>6, <2>1
<1>9. \A i \in 1..(n - 1) : R[i + 1] = RepairStep(R[i], f[i + 1])
  <2> TAKE i \in 1..(n - 1)
  <2>1. i \in 1..n /\ i + 1 \in 1..n /\ (i + 1) - 1 = i /\ i \in 1..r
    BY <1>3
  <2>2. F[i] = RepairStep(F[i - 1], f[i + 1])
    BY <1>4, <1>6, <2>1
  <2> QED
    BY <2>1, <2>2
<1>10. RepairDays(f) = R[n].longest
  <2>1. R[n] = F[r]
    BY <1>3
  <2>2. CASE n = 1
    <3>1. R[n].longest = 0 /\ Len(f) < 2
      BY <1>1, <1>5, <1>8, <2>2
    <3> QED
      BY <3>1 DEF RepairDays
  <2>3. CASE n # 1
    <3>1. ~(Len(f) < 2)
      BY <1>1, <2>3
    <3>2. RepairDays(f) = RepairFrom(start, Tail(f)).longest
      BY <1>4, <3>1 DEF RepairDays, start
    <3> QED
      BY <1>6, <2>1, <3>2
  <2> QED
    BY <2>2, <2>3
<1> HIDE DEF R
<1>11. FrameRun(R, f)
  BY <1>1, <1>7, <1>8, <1>9 DEF FrameRun, start
<1> QED
  BY <1>1, <1>10, <1>11

LEMMA RepairAlong ==
  ASSUME NEW f, IsFrame(f), NEW R, FrameRun(R, f), NEW i \in 1..Len(f)
  PROVE  RepairUpTo(i, f, R[i])
<1>1. PICK n \in Nat \ {0} : n = Len(f) /\ f \in [1..n -> FrameRows]
  BY FrameIs
<1>2. R \in [1..n -> RepairAcc] /\ R[1] = [peak |-> f[1].nav, days |-> 0, longest |-> 0]
      /\ \A k \in 1..(n - 1) : R[k + 1] = RepairStep(R[k], f[k + 1])
  BY <1>1 DEF FrameRun
<1> DEFINE T == {k \in Nat : k + 1 <= n => RepairUpTo(k + 1, f, R[k + 1])}
<1>3. 0 \in T
  <2>1. R[1].days = 0 /\ R[1].peak = f[1].nav /\ R[1].longest = 0
    BY <1>2
  <2>2. f[1].nav \in Int
    BY <1>1, NavIsInt
  <2>3. Record(f, 1)
    BY DEF Record
  <2>4. \A a, c \in 1..1 : ~RecordStretch(f, a, c)
    BY DEF RecordStretch
  <2>5. 0 < 1 /\ 1 - 0 = 1 /\ (1 - 0 + 1)..1 = {} /\ \A j \in 1..1 : j = 1
    OBVIOUS
  <2>6. RepairUpTo(1, f, R[1])
    BY <2>1, <2>2, <2>3, <2>4, <2>5 DEF RepairUpTo
  <2> QED
    BY <2>6
<1>4. ASSUME NEW k \in Nat, k \in T PROVE k + 1 \in T
  <2> SUFFICES ASSUME (k + 1) + 1 <= n PROVE RepairUpTo((k + 1) + 1, f, R[(k + 1) + 1])
    OBVIOUS
  <2>1. k + 1 \in 1..(n - 1) /\ k + 1 \in 1..n /\ k + 1 \in Nat \ {0} /\ n \in Nat
    OBVIOUS
  <2>2. RepairUpTo(k + 1, f, R[k + 1]) /\ R[k + 1] \in RepairAcc
    BY <1>2, <1>4, <2>1
  <2>3. R[(k + 1) + 1] = RepairStep(R[k + 1], f[(k + 1) + 1])
    BY <1>2, <2>1
  <2>4. RepairUpTo((k + 1) + 1, f, RepairStep(R[k + 1], f[(k + 1) + 1]))
    BY <1>1, <2>1, <2>2, RepairContinues
  <2> QED
    BY <2>3, <2>4
<1>5. i - 1 \in Nat /\ (i - 1) + 1 = i /\ i <= n
  BY <1>1
<1>6. i - 1 \in T
  <2> HIDE DEF T
  <2> QED
    BY <1>3, <1>4, <1>5, EveryNatural
<1> QED
  BY <1>5, <1>6

LEMMA RepairIsLongest ==
  ASSUME IsFrame(frame)
  PROVE  RepairDays(frame) = Max({0} \cup {s[2] - s[1] - 1 : s \in RepairedStretches})
<1>1. PICK n \in Nat \ {0} : n = Len(frame) /\ DOMAIN frame = 1..n
  BY FrameIs
<1>2. PICK R : FrameRun(R, frame) /\ RepairDays(frame) = R[n].longest
  BY <1>1, FrameRunExists
<1>3. RepairUpTo(n, frame, R[n])
  <2>1. n \in 1..n
    OBVIOUS
  <2> QED
    BY <1>1, <1>2, <2>1, RepairAlong
<1>4. PICK L \in Nat : L = R[n].longest
  <2>1. R[n] \in RepairAcc
    BY <1>1, <1>2 DEF FrameRun
  <2> QED
    BY <2>1 DEF RepairAcc
<1>5. \A i : i \in Records <=> i \in 1..n /\ Record(frame, i)
  BY <1>1 DEF Records, Record
<1>6. ASSUME NEW s \in Records \X Records, s[1] < s[2]
      PROVE  (\A k \in Records : k <= s[1] \/ k >= s[2])
               <=> \A k \in (s[1] + 1)..(s[2] - 1) : ~Record(frame, k)
  <2>1. s[1] \in 1..n /\ s[2] \in 1..n
    BY <1>5
  <2>2. \A k \in (s[1] + 1)..(s[2] - 1) : k \in 1..n /\ ~(k <= s[1]) /\ ~(k >= s[2])
    BY <2>1
  <2>3. \A k \in 1..n : k <= s[1] \/ k >= s[2] \/ k \in (s[1] + 1)..(s[2] - 1)
    BY <2>1
  <2> QED
    BY <1>5, <2>2, <2>3
<1>7. \A s : s \in RepairedStretches <=> s \in (1..n) \X (1..n) /\ RecordStretch(frame, s[1], s[2])
  <2> TAKE s
  <2>1. s \in Records \X Records
          <=> s \in (1..n) \X (1..n) /\ Record(frame, s[1]) /\ Record(frame, s[2])
    BY <1>5
  <2> QED
    BY <1>6, <2>1 DEF RepairedStretches, RecordStretch
<1> DEFINE S == {0} \cup {s[2] - s[1] - 1 : s \in RepairedStretches}
<1>8. \A x : x \in S <=> x = 0 \/ \E s \in RepairedStretches : x = s[2] - s[1] - 1
  OBVIOUS
<1> HIDE DEF S
<1>9. /\ \A a, c \in 1..n : RecordStretch(frame, a, c) => c - a - 1 <= L
      /\ L = 0 \/ \E a, c \in 1..n : RecordStretch(frame, a, c) /\ L = c - a - 1
  BY <1>3, <1>4 DEF RepairUpTo
<1>10. ASSUME NEW x \in S PROVE x \in Int /\ x <= L
  <2>1. CASE x = 0
    BY <2>1
  <2>2. CASE x # 0
    <3>1. PICK s \in RepairedStretches : x = s[2] - s[1] - 1
      BY <1>8, <2>2
    <3>2. s[1] \in 1..n /\ s[2] \in 1..n /\ RecordStretch(frame, s[1], s[2])
      BY <1>7
    <3>3. s[2] - s[1] - 1 <= L
      BY <1>9, <3>2
    <3> QED
      BY <3>1, <3>2, <3>3
  <2> QED
    BY <2>1, <2>2
<1>11. L \in S
  <2>1. CASE L = 0
    BY <1>8, <2>1
  <2>2. CASE L # 0
    <3>1. PICK a \in 1..n, c \in 1..n : RecordStretch(frame, a, c) /\ L = c - a - 1
      BY <1>9, <2>2
    <3>2. <<a, c>> \in RepairedStretches
      BY <1>7, <3>1
    <3>3. <<a, c>>[2] - <<a, c>>[1] - 1 = L
      BY <3>1
    <3> QED
      BY <1>8, <3>2, <3>3
  <2> QED
    BY <2>1, <2>2
<1>12. Max(S) = L
  <2>1. S \in SUBSET Int /\ \A x \in S : x <= L
    BY <1>10
  <2> QED
    BY <1>11, <2>1, MaxIs
<1> QED
  BY <1>2, <1>4, <1>12 DEF S

-----------------------------------------------------------------------------
(* Repair days: a part of the frame that starts its own count. *)

SamePart(x, y, L) ==
  /\ x.peak = y.peak /\ x.days = y.days
  /\ x.longest = IF L >= y.longest THEN L ELSE y.longest

LEMMA SamePartKept ==
  ASSUME NEW x \in RepairAcc, NEW y \in RepairAcc, NEW L \in Nat, NEW row \in FrameRows,
         SamePart(x, y, L)
  PROVE  SamePart(RepairStep(x, row), RepairStep(y, row), L)
<1>1. PICK p \in Int, d \in Nat, l \in Nat : p = y.peak /\ d = y.days /\ l = y.longest
  BY DEF RepairAcc
<1>2. x.peak = p /\ x.days = d /\ x.longest = IF L >= l THEN L ELSE l
  BY <1>1 DEF SamePart
<1>3. PICK k \in Nat : k = x.longest /\ k = IF L >= l THEN L ELSE l
  BY <1>2
<1>4. CASE row.nav >= p
  <2>1. RepairStep(x, row) = [peak |-> row.nav, days |-> 0, longest |-> Max({k, d})]
        /\ RepairStep(y, row) = [peak |-> row.nav, days |-> 0, longest |-> Max({l, d})]
    BY <1>1, <1>2, <1>3, <1>4 DEF RepairStep
  <2>2. Max({k, d}) = (IF k >= d THEN k ELSE d) /\ Max({l, d}) = (IF l >= d THEN l ELSE d)
    BY MaxPair
  <2>3. Max({k, d}) = IF L >= Max({l, d}) THEN L ELSE Max({l, d})
    BY <1>3, <2>2
  <2> QED
    BY <2>1, <2>3 DEF SamePart
<1>5. CASE ~(row.nav >= p)
  <2>1. RepairStep(x, row) = [x EXCEPT !.days = d + 1] /\ RepairStep(y, row) = [y EXCEPT !.days = d + 1]
    BY <1>1, <1>2, <1>5 DEF RepairStep
  <2>2. /\ [x EXCEPT !.days = d + 1].peak = p /\ [x EXCEPT !.days = d + 1].days = d + 1
        /\ [x EXCEPT !.days = d + 1].longest = k
        /\ [y EXCEPT !.days = d + 1].peak = p /\ [y EXCEPT !.days = d + 1].days = d + 1
        /\ [y EXCEPT !.days = d + 1].longest = l
    BY <1>1, <1>2, <1>3 DEF RepairAcc
  <2> QED
    BY <1>3, <2>1, <2>2 DEF SamePart
<1> QED
  BY <1>4, <1>5

LEMMA PartRun ==
  ASSUME NEW f, IsFrame(f), NEW R, FrameRun(R, f),
         NEW a \in 1..Len(f), NEW c \in 1..Len(f), a <= c,
         NEW part, part = [j \in 1..(c - a) |-> f[a + j]],
         NEW end, end = RepairFrom([peak |-> R[a].peak, days |-> R[a].days, longest |-> 0], part)
  PROVE  end \in RepairAcc /\ R[a] \in RepairAcc /\ R[c] \in RepairAcc
         /\ SamePart(R[c], end, R[a].longest)
<1>1. PICK n \in Nat \ {0} : n = Len(f) /\ f \in [1..n -> FrameRows]
  BY FrameIs
<1>2. R \in [1..n -> RepairAcc] /\ \A i \in 1..(n - 1) : R[i + 1] = RepairStep(R[i], f[i + 1])
  BY <1>1 DEF FrameRun
<1>3. a \in 1..n /\ c \in 1..n /\ R[a] \in RepairAcc /\ R[c] \in RepairAcc
  BY <1>1, <1>2
<1> DEFINE start == [peak |-> R[a].peak, days |-> R[a].days, longest |-> 0]
<1>4. start \in RepairAcc /\ SamePart(R[a], start, R[a].longest) /\ R[a].longest \in Nat
  BY <1>3 DEF SamePart, RepairAcc
<1>5. PICK r \in Nat : r = c - a
  BY <1>3
<1>6. \A j \in 1..r : a + j \in 1..n /\ f[a + j] \in FrameRows
  <2>1. \A j \in 1..r : a + j \in 1..n
    BY <1>3, <1>5
  <2> QED
    BY <1>1, <2>1
<1>7. part \in [1..r -> FrameRows] /\ \A j \in 1..r : part[j] = f[a + j]
  BY <1>5, <1>6
<1>8. end = RepairFrom(start, part)
  OBVIOUS
<1> HIDE DEF start
<1>9. PICK F \in [0..r -> RepairAcc] :
        /\ F[0] = start
        /\ F[r] = RepairFrom(start, part)
        /\ \A k \in 1..r : F[k] = RepairStep(F[k - 1], part[k])
  BY <1>4, <1>7, RepairRun
<1> DEFINE T == {k \in Nat : k <= r => SamePart(R[a + k], F[k], R[a].longest)}
<1>10. 0 \in T
  <2>1. a + 0 = a
    BY <1>3
  <2> QED
    BY <1>4, <1>9, <2>1
<1>11. ASSUME NEW k \in Nat, k \in T PROVE k + 1 \in T
  <2> SUFFICES ASSUME k + 1 <= r PROVE SamePart(R[a + (k + 1)], F[k + 1], R[a].longest)
    OBVIOUS
  <2>1. /\ a + k \in 1..(n - 1) /\ a + k \in 1..n /\ (a + k) + 1 = a + (k + 1)
        /\ k + 1 \in 1..r /\ (k + 1) - 1 = k /\ k \in 0..r
    BY <1>3, <1>5
  <2>2. R[a + (k + 1)] = RepairStep(R[a + k], f[a + (k + 1)])
    BY <1>2, <2>1
  <2>3. F[k + 1] = RepairStep(F[k], f[a + (k + 1)])
    BY <1>7, <1>9, <2>1
  <2>4. SamePart(R[a + k], F[k], R[a].longest) /\ R[a + k] \in RepairAcc /\ F[k] \in RepairAcc
    BY <1>2, <1>9, <1>11, <2>1
  <2>5. f[a + (k + 1)] \in FrameRows
    BY <1>6, <2>1
  <2>6. SamePart(RepairStep(R[a + k], f[a + (k + 1)]), RepairStep(F[k], f[a + (k + 1)]), R[a].longest)
    BY <1>4, <2>4, <2>5, SamePartKept
  <2> QED
    BY <2>2, <2>3, <2>6
<1>12. r \in T
  <2> HIDE DEF T
  <2> QED
    BY <1>10, <1>11, EveryNatural
<1>13. a + r = c /\ r \in 0..r
  BY <1>3, <1>5
<1>14. SamePart(R[c], F[r], R[a].longest)
  BY <1>12, <1>13, SMTT(40)
<1> QED
  BY <1>3, <1>8, <1>9, <1>13, <1>14

\* What the loop over the years keeps after the k-th of them.
YearsUpTo(k, b, R, acc) ==
  /\ acc.peak = R[b[k]].peak /\ acc.days = R[b[k]].days
  /\ \A i \in 1..Len(acc.years) : acc.years[i] <= R[b[k]].longest
  /\ \E i \in 1..Len(acc.years) : acc.years[i] = R[b[k]].longest

LEMMA YearBegins ==
  ASSUME NEW f, IsFrame(f), NEW R, FrameRun(R, f),
         NEW m, m = Cardinality(YearsOf(f)), NEW b, YearBounds(f, m, b),
         NEW group, group = InYear(f, InOrder(YearsOf(f))[1])
  PROVE  YearsUpTo(1, b, R, YearStep([peak |-> 0, days |-> 0, years |-> <<>>], group))
<1>1. PICK n \in Nat \ {0} : n = Len(f) /\ f \in [1..n -> FrameRows]
  BY FrameIs
<1>2. m \in Nat \ {0} /\ 1 \in 1..m /\ 1 - 1 = 0 /\ b[0] = 0
  BY YearsListed DEF YearBounds
<1>3. PICK c \in 1..n : c = b[1]
  BY <1>1, <1>2, InYearIs
<1>4. group \in [1..c -> FrameRows] /\ \A j \in 1..c : group[j] = f[j]
  <2>1. group = [j \in 1..(b[1] - b[0]) |-> f[b[0] + j]] /\ group \in [1..(b[1] - b[0]) -> FrameRows]
    BY <1>2, InYearIs
  <2>2. b[1] - b[0] = c /\ \A j \in 1..c : b[0] + j = j
    BY <1>2, <1>3
  <2> QED
    BY <2>1, <2>2
<1>5. group \in Seq(FrameRows) /\ Len(group) = c /\ group # <<>>
  BY <1>4
<1>6. PICK r \in Nat : r = c - 1
  BY <1>3
<1> DEFINE part == Tail(group)
<1>7. part = [j \in 1..(c - 1) |-> f[1 + j]] /\ Head(group) = f[1]
  <2>1. part \in [1..r -> FrameRows] /\ (\A k \in 1..r : part[k] = group[k + 1]) /\ Head(group) = group[1]
    BY <1>5, <1>6, TailIs
  <2> HIDE DEF part
  <2>2. \A k \in 1..r : group[k + 1] = f[1 + k]
    <3>1. \A k \in 1..r : k + 1 \in 1..c /\ k + 1 = 1 + k
      BY <1>6
    <3> QED
      BY <1>4, <3>1
  <2>3. 1 \in 1..c
    BY <1>3
  <2> QED
    BY <1>4, <1>6, <2>1, <2>2, <2>3
<1>8. R[1] = [peak |-> f[1].nav, days |-> 0, longest |-> 0]
  BY DEF FrameRun
<1>9. R[1].peak = f[1].nav /\ R[1].days = 0 /\ R[1].longest = 0
  BY <1>8
<1> HIDE DEF part
<1>10. PICK end : end = RepairFrom([peak |-> R[1].peak, days |-> R[1].days, longest |-> 0], part)
  OBVIOUS
<1>11. end \in RepairAcc /\ SamePart(R[c], end, R[1].longest)
  <2>1. 1 \in 1..n /\ 1 <= c
    BY <1>3
  <2> QED
    BY <1>1, <1>7, <1>10, <2>1, PartRun
<1>12. R[c].peak = end.peak /\ R[c].days = end.days /\ R[c].longest = end.longest /\ end.longest \in Nat
  BY <1>9, <1>11 DEF SamePart, RepairAcc
<1> DEFINE acc == [peak |-> 0, days |-> 0, years |-> <<>>]
<1>13. acc.days = 0 /\ acc.years = <<>>
  OBVIOUS
<1> HIDE DEF acc
<1>14. YearStep(acc, group) = [peak |-> end.peak, days |-> end.days, years |-> Append(acc.years, end.longest)]
  <2>1. end = RepairFrom([peak |-> Head(group).nav, days |-> 0, longest |-> 0], Tail(group))
    BY <1>7, <1>9, <1>10 DEF part
  <2> QED
    BY <1>13, <2>1 DEF YearStep
<1>15. /\ YearStep(acc, group).peak = end.peak /\ YearStep(acc, group).days = end.days
       /\ YearStep(acc, group).years = <<end.longest>>
  BY <1>13, <1>14
<1>16. Len(<<end.longest>>) = 1 /\ <<end.longest>>[1] = end.longest /\ 1 \in 1..1 /\ \A i \in 1..1 : i = 1
  OBVIOUS
<1>17. YearsUpTo(1, b, R, YearStep(acc, group))
  BY <1>3, <1>12, <1>15, <1>16 DEF YearsUpTo
<1> QED
  BY <1>17 DEF acc

LEMMA YearContinues ==
  ASSUME NEW f, IsFrame(f), NEW R, FrameRun(R, f),
         NEW m, m = Cardinality(YearsOf(f)), NEW b, YearBounds(f, m, b),
         NEW k \in 1..m, NEW l \in 1..m, l = k + 1,
         NEW group, group = InYear(f, InOrder(YearsOf(f))[l]),
         NEW acc \in YearAcc, YearsUpTo(k, b, R, acc)
  PROVE  YearsUpTo(l, b, R, YearStep(acc, group))
<1>1. PICK n \in Nat \ {0} : n = Len(f) /\ f \in [1..n -> FrameRows]
  BY FrameIs
<1>2. l - 1 = k
  BY YearsListed
<1>3. PICK a \in 1..n, c \in 1..n : a = b[k] /\ c = b[l] /\ a <= c
  <2>1. b[k] \in 1..n /\ b[l] \in 1..n
    BY <1>1, InYearIs
  <2>2. b[l - 1] < b[l]
    BY DEF YearBounds
  <2> QED
    BY <1>2, <2>1, <2>2
<1>4. group = [j \in 1..(c - a) |-> f[a + j]]
  <2>1. group = [j \in 1..(b[l] - b[l - 1]) |-> f[b[l - 1] + j]]
    BY InYearIs
  <2>2. b[l - 1] = a /\ b[l] = c
    BY <1>2, <1>3
  <2> QED
    BY <2>1, <2>2
<1>5. acc.peak = R[a].peak /\ acc.days = R[a].days /\ acc.years \in Seq(Nat)
  BY <1>3 DEF YearsUpTo, YearAcc
<1>6. acc.years # <<>>
  <2>1. \E i \in 1..Len(acc.years) : acc.years[i] = R[b[k]].longest
    BY DEF YearsUpTo
  <2>2. Len(<<>>) = 0 /\ 1..0 = {}
    OBVIOUS
  <2> QED
    BY <2>1, <2>2
<1>7. PICK end : end = RepairFrom([peak |-> R[a].peak, days |-> R[a].days, longest |-> 0], group)
  OBVIOUS
<1>8. end \in RepairAcc /\ R[a] \in RepairAcc /\ R[c] \in RepairAcc /\ SamePart(R[c], end, R[a].longest)
  <2>1. a \in 1..Len(f) /\ c \in 1..Len(f) /\ a <= c
    BY <1>1, <1>3
  <2>2. PICK part : part = group
    OBVIOUS
  <2>3. part = [j \in 1..(c - a) |-> f[a + j]]
        /\ end = RepairFrom([peak |-> R[a].peak, days |-> R[a].days, longest |-> 0], part)
    BY <1>4, <1>7, <2>2
  <2> HIDE <2>2
  <2> QED
    BY <2>1, <2>3, PartRun
<1>9. PICK old \in Nat, new \in Nat : old = R[a].longest /\ new = end.longest
  BY <1>8 DEF RepairAcc
<1>10. R[c].peak = end.peak /\ R[c].days = end.days /\ R[c].longest = IF old >= new THEN old ELSE new
  BY <1>8, <1>9 DEF SamePart
<1>11. YearStep(acc, group) = [peak |-> end.peak, days |-> end.days, years |-> Append(acc.years, new)]
  BY <1>5, <1>6, <1>7, <1>9 DEF YearStep
<1>12. PICK years \in Seq(Nat) : years = acc.years
  BY <1>5
<1>13. /\ YearStep(acc, group).peak = end.peak /\ YearStep(acc, group).days = end.days
       /\ YearStep(acc, group).years = Append(years, new)
  BY <1>11, <1>12
<1>14. PICK q \in Nat : q = Len(years) /\ years \in [1..q -> Nat]
  OBVIOUS
<1>15. /\ Len(Append(years, new)) = q + 1 /\ Append(years, new)[q + 1] = new
       /\ \A i \in 1..q : Append(years, new)[i] = years[i]
  BY <1>14
<1>16. (\A i \in 1..q : years[i] <= old) /\ (\E i \in 1..q : years[i] = old)
  BY <1>3, <1>9, <1>12, <1>14 DEF YearsUpTo
<1>17. \A i \in 1..(q + 1) : Append(years, new)[i] <= R[c].longest
  <2> TAKE i \in 1..(q + 1)
  <2>1. i = q + 1 \/ i \in 1..q
    OBVIOUS
  <2>2. i \in 1..q => years[i] \in Nat /\ years[i] <= old
    BY <1>14, <1>16
  <2> QED
    BY <1>10, <1>15, <2>1, <2>2
<1>18. \E i \in 1..(q + 1) : Append(years, new)[i] = R[c].longest
  <2>1. CASE old >= new
    <3>1. PICK i \in 1..q : years[i] = old
      BY <1>16
    <3>2. i \in 1..(q + 1)
      OBVIOUS
    <3> QED
      BY <1>10, <1>15, <2>1, <3>1, <3>2
  <2>2. CASE ~(old >= new)
    <3>1. q + 1 \in 1..(q + 1)
      OBVIOUS
    <3> QED
      BY <1>10, <1>15, <2>2, <3>1
  <2> QED
    BY <2>1, <2>2
<1> QED
  BY <1>3, <1>10, <1>13, <1>15, <1>17, <1>18 DEF YearsUpTo

LEMMA YearlyIsLongest ==
  ASSUME NEW f, IsFrame(f)
  PROVE  RepairDays(f) = Max(ToSet(YearlyRepairDays(f)))
<1>1. PICK R : FrameRun(R, f) /\ RepairDays(f) = R[Len(f)].longest
  BY FrameRunExists
<1> DEFINE m == Cardinality(YearsOf(f))
<1>2. m \in Nat \ {0} /\ m \in Nat
  BY YearsListed
<1>3. PICK b : YearBounds(f, m, b)
  BY YearsDivide
<1> DEFINE Groups == [k \in 1..m |-> InYear(f, InOrder(YearsOf(f))[k])]
<1>4. Groups \in [1..m -> YearRows]
  <2> SUFFICES ASSUME NEW k \in 1..m PROVE InYear(f, InOrder(YearsOf(f))[k]) \in YearRows
    OBVIOUS
  <2>1. PICK e \in Nat \ {0} : InYear(f, InOrder(YearsOf(f))[k]) \in [1..e -> FrameRows]
    <3>1. /\ b[k] - b[k - 1] \in Nat \ {0}
          /\ InYear(f, InOrder(YearsOf(f))[k]) \in [1..(b[k] - b[k - 1]) -> FrameRows]
      BY <1>3, InYearIs
    <3> QED
      BY <3>1
  <2>2. \A g \in [1..e -> FrameRows] : g \in Seq(FrameRows) /\ Len(g) = e
    OBVIOUS
  <2>3. Len(<<>>) = 0
    OBVIOUS
  <2> QED
    BY <2>1, <2>2, <2>3 DEF YearRows
<1> DEFINE start == [peak |-> 0, days |-> 0, years |-> <<>>]
<1>5. start \in YearAcc
  BY DEF YearAcc
<1>6. YearlyRepairDays(f) = YearFrom(start, Groups).years
  BY DEF YearlyRepairDays, YearFrom
<1>7. \A k \in 1..m : Groups[k] = InYear(f, InOrder(YearsOf(f))[k])
  OBVIOUS
<1>8. YearsUpTo(1, b, R, YearStep(start, Groups[1]))
  <2>1. Groups[1] = InYear(f, InOrder(YearsOf(f))[1])
    BY <1>2, <1>7
  <2> HIDE DEF Groups
  <2> QED
    BY <1>1, <1>3, <2>1, YearBegins
<1> HIDE DEF start, Groups, m
<1>9. PICK F \in [0..m -> YearAcc] :
        /\ F[0] = start
        /\ F[m] = YearFrom(start, Groups)
        /\ \A k \in 1..m : F[k] = YearStep(F[k - 1], Groups[k])
  BY <1>2, <1>4, <1>5, YearRun, ZenonT(40)
<1> DEFINE T == {k \in Nat : k + 1 <= m => YearsUpTo(k + 1, b, R, F[k + 1])}
<1>10. 0 \in T
  <2>1. 1 \in 1..m /\ 1 - 1 = 0 /\ 0 + 1 = 1
    BY <1>2
  <2>2. F[1] = YearStep(start, Groups[1])
    BY <1>9, <2>1
  <2> QED
    BY <1>8, <2>1, <2>2
<1>11. ASSUME NEW k \in Nat, k \in T PROVE k + 1 \in T
  <2> SUFFICES ASSUME (k + 1) + 1 <= m PROVE YearsUpTo((k + 1) + 1, b, R, F[(k + 1) + 1])
    OBVIOUS
  <2>1. PICK i \in 1..m, l \in 1..m : i = k + 1 /\ l = (k + 1) + 1 /\ l = i + 1 /\ l - 1 = i
    BY <1>2
  <2>2. YearsUpTo(i, b, R, F[i]) /\ F[i] \in YearAcc
    BY <1>2, <1>9, <1>11, <2>1
  <2>3. F[l] = YearStep(F[i], Groups[l]) /\ Groups[l] = InYear(f, InOrder(YearsOf(f))[l])
    BY <1>7, <1>9, <2>1
  <2>4. YearsUpTo(l, b, R, YearStep(F[i], Groups[l]))
    BY <1>1, <1>3, <2>1, <2>2, <2>3, YearContinues DEF m
  <2> QED
    BY <2>1, <2>3, <2>4
<1>12. YearsUpTo(m, b, R, F[m]) /\ F[m] \in YearAcc
  <2>1. m - 1 \in Nat /\ (m - 1) + 1 = m
    BY <1>2
  <2>2. m - 1 \in T
    <3> HIDE DEF T
    <3> QED
      BY <1>10, <1>11, <2>1, EveryNatural
  <2> QED
    BY <1>2, <1>9, <2>1, <2>2
<1>13. PICK years \in Seq(Nat), q \in Nat :
         years = F[m].years /\ q = Len(years) /\ years \in [1..q -> Nat] /\ DOMAIN years = 1..q
  <2>1. F[m].years \in Seq(Nat)
    BY <1>12 DEF YearAcc
  <2>2. \A s \in Seq(Nat) : Len(s) \in Nat /\ s \in [1..Len(s) -> Nat] /\ DOMAIN s = 1..Len(s)
    OBVIOUS
  <2> QED
    BY <2>1, <2>2
<1>14. PICK L : L = R[Len(f)].longest /\ b[m] = Len(f)
  BY <1>3 DEF YearBounds
<1>15. (\A i \in 1..q : years[i] <= L) /\ (\E i \in 1..q : years[i] = L)
  BY <1>12, <1>13, <1>14 DEF YearsUpTo
<1>16. Max(ToSet(years)) = L
  <2>1. \A x : x \in ToSet(years) <=> \E i \in 1..q : years[i] = x
    BY <1>13 DEF ToSet
  <2>2. ToSet(years) \in SUBSET Int
    BY <1>13, <2>1
  <2>3. L \in ToSet(years) /\ \A x \in ToSet(years) : x <= L
    BY <1>15, <2>1
  <2> QED
    BY <2>2, <2>3, MaxIs
<1> QED
  BY <1>1, <1>6, <1>9, <1>13, <1>14, <1>16

LEMMA RepairsAgree ==
  ASSUME IsFrame(frame)
  PROVE  RepairAgrees
BY RepairIsLongest, YearlyIsLongest, Zenon DEF RepairAgrees

-----------------------------------------------------------------------------
(* The last rows of the months. *)

LEMMA EndsListed ==
  ASSUME NEW f, IsFrame(f), NEW n, n = Len(f), NEW p, p = Cardinality(EndsAt(f)),
         NEW at, at = InOrder(EndsAt(f))
  PROVE  /\ p \in Nat \ {0} /\ at \in [1..p -> 1..n] /\ at[p] = n
         /\ \A i, j \in 1..p : i < j => at[i] < at[j]
         /\ \A e \in EndsAt(f) : \E i \in 1..p : at[i] = e
         /\ MonthEnds(f) \in [1..p -> FrameRows] /\ DOMAIN MonthEnds(f) = 1..p
         /\ \A k \in 1..p : MonthEnds(f)[k] = f[at[k]]
<1>1. n \in Nat \ {0} /\ f \in [1..n -> FrameRows] /\ DOMAIN f = 1..n
  BY FrameIs
<1>2. EndsAt(f) \in SUBSET (1..n) /\ n \in EndsAt(f)
  BY <1>1 DEF EndsAt
<1>3. /\ p \in Nat /\ at \in [1..p -> EndsAt(f)]
      /\ \A i, j \in 1..p : i < j => at[i] < at[j]
      /\ \A e \in EndsAt(f) : \E i \in 1..p : at[i] = e
      /\ RowsAt(f, EndsAt(f)) \in [1..p -> FrameRows]
      /\ \A k \in 1..p : RowsAt(f, EndsAt(f))[k] = f[at[k]]
  <2>1. PICK E \in SUBSET (1..n) : E = EndsAt(f)
    BY <1>2
  <2>2. n \in Nat
    BY <1>1
  <2>3. /\ Cardinality(E) \in Nat
        /\ InOrder(E) \in [1..Cardinality(E) -> E]
        /\ \A i, j \in 1..Cardinality(E) : i < j => InOrder(E)[i] < InOrder(E)[j]
        /\ \A e \in E : \E i \in 1..Cardinality(E) : InOrder(E)[i] = e
        /\ RowsAt(f, E) \in [1..Cardinality(E) -> FrameRows]
        /\ \A k \in 1..Cardinality(E) : RowsAt(f, E)[k] = f[InOrder(E)[k]]
    BY <1>1, <2>2, RowsAtListed
  <2>4. p = Cardinality(E) /\ at = InOrder(E)
    BY <2>1
  <2> QED
    BY <2>1, <2>3, <2>4, SMTT(40)
<1>4. at \in [1..p -> 1..n]
  BY <1>2, <1>3
<1>5. PICK i \in 1..p : at[i] = n
  BY <1>2, <1>3
<1>6. p \in 1..p /\ p \in Nat \ {0}
  BY <1>3
<1>7. at[p] = n
  <2>1. at[p] \in 1..n
    BY <1>4, <1>6
  <2>2. i < p => at[i] < at[p]
    BY <1>3, <1>6
  <2>3. i < p \/ i = p
    BY <1>6
  <2> QED
    BY <1>1, <1>5, <2>1, <2>2, <2>3
<1>8. MonthEnds(f) = RowsAt(f, EndsAt(f))
  BY DEF MonthEnds
<1> QED
  BY <1>3, <1>4, <1>6, <1>7, <1>8

\* A frame whose net values are all positive.
AllPositive(f) == \A i \in 1..Len(f) : f[i].nav >= 1

LEMMA NavPositive ==
  ASSUME NEW f, IsFrame(f), AllPositive(f), NEW i \in 1..Len(f)
  PROVE  f[i].nav \in Nat \ {0}
<1>1. f[i].nav \in Int
  BY FrameIs, NavIsInt
<1>2. f[i].nav >= 1
  BY DEF AllPositive
<1> QED
  BY <1>1, <1>2

\* The closes of the months as a walk from the net value 1.
Closes(ends, p) == [k \in 0..p |-> IF k = 0 THEN One ELSE ends[k].nav]

LEMMA MonthGrowthIs ==
  ASSUME NEW f, IsFrame(f), AllPositive(f),
         NEW p, p = Cardinality(EndsAt(f)), NEW c, c = Closes(MonthEnds(f), p)
  PROVE  /\ p \in Nat \ {0} /\ c \in [0..p -> Nat \ {0}] /\ c[0] = One
         /\ \A k \in 1..p : c[k] = MonthEnds(f)[k].nav
         /\ MonthGrowth(f) \in [1..p -> Ratios] /\ DOMAIN MonthGrowth(f) = 1..p
         /\ Len(MonthGrowth(f)) = p
         /\ \A k \in 1..p : MonthGrowth(f)[k] = <<c[k], c[k - 1]>>
<1>1. PICK ends : ends = MonthEnds(f)
  OBVIOUS
<1>2. p \in Nat \ {0} /\ ends \in [1..p -> FrameRows] /\ DOMAIN ends = 1..p
  BY <1>1, EndsListed
<1>3. \A k \in 1..p : ends[k].nav \in Nat \ {0}
  <2>1. PICK at : at = InOrder(EndsAt(f))
    OBVIOUS
  <2>2. at \in [1..p -> 1..Len(f)] /\ \A k \in 1..p : ends[k] = f[at[k]]
    BY <1>1, <2>1, EndsListed
  <2> TAKE k \in 1..p
  <2>3. at[k] \in 1..Len(f) /\ ends[k] = f[at[k]]
    BY <2>2
  <2> QED
    BY <2>3, NavPositive
<1>4. c = [k \in 0..p |-> IF k = 0 THEN One ELSE ends[k].nav] /\ One \in Nat \ {0}
  BY <1>1, FrameAssumption DEF Closes
<1>5. /\ c[0] = One
      /\ \A k \in 1..p : c[k] = ends[k].nav
      /\ \A k \in 0..p : c[k] \in Nat \ {0}
  <2>1. \A k \in 0..p : k = 0 \/ k \in 1..p
    BY <1>2
  <2>2. 0 \in 0..p /\ \A k \in 1..p : k \in 0..p /\ k # 0
    BY <1>2
  <2> QED
    BY <1>3, <1>4, <2>1, <2>2
<1>6. c \in [0..p -> Nat \ {0}]
  BY <1>4, <1>5
<1>7. MonthGrowth(f) = [k \in 1..p |-> <<ends[k].nav, IF k = 1 THEN One ELSE ends[k - 1].nav>>]
  BY <1>1, <1>2 DEF MonthGrowth
<1>8. ASSUME NEW k \in 1..p
      PROVE  /\ MonthGrowth(f)[k] = <<c[k], c[k - 1]>>
             /\ MonthGrowth(f)[k] \in Ratios
  <2>1. k - 1 \in 0..p /\ (k = 1 => k - 1 = 0) /\ (k # 1 => k - 1 \in 1..p) /\ k \in 0..p
    BY <1>2
  <2>2. (IF k = 1 THEN One ELSE ends[k - 1].nav) = c[k - 1]
    BY <1>5, <2>1
  <2>3. MonthGrowth(f)[k] = <<ends[k].nav, IF k = 1 THEN One ELSE ends[k - 1].nav>>
    BY <1>7
  <2>4. MonthGrowth(f)[k] = <<c[k], c[k - 1]>>
    BY <1>5, <2>2, <2>3
  <2>5. c[k] \in Nat \ {0} /\ c[k - 1] \in Nat \ {0}
    BY <1>5, <2>1
  <2> QED
    BY <2>4, <2>5 DEF Ratios
<1>9. MonthGrowth(f) \in [1..p -> Ratios]
  BY <1>7, <1>8
<1>10. DOMAIN MonthGrowth(f) = 1..p /\ Len(MonthGrowth(f)) = p
  BY <1>2, <1>9
<1>11. \A k \in 1..p : c[k] = MonthEnds(f)[k].nav
  BY <1>1, <1>5
<1> QED
  BY <1>2, <1>5, <1>6, <1>8, <1>9, <1>10, <1>11

LEMMA StreaksAgree ==
  ASSUME IsFrame(frame), AllPositive(frame)
  PROVE  StreaksExact
<1>1. PICK p \in Nat : MonthGrowth(frame) \in [1..p -> Ratios] /\ Len(MonthGrowth(frame)) = p
  BY MonthGrowthIs
<1>2. PICK growth : growth = MonthGrowth(frame)
  OBVIOUS
<1>3. /\ Streaks(growth).maxGain = Max(RunLengths(growth, Gains))
      /\ Streaks(growth).maxLoss = Max(RunLengths(growth, Losses))
      /\ Streaks(growth).maxGain + Streaks(growth).maxLoss <= Len(growth)
  BY <1>1, <1>2, StreaksAreLongest
<1> QED
  BY <1>2, <1>3 DEF StreaksExact

LEMMA HighsAgree ==
  ASSUME IsFrame(frame)
  PROVE  HighsExact
<1>1. PICK p \in Nat : MonthEnds(frame) \in [1..p -> FrameRows] /\ DOMAIN MonthEnds(frame) = 1..p
  BY EndsListed
<1>2. PICK ends : ends = MonthEnds(frame)
  OBVIOUS
<1>3. ToSet(NewHighs(frame)) =
        {k - 1 : k \in {n \in 1..p : \A j \in 1..(n - 1) : ends[j].nav < ends[n].nav}}
  <2>1. NewHighs(frame) = HighFrom([highest |-> 0, next |-> 0, positions |-> <<>>], ends).positions
    BY <1>2 DEF NewHighs, HighFrom
  <2> QED
    BY <1>1, <1>2, <2>1, HighsAreRecords
<1> QED
  BY <1>1, <1>2, <1>3 DEF HighsExact

-----------------------------------------------------------------------------
(* The growth of the years. *)

LEMMA YearGrowthIs ==
  ASSUME NEW f, IsFrame(f), NEW m, m = Cardinality(YearsOf(f)), NEW b, YearBounds(f, m, b), NEW k \in 1..m
  PROVE  /\ b[k] \in 1..Len(f)
         /\ k = 1 => YearGrowth(f, InOrder(YearsOf(f))[k]) = <<f[b[1]].nav, f[1].nav>>
         /\ k # 1 => /\ b[k - 1] \in 1..Len(f)
                     /\ YearGrowth(f, InOrder(YearsOf(f))[k]) = <<f[b[k]].nav, f[b[k - 1]].nav>>
<1>1. PICK n \in Nat \ {0} : n = Len(f) /\ f \in [1..n -> FrameRows] /\ DOMAIN f = 1..n
  BY FrameIs
<1>2. m \in Nat \ {0} /\ b[0] = 0
  BY YearsListed DEF YearBounds
<1>3. PICK y : y = InOrder(YearsOf(f))[k]
  OBVIOUS
<1>4. PICK g : g = InYear(f, y)
  OBVIOUS
<1>5. PICK a \in Nat, c \in 1..n : a = b[k - 1] /\ c = b[k] /\ c - a \in Nat \ {0}
  BY <1>1, InYearIs
<1>6. g = [j \in 1..(c - a) |-> f[a + j]] /\ g \in [1..(c - a) -> FrameRows]
  <2>1. /\ g = [j \in 1..(b[k] - b[k - 1]) |-> f[b[k - 1] + j]]
        /\ g \in [1..(b[k] - b[k - 1]) -> FrameRows]
    BY <1>3, <1>4, InYearIs
  <2> QED
    BY <1>5, <2>1
<1>7. Last(g) = f[c] /\ Head(g) = f[a + 1]
  <2>1. Len(g) = c - a /\ c - a \in 1..(c - a) /\ 1 \in 1..(c - a) /\ a + (c - a) = c
    BY <1>5, <1>6
  <2>2. Last(g) = g[c - a] /\ Head(g) = g[1]
    BY <1>5, <1>6, <2>1 DEF Last
  <2> QED
    BY <1>6, <2>1, <2>2
<1> DEFINE Before == {i \in 1..n : YearOf[f[i].month] < y}
<1>8. Before = 1..a
  <2>1. {i \in 1..n : YearOf[f[i].month] = y} = (a + 1)..c
    BY <1>1, <1>3, <1>5 DEF YearBounds
  <2>2. a + 1 \in (a + 1)..c /\ a + 1 \in 1..n
    BY <1>5
  <2>3. YearOf[f[a + 1].month] = y
    BY <2>1, <2>2
  <2>4. /\ \A i, j \in 1..n : i <= j => YearOf[f[i].month] <= YearOf[f[j].month]
        /\ \A i \in 1..n : YearOf[f[i].month] \in Nat
    BY <1>1, FrameIs
  <2>5. ASSUME NEW i \in 1..n PROVE YearOf[f[i].month] < y <=> i <= a
    <3>1. CASE i <= a
      <4>1. YearOf[f[i].month] <= y
        BY <2>2, <2>3, <2>4, <3>1
      <4>2. YearOf[f[i].month] # y
        BY <2>1, <3>1
      <4> QED
        BY <2>2, <2>3, <2>4, <3>1, <4>1, <4>2
    <3>2. CASE ~(i <= a)
      <4>1. a + 1 <= i
        BY <3>2
      <4>2. y <= YearOf[f[i].month]
        BY <2>2, <2>3, <2>4, <4>1
      <4> QED
        BY <2>2, <2>3, <2>4, <3>2, <4>2
    <3> QED
      BY <3>1, <3>2
  <2>6. \A i : i \in 1..a <=> i \in 1..n /\ i <= a
    BY <1>5
  <2> QED
    BY <2>5, <2>6
<1>9. YearGrowth(f, y) = <<f[c].nav, (IF Before = {} THEN f[a + 1] ELSE f[Max(Before)]).nav>>
  BY <1>1, <1>4, <1>7 DEF YearGrowth
<1> HIDE DEF Before
<1>10. k = 1 => a = 0
  BY <1>2, <1>5
<1>11. k # 1 => a \in 1..n
  <2>1. k # 1 => k - 1 \in 1..m
    BY <1>2
  <2> QED
    BY <1>1, <1>5, <2>1, InYearIs
<1>12. CASE k = 1
  <2>1. Before = {} /\ a + 1 = 1
    BY <1>8, <1>10, <1>12
  <2> QED
    BY <1>1, <1>3, <1>5, <1>9, <1>12, <2>1
<1>13. CASE k # 1
  <2>1. Before # {} /\ Max(Before) = a
    <3>1. a \in Nat \ {0}
      BY <1>11, <1>13
    <3> QED
      BY <1>8, <3>1, FirstPositions
  <2> QED
    BY <1>1, <1>3, <1>5, <1>9, <1>11, <1>13, <2>1
<1> QED
  BY <1>12, <1>13

LEMMA YearsCompound ==
  ASSUME NEW f, IsFrame(f), AllPositive(f),
         NEW m, m = Cardinality(YearsOf(f)), NEW b, YearBounds(f, m, b)
  PROVE  Equal(Product([k \in 1..m |-> YearGrowth(f, InOrder(YearsOf(f))[k])]),
               <<f[Len(f)].nav, f[1].nav>>)
<1>1. PICK n \in Nat \ {0} : n = Len(f) /\ f \in [1..n -> FrameRows]
  BY FrameIs
<1>2. m \in Nat \ {0} /\ m \in Nat /\ b[m] = n
  BY <1>1, YearsListed DEF YearBounds
<1> DEFINE c == [k \in 0..m |-> IF k = 0 THEN f[1].nav ELSE f[b[k]].nav]
<1> DEFINE g == [k \in 1..m |-> YearGrowth(f, InOrder(YearsOf(f))[k])]
<1>3. c[0] = f[1].nav /\ (\A k \in 1..m : c[k] = f[b[k]].nav) /\ f[1].nav \in Nat \ {0}
  <2>1. 1 \in 1..Len(f)
    BY <1>1
  <2> QED
    BY <1>2, <2>1, NavPositive
<1>4. \A k \in 1..m : b[k] \in 1..n /\ f[b[k]].nav \in Nat \ {0}
  <2>1. \A k \in 1..m : b[k] \in 1..Len(f)
    BY YearGrowthIs
  <2> QED
    BY <1>1, <2>1, NavPositive
<1>5. c \in [0..m -> Nat \ {0}]
  BY <1>2, <1>3, <1>4
<1>6. ASSUME NEW k \in 1..m PROVE g[k] = <<c[k], c[k - 1]>>
  <2>1. CASE k = 1
    <3>1. c[k - 1] = f[1].nav /\ c[k] = f[b[1]].nav
      BY <1>3, <2>1
    <3>2. YearGrowth(f, InOrder(YearsOf(f))[k]) = <<f[b[1]].nav, f[1].nav>>
      BY <2>1, YearGrowthIs
    <3> QED
      BY <3>1, <3>2
  <2>2. CASE k # 1
    <3>1. k - 1 \in 1..m
      BY <1>2, <2>2
    <3>2. c[k - 1] = f[b[k - 1]].nav /\ c[k] = f[b[k]].nav
      BY <1>3, <3>1
    <3>3. YearGrowth(f, InOrder(YearsOf(f))[k]) = <<f[b[k]].nav, f[b[k - 1]].nav>>
      BY <2>2, YearGrowthIs
    <3> QED
      BY <3>2, <3>3
  <2> QED
    BY <2>1, <2>2
<1>7. \A k \in 1..m : c[k] \in Nat \ {0} /\ c[k - 1] \in Nat \ {0}
  <2>1. \A k \in 1..m : k \in 0..m /\ k - 1 \in 0..m
    BY <1>2
  <2> HIDE DEF c
  <2> QED
    BY <1>5, <2>1
<1>8. g \in [1..m -> Ratios]
  <2>1. \A k \in 1..m : g[k] \in Ratios
    <3> HIDE DEF c, g
    <3> TAKE k \in 1..m
    <3>1. PICK x \in Nat \ {0}, y \in Nat \ {0} : x = c[k] /\ y = c[k - 1]
      BY <1>7
    <3>2. g[k] = <<x, y>>
      BY <1>6, <3>1
    <3> QED
      BY <3>2 DEF Ratios
  <2>2. g = [k \in 1..m |-> g[k]]
    OBVIOUS
  <2> HIDE DEF g
  <2> QED
    BY <2>1, <2>2
<1> HIDE DEF c, g
<1>9. Equal(Product(g), <<c[m], c[0]>>)
  BY <1>2, <1>5, <1>6, <1>8, Telescope
<1>10. c[m] = f[n].nav
  <2>1. m \in 1..m
    BY <1>2
  <2> QED
    BY <1>2, <1>3, <2>1
<1> QED
  BY <1>1, <1>3, <1>9, <1>10 DEF g

\* All months but the first compound from the close of the first.
LEMMA MonthsCompound ==
  ASSUME NEW f, IsFrame(f), AllPositive(f)
  PROVE  Equal(Product(Tail(MonthGrowth(f))), <<f[Len(f)].nav, Head(MonthEnds(f)).nav>>)
<1>1. PICK p, c, ends : p = Cardinality(EndsAt(f)) /\ c = Closes(MonthEnds(f), p) /\ ends = MonthEnds(f)
  OBVIOUS
<1>2. PICK growth : growth = MonthGrowth(f)
  OBVIOUS
<1>3. /\ p \in Nat \ {0} /\ c \in [0..p -> Nat \ {0}]
      /\ \A k \in 1..p : c[k] = ends[k].nav
      /\ growth \in [1..p -> Ratios]
      /\ \A k \in 1..p : growth[k] = <<c[k], c[k - 1]>>
  <2>1. /\ p \in Nat \ {0} /\ c \in [0..p -> Nat \ {0}]
        /\ \A k \in 1..p : c[k] = MonthEnds(f)[k].nav
        /\ MonthGrowth(f) \in [1..p -> Ratios]
        /\ \A k \in 1..p : MonthGrowth(f)[k] = <<c[k], c[k - 1]>>
    BY <1>1, MonthGrowthIs
  <2> QED
    BY <1>1, <1>2, <2>1
<1>4. PICK q \in Nat : q = p - 1
  BY <1>3
<1>5. /\ ends \in [1..p -> FrameRows] /\ ends[p] = f[Len(f)]
  <2>1. PICK at, n : at = InOrder(EndsAt(f)) /\ n = Len(f)
    OBVIOUS
  <2>2. at[p] = n /\ (\A k \in 1..p : ends[k] = f[at[k]]) /\ ends \in [1..p -> FrameRows]
    BY <1>1, <2>1, EndsListed
  <2>3. p \in 1..p
    BY <1>3
  <2> QED
    BY <2>1, <2>2, <2>3
<1>6. Head(ends) = ends[1]
  <2>1. ends \in Seq(FrameRows) /\ Len(ends) = p
    BY <1>3, <1>5
  <2>2. ends # <<>>
    BY <1>3, <2>1
  <2> QED
    BY <2>1, <2>2
<1>7. Tail(growth) \in [1..q -> Ratios] /\ \A k \in 1..q : Tail(growth)[k] = growth[k + 1]
  <2>1. growth \in Seq(Ratios) /\ Len(growth) = p
    BY <1>3
  <2>2. growth # <<>>
    BY <1>3, <2>1
  <2>3. Tail(growth) \in Seq(Ratios) /\ Len(Tail(growth)) = q
    BY <1>4, <2>1, <2>2
  <2>4. \A k \in 1..q : Tail(growth)[k] = growth[k + 1]
    BY <1>4, <2>1, <2>2, <2>3
  <2>5. \A t \in Seq(Ratios) : t \in [1..Len(t) -> Ratios]
    OBVIOUS
  <2> QED
    BY <2>3, <2>4, <2>5
<1> DEFINE d == [k \in 0..q |-> c[k + 1]]
<1>8. d \in [0..q -> Nat \ {0}] /\ d[0] = c[1] /\ d[q] = c[p]
  <2>1. (\A k \in 0..q : k + 1 \in 0..p) /\ 0 \in 0..q /\ q \in 0..q /\ q + 1 = p /\ 0 + 1 = 1
    BY <1>3, <1>4
  <2>2. d \in [0..q -> Nat \ {0}]
    BY <1>3, <2>1
  <2> QED
    BY <2>1, <2>2
<1>9. \A k \in 1..q : Tail(growth)[k] = <<d[k], d[k - 1]>>
  <2> TAKE k \in 1..q
  <2>1. k + 1 \in 1..p /\ (k + 1) - 1 = k /\ k \in 0..q /\ k - 1 \in 0..q /\ (k - 1) + 1 = k
    BY <1>3, <1>4
  <2>2. growth[k + 1] = <<c[k + 1], c[k]>>
    BY <1>3, <2>1
  <2>3. d[k] = c[k + 1] /\ d[k - 1] = c[k]
    BY <2>1
  <2> QED
    BY <1>7, <2>2, <2>3
<1> HIDE DEF d
<1>10. PICK rest \in [1..q -> Ratios] : rest = Tail(growth)
  BY <1>7
<1>11. Equal(Product(rest), <<d[q], d[0]>>)
  BY <1>8, <1>9, <1>10, Telescope
<1>12. d[q] = f[Len(f)].nav /\ d[0] = Head(ends).nav
  <2>1. p \in 1..p /\ 1 \in 1..p
    BY <1>3
  <2> QED
    BY <1>3, <1>5, <1>6, <1>8, <2>1
<1> QED
  BY <1>1, <1>2, <1>10, <1>11, <1>12

\* The last row of a year is the last of its month.
LEMMA YearEndsMonth ==
  ASSUME NEW f, IsFrame(f), NEW m, m = Cardinality(YearsOf(f)), NEW b, YearBounds(f, m, b), NEW k \in 1..m
  PROVE  b[k] \in EndsAt(f)
<1>1. PICK n \in Nat \ {0} : n = Len(f) /\ f \in [1..n -> FrameRows] /\ DOMAIN f = 1..n
  BY FrameIs
<1>2. PICK a \in Nat, c \in 1..n : a = b[k - 1] /\ c = b[k] /\ a < c
  <2>1. b[k - 1] \in Nat /\ b[k] \in 1..n
    BY <1>1, InYearIs
  <2>2. b[k - 1] < b[k]
    BY DEF YearBounds
  <2> QED
    BY <2>1, <2>2
<1>3. {i \in 1..n : YearOf[f[i].month] = InOrder(YearsOf(f))[k]} = (a + 1)..c
  BY <1>1, <1>2 DEF YearBounds
<1>4. CASE c = n
  BY <1>1, <1>2, <1>4 DEF EndsAt
<1>5. CASE c # n
  <2>1. c + 1 \in 1..n /\ c + 1 \notin (a + 1)..c /\ c \in (a + 1)..c
    BY <1>2, <1>5
  <2>2. f[c + 1].month # f[c].month
    BY <1>3, <2>1
  <2> QED
    BY <1>1, <1>2, <2>2 DEF EndsAt
<1> QED
  BY <1>4, <1>5

\* The months of a year compound from the close before it, those of the first
\* year from the net value 1.
LEMMA MonthsOfYearCompound ==
  ASSUME NEW f, IsFrame(f), AllPositive(f),
         NEW m, m = Cardinality(YearsOf(f)), NEW b, YearBounds(f, m, b), NEW k \in 1..m,
         NEW base, base = IF k = 1 THEN One ELSE f[b[k - 1]].nav,
         NEW own, own = InOrder({x \in DOMAIN MonthEnds(f) :
                                   YearOf[MonthEnds(f)[x].month] = InOrder(YearsOf(f))[k]})
  PROVE  /\ Equal(Product([x \in DOMAIN own |-> MonthGrowth(f)[own[x]]]), <<f[b[k]].nav, base>>)
         /\ Product([x \in DOMAIN own |-> MonthGrowth(f)[own[x]]]) \in Ratios
<1>1. PICK n \in Nat \ {0} : n = Len(f) /\ f \in [1..n -> FrameRows] /\ DOMAIN f = 1..n
  BY FrameIs
<1>2. (k # 1 => k - 1 \in 1..m) /\ b[0] = 0 /\ (k = 1 => k - 1 = 0)
  BY YearsListed DEF YearBounds
<1>3. PICK y : y = InOrder(YearsOf(f))[k]
  OBVIOUS
<1>4. PICK a \in 0..n, e \in 1..n :
        a = b[k - 1] /\ e = b[k] /\ a < e /\ (k = 1 => a = 0) /\ (k # 1 => a \in 1..n)
  <2>1. b[k] \in 1..n /\ (k # 1 => b[k - 1] \in 1..n)
    BY <1>1, <1>2, InYearIs
  <2>2. b[k - 1] < b[k]
    BY DEF YearBounds
  <2>3. k = 1 => b[k - 1] = 0
    BY <1>2
  <2>4. b[k - 1] \in 0..n
    BY <2>1, <2>3
  <2> QED
    BY <2>1, <2>2, <2>3, <2>4
<1>5. {i \in 1..n : YearOf[f[i].month] = y} = (a + 1)..e
  BY <1>1, <1>3, <1>4 DEF YearBounds
<1>6. base = IF k = 1 THEN One ELSE f[a].nav
  BY <1>4
<1>7. PICK p, at, ends, c :
        p = Cardinality(EndsAt(f)) /\ at = InOrder(EndsAt(f)) /\ ends = MonthEnds(f) /\ c = Closes(ends, p)
  OBVIOUS
<1>8. /\ p \in Nat \ {0} /\ at \in [1..p -> 1..n]
      /\ \A i, j \in 1..p : i < j => at[i] < at[j]
      /\ \A i \in EndsAt(f) : \E j \in 1..p : at[j] = i
      /\ DOMAIN ends = 1..p
      /\ \A i \in 1..p : ends[i] = f[at[i]]
  BY <1>1, <1>7, EndsListed
<1>9. /\ c \in [0..p -> Nat \ {0}] /\ c[0] = One
      /\ \A i \in 1..p : c[i] = ends[i].nav
      /\ MonthGrowth(f) \in [1..p -> Ratios]
      /\ \A i \in 1..p : MonthGrowth(f)[i] = <<c[i], c[i - 1]>>
  BY <1>7, MonthGrowthIs
<1>10. PICK w \in 0..p, v \in 1..p :
         at[v] = e /\ (k = 1 => w = 0) /\ (k # 1 => w \in 1..p /\ at[w] = a)
  <2>1. PICK v \in 1..p : at[v] = e
    BY <1>4, <1>8, YearEndsMonth
  <2>2. CASE k = 1
    <3>1. 0 \in 0..p
      BY <1>8
    <3> QED
      BY <2>1, <2>2, <3>1
  <2>3. CASE k # 1
    <3>1. a \in EndsAt(f)
      BY <1>2, <1>4, <2>3, YearEndsMonth
    <3>2. PICK w \in 1..p : at[w] = a
      BY <1>8, <3>1
    <3>3. w \in 0..p
      OBVIOUS
    <3> QED
      BY <2>1, <2>3, <3>2, <3>3
  <2> QED
    BY <2>2, <2>3
<1>11. \A i, j \in 1..p : (at[i] < at[j] <=> i < j) /\ at[i] \in 1..n
  <2> TAKE i, j \in 1..p
  <2>1. i < j \/ i = j \/ j < i
    BY <1>8
  <2>2. at[i] \in 1..n /\ at[j] \in 1..n
    BY <1>8
  <2>3. (i < j => at[i] < at[j]) /\ (j < i => at[j] < at[i])
    BY <1>8
  <2> QED
    BY <1>8, <2>1, <2>2, <2>3
<1>12. w < v
  <2>1. CASE k = 1
    BY <1>8, <1>10, <2>1
  <2>2. CASE k # 1
    BY <1>4, <1>10, <1>11, <2>2
  <2> QED
    BY <2>1, <2>2
<1>13. {x \in 1..p : YearOf[ends[x].month] = y} = (w + 1)..v
  <2>1. ASSUME NEW x \in 1..p PROVE YearOf[ends[x].month] = y <=> w < x /\ x <= v
    <3>1. at[x] \in 1..n /\ ends[x] = f[at[x]]
      BY <1>8, <1>11
    <3>2. YearOf[ends[x].month] = y <=> at[x] \in (a + 1)..e
      BY <1>5, <3>1
    <3>3. at[x] \in (a + 1)..e <=> a < at[x] /\ ~(at[v] < at[x])
      BY <1>4, <1>10, <3>1
    <3>4. at[v] < at[x] <=> v < x
      BY <1>11
    <3>5. a < at[x] <=> w < x
      <4>1. CASE k = 1
        BY <1>4, <1>8, <1>10, <3>1, <4>1
      <4>2. CASE k # 1
        BY <1>10, <1>11, <4>2
      <4> QED
        BY <4>1, <4>2
    <3>6. ~(v < x) <=> x <= v
      BY <1>8
    <3> QED
      BY <3>2, <3>3, <3>4, <3>5, <3>6
  <2>2. \A x : x \in (w + 1)..v <=> x \in 1..p /\ w < x /\ x <= v
    BY <1>8
  <2> QED
    BY <2>1, <2>2
<1>14. PICK r \in Nat \ {0} : r = v - w
  BY <1>8, <1>12
<1>15. own = [j \in 1..r |-> w + j]
  <2>1. own = InOrder((w + 1)..v)
    BY <1>3, <1>7, <1>8, <1>13
  <2>2. w + 1 \in Nat /\ v \in Nat /\ w + 1 <= v + 1
    BY <1>8, <1>12
  <2>3. InOrder((w + 1)..v) = [j \in 1..(v - (w + 1) + 1) |-> (w + 1) + j - 1]
    BY <2>2, InOrderStretch
  <2>4. v - (w + 1) + 1 = r /\ \A j \in 1..r : (w + 1) + j - 1 = w + j
    BY <1>8, <1>14
  <2> QED
    BY <2>1, <2>3, <2>4
<1> DEFINE g == [x \in DOMAIN own |-> MonthGrowth(f)[own[x]]]
<1> DEFINE d == [j \in 0..r |-> c[w + j]]
<1>16. \A j \in 0..r : w + j \in 0..p
  BY <1>8, <1>14
<1>17. d \in [0..r -> Nat \ {0}] /\ d[0] = base /\ d[r] = f[e].nav
  <2>1. d \in [0..r -> Nat \ {0}]
    BY <1>9, <1>16
  <2>2. w + 0 = w /\ w + r = v /\ 0 \in 0..r /\ r \in 0..r
    BY <1>8, <1>14
  <2>3. c[v] = f[e].nav
    BY <1>8, <1>9, <1>10
  <2>4. c[w] = base
    <3>1. CASE k = 1
      BY <1>6, <1>9, <1>10, <3>1
    <3>2. CASE k # 1
      <4>1. w \in 1..p /\ at[w] = a
        BY <1>10, <3>2
      <4>2. c[w] = ends[w].nav /\ ends[w] = f[at[w]]
        BY <1>8, <1>9, <4>1
      <4> QED
        BY <1>6, <3>2, <4>1, <4>2
    <3> QED
      BY <3>1, <3>2
  <2> QED
    BY <2>1, <2>2, <2>3, <2>4
<1>18. g = [j \in 1..r |-> MonthGrowth(f)[w + j]]
  <2>1. DOMAIN own = 1..r
    BY <1>15
  <2> QED
    BY <1>15, <2>1
<1> HIDE DEF g
<1>19. ASSUME NEW j \in 1..r PROVE g[j] = <<d[j], d[j - 1]>> /\ g[j] \in Ratios
  <2>1. w + j \in 1..p /\ j - 1 \in 0..r /\ j \in 0..r /\ (w + j) - 1 = w + (j - 1)
    BY <1>8, <1>14
  <2>2. g[j] = MonthGrowth(f)[w + j]
    BY <1>18
  <2>3. MonthGrowth(f)[w + j] = <<c[w + j], c[(w + j) - 1]>> /\ MonthGrowth(f)[w + j] \in Ratios
    BY <1>9, <2>1
  <2>4. d[j] = c[w + j] /\ d[j - 1] = c[(w + j) - 1]
    BY <2>1
  <2> QED
    BY <2>2, <2>3, <2>4
<1>20. g \in [1..r -> Ratios]
  BY <1>18, <1>19
<1> HIDE DEF d
<1>21. Equal(Product(g), <<d[r], d[0]>>) /\ Product(g) \in Ratios
  <2>1. r \in Nat
    OBVIOUS
  <2> QED
    BY <1>17, <1>19, <1>20, <2>1, Telescope
<1> QED
  BY <1>4, <1>17, <1>21 DEF g

\* A product that is right from one base is right from another if they are the same.
LEMMA OnlyBase ==
  ASSUME NEW P \in Ratios, NEW e \in Nat, NEW x \in Nat, NEW y \in Nat, Equal(P, <<e, x>>)
  PROVE  Equal(P, <<e, y>>) <=> x = y
<1>1. PICK u \in Nat \ {0}, w \in Nat : P[1] = u /\ P[2] = w
  BY DEF Ratios
<1>2. u * x = e * w
  BY <1>1 DEF Equal
<1>3. Equal(P, <<e, y>>) <=> u * y = e * w
  BY <1>1 DEF Equal
<1>4. u * y = u * x => y = x
  <2>1. ASSUME y < x, u * y = u * x PROVE FALSE
    <3>1. (x - y) \in Nat \ {0} /\ u * (x - y) = u * x - u * y
      BY <2>1
    <3>2. \A a \in Nat \ {0} : u * a \in Nat \ {0}
      OBVIOUS
    <3> QED
      BY <2>1, <3>1, <3>2
  <2>2. ASSUME x < y, u * y = u * x PROVE FALSE
    <3>1. (y - x) \in Nat \ {0} /\ u * (y - x) = u * y - u * x
      BY <2>2
    <3>2. \A a \in Nat \ {0} : u * a \in Nat \ {0}
      OBVIOUS
    <3> QED
      BY <2>2, <3>1, <3>2
  <2> QED
    BY <2>1, <2>2
<1> QED
  BY <1>2, <1>3, <1>4

LEMMA PeriodsFit ==
  ASSUME IsFrame(frame), AllPositive(frame)
  PROVE  ReturnsCompound
<1>1. PICK n \in Nat \ {0} : n = Len(frame) /\ frame \in Seq(FrameRows) /\ DOMAIN frame = 1..n
  BY FrameIs DEF IsFrame
<1>2. PICK m : m = Cardinality(YearsOf(frame))
  OBVIOUS
<1>3. PICK b : YearBounds(frame, m, b)
  BY <1>2, YearsDivide
<1>4. PICK years : years = InOrder(YearsOf(frame))
  OBVIOUS
<1>5. m \in Nat \ {0} /\ DOMAIN years = 1..m /\ Len(years) = m
  BY <1>2, <1>4, YearsListed
<1>6. Last(frame) = frame[Len(frame)] /\ Head(frame) = frame[1]
  BY <1>1 DEF Last
<1>7. Equal(Product([k \in DOMAIN years |-> YearGrowth(frame, years[k])]),
            <<Last(frame).nav, Head(frame).nav>>)
  BY <1>2, <1>3, <1>4, <1>5, <1>6, YearsCompound
<1> DEFINE Months(y) == InOrder({x \in DOMAIN MonthEnds(frame) : YearOf[MonthEnds(frame)[x].month] = y})
<1> DEFINE Return(y) == Product([x \in DOMAIN Months(y) |-> MonthGrowth(frame)[Months(y)[x]]])
<1> DEFINE Before(k) == IF k = 1 THEN One ELSE frame[b[k - 1]].nav
<1>8. \A k \in 1..m : /\ Equal(Return(years[k]), <<frame[b[k]].nav, Before(k)>>)
                      /\ Return(years[k]) \in Ratios
  <2> TAKE k \in 1..m
  <2>1. PICK own : own = Months(years[k])
    OBVIOUS
  <2>2. PICK base : base = Before(k)
    OBVIOUS
  <2>3. /\ Equal(Product([x \in DOMAIN own |-> MonthGrowth(frame)[own[x]]]), <<frame[b[k]].nav, base>>)
        /\ Product([x \in DOMAIN own |-> MonthGrowth(frame)[own[x]]]) \in Ratios
    BY <1>2, <1>3, <1>4, <2>1, <2>2, MonthsOfYearCompound
  <2> QED
    BY <2>1, <2>2, <2>3
<1>9. \A k \in 2..Len(years) : Equal(Return(years[k]), YearGrowth(frame, years[k]))
  <2> TAKE k \in 2..Len(years)
  <2>1. k \in 1..m /\ k # 1
    BY <1>5
  <2>2. YearGrowth(frame, years[k]) = <<frame[b[k]].nav, frame[b[k - 1]].nav>>
    BY <1>2, <1>3, <1>4, <2>1, YearGrowthIs
  <2>3. Equal(Return(years[k]), <<frame[b[k]].nav, Before(k)>>) /\ Before(k) = frame[b[k - 1]].nav
    BY <1>8, <2>1
  <2> HIDE DEF Return, Before
  <2> QED
    BY <2>2, <2>3
<1>10. Equal(Return(years[1]), YearGrowth(frame, years[1])) <=> Head(frame).nav = One
  <2>1. 1 \in 1..m
    BY <1>5
  <2>2. YearGrowth(frame, years[1]) = <<frame[b[1]].nav, frame[1].nav>> /\ b[1] \in 1..Len(frame)
    BY <1>2, <1>3, <1>4, <2>1, YearGrowthIs
  <2>3. Equal(Return(years[1]), <<frame[b[1]].nav, One>>) /\ Return(years[1]) \in Ratios
    BY <1>8, <2>1
  <2>4. frame[b[1]].nav \in Nat /\ frame[1].nav \in Nat /\ One \in Nat
    <3>1. 1 \in 1..Len(frame)
      BY <1>1
    <3> QED
      BY <2>2, <3>1, NavPositive, FrameAssumption
  <2> HIDE DEF Return
  <2>5. Equal(Return(years[1]), <<frame[b[1]].nav, frame[1].nav>>) <=> One = frame[1].nav
    BY <2>3, <2>4, OnlyBase
  <2> QED
    BY <1>6, <2>2, <2>5
<1>11. Equal(Product(Tail(MonthGrowth(frame))), <<Last(frame).nav, Head(MonthEnds(frame)).nav>>)
  BY <1>6, MonthsCompound
<1> QED
  BY <1>4, <1>7, <1>9, <1>10, <1>11, Zenon DEF ReturnsCompound

-----------------------------------------------------------------------------
(* Every frame that is built. *)

\* A frame grows within its month or into the next.
FrameInv ==
  /\ FrameTypeOK
  /\ \A i, j \in 1..Len(frame) : i <= j => frame[i].month <= frame[j].month

\* The empty frame is one, and a row keeps it one.
LEMMA FrameInvInit == MetricInit => FrameInv
BY FrameAssumption DEF MetricInit, FrameInv, FrameTypeOK

LEMMA FrameInvStep == FrameInv /\ [MetricNext]_metricVars => FrameInv'
<1> SUFFICES ASSUME FrameInv, [MetricNext]_metricVars PROVE FrameInv'
  OBVIOUS
<1>1. CASE UNCHANGED metricVars
  BY <1>1 DEF FrameInv, FrameTypeOK, metricVars
<1>2. CASE MetricNext
  <2>1. PICK r \in FrameRows :
          /\ Len(frame) < MaxRows
          /\ r.month \in IF frame = <<>> THEN {Min(Month)}
                         ELSE {Last(frame).month, Last(frame).month + 1}
          /\ frame' = Append(frame, r)
    BY <1>2 DEF MetricNext, AppendRow
  <2>2. PICK n \in Nat : n = Len(frame) /\ frame \in [1..n -> FrameRows] /\ frame \in Seq(FrameRows)
                         /\ n + 1 <= MaxRows /\ MaxRows \in Nat
    BY <2>1, FrameAssumption DEF FrameInv, FrameTypeOK
  <2>3. /\ frame' \in Seq(FrameRows) /\ Len(frame') = n + 1
        /\ \A i \in 1..n : frame'[i] = frame[i]
        /\ frame'[n + 1] = r
    BY <2>1, <2>2
  <2>4. FrameTypeOK'
    BY <2>2, <2>3 DEF FrameTypeOK
  <2>5. ASSUME NEW i \in 1..(n + 1), NEW j \in 1..(n + 1), i <= j
        PROVE  frame'[i].month <= frame'[j].month
    <3>1. CASE j \in 1..n
      <4>1. i \in 1..n
        BY <2>5, <3>1
      <4> QED
        BY <2>2, <2>3, <2>5, <3>1, <4>1 DEF FrameInv
    <3>2. CASE j = n + 1
      <4>1. r.month \in Nat
        BY RowTypes
      <4>2. CASE i = n + 1
        BY <2>3, <3>2, <4>1, <4>2
      <4>3. CASE i \in 1..n
        <5>1. n \in 1..n /\ frame # <<>> /\ Last(frame) = frame[n] /\ i <= n
          BY <2>2, <4>3 DEF Last
        <5>2. frame[n].month \in Nat /\ frame[i].month \in Nat
          BY <2>2, <4>3, <5>1, RowTypes
        <5>3. frame[i].month <= frame[n].month
          BY <2>2, <4>3, <5>1 DEF FrameInv
        <5>4. r.month = frame[n].month \/ r.month = frame[n].month + 1
          BY <2>1, <5>1
        <5> QED
          BY <2>3, <3>2, <4>1, <4>3, <5>2, <5>3, <5>4
      <4> QED
        BY <4>2, <4>3
    <3> QED
      BY <3>1, <3>2
  <2> QED
    BY <2>3, <2>4, <2>5 DEF FrameInv
<1> QED
  BY <1>1, <1>2

\* The figures of any such frame agree, whatever step has made it.
LEMMA FiguresHold == FrameInv => FiguresAgree
<1> SUFFICES ASSUME FrameInv PROVE FiguresAgree
  OBVIOUS
<1>1. CASE frame = <<>>
  BY <1>1 DEF FiguresAgree, RepairAgrees, DrawdownAgrees, PeriodsAgree
<1>2. CASE frame # <<>>
  <2>1. IsFrame(frame)
    BY <1>2 DEF FrameInv, FrameTypeOK, IsFrame
  <2>2. RepairAgrees
    BY <2>1, RepairsAgree
  <2>3. DrawdownAgrees
    BY <2>1, DrawdownsAgree
  <2>4. PeriodsAgree
    <3>1. HighsExact
      BY <2>1, HighsAgree
    <3>2. ASSUME NoneBelow(1) PROVE ReturnsCompound /\ StreaksExact
      <4>1. AllPositive(frame)
        <5>1. DOMAIN frame = 1..Len(frame)
          BY <2>1 DEF IsFrame
        <5> QED
          BY <3>2, <5>1 DEF NoneBelow, AllPositive
      <4> QED
        BY <2>1, <4>1, PeriodsFit, StreaksAgree
    <3> QED
      BY <3>1, <3>2 DEF PeriodsAgree
  <2> QED
    BY <2>2, <2>3, <2>4 DEF FiguresAgree
<1> QED
  BY <1>1, <1>2

(***************************************************************************)
(* The frame that _calculate_metrics_v1 hands to every metric has rows of  *)
(* known types, and their months never go back. The groups by month and by *)
(* year are stretches of it for that reason alone.                         *)
(***************************************************************************)
THEOREM FramesGrowByMonth == MetricInit /\ [][MetricNext]_metricVars => []FrameInv
BY FrameInvInit, FrameInvStep, PTL

(***************************************************************************)
(* The longest repair is the longest of the years' repairs as well; the    *)
(* computations of the drawdown agree with each other and with the worst   *)
(* pair of rows; new highs are the records; and while no net value is zero *)
(* or less, the growth of years and months compounds to that of the frame, *)
(* in the first year only if the frame begins with the net value 1, and    *)
(* streaks are the longest runs. For every frame, of any integers.         *)
(***************************************************************************)
THEOREM FiguresAlwaysAgree == MetricInit /\ [][MetricNext]_metricVars => []FiguresAgree
BY FramesGrowByMonth, FiguresHold, PTL

=============================================================================
