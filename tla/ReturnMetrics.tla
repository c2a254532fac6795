---------------------------- MODULE ReturnMetrics ----------------------------
(***************************************************************************)
(* The metrics of a return series (app/services/performance_analysis/      *)
(* metrics.py): maximum drawdown, repair days, returns of months and years,*)
(* streaks and new highs. A frame is a sequence of rows, a row the month   *)
(* it falls in and its net value; TLC builds every frame row by row, and   *)
(* the properties compare what the loops of the code return for it with    *)
(* what the numbers mean, and the loops with each other.                   *)
(*                                                                         *)
(* Net values are integers, of which One is the net value 1, and a ratio   *)
(* is a pair <<n, d>>, so that comparing and multiplying are exact:        *)
(* rounding and the power of the annualisation are left out. A net value   *)
(* is 1 + a return, so a loss of everything or more makes it 0 or less.    *)
(***************************************************************************)
EXTENDS Integers, SortedSets, SequencesExt

CONSTANTS
  NetValue,   \* the net values of a row
  One,        \* the net value 1
  Month,      \* the months, an interval of naturals
  YearOf,     \* the year of each month
  MaxRows     \* how long a frame grows

ASSUME FrameAssumption ==
  /\ NetValue \subseteq Int
  /\ One \in Nat \ {0}
  /\ Month \subseteq Nat
  /\ YearOf \in [Month -> Nat]
  /\ \A m, n \in Month : m <= n => YearOf[m] <= YearOf[n]
  /\ MaxRows \in Nat

VARIABLE frame   \* the rows, by date

metricVars == <<frame>>

FrameRows == [month : Month, nav : NetValue]

(***************************************************************************)
(* Ratios.                                                                 *)
(***************************************************************************)
Less(a, b)  == a[1] * b[2] < b[1] * a[2]
Equal(a, b) == a[1] * b[2] = b[1] * a[2]
Times(a, b) == <<a[1] * b[1], a[2] * b[2]>>

Product(ratios) == FoldLeft(Times, <<1, 1>>, ratios)

(***************************************************************************)
(* Groups: df.groupby('year') and df.groupby('year_month') give the groups *)
(* in order, with the rows of each in the order of the frame.              *)
(***************************************************************************)
YearsOf(rows) == {YearOf[r.month] : r \in ToSet(rows)}

InYear(rows, y) == RowsAt(rows, {i \in DOMAIN rows : YearOf[rows[i].month] = y})

\* The last row of each month.
EndsAt(rows) ==
  {i \in DOMAIN rows : i = Len(rows) \/ rows[i + 1].month # rows[i].month}
MonthEnds(rows) == RowsAt(rows, EndsAt(rows))

(***************************************************************************)
(* calculate_max_drawdown_by_year_and_total: the running maximum of the    *)
(* column, the fall below it at each row, the first row of the largest.    *)
(***************************************************************************)
RunningMax(rows) ==
  [i \in DOMAIN rows |-> Max({rows[j].nav : j \in 1..i})]

\* The fall below a peak; below one that is not positive there is none.
Fall(peak, nav) == IF peak > 0 THEN <<peak - nav, peak>> ELSE <<0, 1>>

Falls(rows) == [i \in DOMAIN rows |-> Fall(RunningMax(rows)[i], rows[i].nav)]

\* The same with the latest row of the largest fall, as a sort would give it.
LatestFall(rows) ==
  LET falls == Falls(rows)
      at    == Max({i \in DOMAIN rows : \A j \in DOMAIN rows : ~Less(falls[i], falls[j])})
  IN  [at |-> at, fall |-> falls[at]]

FrameDrawdown(rows) ==
  LET falls == Falls(rows)
      at    == Min({i \in DOMAIN rows : \A j \in DOMAIN rows : ~Less(falls[i], falls[j])})
  IN  [at |-> at, fall |-> falls[at]]

YearDrawdown(rows, y) == FrameDrawdown(InYear(rows, y)).fall

\* calculate_kama_ratio divides the return of the whole frame by the largest
\* drawdown of a year.
KamaDrawdown(rows) ==
  CHOOSE d \in {YearDrawdown(rows, y) : y \in YearsOf(rows)} :
    \A y \in YearsOf(rows) : ~Less(d, YearDrawdown(rows, y))

(***************************************************************************)
(* _weight_combination_v1: the same number by one loop without a frame.    *)
(* The peak starts below everything; only a positive one counts, so 0 is   *)
(* as good a start.                                                        *)
(***************************************************************************)
LightStep(acc, row) ==
  LET peak == IF row.nav > acc.peak THEN row.nav ELSE acc.peak
      fall == Fall(peak, row.nav)
      i    == acc.i + 1
  IN  IF Less(acc.fall, fall)
      THEN [i |-> i, peak |-> peak, fall |-> fall, at |-> i]
      ELSE [acc EXCEPT !.i = i, !.peak = peak]

LightDrawdown(rows) ==
  LET end == FoldLeft(LightStep, [i |-> 0, peak |-> 0, fall |-> <<0, 1>>, at |-> 1], rows)
  IN  [at |-> end.at, fall |-> end.fall]

(***************************************************************************)
(* maximum_number_of_backtest_repair_days: the longest stretch of rows     *)
(* below a peak that ends with a row at the peak or above it.              *)
(***************************************************************************)
RepairStep(acc, row) ==
  IF row.nav >= acc.peak
  THEN [peak |-> row.nav, days |-> 0, longest |-> Max({acc.longest, acc.days})]
  ELSE [acc EXCEPT !.days = @ + 1]

RepairFrom(acc, rows) == FoldLeft(RepairStep, acc, rows)

RepairDays(rows) ==
  IF Len(rows) < 2 THEN 0
  ELSE RepairFrom([peak |-> Head(rows).nav, days |-> 0, longest |-> 0], Tail(rows)).longest

(***************************************************************************)
(* yearly_max_repair_days: the same year by year. The peak and the stretch *)
(* are carried into the next year, the longest starts anew.                *)
(***************************************************************************)
\* The year that starts from its own first row.
FreshYear(acc, group) ==
  LET end == RepairFrom([peak |-> Head(group).nav, days |-> 0, longest |-> 0], Tail(group))
  IN  [peak |-> end.peak, days |-> end.days, years |-> Append(acc.years, end.longest)]

YearStep(acc, group) ==
  LET first == acc.years = <<>>
      start == [peak |-> IF first THEN Head(group).nav ELSE acc.peak,
                days |-> acc.days, longest |-> 0]
      end   == RepairFrom(start, IF first THEN Tail(group) ELSE group)
  IN  [peak |-> end.peak, days |-> end.days, years |-> Append(acc.years, end.longest)]

YearlyRepairDays(rows) ==
  LET Groups == [k \in 1..Cardinality(YearsOf(rows)) |->
                   InYear(rows, InOrder(YearsOf(rows))[k])]
  IN  FoldLeft(YearStep, [peak |-> 0, days |-> 0, years |-> <<>>], Groups).years

(***************************************************************************)
(* calculate_year_returns and calculate_monthly_return_data: the growth of *)
(* a period against the close of the one before it; of the first year      *)
(* against its first row, of the first month against 1 (a comment and a    *)
(* skipped test of the program want the first row there, too). The ratio   *)
(* of a base that is not positive has no such meaning, and no property     *)
(* looks at it.                                                            *)
(***************************************************************************)
\* The growth of a year against its own first row.
OwnGrowth(rows, y) == <<Last(InYear(rows, y)).nav, Head(InYear(rows, y)).nav>>

YearGrowth(rows, y) ==
  LET Before == {i \in DOMAIN rows : YearOf[rows[i].month] < y}
      base   == IF Before = {} THEN Head(InYear(rows, y)) ELSE rows[Max(Before)]
  IN  <<Last(InYear(rows, y)).nav, base.nav>>

MonthGrowth(rows) ==
  LET ends == MonthEnds(rows)
  IN  [k \in DOMAIN ends |-> <<ends[k].nav, IF k = 1 THEN One ELSE ends[k - 1].nav>>]

(***************************************************************************)
(* calc_consecutive_months: the longest streak of gains and of losses.     *)
(***************************************************************************)
StreakStep(acc, g) ==
  LET gain == IF g[1] > g[2] THEN acc.gain + 1 ELSE 0
      loss == IF g[1] < g[2] THEN acc.loss + 1 ELSE 0
  IN  [gain |-> gain, loss |-> loss,
       maxGain |-> Max({acc.maxGain, gain}), maxLoss |-> Max({acc.maxLoss, loss})]

Streaks(growth) ==
  FoldLeft(StreakStep, [gain |-> 0, loss |-> 0, maxGain |-> 0, maxLoss |-> 0], growth)

(***************************************************************************)
(* new_high_statistics over the closes of the months: the positions of the *)
(* new highs, the first close being one.                                   *)
(***************************************************************************)
HighStep(acc, row) ==
  IF acc.next = 0 \/ row.nav > acc.highest
  THEN [highest |-> row.nav, next |-> acc.next + 1,
        positions |-> Append(acc.positions, acc.next)]
  ELSE [acc EXCEPT !.next = @ + 1]

NewHighs(rows) ==
  FoldLeft(HighStep, [highest |-> 0, next |-> 0, positions |-> <<>>], MonthEnds(rows)).positions

(***************************************************************************)
(* Every frame, row by row.                                                *)
(***************************************************************************)
MetricInit == frame = <<>>

AppendRow ==
  /\ Len(frame) < MaxRows
  /\ \E r \in FrameRows :
       /\ r.month \in IF frame = <<>> THEN {Min(Month)}
                     ELSE {Last(frame).month, Last(frame).month + 1}
       /\ frame' = Append(frame, r)

MetricNext == AppendRow

-----------------------------------------------------------------------------
FrameTypeOK == frame \in Seq(FrameRows) /\ Len(frame) \in 0..MaxRows

(***************************************************************************)
(* What the numbers mean, without a loop.                                  *)
(***************************************************************************)
NoneBelow(nav) == \A i \in DOMAIN frame : frame[i].nav >= nav

\* The rows that are at least as high as every earlier row.
Records == {i \in DOMAIN frame : \A j \in 1..(i - 1) : frame[j].nav <= frame[i].nav}

\* The stretches between two records that follow each other.
RepairedStretches ==
  {s \in Records \X Records :
     /\ s[1] < s[2]
     /\ \A k \in Records : k <= s[1] \/ k >= s[2]}

\* The runs of months first..last, all of them gains, or all of them losses.
RunLengths(growth, Holds(_)) ==
  {0} \cup {r[2] - r[1] + 1 : r \in {q \in (DOMAIN growth) \X (DOMAIN growth) :
                   q[1] <= q[2] /\ \A k \in q[1]..q[2] : Holds(growth[k])}}

Gains(g)  == g[2] < g[1]
Losses(g) == g[1] < g[2]

(***************************************************************************)
(* The repair days of the whole frame are the longest stretch between two  *)
(* records, and, as a stretch is carried over the turn of a year, also the *)
(* largest number any year reports: none is cut or counted twice where a   *)
(* year ends inside it.                                                    *)
(***************************************************************************)
RepairAgrees ==
  frame # <<>> =>
  LET total == RepairDays(frame)
  IN  /\ total = Max({0} \cup {s[2] - s[1] - 1 : s \in RepairedStretches})
      /\ total = Max(ToSet(YearlyRepairDays(frame)))

(***************************************************************************)
(* The drawdown of the frame, the one of the loop that ranks thousands of  *)
(* weight combinations, and the worst loss of buying at one row, for a     *)
(* positive price, and selling at a later one, for a price that is not     *)
(* below zero, are the same number at the same row. The number the Kama    *)
(* ratio divides by is never above it in a frame with no value below zero, *)
(* and in a frame of one year it is the same (a fall over the turn of a    *)
(* year makes it smaller).                                                 *)
(***************************************************************************)
DrawdownAgrees ==
  frame # <<>> =>
  LET total == FrameDrawdown(frame)
      light == LightDrawdown(frame)
      Loss(i, j) == <<frame[i].nav - frame[j].nav, frame[i].nav>>
  IN  /\ light.at = total.at
      /\ Equal(light.fall, total.fall)
      /\ \A i, j \in DOMAIN frame :
           i <= j /\ frame[i].nav > 0 /\ frame[j].nav >= 0 => ~Less(total.fall, Loss(i, j))
      /\ \/ \E i \in 1..total.at :
              frame[i].nav > 0 /\ Equal(total.fall, Loss(i, total.at))
         \/ total.fall[1] = 0 /\ \A i \in 1..total.at : frame[i].nav <= 0
      /\ NoneBelow(0) => ~Less(total.fall, KamaDrawdown(frame))
      /\ Cardinality(YearsOf(frame)) = 1 => Equal(total.fall, KamaDrawdown(frame))

\* Years compound to the growth of the frame, the months of every year but the
\* first to that year's growth, and all months but the first to the growth since
\* the close of the first. The first year's months compound to its growth if the
\* frame begins with the net value 1, and only then.
ReturnsCompound ==
  LET years  == InOrder(YearsOf(frame))
      ends   == MonthEnds(frame)
      growth == MonthGrowth(frame)
      Months(y) == InOrder({k \in DOMAIN ends : YearOf[ends[k].month] = y})
      Compound(y) ==
        Equal(Product([n \in DOMAIN Months(y) |-> growth[Months(y)[n]]]), YearGrowth(frame, y))
  IN  /\ Equal(Product([k \in DOMAIN years |-> YearGrowth(frame, years[k])]),
               <<Last(frame).nav, Head(frame).nav>>)
      /\ \A k \in 2..Len(years) : Compound(years[k])
      /\ Equal(Product(Tail(growth)), <<Last(frame).nav, Head(ends).nav>>)
      /\ Compound(years[1]) <=> Head(frame).nav = One

\* The streaks are the longest runs of gaining and of losing months, and
\* they do not overlap.
StreaksExact ==
  LET growth == MonthGrowth(frame)
      found  == Streaks(growth)
  IN  /\ found.maxGain = Max(RunLengths(growth, Gains))
      /\ found.maxLoss = Max(RunLengths(growth, Losses))
      /\ found.maxGain + found.maxLoss <= Len(growth)

\* The new highs are the closes above every earlier one.
HighsExact ==
  LET ends == MonthEnds(frame)
  IN  ToSet(NewHighs(frame)) =
        {k - 1 : k \in {n \in DOMAIN ends : \A m \in 1..(n - 1) : ends[m].nav < ends[n].nav}}

(***************************************************************************)
(* The returns of months and years fit together, and what is counted on    *)
(* them counts each month once.                                            *)
(***************************************************************************)
PeriodsAgree ==
  frame # <<>> =>
    /\ HighsExact
    /\ NoneBelow(1) => ReturnsCompound /\ StreaksExact

\* Each number that the program computes in several ways is the same in all of them.
FiguresAgree == RepairAgrees /\ DrawdownAgrees /\ PeriodsAgree
=============================================================================
