----------------------------- MODULE WindowPlan -----------------------------
(***************************************************************************)
(* Which K-line windows a task is executed on                              *)
(* (app/services/google_sheet_tasks/base.py, c4.py, c5.py, c7.py, c1_1.py, *)
(* combination_estimate.py, app/services/backtest_training_service.py).    *)
(*                                                                         *)
(* A configuration asks for the whole range, the years of it and the last  *)
(* half year, one year, two years ...; the stock has prices of a stretch   *)
(* of time only. The expansion gives each window a label, keeps its rows   *)
(* under the label, and returns a list of combinations that name labels.   *)
(* A date is a half year, counted from 0, and has one row of prices.       *)
(***************************************************************************)
EXTENDS SortedSets, Sequences, SequencesExt, FiniteSetsExt

CONSTANTS
  Dates,        \* half years, 0 .. 2Y - 1
  Parameters,   \* lists of pairs (A1, B1) a configuration may have
  MinHistory,   \* least number of rows of a stock (system configuration)
  MinYear,      \* C4: a year has more rows than that
  Unplanned

ASSUME PlanAssumption ==
  /\ Dates \subseteq Nat /\ IsFiniteSet(Dates)
  /\ 0 \in Dates /\ \A d \in Dates : 0..d \subseteq Dates
  /\ \A ps \in Parameters : ps \in Seq(ToSet(ps))
  /\ MinHistory \in Nat /\ MinYear \in Nat

VARIABLES
  query,   \* the configuration, the service and the prices there are
  plan       \* the combinations and the rows of each label, or an error

planVars == <<query, plan>>

Year(d)  == d \div 2
Years    == {Year(d) : d \in Dates}
Stretch  == {s \in [first : Dates, last : Dates] : s.first <= s.last}
RowsBetween(s, from, to) == {d \in s.first..s.last : from <= d /\ d <= to}

Failed == [outcome |-> "error"]
Plan(list, map) == [outcome |-> "plan", list |-> list, map |-> map]

\* C5, C7, and C7 or C1.1 with random groups.
Services ==
  {[name |-> "c5", groups |-> 0], [name |-> "c7", groups |-> 0], [name |-> "c7", groups |-> 2]}

AutoRequests ==
  [kind : {"auto"}, service : Services, range : Stretch, data : Stretch, nPlus1 : BOOLEAN,
   modes : SUBSET {"recent", "full"}, excluded : {{}, {1}}, pairs : Parameters]
C4Requests ==
  [kind : {"c4"}, range : Stretch, data : Stretch, nPlus1 : BOOLEAN,
   modes : SUBSET {"recent", "full"}]
TrainingRequests ==
  [kind : {"training"}, end : Dates, data : Stretch, full : {InOrder(y) : y \in SUBSET Years},
   recent : SUBSET {1, 2}, whole : BOOLEAN, weekend : BOOLEAN]
CustomRequests ==
  [kind : {"custom"}, service : {"c5", "c7", "c1_1"}, groups : {1, 2}, pairs : Parameters]

PlanInit ==
  /\ query \in {q \in AutoRequests : q.nPlus1 \/ (q.modes = {} /\ q.excluded = {})}
                  \cup C4Requests \cup TrainingRequests \cup CustomRequests
  /\ plan = Unplanned

-----------------------------------------------------------------------------
(* C5, C7 and C1.1: _expand_auto_year_parameters.                           *)

\* The range begins where the prices begin.
From(q) == Max({q.range.first, q.data.first})
To(q)   == q.range.last
PlanYears(q) == Year(From(q))..Year(To(q))

\* The range may end after the last price only if whole years are asked for.
EndServed(q) ==
  \/ To(q) <= q.data.last
  \/ /\ "full" \in q.modes /\ PlanYears(q) # {}
     /\ Year(q.data.first) \in PlanYears(q) \/ Min(PlanYears(q)) > Year(q.data.first)

KlineWindow(kind, label, rows) == [kind |-> kind, label |-> label, rows |-> rows]
Whole(q) ==
  KlineWindow("whole", <<Year(To(q)), Year(From(q))>>, RowsBetween(q.data, From(q), To(q)))

\* The last half year, then one year and so on, up to the number of years of the
\* range that was asked for; the label is made of the years of its own rows.
RecentSpans(q) ==
  LET n == Year(q.range.last) - Year(q.range.first) IN
  InOrder(({1} \cup {2 * i : i \in 1..n}) \ q.excluded)
RecentWindow(q, span) ==
  LET rows == {d \in RowsBetween(q.data, From(q), To(q)) : d + span >= To(q)} IN
  KlineWindow("recent", IF rows = {} THEN <<>> ELSE <<Year(Max(rows)), Year(Min(rows))>>, rows)
Recents(q) ==
  IF "recent" \in q.modes
  THEN [i \in DOMAIN RecentSpans(q) |-> RecentWindow(q, RecentSpans(q)[i])] ELSE <<>>

YearWindow(s, y) == KlineWindow("year", <<y>>, {d \in s : Year(d) = y})
FullYears(q) ==
  IF "full" \in q.modes
  THEN LET ys == InOrder(PlanYears(q)) IN
       [i \in DOMAIN ys |-> YearWindow(RowsBetween(q.data, From(q), To(q)), ys[i])]
  ELSE <<>>

\* One label has one list of rows: a recent window whose label is taken by other
\* rows is left out, any window without rows as well.
Keep(map, w) ==
  /\ w.rows # {}
  /\ w.kind = "recent" /\ w.label \in DOMAIN map => map[w.label] = w.rows
Register(acc, w) ==
  IF ~Keep(acc.map, w) THEN acc
  ELSE [map  |-> [l \in DOMAIN acc.map \cup {w.label} |->
                    IF l \in DOMAIN acc.map THEN acc.map[l] ELSE w.rows],
        kept |-> Append(acc.kept, w)]
Registered(ws) == FoldLeft(Register, [map |-> << >>, kept |-> << >>], ws)

\* Every window with every pair of parameters, and every group of it.
Groups(q) == IF q.service.groups = 0 THEN <<0>> ELSE [g \in 1..q.service.groups |-> g]
Combinations(q, kept) ==
  FlattenSeq([i \in DOMAIN kept |->
    FlattenSeq([j \in DOMAIN q.pairs |->
      [k \in DOMAIN Groups(q) |->
        [label |-> kept[i].label, pair |-> q.pairs[j], group |-> Groups(q)[k]]]])])

\* _deduplicate_parameter_combinations: the first of each signature stays. Of
\* random groups the label is a part of the signature.
Signature(q, map, c) ==
  [pair |-> c.pair, rows |-> map[c.label],
   extra |-> IF q.service.name = "c7" /\ c.group # 0 THEN <<c.group, c.label>> ELSE <<>>]
AllOf(q, map, list) == list
Deduplicated(q, map, list) ==
  LET First(i) == \A h \in 1..(i - 1) : Signature(q, map, list[h]) # Signature(q, map, list[i])
      kept == InOrder({i \in DOMAIN list : First(i)})
  IN  [n \in DOMAIN kept |-> list[kept[n]]]

AutoWindows(q) == IF q.nPlus1 THEN <<Whole(q)>> \o Recents(q) \o FullYears(q) ELSE <<Whole(q)>>
AutoPlan(q) ==
  LET reg  == Registered(AutoWindows(q))
      list == Combinations(q, reg.kept) IN
  IF \/ Cardinality(RowsBetween(q.data, q.data.first, q.data.last)) < MinHistory
     \/ ~EndServed(q)
     \/ Whole(q).rows = {}
     \/ q.nPlus1 /\ list = <<>>
  THEN Failed
  ELSE Plan(Deduplicated(q, reg.map, list), reg.map)

ExpandAuto ==
  /\ query.kind = "auto" /\ plan = Unplanned
  /\ plan' = AutoPlan(query)
  /\ UNCHANGED query

-----------------------------------------------------------------------------
(* C4: the range and its longer years. Recent windows are filtered by a      *)
(* date in place of a year and are always empty.                             *)
C4Years(q) ==
  LET all == RowsBetween(q.data, q.range.first, q.range.last)
      ys  == InOrder({y \in Year(q.range.first)..Year(q.range.last) :
                          Cardinality(YearWindow(all, y).rows) > MinYear})
  IN  IF q.nPlus1 /\ "full" \in q.modes
      THEN [i \in DOMAIN ys |-> YearWindow(all, ys[i])] ELSE <<>>
C4Plan(q) ==
  LET all == RowsBetween(q.data, q.range.first, q.range.last)
      ws  == <<KlineWindow("whole", <<>>, all)>> \o C4Years(q) IN
  IF \/ Cardinality(RowsBetween(q.data, q.data.first, q.data.last)) < MinHistory
     \/ q.range.last > q.data.last \/ all = {}
  THEN Failed
  ELSE Plan([i \in DOMAIN ws |-> [label |-> ws[i].label, pair |-> 0, group |-> 0]],
            Registered(ws).map)

ExpandC4 ==
  /\ query.kind = "c4" /\ plan = Unplanned
  /\ plan' = C4Plan(query)
  /\ UNCHANGED query

-----------------------------------------------------------------------------
(* Training: years back from the end, and calendar years or one window that  *)
(* begins with the first of them. Every window must have rows.               *)
YearCount(q) ==
  Max({1} \cup q.recent
      \cup (IF q.full = <<>> THEN {} ELSE {1 + Year(q.end) - Min(ToSet(q.full) \cup {Year(q.end)})}))
TrainingEnd(q) == IF q.weekend THEN q.data.last ELSE q.end
\* Half years may lie before the first one: offset by all of them.
StartsBefore(q) == q.end < q.data.first + 2 * YearCount(q)
TrainingFails(q) ==
  \/ q.whole /\ q.full = <<>>
  \/ TrainingEnd(q) > q.data.last
  \/ /\ q.recent = {} /\ StartsBefore(q)
     /\ ~(q.full # <<>> /\ (\/ Year(q.data.first) \in ToSet(q.full)
                            \/ q.full[1] > Year(q.data.first)))
  \/ Cardinality(RowsBetween(q.data, q.data.first, q.data.last)) < MinHistory

TrainingRecent(q, n) ==
  KlineWindow("recent", <<"last", n>>,
         {d \in RowsBetween(q.data, q.data.first, TrainingEnd(q)) : d + 2 * n >= TrainingEnd(q)})
TrainingWhole(q) ==
  LET first == {d \in RowsBetween(q.data, q.data.first, TrainingEnd(q)) : Year(d) = q.full[1]} IN
  KlineWindow("whole", <<"years", q.full[1], q.full[Len(q.full)]>>,
         IF first = {} THEN {} ELSE RowsBetween(q.data, Min(first), TrainingEnd(q)))
TrainingYears(q) ==
  LET all == {d \in RowsBetween(q.data, q.data.first, TrainingEnd(q)) :
                d + 2 * YearCount(q) >= q.end} IN
  [i \in DOMAIN q.full |-> YearWindow(all, q.full[i])]
TrainingWindows(q) ==
  LET rs == InOrder(q.recent) IN
  [i \in DOMAIN rs |-> TrainingRecent(q, rs[i])]
  \o (IF q.whole THEN <<TrainingWhole(q)>> ELSE TrainingYears(q))
TrainingPlan(q) ==
  IF TrainingFails(q) THEN Failed
  ELSE LET ws == TrainingWindows(q) IN
       IF \E i \in DOMAIN ws : ws[i].rows = {} THEN Failed
       ELSE Plan([i \in DOMAIN ws |-> [label |-> ws[i].label, pair |-> 0, group |-> 0]],
                 Registered(ws).map)

ExpandTraining ==
  /\ query.kind = "training" /\ plan = Unplanned
  /\ plan' = TrainingPlan(query)
  /\ UNCHANGED query

-----------------------------------------------------------------------------
(* K-lines of the sheet itself: one window, nothing to look up; C1.1 has no  *)
(* parameters but groups. The number is announced by a formula.              *)
CustomList(q) ==
  IF q.service = "c1_1"
  THEN [g \in 1..q.groups |-> [label |-> <<"custom">>, pair |-> 0, group |-> g]]
  ELSE [j \in DOMAIN q.pairs |-> [label |-> <<"custom">>, pair |-> q.pairs[j], group |-> 0]]
CustomPlan(q) ==
  LET list == CustomList(q)
      map  == [l \in {<<"custom">>} |-> {0}]
      \* C5 removes repeated pairs, C7 does not.
      once == Deduplicated([service |-> [name |-> q.service]], map, list)
  IN  IF list = <<>> THEN Failed
      ELSE Plan(IF q.service = "c5" THEN once ELSE list, map)
Estimate(q) == IF q.service = "c1_1" THEN q.groups ELSE Len(q.pairs)

ExpandCustom ==
  /\ query.kind = "custom" /\ plan = Unplanned
  /\ plan' = CustomPlan(query)
  /\ UNCHANGED query

PlanNext == ExpandAuto \/ ExpandC4 \/ ExpandTraining \/ ExpandCustom
PlanSpec == PlanInit /\ [][PlanNext]_planVars

-----------------------------------------------------------------------------
(* Properties. *)

Planned == plan # Unplanned /\ plan.outcome = "plan"

\* What a configuration asks for, whatever the labels: the rows of each window.
Between(q, from, to) == {d \in q.data.first..q.data.last : d >= q.range.first /\ from <= d /\ d <= to}
AskedYears(q) ==
  IF q.nPlus1 /\ "full" \in q.modes
  THEN {Between(q, 2 * y, Min({To(q), 2 * y + 1})) : y \in Years} ELSE {}
AskedRecent(q) ==
  IF q.nPlus1 /\ "recent" \in q.modes
  THEN {{d \in Between(q, 0, To(q)) : d + span >= To(q)} :
           span \in ToSet(RecentSpans(q))} ELSE {}
AskedWhole(q) == {Between(q, 0, To(q))}

\* Two windows that begin in one year share a label.
SharesYear(r, s) == r # s /\ Year(Min(r)) = Year(Min(s))

\* C5, C7: every window that has prices is executed, with each pair and group, and
\* nothing else is; without random prices no pair twice with the same rows. Only a
\* recent window may be missing, if the whole range or a shorter recent window begins
\* in the same calendar year and is another (base.py:1105-1120): the last year when
\* the range ends in the first half of a year, the longest one when the range begins
\* earlier in its year than it ends.
EveryWindowPlanned ==
  query.kind = "auto" /\ Planned =>
    LET asked == (AskedYears(query) \cup AskedRecent(query) \cup AskedWhole(query)) \ {{}}
        ran == {[rows |-> plan.map[plan.list[i].label], pair |-> plan.list[i].pair,
                 group |-> plan.list[i].group] : i \in DOMAIN plan.list}
        combos(w) == {[rows |-> w, pair |-> p, group |-> g] :
                        p \in ToSet(query.pairs), g \in ToSet(Groups(query))}
    IN  /\ \A w \in asked :
             \/ combos(w) \subseteq ran
             \/ /\ w \in AskedRecent(query)
                /\ \E v \in AskedWhole(query) \cup AskedRecent(query) : SharesYear(w, v)
        /\ ran \subseteq UNION {combos(w) : w \in asked}
        /\ query.service.groups = 0 => Cardinality(ran) = Len(plan.list)

\* Training: no label hides a window: each one that was asked for is executed
\* on rows of its own, and a training with a window that has no prices fails.
TrainingWindowsExact ==
  query.kind = "training" /\ Planned =>
    LET ran == {plan.map[plan.list[i].label] : i \in DOMAIN plan.list}
        end == TrainingEnd(query)
        data == query.data.first..query.data.last
    IN  /\ \A n \in query.recent : {d \in data : d <= end /\ d + 2 * n >= end} \in ran
        /\ ~query.whole =>
             \A y \in ToSet(query.full) : {d \in data : d <= end /\ Year(d) = y} \in ran
        /\ {} \notin ran

\* The number of combinations that is announced for K-lines of the sheet is the one
\* that is executed, unless a list of parameters repeats a pair: C5 leaves it out.
EstimateExact ==
  query.kind = "custom" /\ Planned =>
    /\ Len(plan.list) <= Estimate(query)
    /\ IsInjective(query.pairs) => Len(plan.list) = Estimate(query)

\* What a configuration asks for is what is executed, for each kind of it.
PlanExact == EveryWindowPlanned /\ TrainingWindowsExact /\ EstimateExact

PlanTypeOK ==
  plan = Unplanned \/ plan = Failed \/
  \A i \in DOMAIN plan.list : plan.map[plan.list[i].label] \subseteq Dates
=============================================================================
