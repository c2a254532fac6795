--------------------------- MODULE MaintenanceMC ---------------------------
(***************************************************************************)
(* The components around the task runtime, each on its own and all in one  *)
(* run: the first state chooses which of them moves, the others stay as    *)
(* they are. They share no state.                                          *)
(***************************************************************************)
EXTENDS ScheduledRuns, SummaryIndex, TokenQuota, ConfigCache,
        ReturnMetrics, KlineSnapshots, WindowPlan, PriceLibrary, ChatCommands,
        WordExports, SheetRows

CONSTANTS
  j1, u1, u2, q1, q2, q3, k1, k2, g1, v1, v2, stockA, m1, m2, h1, h2,
  x1, x2

VARIABLE part   \* the component that moves

taskVars  == <<indexVars, tokenVars, scheduleVars, chatVars>>
priceVars == <<snapshotVars, planVars, libraryVars>>
otherVars == <<configVars, metricVars, exportVars, cellVars>>
vars == <<part, taskVars, priceVars, otherVars>>

OwnerOf  == <<u1, u1, u2>>
PeriodOf == <<"first", "first", "first">>
MetricOf == <<2, 1, Null>>
DateOf   == <<1, 2, 2>>
NavOf    == {-1, 1, 2, 3}
Both     == {TRUE, FALSE}
TokenOfUser == [t \in {q1, q2, q3} |-> IF t = q3 THEN k2 ELSE k1]
YearOfMonth == [m \in 1..4 |-> IF m <= 2 THEN 1 ELSE 2]
LimitOf     == [k \in {k1, k2} |-> IF k = k1 THEN 2 ELSE 0]
OutersOf    == {<<stockA, stockA>>, <<stockA>>}
SameName    == [t \in {m1, m2} |-> h1]
ReportTask  == x1 :> m1 @@ x2 :> m2
LengthsOf   == {<<1>>, <<2>>, <<3>>, <<1, 3>>, <<3, 1>>, <<2, 2>>, <<3, 1, 2>>}
PairsOf     == {<<>>, <<1, 2, 1>>}

\* Components that stand still, each in one state and without a step that
\* fairness asks for.
NoProcess ==
  /\ proc = [i \in Instance |-> "down"]
  /\ \A j \in Job : row[j] = "absent" /\ cron[j] = "crontab"
NoConfig    == \A k \in Key : table[k] = Missing
OneStock    == Len(outer) = 1 /\ config.mode = "per_window"
\* Threads for the stocks with one of the two modes only.
FewModes    == parallel => config.mode = "per_window"
NothingToPlan == query = [kind |-> "none"] /\ plan = Unplanned
NoSheet ==
  /\ RowInit /\ engine = "c3" /\ stocks = <<1>> /\ cells[1] = NoCell

Init ==
  /\ part \in {"schedule", "index", "token", "config", "metrics",
               "snapshots", "windows", "library", "chat", "exports", "rows"}
  /\ IF part = "schedule" THEN ScheduleInit ELSE QuietSchedule /\ NoProcess
  /\ IndexInit
  /\ TokenInit
  /\ ConfigInit /\ (part # "config" => NoConfig)
  /\ MetricInit
  /\ SnapshotInit /\ FewModes /\ (part # "snapshots" => OneStock)
  /\ IF part = "windows" THEN PlanInit ELSE NothingToPlan
  /\ LibraryInit
  /\ ChatInit /\ (part # "chat" => recent = <<m1, m2>>)
  /\ WordExportInit
  /\ IF part = "rows" THEN RowInit ELSE NoSheet

TaskParts ==
  \/ part = "schedule" /\ ScheduleNext /\ UNCHANGED <<indexVars, tokenVars, chatVars>>
  \/ part = "index" /\ IndexNext /\ UNCHANGED <<scheduleVars, tokenVars, chatVars>>
  \/ part = "token" /\ TokenNext /\ UNCHANGED <<scheduleVars, indexVars, chatVars>>
  \/ part = "chat" /\ ChatNext /\ UNCHANGED <<scheduleVars, indexVars, tokenVars>>
PriceParts ==
  \/ part = "snapshots" /\ SnapshotNext /\ UNCHANGED <<planVars, libraryVars>>
  \/ part = "windows" /\ PlanNext /\ UNCHANGED <<snapshotVars, libraryVars>>
  \/ part = "library" /\ LibraryNext /\ UNCHANGED <<snapshotVars, planVars>>
OtherParts ==
  \/ part = "config" /\ ConfigNext /\ UNCHANGED <<metricVars, exportVars, cellVars>>
  \/ part = "metrics" /\ MetricNext /\ UNCHANGED <<configVars, exportVars, cellVars>>
  \/ part = "exports" /\ WordExportNext /\ UNCHANGED <<configVars, metricVars, cellVars>>
  \/ part = "rows" /\ RowNext /\ UNCHANGED <<configVars, metricVars, exportVars>>

Next ==
  \/ TaskParts /\ UNCHANGED <<part, priceVars, otherVars>>
  \/ PriceParts /\ UNCHANGED <<part, taskVars, otherVars>>
  \/ OtherParts /\ UNCHANGED <<part, taskVars, priceVars>>

Spec == Init /\ [][Next]_vars /\ ScheduleFairness

\* The others keep the first state of their own part.
TypeOK ==
  CASE part = "schedule"  -> ScheduleTypeOK
    [] part = "index"     -> IndexTypeOK
    [] part = "token"     -> TokenTypeOK
    [] part = "config"    -> ConfigTypeOK
    [] part = "metrics"   -> FrameTypeOK
    [] part = "snapshots" -> SnapshotTypeOK
    [] part = "windows"   -> PlanTypeOK
    [] part = "library"   -> LibraryTypeOK
    [] part = "chat"      -> ChatTypeOK
    [] part = "exports"   -> WordExportTypeOK
    [] part = "rows"      -> RowTypeOK
=============================================================================
