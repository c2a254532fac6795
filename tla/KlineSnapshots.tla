--------------------------- MODULE KlineSnapshots ---------------------------
(***************************************************************************)
(* The snapshots of random K-lines                                         *)
(* (app/services/task_kline_snapshot_service.py, the expansion of a task   *)
(* in app/services/google_sheet_tasks/base.py).                            *)
(*                                                                         *)
(* A task with random prices is expanded anew by each of its executions:   *)
(* for every stock one thread fetches the prices, keeps those of each      *)
(* window as a source, draws a sequence for each group from a seed and     *)
(* keeps it as a series. The market may correct its prices between two     *)
(* executions; a combination is executed with the rows that were kept.     *)
(***************************************************************************)
EXTENDS Integers, Sequences, FiniteSets

CONSTANTS
  Outers,       \* what parameters[0] may be: sequences of stocks
  Window,       \* K-line windows of a stock, 1 .. N in the order of the plan
  Group,        \* random groups, 1 .. N
  Unset,
  MaxVersion,   \* bound: corrections of prices
  MaxChanges,   \* bound: edits of the configuration and changes of the history
  MaxClears,    \* bound: restarts from scratch
  MaxThreads,   \* bound: threads that expand at one time
  Executions    \* bound: executions of the task

ASSUME SnapshotAssumption ==
  /\ \A o \in Outers : DOMAIN o = 1..Len(o) /\ Len(o) \in Nat \ {0}
  /\ IsFiniteSet(Window) /\ Window # {} /\ Window = 1..Cardinality(Window)
  /\ IsFiniteSet(Group) /\ Group # {} /\ Group = 1..Cardinality(Group)
  /\ {MaxVersion, MaxChanges, MaxClears, MaxThreads} \subseteq Nat
  /\ Executions \subseteq Nat

VARIABLES
  outer,      \* the stocks of the task, as the user listed them
  parallel,   \* kline_precompute_concurrency > 1
  market,     \* what the providers answer now: prices and history
  config,     \* adjust type, price range and series mode of the task
  epoch,      \* how often its data was cleared
  sources,    \* rows of t_param_task_kline_sources
  series,     \* rows of t_param_task_random_series
  taskRow,    \* Task.status and current_step
  execution,  \* where an execution is, and whether it has been told to stop
  thread,     \* the expansion of one stock of an execution
  used,       \* history: the rows a combination was executed with
  excuse,     \* history: what may make the expansion of this epoch fail
  changes     \* number of edits and changes of the history

fixed   == <<outer, parallel>>
world   == <<market, config, changes>>
tables  == <<epoch, sources, series>>
running == <<taskRow, execution, thread>>
history == <<used, excuse>>
snapshotVars == <<fixed, world, tables, running, history>>

Stocks  == UNION {{o[p] : p \in DOMAIN o} : o \in Outers}
Ranges  == {"high_low", "open_close"}
Modes   == {"per_window", "full_truncate"}
Configs == [adjust : {"qfq", "none"}, range : Ranges, mode : Modes]

KlineRows  == [prices : Nat, history : Nat]
KeptSource == [stock : Stocks, window : Int, epoch : Nat, adjust : {"qfq", "none"},
               rows : KlineRows]
KeptSeries == [stock : Stocks, window : Int, group : Int, range : Ranges, epoch : Nat,
               source : Nat, seed : [base : Int, range : Ranges, group : Int], prices : Nat]

ASSUME UnsetAssumption == Unset \notin KeptSeries

\* What a thread does, in order: the source of a window, then its groups.
Jobs == [n \in 1..(Cardinality(Window) * (Cardinality(Group) + 1)) |->
           [window |-> 1 + (n - 1) \div (Cardinality(Group) + 1),
            group  |-> (n - 1) % (Cardinality(Group) + 1)]]

NewThread == [at |-> "fetch", k |-> 1, rows |-> Unset, source |-> Unset,
              kept |-> [w \in Window |-> [g \in Group |-> Unset]]]
NoThreads == [p \in DOMAIN outer |-> NewThread]

SnapshotTypeOK ==
  /\ outer \in Outers /\ parallel \in BOOLEAN
  /\ config \in Configs
  /\ epoch \in 0..MaxClears
  /\ sources \subseteq KeptSource /\ series \subseteq KeptSeries
  /\ \A s \in sources : s.window \in Window /\ s.epoch = epoch
  /\ \A s \in series : s.window \in Window /\ s.group \in Group
  /\ taskRow.status \in {"pending", "running", "error", "completed"}
  /\ taskRow.step \in 0..(Len(outer) * Cardinality(Window) * Cardinality(Group))
  /\ \A e \in Executions :
       execution[e].phase \in {"none", "expand", "execute", "ended"}

SnapshotInit ==
  /\ outer \in Outers /\ parallel \in BOOLEAN /\ (parallel => Len(outer) > 1)
  /\ market = [s \in Stocks |-> [prices |-> 0, history |-> 0]]
  /\ config \in [adjust : {"qfq"}, range : {"high_low"}, mode : Modes]
  /\ epoch = 0 /\ sources = {} /\ series = {}
  /\ taskRow = [status |-> "pending", step |-> 0]
  /\ execution = [e \in Executions |-> [phase |-> "none", told |-> FALSE, n |-> 0, config |-> config]]
  /\ thread = [e \in Executions |-> NoThreads]
  /\ changes = 0
  /\ used = {}
  /\ excuse = {}

-----------------------------------------------------------------------------
(* One stock of the expansion (_expand_random_price_groups).                *)

StockOf(p)  == outer[p]
NextJob(e, p)   == Jobs[thread[e][p].k]
Alone(e, p) == parallel \/ \A q \in 1..(p - 1) : thread[e][q].at = "done"
Working(e, p, at) ==
  execution[e].phase = "expand" /\ thread[e][p].at = at /\ Alone(e, p)

Moves(e, p, t) == thread' = [thread EXCEPT ![e][p] = t]
Fails(e, p) == Moves(e, p, [thread[e][p] EXCEPT !.at = "failed"])

\* After a job: the next one, or the end.
Advanced(t) ==
  IF t.k = Len(Jobs) THEN [t EXCEPT !.at = "done"]
                     ELSE [t EXCEPT !.at = "read", !.k = @ + 1]

Fetch(e, p) ==
  /\ Working(e, p, "fetch")
  /\ Moves(e, p, [thread[e][p] EXCEPT !.at = "read", !.rows = market[StockOf(p)]])
  /\ UNCHANGED <<fixed, world, tables, taskRow, execution, history>>

Config(e)            == execution[e].config
SourcesAt(p, w)      == {s \in sources : s.stock = StockOf(p) /\ s.window = w}
SeriesAt(e, p, w, g) == {s \in series : /\ s.stock = StockOf(p) /\ s.window = w
                                        /\ s.group = g /\ s.range = Config(e).range}

\* The seed of a group: of the whole range, or of the window.
SeedOf(c, w, g) ==
  [base |-> IF c.mode = "full_truncate" THEN 0 ELSE w, range |-> c.range, group |-> g]

\* A kept source serves as long as adjust type, dates and number of rows agree;
\* its prices are not compared with those of the market.
AnyMismatch(s, c, rows) == s.adjust # c.adjust \/ s.rows # rows
SourceMismatch(s, c, rows) == s.adjust # c.adjust \/ s.rows.history # rows.history
SeriesMismatch(s, c, t, j) ==
  s.source # t.source.epoch \/ s.seed # SeedOf(c, j.window, j.group)

\* get_or_create_source, get_or_create_series: look first.
ReadSource(e, p) ==
  /\ Working(e, p, "read") /\ NextJob(e, p).group = 0
  /\ LET t == thread[e][p] found == SourcesAt(p, NextJob(e, p).window) IN
       \/ /\ found = {}
          /\ Moves(e, p, [t EXCEPT !.at = "insert"])
       \/ \E s \in found :
            IF SourceMismatch(s, Config(e), t.rows) THEN Fails(e, p)
            ELSE Moves(e, p, Advanced([t EXCEPT !.source = s]))
  /\ UNCHANGED <<fixed, world, tables, taskRow, execution, history>>

ReadSeries(e, p) ==
  /\ Working(e, p, "read") /\ NextJob(e, p).group # 0
  /\ LET t == thread[e][p]
         j == NextJob(e, p)
         found == SeriesAt(e, p, j.window, j.group) IN
       \/ /\ found = {}
          /\ Moves(e, p, [t EXCEPT !.at = "insert"])
       \/ \E s \in found :
            IF SeriesMismatch(s, Config(e), t, j) THEN Fails(e, p)
            ELSE Moves(e, p, Advanced([t EXCEPT !.kept[j.window][j.group] = s]))
  /\ UNCHANGED <<fixed, world, tables, taskRow, execution, history>>

\* create_source and create_series: one row per key, whoever comes second fails.
InsertSource(e, p) ==
  /\ Working(e, p, "insert") /\ NextJob(e, p).group = 0
  /\ LET t == thread[e][p]
         new == [stock |-> StockOf(p), window |-> NextJob(e, p).window, epoch |-> epoch,
                 adjust |-> Config(e).adjust, rows |-> t.rows] IN
       IF SourcesAt(p, new.window) # {}
       THEN Fails(e, p) /\ UNCHANGED sources
       ELSE /\ sources' = sources \cup {new}
            /\ Moves(e, p, Advanced([t EXCEPT !.source = new]))
  /\ UNCHANGED <<fixed, world, epoch, series, taskRow, execution, history>>

\* The sequence is drawn from the rows that were fetched, not from the source.
InsertSeries(e, p) ==
  /\ Working(e, p, "insert") /\ NextJob(e, p).group # 0
  /\ LET t == thread[e][p]
         j == NextJob(e, p)
         new == [stock |-> StockOf(p), window |-> j.window, group |-> j.group,
                 range |-> Config(e).range, epoch |-> epoch, source |-> t.source.epoch,
                 seed |-> SeedOf(Config(e), j.window, j.group), prices |-> t.rows.prices] IN
       IF SeriesAt(e, p, j.window, j.group) # {}
       THEN Fails(e, p) /\ UNCHANGED series
       ELSE /\ series' = series \cup {new}
            /\ Moves(e, p, Advanced([t EXCEPT !.kept[j.window][j.group] = new]))
  /\ UNCHANGED <<fixed, world, epoch, sources, taskRow, execution, history>>

-----------------------------------------------------------------------------
(* An execution.                                                            *)

Active(e)     == execution[e].phase \in {"expand", "execute"}
Stopped(e)    == execution[e].told
PlanLength    == Len(outer) * Cardinality(Window) * Cardinality(Group)
\* Its threads and their maps are gone.
Ends(e) ==
  /\ execution' = [execution EXCEPT ![e] = [@ EXCEPT !.phase = "ended", !.n = 0]]
  /\ thread' = [thread EXCEPT ![e] = NoThreads]
EndsAs(e, s) == taskRow' = IF Stopped(e) THEN taskRow ELSE [taskRow EXCEPT !.status = s]

\* The combination at an index: stock by stock, window by window.
Combination(n) ==
  [p |-> 1 + (n - 1) \div (Cardinality(Window) * Cardinality(Group)),
   w |-> 1 + (((n - 1) \div Cardinality(Group)) % Cardinality(Window)),
   g |-> 1 + ((n - 1) % Cardinality(Group))]

BeginExecution(e) ==
  /\ taskRow.status = "pending"
  /\ execution[e].phase = "none"
  /\ \A d \in Executions : d < e => execution[d].phase # "none"
  /\ Len(outer) * (1 + Cardinality({d \in Executions : Active(d)})) <= MaxThreads
  /\ taskRow' = [taskRow EXCEPT !.status = "running"]
  /\ execution' = [execution EXCEPT ![e].phase = "expand", ![e].config = config]
  /\ excuse' = excuse \cup (IF \E d \in Executions : Active(d) THEN {"overlap"} ELSE {})
  /\ UNCHANGED <<fixed, world, tables, thread, used>>

\* _expand_all_outer_parameters waits for all its threads; the first that
\* failed decides. A serial expansion ends with it.
Expanded(e) ==
  /\ execution[e].phase = "expand"
  /\ \A p \in DOMAIN outer : thread[e][p].at = "done"
  /\ execution' = [execution EXCEPT ![e].phase = "execute", ![e].n = taskRow.step]
  /\ UNCHANGED <<fixed, world, tables, taskRow, thread, history>>

ExpansionFails(e) ==
  /\ execution[e].phase = "expand"
  /\ \E p \in DOMAIN outer : thread[e][p].at = "failed"
  /\ parallel => \A p \in DOMAIN outer : thread[e][p].at \in {"done", "failed"}
  /\ Ends(e)
  /\ EndsAs(e, "error")
  /\ UNCHANGED <<fixed, world, tables, history>>

\* materialize_series_rows: source and series are read again by their ids.
RowsNow(c, s) ==
  [source |-> market[StockOf(c.p)], prices |-> market[StockOf(c.p)].prices, seed |-> s.seed]
RowsUsed(c, s) ==
  [source |-> (CHOOSE o \in SourcesAt(c.p, c.w) : TRUE).rows, prices |-> s.prices,
   seed |-> s.seed]
Materializes(c, s) ==
  /\ s \in series
  /\ \E o \in SourcesAt(c.p, c.w) : o.epoch = s.source

ExecuteCombination(e) ==
  /\ execution[e].phase = "execute" /\ ~Stopped(e)
  /\ execution[e].n < PlanLength
  /\ LET c == Combination(execution[e].n + 1)
         s == thread[e][c.p].kept[c.w][c.g] IN
       IF Materializes(c, s)
       THEN /\ used' = used \cup {[stock |-> StockOf(c.p), window |-> c.w, series |-> s,
                                   rows |-> RowsUsed(c, s)]}
            /\ execution' = [execution EXCEPT ![e].n = @ + 1]
            /\ taskRow' = [taskRow EXCEPT !.step = execution[e].n + 1]
            /\ UNCHANGED thread
       ELSE Ends(e) /\ EndsAs(e, "error") /\ UNCHANGED used
  /\ UNCHANGED <<fixed, world, tables, excuse>>

\* All combinations done, or told to stop.
ExecutionEnds(e) ==
  /\ execution[e].phase = "execute"
  /\ Stopped(e) \/ execution[e].n = PlanLength
  /\ Ends(e)
  /\ EndsAs(e, "completed")
  /\ UNCHANGED <<fixed, world, tables, history>>

-----------------------------------------------------------------------------
(* Everything else.                                                         *)

\* The provider corrects its prices, or offers another stretch of history.
Reprice(s) ==
  /\ market[s].prices < MaxVersion
  /\ market' = [market EXCEPT ![s].prices = @ + 1]
  /\ UNCHANGED <<fixed, config, changes, tables, running, history>>

OtherHistory(s) ==
  /\ market[s].history = 0 /\ changes < MaxChanges
  /\ \A e \in Executions : ~Active(e)
  /\ changes' = changes + 1
  /\ market' = [market EXCEPT ![s].history = 1]
  /\ excuse' = excuse \cup {"history"}
  /\ UNCHANGED <<fixed, config, tables, running, used>>

\* The process dies; boot queues the task again.
CrashExecution ==
  /\ \E e \in Executions : Active(e)
  /\ \E e \in Executions : execution[e].phase = "none"
  /\ execution' = [e \in Executions |->
                     IF Active(e) THEN [execution[e] EXCEPT !.phase = "ended", !.n = 0]
                                  ELSE execution[e]]
  /\ thread' = [e \in Executions |-> NoThreads]
  /\ taskRow' = [taskRow EXCEPT !.status = IF @ = "running" THEN "pending" ELSE @]
  /\ UNCHANGED <<fixed, world, tables, history>>

\* restart_task from the checkpoint.
ResumeTask ==
  /\ taskRow.status \in {"error", "completed"}
  /\ \E e \in Executions : execution[e].phase = "none"
  /\ taskRow' = [taskRow EXCEPT !.status = "pending"]
  /\ UNCHANGED <<fixed, world, tables, execution, thread, history>>

\* restart_task from scratch, of a running task as well: its execution is told,
\* and not waited for longer than three seconds. An expansion does not look.
RestartFromScratch ==
  /\ taskRow.status # "pending" /\ epoch < MaxClears
  /\ \E e \in Executions : execution[e].phase = "none"
  /\ epoch' = epoch + 1
  /\ sources' = {} /\ series' = {}
  /\ taskRow' = [status |-> "pending", step |-> 0]
  /\ execution' = [e \in Executions |->
                     IF Active(e) THEN [execution[e] EXCEPT !.told = TRUE] ELSE execution[e]]
  /\ excuse' = IF \E e \in Executions : Active(e) THEN {"overlap"} ELSE {}
  /\ UNCHANGED <<fixed, world, thread, used>>

\* update_task_config, of a task that does not run.
EditConfig(c) ==
  /\ taskRow.status # "running" /\ changes < MaxChanges
  /\ c # config /\ Cardinality({f \in DOMAIN c : c[f] # config[f]}) = 1
  /\ changes' = changes + 1
  /\ config' = c
  /\ excuse' = excuse \cup {"edited"}
  /\ UNCHANGED <<fixed, market, tables, running, used>>

ThreadStep(e, p) ==
  Fetch(e, p) \/ ReadSource(e, p) \/ ReadSeries(e, p) \/ InsertSource(e, p) \/ InsertSeries(e, p)

ExecutionStep(e) ==
  \/ \E p \in DOMAIN outer : ThreadStep(e, p)
  \/ Expanded(e) \/ ExpansionFails(e) \/ ExecuteCombination(e) \/ ExecutionEnds(e)

SnapshotNext ==
  \/ \E e \in Executions : BeginExecution(e) \/ ExecutionStep(e)
  \/ \E s \in Stocks : Reprice(s) \/ OtherHistory(s)
  \/ CrashExecution \/ ResumeTask \/ RestartFromScratch
  \/ \E c \in Configs : EditConfig(c)

SnapshotSpec == SnapshotInit /\ [][SnapshotNext]_snapshotVars

-----------------------------------------------------------------------------
(* Properties. *)

\* A combination is executed with the same rows in every execution of the task,
\* until its data is cleared: no correction of prices, crash, race of two threads
\* or restart makes a resumed task draw or read other ones.
RowsRepeat ==
  \A x, y \in used :
    /\ x.stock = y.stock /\ x.window = y.window
    /\ x.series.epoch = y.series.epoch
    /\ x.series.group = y.series.group /\ x.series.range = y.series.range
    => x.rows = y.rows

\* An expansion fails for a reason: the history or the configuration is another
\* than the snapshots were taken of, an execution that was restarted from scratch
\* is still expanding, or one stock is listed twice and expanded in parallel.
\* Corrected prices, a crash half way and a resumption are none.
FailureExplained ==
  \A e \in Executions : \A p \in DOMAIN outer :
    thread[e][p].at = "failed"
    => excuse # {} \/ (parallel /\ \E q \in DOMAIN outer \ {p} : outer[q] = outer[p])
=============================================================================
