---------------------------- MODULE BatchEngine ----------------------------
(***************************************************************************)
(* The batch engines behind execute_task (app/services/google_sheet_tasks  *)
(* and the backtest services): a loop over the combinations of a task that *)
(* writes the inputs of one combination into a spreadsheet, polls until    *)
(* the spreadsheet shows the result, pushes it, moves the checkpoint       *)
(* (Task.current_step) and saves a TaskResult row. A restarted task        *)
(* continues from the checkpoint.                                          *)
(*                                                                         *)
(* The spreadsheet is somebody else's program: it computes its output      *)
(* cells from its input cells at a moment of its own choosing, so what an  *)
(* engine reads may still be the result of earlier inputs. The engines     *)
(* differ in how they tell the two apart, in the order of push, checkpoint *)
(* and row, and in how they find the combination to resume from.           *)
(***************************************************************************)
EXTENDS Naturals, Sequences, FiniteSets

CONSTANTS
  Engine,        \* the engines of this run, see Engines
  Sheet,         \* spreadsheets
  PlanOf,        \* the combinations of a task of an engine, in order
  None,          \* an empty range, no combination, no result
  Leftover,      \* input of the previous user of a spreadsheet
  CustomKline,   \* K-line the user has put into the spreadsheet
  PassesCheck,   \* pairs of parameters that the echo check takes for the same
  LookAlike,     \* parameters whose results show the same figures
  Collapsing,    \* parameters that lose 90% a year or more
  Fixed,         \* stocks that are fixed products of a multi-product batch
  PollLimit,     \* POLL_ATTEMPT_LIMIT
  RefreshAt,     \* sheet_refresh_attempts
  KlineRefresh,  \* the attempt from which C3 rewrites its K-line as well
  RetryLimit,    \* stop_after_attempt of the engines that retry a combination
  MaxRuns,       \* bound: executions of the task
  Faults         \* what may go wrong in this run, see FaultKinds

Engines == {"c3", "c4", "c5", "c7", "c1_1", "training", "multi"}
FaultKinds == {"commit", "save", "push", "crash", "cancel", "cleanup", "scratch"}

\* A combination: what has to be written, and where.
IsCombination(c) ==
  /\ DOMAIN c = {"stock", "key", "param", "sheets"}
  /\ c.sheets \subseteq Sheet /\ c.sheets # {}

ASSUME BatchAssumption ==
  /\ Engine \subseteq Engines
  /\ \A e \in Engine : \A n \in DOMAIN PlanOf[e] : IsCombination(PlanOf[e][n])
  /\ \A e \in Engine : /\ Len(PlanOf[e]) \in Nat \ {0}
                       /\ DOMAIN PlanOf[e] = 1..Len(PlanOf[e])
  /\ {PollLimit, RetryLimit, MaxRuns} \subseteq Nat \ {0}
  /\ RefreshAt \subseteq 1..(PollLimit - 1)
  /\ Faults \subseteq FaultKinds

\* A C3 task has one K-line, a training task one stock, and in a multi-product
\* task a product has one window; no combination asks for an empty range.
ASSUME PlanAssumption ==
  \A e \in Engine : \A m, n \in DOMAIN PlanOf[e] :
    LET b == PlanOf[e][m]
        c == PlanOf[e][n]
    IN /\ e \in {"c3", "training"} => b.stock = c.stock
       /\ e = "c3" => b.key = c.key
       /\ e = "multi" /\ b.stock = c.stock => b.key = c.key
       /\ None \notin {b, b.param, <<b.stock, b.key>>}

\* There is a refresh before the last attempt, the echo of a parameter passes
\* the check, and figures are not an empty range.
ASSUME RefreshAssumption ==
  /\ RefreshAt # {}
  /\ \A e \in Engine : \A n \in DOMAIN PlanOf[e] :
       LET c == PlanOf[e][n]
       IN /\ <<c.param, c.param>> \in PassesCheck
          /\ \A f \in {"alike", c.param} :
               None # [kline |-> <<c.stock, c.key>>, figure |-> f]

VARIABLES
  \* the task and its environment, fixed when the task is created
  job,        \* engine, custom (the K-line stays), prompt (the sheet keeps up)
  \* the database
  status,     \* Task.status
  step,       \* Task.current_step: combinations done, or begun
  rows,       \* TaskResult rows: step, execution that saved it, inputs it shows
  shared,     \* BacktestProductCache: results of fixed products in this batch
  \* the stock parameter service
  pushed,     \* step and execution of every result it has received
  \* the spreadsheets
  input,      \* contents of the input cells
  output,     \* inputs the output cells were last computed from
  \* one execution of the task
  run,        \* its number
  pc, i,      \* where it is, combinations passed
  cache,      \* cache_parameters: last successful combination, per sheet
  snap,       \* initial_results: what the outputs showed before the inputs changed
  attempt, tries,
  result,     \* the result in hand
  \* bookkeeping of the model
  timedOut,   \* a combination was given up
  notified,   \* executions that sent the completion notification
  gaps,       \* steps whose execution ended between checkpoint and row
  cleaned     \* old rows have been deleted

dbVars    == <<status, step, rows, shared>>
sheetVars == <<input, output>>
execVars  == <<run, pc, i, cache, snap, attempt, tries, result>>
ghostVars == <<timedOut, notified, gaps, cleaned>>
vars == <<job, dbVars, pushed, sheetVars, execVars, ghostVars>>

-----------------------------------------------------------------------------
Plan   == PlanOf[job.engine]
Total  == Len(Plan)
InUse  == UNION {Plan[n].sheets : n \in 1..Total}
Combo  == Plan[i + 1]
PushFirst   == {"c5", "c7", "c1_1"}           \* push, checkpoint, row
CommitFirst == {"c3", "c4"}                   \* checkpoint, row, push
BeginFirst  == {"training", "multi"}          \* checkpoint, execution, row
Retrying    == {"c3", "c4", "training", "multi"}

Kline(c) == IF job.custom THEN CustomKline ELSE <<c.stock, c.key>>
Wanted(c) == [kline |-> Kline(c), param |-> c.param]

\* What the output cells show: errors or blanks while an input is missing.
Blank(in) == in.kline = None \/ in.param = None
Shown(in) ==
  IF Blank(in) THEN None
  ELSE [kline |-> in.kline,
        figure |-> IF in.param \in LookAlike THEN "alike" ELSE in.param]

Pc == {"idle", "clear", "settle", "next", "begin", "set", "reset", "refresh", "snapshot",
       "write", "rewrite", "resnapshot", "poll", "push", "commit", "save", "share", "reuse"}

TypeOK ==
  /\ job \in [engine : Engine, custom : BOOLEAN, prompt : BOOLEAN]
  /\ status \in {"pending", "running", "completed", "error", "cancelled"}
  /\ step \in 0..Total
  /\ \A r \in rows : r.step \in 1..Total /\ r.run \in 1..run
  /\ pushed \subseteq (1..Total) \X (1..MaxRuns)
  /\ DOMAIN input = Sheet /\ DOMAIN output = Sheet
  /\ run \in 0..MaxRuns
  /\ pc \in Pc /\ i \in 0..Total
  /\ attempt \in 0..PollLimit /\ tries \in 0..RetryLimit
  /\ timedOut \in BOOLEAN /\ cleaned \in BOOLEAN
  /\ notified \subseteq 1..MaxRuns
  /\ gaps \subseteq 1..Total

\* A task that keeps the user's K-line: custom C5, C7, C1.1, and C3 without a stock.
MayBeCustom == {"c3", "c5", "c7", "c1_1"}

Init ==
  /\ job \in [engine : Engine, custom : BOOLEAN, prompt : BOOLEAN]
  /\ job.custom => job.engine \in MayBeCustom
  /\ status = "pending" /\ step = 0
  /\ rows = {} /\ pushed = {} /\ shared = {}
  /\ input = [s \in Sheet |->
                [kline |-> IF job.custom THEN CustomKline ELSE Leftover.kline,
                 param |-> Leftover.param]]
  /\ output = input
  /\ run = 0 /\ pc = "idle" /\ i = 0
  /\ cache = [s \in Sheet |-> None] /\ snap = [s \in Sheet |-> None]
  /\ attempt = 0 /\ tries = 0 /\ result = None
  /\ timedOut = FALSE /\ notified = {} /\ gaps = {} /\ cleaned = FALSE

-----------------------------------------------------------------------------
(* The spreadsheets. *)

\* The model in the spreadsheet recalculates.
Recalculate(s) ==
  /\ output[s] # input[s]
  /\ output' = [output EXCEPT ![s] = input[s]]
  /\ UNCHANGED <<job, dbVars, pushed, input, execVars, ghostVars>>

\* A wait is long enough for a prompt spreadsheet.
Waited == job.prompt => \A s \in InUse : output[s] = input[s]

\* The input columns a clear empties: C1.1 has no cells but those columns.
Cleared(in) ==
  [kline |-> None, param |-> IF job.engine = "c1_1" THEN None ELSE in.param]
ClearKline(S) == input' = [s \in Sheet |-> IF s \in S THEN Cleared(input[s]) ELSE input[s]]
ClearParams(S) ==
  input' = [s \in Sheet |-> IF s \in S THEN [kline |-> input[s].kline, param |-> None]
                                       ELSE input[s]]

-----------------------------------------------------------------------------
(* The end of an execution, as the runtime records it. *)

\* A cancelled row stays cancelled whatever execute_task returns.
End(verdict) ==
  /\ pc' = "idle"
  /\ status' = IF status = "cancelled" THEN status ELSE verdict
  /\ UNCHANGED <<step, rows, shared>>

Fail == End("error")

\* execute_task after get_bdl: refresh the summary index, notify, report.
Finish ==
  /\ notified' = notified \cup {run}
  /\ End("completed")

-----------------------------------------------------------------------------
(* Where an execution starts. *)

\* C4: the last combination is executed again.
ResumeAtCheckpoint == IF step >= 1 THEN step - 1 ELSE 0
\* The others: current_step combinations are done (_get_resume_start_index).
ResumeAfterCheckpoint == IF step > Total THEN Total ELSE step

SavedSteps == {r.step : r \in rows}

\* _resolve_resume_start_index: the first combination without a row.
ResumeAtFirstMissing ==
  IF rows = {} THEN ResumeAtCheckpoint
  ELSE (CHOOSE n \in 1..(Total + 1) :
          /\ n \notin SavedSteps
          /\ \A m \in 1..(n - 1) : m \in SavedSteps) - 1

StartIndex ==
  IF job.engine = "c4" THEN ResumeAtCheckpoint
  ELSE IF job.engine \in BeginFirst THEN ResumeAtFirstMissing
  ELSE ResumeAfterCheckpoint

Begin ==
  /\ pc = "idle" /\ status = "pending" /\ run < MaxRuns
  /\ run' = run + 1
  /\ status' = "running"
  /\ i' = StartIndex
  /\ cache' = [s \in Sheet |-> None]
  /\ snap' = [s \in Sheet |-> None]
  /\ result' = None /\ attempt' = 0 /\ tries' = 0
  /\ pc' = IF job.custom \/ job.engine = "multi" THEN "next" ELSE "clear"
  /\ UNCHANGED <<job, step, rows, shared, pushed, sheetVars, ghostVars>>

\* All input columns are emptied before the first combination ...
ClearColumns ==
  /\ pc = "clear"
  /\ ClearKline(InUse)
  /\ pc' = "settle"
  /\ UNCHANGED <<job, dbVars, pushed, output, run, i, cache, snap, attempt, tries,
                 result, ghostVars>>

\* ... and the spreadsheets get sheet_settle_seconds to notice. C3 then writes
\* the one K-line of its task.
Settle ==
  /\ pc = "settle" /\ status = "running" /\ Waited
  /\ pc' = "next"
  /\ input' = IF job.engine = "c3"
              THEN [s \in Sheet |-> IF s \in InUse
                                    THEN [kline |-> Kline(Plan[1]), param |-> input[s].param]
                                    ELSE input[s]]
              ELSE input
  /\ UNCHANGED <<job, dbVars, pushed, output, run, i, cache, snap, attempt, tries,
                 result, ghostVars>>

-----------------------------------------------------------------------------
(* The loop of get_bdl. *)

\* The stop event or the row says so, before a combination or during a wait.
\* After the last combination nobody asks any more.
CancelSeen ==
  /\ status = "cancelled"
  /\ \/ pc = "settle"
     \/ pc = "next" /\ (i < Total \/ (result = None /\ job.engine # "c3"))
  /\ End("cancelled")
  /\ UNCHANGED <<job, pushed, sheetVars, run, i, cache, snap, attempt, tries, result,
                 ghostVars>>

\* "task cancelled" raised inside the combination: C3 leaves its loop as if it
\* had finished; the others do not report completion.
InterruptedAsDone == Finish
Interrupted ==
  IF job.engine = "c3" THEN Finish ELSE End("cancelled") /\ UNCHANGED notified

CancelInterrupts ==
  /\ status = "cancelled"
  /\ pc \in {"poll", "refresh", "resnapshot"}
  /\ Interrupted
  /\ UNCHANGED <<job, pushed, sheetVars, run, i, cache, snap, attempt, tries, result,
                 timedOut, gaps, cleaned>>

\* _get_fixed_product_cache
CachedResult(c) == {e \in shared : e.stock = c.stock /\ e.param = c.param}
Reusable ==
  /\ job.engine = "multi" /\ Combo.stock \in Fixed
  /\ CachedResult(Combo) # {}

NextCombination ==
  /\ pc = "next" /\ status = "running" /\ i < Total
  /\ result' = IF Reusable THEN (CHOOSE e \in CachedResult(Combo) : TRUE).seen ELSE None
  /\ pc' = IF job.engine \in BeginFirst THEN "begin" ELSE "set"
  /\ attempt' = 0 /\ tries' = 0
  /\ UNCHANGED <<job, dbVars, pushed, sheetVars, run, i, cache, snap, ghostVars>>

LoopEnds ==
  /\ pc = "next" /\ i = Total
  /\ Finish
  /\ UNCHANGED <<job, pushed, sheetVars, run, i, cache, snap, attempt, tries, result,
                 timedOut, gaps, cleaned>>

\* training and multi move the checkpoint before they execute the combination
\* (_update_task_progress).
MarkBegun ==
  /\ pc = "begin"
  /\ step' = i + 1
  /\ pc' = IF result # None THEN "reuse" ELSE "set"
  /\ UNCHANGED <<job, status, rows, shared, pushed, sheetVars, run, i, cache, snap,
                 attempt, tries, result, ghostVars>>

-----------------------------------------------------------------------------
(* One combination: set_googl_val and the polling of its result. *)

\* Which sheets get a new K-line. C5 and training compare the window only.
ChangedWindow(s) == cache[s] = None \/ cache[s].key # Combo.key
ChangedStock(s)  == ChangedWindow(s) \/ cache[s].stock # Combo.stock
KlineChanged(s) ==
  /\ ~job.custom /\ job.engine # "c3"
  /\ \/ job.engine = "c4"
     \/ job.engine \in {"c5", "training"} /\ ChangedWindow(s)
     \/ job.engine \in {"c7", "c1_1", "multi"} /\ ChangedStock(s)

\* The clear of set_googl_val; the backtest engines wait after it.
SetInputs ==
  /\ pc = "set"
  /\ LET changed == {s \in Combo.sheets : KlineChanged(s)} IN
       /\ ClearKline(changed)
       /\ pc' = IF job.engine \in {"c3", "c4"} THEN "write"
                ELSE IF job.engine \in BeginFirst /\ changed # {} THEN "refresh"
                ELSE "snapshot"
  /\ UNCHANGED <<job, dbVars, pushed, output, run, i, cache, snap, attempt, tries,
                 result, ghostVars>>

\* refresh_fn before a check, against a model that hangs: everything is cleared
\* and written again after sheet_settle_seconds. A custom K-line stays.
NoClearForRefresh == UNCHANGED input
ClearForRefresh ==
  IF job.engine = "c3" THEN ClearParams(Combo.sheets)
  ELSE IF job.custom THEN UNCHANGED input
  ELSE ClearKline(Combo.sheets)

RefreshInputs ==
  /\ pc = "reset"
  /\ ~(job.engine = "c3" /\ job.custom /\ attempt >= KlineRefresh)
  /\ ClearForRefresh
  /\ pc' = "refresh"
  /\ UNCHANGED <<job, dbVars, pushed, output, run, i, cache, snap, attempt, tries,
                 result, ghostVars>>

\* C3 without a stock has no klines_map and no config_data to rewrite from.
RefreshBreaks ==
  /\ pc = "reset"
  /\ job.engine = "c3" /\ job.custom /\ attempt >= KlineRefresh
  /\ Fail
  /\ UNCHANGED <<job, pushed, sheetVars, run, i, cache, snap, attempt, tries, result,
                 ghostVars>>

RefreshSettled ==
  /\ pc = "refresh" /\ status = "running" /\ Waited
  /\ pc' = IF job.engine = "c3" THEN "write" ELSE "snapshot"
  /\ UNCHANGED <<job, dbVars, pushed, sheetVars, run, i, cache, snap, attempt, tries,
                 result, ghostVars>>

SnapOutputs ==
  snap' = [s \in Sheet |-> IF s \in Combo.sheets THEN Shown(output[s]) ELSE snap[s]]

\* The outputs before the inputs change; C4 takes them after its write.
Snapshot ==
  /\ pc = "snapshot"
  /\ SnapOutputs
  /\ pc' = IF job.engine = "c4" THEN "poll" ELSE "write"
  /\ UNCHANGED <<job, dbVars, pushed, sheetVars, run, i, cache, attempt, tries, result,
                 ghostVars>>

\* update_jumped_cells: one batch update per sheet.
Updated(s) ==
  IF s \in Combo.sheets
  THEN [kline |-> IF job.engine # "c3" /\ (KlineChanged(s) \/ input[s].kline = None)
                  THEN Kline(Combo) ELSE input[s].kline,
        param |-> Combo.param]
  ELSE input[s]

Write ==
  /\ pc \in {"write", "rewrite"}
  /\ input' = [s \in Sheet |-> Updated(s)]
  /\ pc' = IF pc = "rewrite" THEN "resnapshot"
           ELSE IF job.engine = "c4" THEN "snapshot" ELSE "poll"
  /\ UNCHANGED <<job, dbVars, pushed, output, run, i, cache, snap, attempt, tries,
                 result, ghostVars>>

\* post_attempt_fn of C4: the same inputs again, 30 seconds, a new snapshot.
Resnapshot ==
  /\ pc = "resnapshot" /\ status = "running" /\ Waited
  /\ SnapOutputs
  /\ pc' = "poll"
  /\ UNCHANGED <<job, dbVars, pushed, sheetVars, run, i, cache, attempt, tries, result,
                 ghostVars>>

\* What an engine takes for the result of its combination.
Echoed(s)  == <<output[s].param, Combo.param>> \in PassesCheck
Moved(s)   == Shown(output[s]) # snap[s]

AcceptC3(s) == Echoed(s)
AcceptC4(s) == ~Blank(output[s]) /\ Moved(s)
AcceptC5(s) == Echoed(s) /\ Moved(s)
AcceptEcho(s) == Echoed(s)
\* The C7.0.3 layout skips the echo check of the older ones.
AcceptC7(s) == Moved(s)
\* A strategy that has lost almost everything is not compared with anything.
AcceptC11(s) == output[s].param \in Collapsing \/ Moved(s)
AcceptBacktest(s) == Moved(s)

\* _validate_check_values, of the cells that are read first. C5, C7 and the
\* backtest engines do not ask whether they are blank.
Accept(s) ==
  CASE job.engine = "c3"   -> AcceptC3(s)
    [] job.engine = "c4"   -> AcceptC4(s)
    [] job.engine = "c5"   -> AcceptC5(s)
    [] job.engine = "c7"   -> AcceptC7(s)
    [] job.engine = "c1_1" -> AcceptC11(s)
    [] OTHER               -> AcceptBacktest(s)

\* The head of a result are its summary figures: of the cells that are judged,
\* but with C3, which judges the echo only and reads the figures afterwards. The
\* series of returns is read last, and C1.1 reads everything at once. The
\* spreadsheet may recalculate between two reads.
Seen(in) == IF Blank(in) THEN None ELSE in
Lagging == {s \in Combo.sheets : output[s] # input[s]}
Reading(S) == [s \in Sheet |-> IF s \in S THEN input[s] ELSE output[s]]
MayLagBeforeHead(S)   == S # {} => job.engine = "c3"
MayLagBeforeSeries(S) == S # {} => job.engine # "c1_1"
ResultOf(head, series) ==
  [s \in Combo.sheets |-> [head |-> Seen(head[s]), series |-> series[s]]]

CacheAfter ==
  IF job.engine \in {"c3", "c4"} THEN cache
  ELSE [s \in Sheet |-> IF s \in Combo.sheets THEN Combo ELSE cache[s]]

\* What comes first once there is a result.
FirstDuty ==
  IF job.engine \in PushFirst THEN "push"
  ELSE IF job.engine \in CommitFirst THEN "commit" ELSE "save"

\* The sheets in early recalculate before the figures are read, those in late
\* before the series. C3 checks its figures for blanks, every engine its series.
PollAccepts ==
  /\ pc = "poll" /\ status = "running" /\ Waited
  /\ \A s \in Combo.sheets : Accept(s)
  /\ \E late \in SUBSET Lagging : \E early \in SUBSET late :
       /\ MayLagBeforeHead(early) /\ MayLagBeforeSeries(late)
       /\ \A s \in Combo.sheets :
            /\ ~Blank(Reading(late)[s])
            /\ job.engine = "c3" => ~Blank(Reading(early)[s])
       /\ result' = ResultOf(Reading(early), Reading(late))
       /\ output' = Reading(late)
  /\ cache' = IF job.engine = "multi" THEN cache ELSE CacheAfter
  /\ pc' = FirstDuty
  /\ UNCHANGED <<job, dbVars, pushed, input, run, i, snap, attempt, tries, ghostVars>>

PollRejects ==
  /\ pc = "poll" /\ status = "running" /\ Waited
  /\ \E s \in Combo.sheets : ~Accept(s) \/ Blank(output[s])

\* Not yet: look again, after a refresh when its turn has come.
PollAgain ==
  /\ PollRejects
  /\ attempt + 1 < PollLimit
  /\ attempt' = attempt + 1
  /\ pc' = IF job.engine = "c4"
           THEN IF attempt \in RefreshAt THEN "rewrite" ELSE "poll"
           ELSE IF attempt + 1 \in RefreshAt THEN "reset" ELSE "poll"
  /\ UNCHANGED <<job, dbVars, pushed, sheetVars, run, i, cache, snap, tries, result,
                 ghostVars>>

\* @retry: the combination is executed again from the start.
UncountedTry == UNCHANGED tries
CountTry == tries' = tries + 1

Retry ==
  /\ PollRejects
  /\ attempt + 1 = PollLimit
  /\ job.engine \in Retrying /\ tries + 1 < RetryLimit
  /\ CountTry
  /\ attempt' = 0
  /\ pc' = "set"
  /\ UNCHANGED <<job, dbVars, pushed, sheetVars, run, i, cache, snap, result, ghostVars>>

TimeOut ==
  /\ PollRejects
  /\ attempt + 1 = PollLimit
  /\ job.engine \in Retrying => tries + 1 = RetryLimit
  /\ Fail
  /\ timedOut' = TRUE
  /\ UNCHANGED <<job, pushed, sheetVars, run, i, cache, snap, attempt, tries, result,
                 notified, gaps, cleaned>>

-----------------------------------------------------------------------------
(* What happens to the result. *)

\* After the row, or after the push of an engine that pushes last.
Proceed == i' = i + 1 /\ pc' = "next"

\* send_stock_param_result_data, up to three attempts.
Push ==
  /\ pc = "push"
  /\ pushed' = pushed \cup {<<i + 1, run>>}
  /\ IF job.engine \in PushFirst THEN pc' = "commit" /\ UNCHANGED i ELSE Proceed
  /\ UNCHANGED <<job, dbVars, sheetVars, run, cache, snap, attempt, tries, result, ghostVars>>

CheckpointAhead == step' = i + 2
Checkpoint == step' = i + 1

Commit ==
  /\ pc = "commit"
  /\ Checkpoint
  /\ pc' = "save"
  /\ UNCHANGED <<job, status, rows, shared, pushed, sheetVars, run, i, cache, snap,
                 attempt, tries, result, ghostVars>>

\* _save_task_result
Save ==
  /\ pc = "save"
  /\ rows' = rows \cup {[step |-> i + 1, run |-> run, seen |-> result]}
  /\ IF job.engine \in CommitFirst THEN pc' = "push" /\ UNCHANGED i
     ELSE IF job.engine = "multi" THEN pc' = "share" /\ UNCHANGED i
     ELSE Proceed
  /\ UNCHANGED <<job, status, step, shared, pushed, sheetVars, run, cache, snap, attempt,
                 tries, result, ghostVars>>

\* _save_result_from_fixed_product_cache: the row of a combination that another
\* task of the batch has executed.
SaveReused ==
  /\ pc = "reuse"
  /\ rows' = rows \cup {[step |-> i + 1, run |-> run, seen |-> result]}
  /\ Proceed
  /\ UNCHANGED <<job, status, step, shared, pushed, sheetVars, run, cache, snap, attempt,
                 tries, result, ghostVars>>

\* insert_product_cache_if_absent: one row for a batch and a cache key.
Entry(c, seen) == [stock |-> c.stock, param |-> c.param, seen |-> seen]
InsertIfAbsent(e) ==
  shared' = IF CachedResult(e) = {} THEN shared \cup {e} ELSE shared

Share ==
  /\ pc = "share"
  /\ IF Combo.stock \in Fixed THEN InsertIfAbsent(Entry(Combo, result))
                              ELSE UNCHANGED shared
  /\ cache' = CacheAfter
  /\ Proceed
  /\ UNCHANGED <<job, status, step, rows, pushed, sheetVars, run, snap, attempt, tries,
                 result, ghostVars>>

\* Another task of the batch has executed a fixed product. Its figures may be
\* blank as well, when the spreadsheet does not keep up.
SiblingShares ==
  /\ job.engine = "multi"
  /\ \E n \in 1..Total, blank \in IF job.prompt THEN {FALSE} ELSE BOOLEAN :
       LET c == Plan[n]
           figures == IF blank THEN None ELSE Wanted(c)
       IN /\ c.stock \in Fixed
          /\ CachedResult(c) = {}
          /\ InsertIfAbsent(Entry(c, [s \in c.sheets |->
                                       [head |-> figures, series |-> Wanted(c)]]))
  /\ UNCHANGED <<job, status, step, rows, pushed, sheetVars, execVars, ghostVars>>

\* A database or network error ends the execution; what was done stays done.
FaultAt(label, kind) == pc = label /\ kind \in Faults

CommitFails ==
  /\ FaultAt("commit", "commit") \/ FaultAt("begin", "commit")
  /\ Fail
  /\ UNCHANGED <<job, pushed, sheetVars, run, i, cache, snap, attempt, tries, result,
                 ghostVars>>

PushFails ==
  /\ FaultAt("push", "push")
  /\ Fail
  /\ UNCHANGED <<job, pushed, sheetVars, run, i, cache, snap, attempt, tries, result,
                 ghostVars>>

\* The checkpoint of these engines is already past the row that is missing.
Gap == IF pc = "save" /\ job.engine \in PushFirst \cup {"c3"} THEN {i + 1} ELSE {}

SaveFails ==
  /\ FaultAt("save", "save") \/ FaultAt("reuse", "save")
  /\ Fail
  /\ gaps' = gaps \cup Gap
  /\ UNCHANGED <<job, pushed, sheetVars, run, i, cache, snap, attempt, tries, result,
                 timedOut, notified, cleaned>>

-----------------------------------------------------------------------------
(* What other processes do to the task. *)

\* The process dies. The boot recovery queues a task that was running.
Crash ==
  /\ "crash" \in Faults /\ pc # "idle" /\ run < MaxRuns
  /\ pc' = "idle"
  /\ status' = IF status = "running" THEN "pending" ELSE status
  /\ gaps' = gaps \cup Gap
  /\ UNCHANGED <<job, step, rows, shared, pushed, sheetVars, run, i, cache, snap,
                 attempt, tries, result, timedOut, notified, cleaned>>

Cancel ==
  /\ "cancel" \in Faults /\ status = "running"
  /\ status' = "cancelled"
  /\ UNCHANGED <<job, step, rows, shared, pushed, sheetVars, execVars, ghostVars>>

\* restart_task with resume_from_checkpoint
Resume ==
  /\ pc = "idle" /\ status \in {"error", "cancelled", "completed"} /\ run < MaxRuns
  /\ status' = "pending"
  /\ UNCHANGED <<job, step, rows, shared, pushed, sheetVars, execVars, ghostVars>>

\* restart_task from scratch: _reset_task_for_restart
RestartFromScratch ==
  /\ "scratch" \in Faults
  /\ pc = "idle" /\ status \in {"error", "cancelled", "completed"} /\ run < MaxRuns
  /\ status' = "pending" /\ step' = 0 /\ rows' = {}
  /\ gaps' = {} /\ cleaned' = FALSE
  /\ UNCHANGED <<job, shared, pushed, sheetVars, execVars, timedOut, notified>>

\* The scheduled cleanup deletes the oldest rows, of earlier executions here.
CleanupOldest ==
  /\ "cleanup" \in Faults
  /\ \E r \in rows :
       /\ r.run < run
       /\ \A o \in rows : o.run > r.run \/ (o.run = r.run /\ o.step >= r.step)
       /\ rows' = rows \ {r}
  /\ cleaned' = TRUE
  /\ UNCHANGED <<job, status, step, shared, pushed, sheetVars, execVars, timedOut,
                 notified, gaps>>

-----------------------------------------------------------------------------
EngineStep ==
  \/ Begin \/ ClearColumns \/ Settle \/ CancelSeen \/ CancelInterrupts
  \/ NextCombination \/ LoopEnds \/ MarkBegun
  \/ SetInputs \/ RefreshInputs \/ RefreshBreaks \/ RefreshSettled
  \/ Snapshot \/ Write \/ Resnapshot
  \/ PollAccepts \/ PollAgain \/ Retry \/ TimeOut
  \/ Push \/ Commit \/ Save \/ SaveReused \/ Share
  \/ CommitFails \/ PushFails \/ SaveFails

Next ==
  \/ EngineStep
  \/ \E s \in Sheet : Recalculate(s)
  \/ SiblingShares
  \/ Crash \/ Cancel \/ Resume \/ RestartFromScratch \/ CleanupOldest

Spec == Init /\ [][Next]_vars

\* The thread of the execution runs on, and a prompt spreadsheet recalculates.
Fairness ==
  /\ WF_vars(EngineStep)
  /\ WF_vars(job.prompt /\ \E s \in Sheet : Recalculate(s))

FairSpec == Spec /\ Fairness

-----------------------------------------------------------------------------
(* Properties. *)

\* Where an engine may take a result for another one's. C5 keeps the K-line of
\* another stock when the window is the same. While the spreadsheet has not
\* recalculated yet, C3 only looks at the echo of the parameters, C1.1 lets a
\* collapsed result pass, and then takes the recalculation it has not waited for
\* as the result of the next combination. On a custom K-line, which nothing
\* clears, a late recalculation of the inputs before a restart moves the outputs.
Parts == {"head", "series"}
Stale(r, s, part) == r.seen[s][part] # Wanted(Plan[r.step])

LetPass(r, s) ==
  \E q \in rows : /\ q.run = r.run /\ q.step <= r.step /\ s \in DOMAIN q.seen
                  /\ q.seen[s].series.param \in Collapsing /\ Stale(q, s, "series")

Excused(r, s, part) ==
  LET in == r.seen[s][part]
      c  == Plan[r.step]
      echoed == <<in.param, c.param>> \in PassesCheck
  IN \/ job.engine = "c5" /\ in.kline[2] = c.key /\ in.param = c.param
     \/ job.engine = "c3" /\ ~job.prompt /\ echoed
     \/ job.engine = "c1_1" /\ ~job.prompt /\ (LetPass(r, s) \/ cleaned)
     \/ job.engine = "c5" /\ ~job.prompt /\ job.custom /\ r.run > 1 /\ echoed
     \/ job.engine \in {"c7", "c1_1"} /\ ~job.prompt /\ job.custom /\ r.run > 1

\* C5, C7 and the backtest engines take blank cells for figures that have moved:
\* the outputs go blank while the inputs are cleared, and the recalculation that
\* fills them falls between the two reads of one attempt.
Unchecked == {"c5", "c7", "training", "multi"}
BlankHead(r, s) ==
  /\ r.seen[s].head = None
  /\ job.engine \in Unchecked /\ ~job.prompt

\* A saved result was computed from the K-line and the parameters of its own
\* combination, however late the spreadsheet recalculates, and whoever used it
\* before: no result of an earlier combination, of an earlier execution or of
\* the previous user is taken for it. A spreadsheet that is late can only leave
\* the summary figures of the engines that do not check them blank.
ResultFromOwnInputs ==
  \A r \in rows : \A s \in DOMAIN r.seen : \A part \in Parts :
    Stale(r, s, part) => (part = "head" /\ BlankHead(r, s)) \/ Excused(r, s, part)

\* A task that is reported completed has a row for every combination, through
\* any number of failures, crashes and restarts; the engines that move the
\* checkpoint first can lose a row, only where the execution ended in between.
NothingLost ==
  status = "completed" /\ ~cleaned => 1..Total \subseteq SavedSteps \cup gaps

\* No combination is saved twice; C4 repeats one combination per restart. With
\* C5, C7 and C1.1 what the result page shows has reached the stock parameter
\* service before, in the same execution.
SavedOnce ==
  /\ cleaned \/ rows = {} \/
     Cardinality(rows) <=
       Cardinality(SavedSteps) + (IF job.engine = "c4" THEN run - 1 ELSE 0)
  /\ job.engine \in PushFirst => \A r \in rows : <<r.step, r.run>> \in pushed

\* When the completion notification goes out, every combination has its row. C3
\* also sends it for a task that was cancelled while it waited, and only then.
NotifiedWhenDone ==
  [][notified' # notified /\ ~cleaned
       => \/ 1..Total \subseteq SavedSteps \cup gaps
          \/ job.engine = "c3" /\ status = "cancelled"]_vars

\* A spreadsheet that keeps up is never given up, even when two combinations in
\* a row show the same figures: the refresh blanks the outputs in between. C4
\* and a custom K-line have no such refresh.
PromptNeverTimesOut ==
  job.prompt /\ ~job.custom /\ job.engine # "c4" => ~timedOut

\* An execution comes to an end, whatever the spreadsheet does.
ExecutionEnds == [](pc # "idle" => <>(pc = "idle"))
=============================================================================
