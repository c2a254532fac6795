# Verification of google_sheet_task

The program is a Flask service that runs long calculations on Google Sheets:
a user creates a task, a thread of the process writes parameter combinations
into a spreadsheet, reads the results back and stores them. Its core is not the
calculation but the bookkeeping around it: one spreadsheet can serve one
execution at a time, executions are cancelled, restarted, deleted and lost in
crashes, waiting tasks are started by whoever finishes before them, and a
spreadsheet that recalculates late must not lend its figures to the next
combination.

This directory holds TLA+ models of that core, TLC configurations that check
them on small instances, and proofs for the TLA+ proof system (TLAPS).

| module | content | checked by | proved in |
|---|---|---|---|
| `TaskRuntime` | start, execute, settle, hand over, cancel, restart, delete; sheet locks, token occupancy | `TaskRuntimeMC`: `runtime_safety`, `runtime_rollback` | `TaskRuntimeProofs` |
| `SheetMutex` | abstract specification of the sheet locks; `TaskRuntime` implements it | `runtime_safety` | `TaskRuntimeProofs` |
| `TaskRecovery` | the end of the process at any point and the boot, over `TaskRuntime` | `TaskRecoveryMC`: `recovery` | `TaskRecoveryProofs` |
| `TaskWatchdog` | threads that hang, are detached and come back, over `TaskRuntime` | `TaskWatchdogMC`: `watchdog` | `TaskWatchdogProofs` |
| `TwoManagers` | web process and DingTalk service over one database: two instances of `TaskRuntime` | `TwoManagersMC`: `two_managers` | |
| `BatchEngine` | the seven engines behind `execute_task`: inputs, polling, checkpoint, result rows, resume | `BatchEngineMC`: `batch` | `BatchEngineProofs` |
| `ScheduledRuns` | the scheduler: run lock, schedule, worker processes | `MaintenanceMC`: `maintenance` | `MaintenanceProofs` |
| `TokenQuota` | usage of the Google tokens: check, counter, reconcile | " | `MaintenanceProofs` |
| `SummaryIndex` | index of the best results: upserts against rebuilds | " | `MaintenanceProofs` |
| `ConfigCache` | configuration in memory against its table | " | `MaintenanceProofs` |
| `WordExports` | Word reports kept on disk | " | `MaintenanceProofs` |
| `SheetRows` | how far each engine clears the rows of a sheet | " | `SheetDataProofs` |
| `PriceLibrary` | prices from the library or a provider, and the writes between them | " | `SheetDataProofs` |
| `KlineSnapshots` | kept rows of random K-lines, over executions | " | `SheetDataProofs` |
| `WindowPlan` | which K-line windows a configuration is expanded into | " | `SheetDataProofs` |
| `ReturnMetrics` | drawdown, repair days, growth, streaks, new highs | " | `ReturnMetricsProofs` |
| `ChatCommands` | lists and restarts of the chat commands | " | `MaintenanceProofs` |

`SortedSets` lists a finite set of numbers in order, as `sorted` and `groupby` do;
`LoopProofs` holds the lemmas about numbers, folds and sequences that
`SheetDataProofs`, `ReturnMetricsProofs` and `MaintenanceProofs` share. The types of
the run `maintenance` as a whole are proved in `MaintenanceProofs`.

Six further configurations show a disagreement between the code and its own
documentation: `overlapping_starts`, `cancel_overwritten`, `orphan_waiter` and
`delete_running` (`TaskRuntimeMC`), `hung_thread_returns` (`TaskWatchdogMC`),
`two_managers` (`TwoManagersMC`).

Check a run with `tlc -workers 2 -config runtime_safety.cfg TaskRuntimeMC.tla`,
the proofs of a module with `tlapm TaskRuntimeProofs.tla`.

## 1. The system

All paths are below `src/app` unless they say otherwise. One process of the
service holds one `TaskManager`; the database is shared with other processes
(a second `TaskManager` lives in the DingTalk command service, the scheduler
starts worker processes).

### Components

**Task runtime** (`services/task/runtime.py`, `facade.py`). State: the
dictionaries of the `TaskManager` (`running_tasks`, `task_stop_events`,
`_active_worker_ids`, `task_token_occupancy`, `task_execution_types`,
`start_errors`), a thread pool with its work queue, two locks
(`_runtime_state_lock` for the dictionaries, the re-entrant
`sheet_start_lock` for the decision who gets a sheet). Operations:
`start_task`, `submit_task_execution`, `_execute_service_task` with its
`finally` block, `_finalize_task_execution`, `_cleanup_runtime_state`,
`_start_next_pending_task`. Called by HTTP requests, by pool workers (the
relay), at boot, by the watchdog and by the scheduler. Hard: it reads rows,
takes locks, marks the row and submits in about ten separate commits, with a
way out of each; a worker decides in its `finally` block by dictionary contents
whether it is still the active execution; a task that queues for a sheet
depends on the end of the holder to be started at all. Correct when: work on a
sheet is exclusive and covered by a lock; each lock, token and running row has
someone who will give it back; no waiting task is forgotten; a cancel prevails.

**Cancel, restart, delete** (`services/task/restart.py`, `data_cleanup.py`,
`query.py`). No state of their own; they read and write the row, set the stop
event, drop handles, release locks and tokens. Hard: each is several commits
long and runs in another thread than the execution it is about; restart waits
at most three seconds for it. Correct when: an acknowledged cancel ends as
cancelled; the resources of an execution stay with it until its thread is done.

**Sheet execution locks** (`services/sheet_execution_lock_service.py`,
`repositories/sheet_lock_repository.py`). One row per locked spreadsheet, with
the holding task. `find_conflict`, `acquire_all` (all or nothing, idempotent
for the holder), `release` (by holder), `release_all_by_task`. Correct when: a
row changes its holder only through a release of that holder.

**Task rows** (`models.py`, `repositories/task_repository.py`). Status,
`error_message` with the `[SHEET_QUEUED]` mark, checkpoints. Guarded updates
(`mark_running_if_pending`, `revert_running_to_pending`) beside unguarded ones
(`update_fields`).

**Creation** (`services/task/creation.py`, `registry.py`): commits the row, then
calls `start_task`.

**Occupancy** (`services/task/occupancy.py`): which task uses which token and,
for display only, which sheet.

**Boot and recovery** (`startup.py`). Counters to zero, dead tasks back to
pending, stale locks removed, queued tasks started in order of creation, then
scheduler and watchdog. Hard: it repairs what any crash point of the runtime
left behind, in an order that matters. Correct when: after it no lock belongs to
a dead execution and every queued task was tried.

**Watchdog** (`services/task_watchdog.py`). Every few minutes it looks at running
rows: tasks without a live handle, tasks whose log is silent; it alarms,
replaces dead handles, force-restarts silent tasks. Hard: it cannot stop a
silent thread, only disown it; the thread may come back to life and meet the
generation checks of the runtime. Correct when: a disowned thread neither
writes the row nor frees resources of its successor.

**Token quota** (`services/google_sheet_token_service.py`,
`repositories/google_sheet_token_repository.py`). `current_in_use_count` of a
token: incremented and decremented by starts and ends, and recomputed by scans
of running rows. Hard: two ways to count the same thing. Correct when: the
count returns to zero with the last task and never exceeds the limit by itself.

**Batch engine** (`services/google_sheet_tasks/base.py`, `c3.py` to `c7.py`).
State: step counters, checkpoints (`current_step`, `checkpoint_data`), pending
batches with retries. Hard: a checkpoint is written at another moment than the
results it stands for. Correct when: a restart from a checkpoint loses no step
and stores none twice.

**Scheduler** (`services/scheduler_service.py`, `scheduled_task_worker.py`,
`repositories/scheduled_task_repository.py`). State: the run lock of a scheduled
task (`is_running`, `running_instance_id`), processes, the in-memory schedule of
each. Hard: a run that exceeds its timeout goes on, only its lock may be taken over
by the next trigger; an edit is two steps, row and schedule, and the second can
fail without a word. Correct when: no two runs of a scheduled task overlap, the lock
of a dead run is taken over, and an active row is scheduled.

**Model summary index** (`services/model_summary/jobs.py`). Rows
that name the best result of a task and period, derived at the end of each task
and again by a rebuild job. Hard: results come, go and are cleaned up without
the lock of the index. Correct when: rows that nothing has changed since they
were derived are the best results.

**K-lines** (`services/kline_service.py`, `task_kline_snapshot_service.py`, the
expansion in `google_sheet_tasks/base.py`). A library of daily prices that is
filled by its own readers from providers that answer in two ways, snapshots of random K-lines, and the expansion of a
configuration into windows. Hard: gaps in the library, threads that expand one
stock twice, labels shared by two windows. Correct when: an answer is complete
or it is known why not; a combination is executed with the same rows in every
execution; every window that was asked for is executed.

**Configuration and report caches** (`services/config_manager.py`,
`utils/ttl_cache.py`). Kept in memory under a lock, or on disk without one.
Correct when: no stale entry outlives the requests that raced; a report is
served whole and under its own key.

**DingTalk service** (`ding_stream_service`). A process of its own with a
`TaskManager` of its own: lists tasks, restarts them by number, name or id.

**Performance analysis** (`services/performance_analysis/metrics.py`). Pure
functions over series of net values. Correct when: figures that the program
computes in several ways agree.

**The rest** reads and formats: results, logs, runtime view and dashboard, the
Google Sheets client, report and workbook layout, authentication, navigation,
the HTTP routes, the React front end and the vendored strategies. It keeps no
state on which the components above decide, or computes with floating-point
numbers, or is a network client; see section 10.

### How they meet

```
 request / boot / watchdog / scheduler
      |  start_task                        cancel, restart, delete
      v                                            |
  [sheet_start_lock: conflict? lock, mark running] |  row, stop event, handles
      |  token, quota, event, handle               |
      v                                            v
  pool queue --> worker: mark running, service, verdict, finally
                   |  release token and locks, leave the dictionaries
                   '-- relay (under sheet_start_lock): start_task of the
                       oldest pending task that uses a released sheet
```

## 2. How the project is laid out

The task runtime comes first and everything that shares its rows builds on it.
`TaskRecovery` and `TaskWatchdog` extend `TaskRuntime`: all its actions are steps
of theirs and the properties are the same formulas. `TwoManagers` takes it twice,
once by `EXTENDS` and once by `INSTANCE`, over one set of rows. `SheetMutex` says
in five actions what the locks promise; `TaskRuntime` maps onto it
(`Mutex == INSTANCE SheetMutex WITH ...`).

`BatchEngine` is what a running execution does, which the runtime takes as one
step: there the runtime's cancel, crash and restart are actions of the
environment. `SheetRows`, `WindowPlan` and `KlineSnapshots` each open a part that
`BatchEngine` abstracts: the rows of a sheet, the list of combinations, the rows
of a K-line.

The other modules share no state with each other or with the task core.
`MaintenanceMC` puts them into one run: the first state chooses which of them
moves, the others stand still.

Modules that are proved about use no `RECURSIVE` operators; loops are folds of
the community modules, and every guard and parameter assumption is named.


## 3. `TaskRuntime`: how it corresponds to the code

An action is what one thread does between two points at which another thread
can be seen to act: a commit of the database session, or the end of a section
under `_runtime_state_lock`. The model therefore has an action per commit of
`start_task`, not one per function.

An *execution* `<<t, n>>` is one submission of task `t`: its `_TaskExecution`
handle, its pool thread and its stop event. The code compares these objects by
identity; the number `n` is that identity, and is used again when no dictionary,
thread or service refers to it any more (`FreeSlots`).

| state | code |
|---|---|
| `status`, `queued` | `Task.status`; `error_message` starts with `[SHEET_QUEUED]`. `"absent"` before the row is committed, `"deleted"` after |
| `lockOf` | rows of the sheet execution lock table |
| `handle`, `stopEvent`, `workerId` | `running_tasks`, `task_stop_events`, `_active_worker_ids` |
| `fired` | stop events that are set |
| `tokenHeld` | keys of `task_token_occupancy` |
| `queue` | the work queue of the `ThreadPoolExecutor` |
| `sheetStart` | owner of `sheet_start_lock` |
| `exec`, `execEvent`, `outcome`, `finished` | where an execution is; the event handed to its service; the result, then the final status; `finished_spreadsheet_ids` |
| `pc`, `arg`, `slot` | where a thread is in an operation, for which task, with which execution |
| `cancelAck` | bookkeeping of the model: the last acknowledged request of the task was a cancel |

| actions | code |
|---|---|
| `CheckHandle` ... `Enqueue`, `SubmitFails`, `Rollback` | `start_task`, `submit_task_execution`, `_rollback_start_reservation`, in the order of the code |
| `Begin`, `MarkTaskRunning`, `TaskMissing`, `FinishWork` | `_wrapped` and the body of `_execute_service_task` |
| `ReadVerdict`, `WriteVerdict` | `_finalize_task_execution`, read and write apart; the recording of an exception |
| `CloseReplaced`, `CloseActive`, `ReleaseResources`, `Cleanup` | the `finally` block, by `_is_active_generation` |
| `RelayNobody`, `RelayNext`, `RelayEnd` | `_start_next_pending_task`; between the last two the worker runs `start_task` itself |
| `RequestCreate` | `create_and_start_task`: the row is committed, then `start_task` |
| `RequestCancel`, `CancelWrite` | `cancel_task`: read and event, then the write |
| `RequestRestart`, `RestartStops`, `RestartNothingToStop`, `RestartJoin`, `RestartReset` | `restart_task`, then `start_task` |
| `RequestDelete`, `DeletePop` | `delete_task` |

Calls that leave the runtime may fail where `Faults` says so: validation of the
configured sheets, the token service, the submission to the pool. `"stall"`
makes `can_restart` true for a running task, as a log that has been silent for
`task_status_check_timeout` does. A service may complete, fail, raise, or notice
a cancel; it notices one only while it looks, so a cancel after its last look is
not noticed.

### Simplifications

- The status check of `_mark_task_running` and its update are one action; for
  task types other than `google_sheet` the update is guarded and may find
  nothing, which is left out.
- `ReadVerdict` joins the generation check with the fresh read that follows it;
  `RequestRestart` reads the row and `can_restart` at one moment.
- `acquire_all` commits per sheet; nobody takes locks but under
  `sheet_start_lock`, and its holder is one process, so it is one step.
- A worker thread that overtakes the assignment of `handle.future` in
  `submit_task_execution` is left out.
- The quota counts and the limits of types are read at one moment; limits are
  constants of a run.
- Every task uses a token. The display mirror of sheet occupancy is left out.
- Services are opaque: no checkpoint, no result. One process only.

### The assumption `SerialStarts`

`start_task` looks for a second start in `running_tasks`, where the handle
arrives at the very end. Between the two another thread can start the same task,
and then the code does not keep its promises (run `overlapping_starts`). The
other properties are stated for deployments in which one task is started or
restarted by one thread at a time, which the constant `SerialStarts` expresses
as a guard (`MayStart`) of the actions that begin a start. Different tasks are
started by different threads at any time.
In `TaskRecovery` it also keeps apart a relay and the boot thread that try the
same queued task in the same moment.

### `SheetMutex`

Its two variables are the holder of each sheet and the set of tasks that work;
its actions are `Acquire` (all sheets of a task, each free or its own),
`Release` (own sheets, not while it works), `Start` and `Stop` of the work, and
`Withdraw` of a deleted task. `TaskRuntime` maps `lockOf` to `holder` and the set
`AtWork` of tasks with a working execution to `using`. What the mapping forgets
is everything by which the runtime finds out whose locks it may release: the
generation of an execution, the start lock, the row.

## 4. `TaskRecovery`: how it corresponds to the code

The module extends `TaskRuntime`: all its actions are steps of the new
specification too (`RuntimeStep`), and the properties are the same formulas.

| state, action | code |
|---|---|
| `phase` | the point `bootstrap_app` has reached: dead tasks, stale locks, list of queued tasks, resume, service |
| `toResume` | what is left of the list in `resume_pending_queued_tasks` |
| `Crash` | the process ends: dictionaries, pool, threads and the start lock are gone; task rows and lock rows stay as they were committed. Boot begins |
| `ResetDeadTask`, `NoDeadTask` | `check_and_cleanup_dead_tasks`: one commit per row (with its log entry), until no running row without a thread is left |
| `RemoveStaleLocks` | `cleanup_stale_sheet_execution_locks`, one commit |
| `ScanQueued` | the query for pending rows with the queue mark |
| `ResumeNext`, `ResumeEnd` | the loop over that list; between the two the boot thread runs `start_task` itself, through all its commits |
| `BootDone` | the worker begins to serve |

`Crash` is possible in every state, in the middle of boot as well. Requests are
possible only when the service runs: `dockers/gunicorn.conf.py` has one worker
process, and its `post_worker_init` runs `bootstrap_app` before the worker
accepts a connection. Executions and their relays are not held back: the first
task that boot resumes may end, and hand its sheet over, while boot is still
trying the next.

Left out: the counters that boot sets to zero (token usage, display occupancy), schema
repair and seeds, and what follows the resume (scheduler, watchdog). A crash
between two of the lock rows that `acquire_all` commits is not told apart from
one before or after them; the task is pending then, and all its locks are stale
for boot either way. `MaxCrash` bounds the number of ends of the process. One is
enough for every state a crash can leave, since a crash keeps nothing but rows,
and boot begins with the same dictionaries each time; what a second one could
add is a crash of the boot itself, whose steps do to rows what the runtime does
as well. The theorems hold for any number.

## 5. `TaskWatchdog` and `TwoManagers`

`TaskWatchdog` extends `TaskRuntime` by the thread of `task_watchdog.py`:

| state, action | code |
|---|---|
| `watch`, `watched` | which branch of a round the watchdog is in, and for which task |
| `attempts`, `note` | `_retry_restart_attempts`; what it has written into `error_message` |
| `restarts` | bookkeeping of the model: restarts since the task last came to something |
| `Observe` | `list_watchdog_tasks`: a running row whose log is silent, an error that was not given up, a cancelled row that a failed forced restart left |
| `ForceRestart`, `Detach`, `Prepare` | `_restart_task_with_reason`: stop event and wait, `force_detach_running_task`, `_prepare_task_for_force_restart`, then `start_task` by its own steps |
| `CallRestart`, `RestartTask` | `_restart_error_task`: the steps of `restart_task` from the checkpoint, then `start_task` |
| `Abandon`, `Publish`, `LeaveQueued`, `RecordFailure`, `Prune` | the ends of a restart and of a round |

A service may hang for ever here. A hung thread comes back at any time; when it
does so while the execution that replaces it waits in the pool queue, it takes
itself for the active one, which is the disagreement `hung_thread_returns`. The
constant `LateWake` says whether a run looks at such threads; the run `watchdog`
assumes that a thread comes back within the wait or when it has been replaced
(`Wakes`, and `Detach` waits for threads that are already in their end). The
watchdog is a background thread and serves no request (`WatchdogAssumption`).
Alarms to DingTalk are left out.

`TwoManagers` is a second `TaskRuntime` over the rows and lock rows of the first:
dictionaries, pool and start lock of its own, no request but the restarts of a
chat command, one at a time, and batches of them. Nothing that the web process
knows about a live thread reaches it.

## 6. `BatchEngine`

One task of one of seven engines (`c3`, `c4`, `c5`, `c7`, `c1_1` of
`google_sheet_tasks`, the training and the multi-product backtest), the
spreadsheets it uses, and the sequence of its executions.

| state | code |
|---|---|
| `job` | the engine; whether the K-line is the user's own; whether the spreadsheet keeps up |
| `status`, `step`, `rows`, `shared` | `Task.status`, `current_step`; `TaskResult` rows with the inputs they were computed from; `BacktestProductCache` |
| `pushed` | what the stock parameter service has received |
| `input`, `output` | input cells, and the inputs that the output cells were last computed from |
| `run`, `pc`, `i` | number of the execution, where it is, combinations passed |
| `cache`, `snap`, `attempt`, `tries`, `result` | `cache_parameters`, `initial_results`, the counters of the poll loop, the result in hand |
| `timedOut`, `notified`, `gaps`, `cleaned` | bookkeeping for the properties |

| actions | code |
|---|---|
| `Begin`, `ClearColumns`, `Settle` | entry of `execute_task`, resume index of the engine, clear of the input columns, `sheet_settle_seconds` |
| `NextCombination`, `LoopEnds`, `MarkBegun`, `CancelSeen`, `CancelInterrupts` | the loop of `get_bdl` and the points at which it looks for a cancel |
| `SetInputs`, `Snapshot`, `Write`, `Resnapshot`, `RefreshInputs`, `RefreshBreaks`, `RefreshSettled` | `set_googl_val`, the remembered outputs, `update_jumped_cells`, `refresh_fn`, `post_attempt_fn` |
| `PollAccepts`, `PollAgain`, `Retry`, `TimeOut` | the attempts, the acceptance of each engine, `@retry` |
| `Push`, `Commit`, `Save`, `SaveReused`, `Share` and their failures | push to the service, checkpoint, `TaskResult`, the product cache, in the order of the engine |
| `Recalculate` | the spreadsheet computes its outputs, whenever it likes |
| `Crash`, `Cancel`, `Resume`, `RestartFromScratch`, `CleanupOldest`, `SiblingShares` | what other threads and processes do to the task |

The model of the spreadsheet keeps, for each output, the inputs it came from:
that is what a result has to answer for, and nothing the program can see. It
sees figures, blanks and the echo of the parameters, which may coincide
(`LookAlike`, `PassesCheck`). An acceptance rule is checked against every moment
of recalculation.

The engines read a result in two requests (`c5.py:179-203`, `c7.py:388-428`,
`backtest_training_service.py:774-819`): first the cells that are judged, whose
summary figures go into the result, then the series of returns, and only the second
is checked for blanks. C3 judges the echo and then reads figures and series, C4
checks its figures, C1.1 reads everything at once. So a result in the model has two
parts, `head` and `series`, and `PollAccepts` lets any of the spreadsheets
recalculate between the readings. `ResultFromOwnInputs` speaks of both parts:

- A late recalculation that falls between the two reads can leave the summary
  figures of C5, C7 and the two backtest engines **blank** beside a good series, and
  they are saved so (`BlankHead`). The outputs have "moved" by going blank, and
  nobody asks again. That is what the code does, and the model shows no other
  mixture: figures of a different combination are never saved in this way.
- `Excused` lists, engine by engine, where the code takes a result for another
  one's, in either part. Everything else is `ResultFromOwnInputs`.

Left out: the layout of cells, formats of numbers, network retries inside one
request, the numbers themselves. `MaxRuns` bounds the executions.

## 7. The modules of the run `maintenance`

- `ScheduledRuns`: processes load active rows into an in-memory schedule
  (`StartProcess` to `AddLoaded`), a trigger reads the row, takes the run lock by
  a conditional update, records the run and spawns a worker process (`Fire` to
  `SpawnWorker`); the worker releases by the id of the instance, outlives its
  process, or dies (`WorkerEnds`, `WorkerDies`, `CrashProcess`); a lock older than
  the timeout is taken over, the run it belongs to is not stopped. Edits write the
  row and the schedule in two steps. Scheduling may fail, and then nobody is told:
  `load_tasks_from_database` swallows an error of the database (`LoadFails`), `add_job`
  removes the old job, fails for one of several reasons and returns a `False` that
  `create_task`, `update_task` and the load do not look at (`AddLoaded`, `SyncSchedule`,
  `SyncFails`), and the validator, croniter, accepts expressions with six fields or
  `@daily` that `CronTrigger.from_crontab` refuses (`Form`). The history variable
  `dropped` says of which row the last attempt failed, `behind` of which row another
  process was edited; `ActiveIsScheduled` names both. The docstring of `create_task`
  (an active task is registered while the scheduler runs) does not hold for them.
  `SerialEdits`: two edits of one row do not overlap; two that do can leave an
  active row unscheduled, since each brings its own half. That APScheduler itself
  starts is taken for granted.
- `TokenQuota`: the commits of a start (`MarkUser`, `ValidateTaskStart`,
  `ScanUsage`, `IncrementUsage`), of an end (`EndUse`, `ReleaseUsage`), of a
  refusal, of the reconcile request and of a boot.
- `SummaryIndex`: results, upserts and rebuilds under the index lock, batches of
  one transaction each; cleanups and restarts without the lock. Results without a
  metric are dropped before the best is chosen (`Candidates`); the duplicates that
  the end of a rebuild removes are ordered by date, then by metric (`RanksAfter`).
- `ConfigCache`: each request by its queries, commits and lock sections.
- `WordExports`: an exporter looks up, names, opens and measures a document in
  four looks at the disk, builds it and writes two files; sweep and clear delete
  by name what they found a moment before. The clock of the run goes one minute
  past the life of a document, so that documents are found stale, rebuilt and swept.
- `SheetRows`: the rows of one sheet, cell by cell, and how far each engine
  clears before it writes.
- `PriceLibrary`: a call gives both ends of a range, anywhere in the past or today,
  one of them, or none and a number of rows. It is answered from the library or by a
  provider, whose rows are then written one by one, in any order, each of which may
  fail. A provider sends the newest rows up to the limit whatever the ends are (dfcf,
  qq, tdx; AKShare without ends), or the rows between the ends without a limit
  (AKShare with ends, Yahoo): `Fetched`. With an end only, the library may answer with
  no rows at all; no caller in `src/app` asks so. A provider that fails changes
  nothing. The look at what the library covers and the answer are one step.
- `KlineSnapshots`: threads of an expansion that look for a kept row, draw one
  and insert it; executions that crash, resume and restart; a market that
  corrects its prices. A provider always answers here: a fetch that fails would
  end the thread of its stock before it keeps a row, and with it the expansion; it is not
  modelled. An edit of the task's price mode is met only with the whole window.
- `WindowPlan`: `_expand_auto_year_parameters`, the C4 and training expansions and
  the announced number, over half years instead of days.
- `ReturnMetrics`: the loops over frames, with ratios as pairs of integers, so
  that no property depends on rounding. Net values may be zero or negative, which
  takes the branches for a peak that is not positive (`Fall`); the growths and streaks
  are compared for positive frames, since the code divides by the base as it is.
  The return of the first month is measured against the net value 1, that of the
  first year against its first row. A `TODO` in `metrics.py:244-245` and the skipped
  test `tests/unit/test_xpl_service.py:450-463` say that the first month, too, should be
  measured against the first row. The model has the code's base (`One`), and
  `ReturnsCompound` says what follows from it: the months of the first year compound to
  its growth **if and only if** the frame begins with the net value 1. For a series that
  begins elsewhere the monthly and the yearly table disagree in the first year, as
  the `TODO` says; all later years agree.
- `ChatCommands`: lists by page, the cached list of a conversation, restarts by
  number, name, id and in batches, over rows that change. A second page shows numbers
  that go on counting (`task_commands.py:644`) while its cache starts at one again;
  `NthOfLastList` is about the place in the cached list, not about the number shown.

## 8. What the runs check

### Runs

| run | instance | states | properties |
|---|---|---|---|
| `runtime_safety` | two tasks, `t1` on `s1`, `t2` on `s1` and `s2`; one thread creates and restarts, one cancels; silent tasks; 2 pool threads; 2 executions per task | 644,120 | `TypeOK`, `WorkingHoldsLocks`, `SheetExclusive`, `QueuedNotExecuting`, `ImplementsSheetMutex` |
| `runtime_rollback` | two tasks on a sheet each, one place and one pool thread, create, restart, cancel, delete, every failure of a start | 209,163 | `NoLockLeak`, `TokenAccounted`, `RunningHasThread` |
| `recovery` | three tasks on one sheet, created by two threads; the process may end once, at any point | 32,872 | `RecoveryTypeOK`, `LocksRecovered`, `RunningRecovered`, `QueuedServed`, `LocksReleased` |
| `watchdog` | two tasks on one sheet, one of them watched, one attempt; services may hang | 147,059 | `WatchdogTypeOK`, `RestartsBounded`, `OverlapIsEnding`, `HungTaskSettles` |
| `batch` | seven engines with two or three combinations, own and fetched K-lines, prompt and late spreadsheets, two executions, every failure | 846,158 | `TypeOK`, `ResultFromOwnInputs`, `NothingLost`, `SavedOnce`, `PromptNeverTimesOut`, `NotifiedWhenDone`, `ExecutionEnds` |
| `maintenance` | the eleven modules of section 7, one at a time | 492,425 | `TypeOK`, `ExclusiveRuns`, `ActiveIsScheduled`, `LockRecovered`, `IndexExact`, `QuotaKept`, `CountExact`, `CacheCoherent`, `FiguresAgree`, `RowsRepeat`, `FailureExplained`, `PlanExact`, `GapExplained`, `NthOfLastList`, `ReportServedWhole`, `OwnRowsOnly` |
| `overlapping_starts` | as `runtime_safety` without `SerialStarts`, two threads create and restart | violation | `SheetExclusive` |
| `cancel_overwritten` | one thread creates and cancels | violation | `CancelNotOverwritten` |
| `orphan_waiter` | a task on two sheets, one task waiting for each | violation | `WaiterHasHolder` |
| `delete_running` | one thread creates and deletes | violation | `LockedWhileThreadWorks` |
| `hung_thread_returns` | as `watchdog`, threads come back at any time | violation | `ReplacedKeepsOut` |
| `two_managers` | two tasks on one sheet, created in the web process, restarted by chat | violation | `OneTaskPerSheet` |

What the properties of the task core say:

- `WorkingHoldsLocks`, `SheetExclusive`: the reason for the locks. The second
  follows from the first for two tasks, and says more for one: its old and its
  new execution never work at the same time, although a restart waits only three
  seconds and releases locks by task id. `ImplementsSheetMutex` says the same of
  every step instead of every state.
- `NoLockLeak`, `TokenAccounted`: on every way out of `start_task`, the
  `finally` block, cancel, restart and delete a lock and a token have somebody
  who is going to release them. `RunningHasThread`: no row stays `running`
  without a thread (which only the watchdog would find). `QueuedNotExecuting`:
  the queue mark, which boot trusts, is never left on a task that is executed.
- `LocksRecovered`, `RunningRecovered`: the promises of the boot clean-up. They
  depend on the order of the two clean-ups: with the stale locks first, a task
  that was running keeps its lock as a pending task, nobody releases it, and
  every task of that sheet waits for ever. `QueuedServed`, `LocksReleased`: a
  waiting task is not missed by the relay, and boot takes its place when the
  relay is lost with the process; no sheet stays locked.
- `RestartsBounded`: the watchdog does not restart a task for ever, whatever
  becomes of its notes. `OverlapIsEnding`: where detaching puts two executions on
  one sheet, one of them has been told to stop. `HungTaskSettles`: a running task
  comes to its end even if none of its threads does.

Of the batch engines: `ResultFromOwnInputs` (no figure of an earlier combination,
execution or user is saved as this one's), `NothingLost`, `SavedOnce`,
`NotifiedWhenDone` (checkpoint, row and notification agree over failures and
resumes; C3 also reports a task completed that was cancelled while it waited), `PromptNeverTimesOut` (equal figures of two combinations in a row do
not look like a hanging spreadsheet), `ExecutionEnds`.

Of the others: `ExclusiveRuns` holds until a lock is taken from an execution
that still runs (`disturbed`), which the timeout allows; `CacheCoherent` unless a
request wrote and then failed before its reload (`broken`); `CountExact` unless
overlapped operations wrote the counter (`mixed`), so the updates that overlapping
starts and ends lose are outside of it. `QuotaKept` has room to spare: the first check
of a start counts the task that starts, so a limit of n serves n-1. Each of the other
ways out is a
history variable that names the code's own exception, so the property says when
the promise holds and when not. `PlanExact` names the windows that the code
leaves out: a recent window whose label, made of years, is taken by another
window of the same calendar year.

**Bounds.** Two tasks are enough for every race between a holder and a waiter,
since actions look at one other task at most; a third is needed for the order
of waiters and for orphans. Two executions of one task (`MaxExec = 2`) are
what a restart can bring together: the old one that has not finished and its
successor. `MaxRunning` and `PoolSize` are chosen per run, so that the quota
bites in one and the pool's queue is used in another. `MaxCrash = 1`: a crash
keeps nothing but rows, and boot begins with the same dictionaries each time.
`MaxRuns = 2` executions of a batch: a third begins from a row, a checkpoint and
cells like the second. In `watchdog` one attempt tells the last attempt from the
one before. In `maintenance` two threads or processes of each kind, one worker process of an
instance and job (`Instance` numbers processes in the order of their starts, one of
which is up at a time, `MaxUp`, so that triggers of two processes meet only through a
lock and a worker that outlive the first; the theorems have any number up). Net values
are -1, 1, 2 and 3 of which 2 is the net value 1: 0 takes the branches of -1.
`MaxMinute` is one more than `Ttl`. `MaxChanges`, `MaxClears`, `MaxVersion`, `MaxFaults`,
`MaxWrite` and `MaxStarts` count what could otherwise go on for ever. Numbers of executions are used again,
so the runs of the core cover arbitrarily long histories. The theorems have none
of these bounds.

**Deadlock** is checked in `runtime_safety`, where a request is always possible,
so that a thread stuck on `sheet_start_lock` with all others waiting would be
found. Elsewhere all tasks may be done or deleted and the system may stop.

**Fairness.** `FairRSpec`: weak fairness of each thread inside an operation, of each
execution and of boot, since threads are scheduled by the operating system and
the calls of a service have timeouts; strong fairness of a worker that waits for
`sheet_start_lock`, since a Python `RLock` promises no order but a waiter gets it
in the end. Requests and crashes have none. The run has creations only and room
for all tasks: a refused start releases sheets without a relay, which is a
disagreement below and not a question of scheduling. `FairWSpec`: the same,
except that a service may hang for ever; the watchdog runs, and each of its
rounds treats every task (strong fairness of `Observe`). `BatchEngine`: the thread
of an execution runs on, and a spreadsheet that keeps up recalculates; one that
does not may stand still for ever. `ScheduleFairness`: processes are restarted
and boot, triggers go on, cron fires, an edit completes, hours pass; nobody has
to edit a row or press a button, and no worker process has to end.

### Disagreements between the code and its documentation

1. `overlapping_starts`. Two starts of one task both find no handle; the one
   that loses the update of the row rolls back locks that both share, and the
   winner works on unlocked sheets. One way to get there needs no second user:
   `create_and_start_task` commits the row before it starts it, and a relay can
   pick it up in between.
2. `cancel_overwritten`. `_finalize_task_execution` reads, decides and writes
   without a condition; a cancel acknowledged in between ends as `completed`.
3. `orphan_waiter`. The relay starts one task; with two sheets released, a
   waiter for the other one stays queued for a free sheet until the process is
   restarted. The same happens when the start that the relay tries is refused.
4. `delete_running`. `delete_task` releases the locks of a running task and does
   not wait for its thread.
5. `hung_thread_returns`. `force_detach_running_task` leaves the old thread in
   `_active_worker_ids`. Until its successor has begun, the old thread takes
   itself for the active one, settles the task and frees what the new execution
   occupies.
6. `two_managers`. The DingTalk service restarts a task that the web process
   executes, because it looks for a live thread in its own dictionaries; then
   one of the two ends releases locks that the other works under.

## 9. What is proved

Every theorem holds for every value of the constants that the assumptions named
in the modules allow. Each `... => []P` comes from an inductive invariant that
implies `P`; the invariant is what each section below is about, since `P` alone
is seldom kept by every step. Every invariant of a passing run and the refinement
have a theorem; what is left to TLC is liveness.

### The runtime (`TaskRuntimeProofs`)

`TypeCorrect` needs `ConstantsAssumption` alone. The others assume `SerialStarts`
(section 3); without it the first run of the disagreements is a counterexample.

- `WorkIsLocked`, `SheetsAreExclusive` from `IInv == Typed /\ LockInv`.
  `WorkingHoldsLocks` says nothing of the time before the execution works, so the
  invariant adds: a task is in the hands of one starting thread (`OneStarter`);
  a thread between the lock section and the submission has all sheets of its
  task, and submits the execution it registered (`StarterHoldsLocks`,
  `EnqueuesHandle`); while a task is being started no unfinished execution of it
  exists that could release what the start takes (`StartsAlone`); an execution
  that has not left the dictionaries is the registered one, unless the task is
  deleted (`HandledIsCurrent`); from the queue to the release it has all sheets
  (`ExecutionHoldsLocks`); handles are dropped only by the delete that removed
  the row (`PopsDeleted`). Each action either leaves all this alone for the tasks
  it is not about or is one of four kinds with a lemma each: a start, a step of
  an execution, a pool thread that takes work, a request.
- `LocksNeverLeak`, `TokensNeverLeak`, `RunningIsAlive` from `IInv /\ AInv /\ Placed`.
  `AInv` is an account of each task: what it holds it was started for, and as
  long as it holds something a start or an execution of it is under way. The
  account is kept only because the end of a thread knows itself for the active
  one (`BusyIsWorker`) and writes its verdict before it gives the resources up
  (`VerdictWritten`). `Placed` says where a worker and the number of an execution
  can be; without it a number might be given away twice.
- `QueuedIsIdle` from the same with `MarkInv`: whoever starts a task has taken the
  mark off before the task can be executed.
- `RuntimeImplementsMutex`: `Spec => ImplementsSheetMutex`. Initial states map to
  initial states; each of the runtime's steps is one of `Acquire`, `Release`, `Start`,
  `Stop`, `Withdraw` under the mapping, or changes neither the locks nor the set
  of working tasks. `IInv` supplies the guards of the abstract steps.

### Recovery (`TaskRecoveryProofs`), for any number of ends of the process

- `RecoveryTypeCorrect`, `RecoveredSheetsAreExclusive` from
  `RIInv == BootTyped /\ IInv /\ StillBefore`, which reuses the invariant of the
  runtime and its step lemmas. A crash establishes `IInv` from the types alone:
  no execution, no starter, no handle is left for it to speak of. `StillBefore`
  says that this lasts until boot resumes the first task, because no request is
  let in and nothing is queued; so the clean-up may rewrite rows and drop locks
  without breaking a lock that somebody relies on. If requests were served
  during the clean-up, `RemoveStaleLocks` would take locks from a start that has
  not marked its row yet.
- `LocksAreRecovered`, `RunningIsRecovered` from `RIInv /\ BootInv`, which says what
  each stage of boot has restored: after the first no row runs, after the second
  no sheet is locked, from the resume on the account `AInv` of the runtime is true
  again and its lemmas carry it.

### Watchdog (`TaskWatchdogProofs`)

- `WatchdogTypes`, `RestartsAreBounded` from `WatchInv`. `RestartsBounded` speaks of
  a bookkeeping variable; the code has a count in memory and a note in the row
  that the runtime overwrites. `Counted` relates them: the count in memory is
  never below the bookkeeping, unless the row is gone or the task was given up
  and says so (`LeftAlone`); where the watchdog forgets its count nothing is left
  to count, except inside a restart that will write the row anew (`Unreset`).
  `AtWatched` says at which step of a restart the watchdog can be. The steps of
  the runtime enter by two facts only: a row that is gone stays so, and the note
  of a given up task is replaced only by somebody who takes the task up again.
  No assumption on starts is needed: `MayStart` plays no part.
- `OverlapEnds` from `WatchInv /\ OverlapInv`, assuming `SerialStarts` and that no thread
  comes back in the moments `LateWake` is about (section 5; with `LateWake` the run
  `hung_thread_returns` is a counterexample of what the code's comment says). Once
  a live thread may be detached, an execution is no longer the registered one
  until it leaves the dictionaries, and `LockInv` is lost. `ExecutionsFit` keeps what
  remains: the registered execution has the locks until it releases them
  (`CurrentHolds`), its event is the registered one (`CurrentHasEvent`), it is the
  last one of its task, so `_active_worker_ids` names it once it runs
  (`LastIsCurrent`, `CurrentIsWorker`); one that was replaced while it works was told
  to stop or works with an event that is not its own (`ReplacedEnds`); only the
  registered one settles (`SettlerIsCurrent`). `StarterFits` says what a thread past
  the check of the handle relies on, and that the stop event is set while the
  watchdog waits for a hung thread. A step concerns one task: it lets its
  executions go on (`Moves`) or leaves none registered (`Drops`), and every other
  task is untouched, but that its queue may move up (`Apart`). If neither of two
  working executions was told to stop or misled, both are registered, both tasks
  hold the sheet, and they are the same execution.
- `SettlersAreCurrent` from the same: what the comment of `_is_active_generation` says,
  under those assumptions, for tasks whose row is there.

### Batch engines (`BatchEngineProofs`)

- `BatchTypes`, `ProgressHolds`, `NothingIsLost`, `NoRowTwice`, `CompletionIsTrue`
  from `Progress`. The engines move the checkpoint before or after the row and
  resume from the checkpoint or from the rows. So there are three invariants, one
  for each kind (`BeginFirstInv`, `ResumeAfterInv`, `C4Inv`), which say how many
  combinations have a row when the execution is at a given place. `Single` says
  that no step has two rows of one execution, and that C4, which repeats one
  combination per resume, has one repeated row per execution at most; counting
  them gives the bound of `SavedOnce`. `Told` ties each row to its push. Steps are
  sorted into kinds first (`Kinds`): of some thirty actions only ten touch the
  progress.
- `InputsHold`, `ResultsAreOwn` from `InputInv`, for both readings of a result. What an engine accepts is a
  difference between what the outputs show and what they showed before. It is the
  right result only if no recalculation of anything but the inputs just written
  can make that difference. The invariant says so at every step of a try: before
  the inputs are written a recalculation makes nothing new (`Settled`), afterwards
  blanks, what was shown before, or the right result (`Fine`). Across combinations
  it needs what the caches claim about the cells (`CacheInv`), and which cases are
  beyond a promise (`Loose`, `Tainted`). Between the two readings only the sheets that
  lag can move, and they move to the inputs of the combination, so the second reading
  is the right one where the first was old or blank. The proof found the list of excuses
  incomplete as it first stood: after C1.1 has let a collapsed late result pass,
  the next combination may take the recalculation it has not waited for. TLC's
  instance had no plan long enough to show it.
- `PromptIsServed` from `InputInv` and `KeepingUp`: after a refresh the remembered
  outputs are blank, so the next look at a spreadsheet that keeps up is accepted.

They use `BatchAssumption`, `PlanAssumption` (a C3 task has one K-line, a training
task one stock, a product of a multi-product task one window; no empty range is
asked for) and `RefreshAssumption`: `sheet_refresh_attempts` has a default that is
not empty (`google_sheet_tasks/base.py`), and the echo of a parameter passes
the check with itself. A configuration that empties the list has no refresh, and
`PromptNeverTimesOut` is not claimed for it.

### Maintenance (`MaintenanceProofs`, `SheetDataProofs`)

- `ScheduleTypeCorrect`, `RunsAreExclusive`: `ExclusiveRuns` with the types is
  inductive; that the row names the instance whose trigger or worker executes is
  what makes the WHERE clause of `acquire_run_lock` sufficient.
- `RowsAreScheduled`, assuming `SerialEdits`, from `LoadInv`: a process that has read
  the rows but not scheduled them has them in hand, an edit under way is about to
  change the schedule, and a row that is lost on the way is one whose last attempt
  failed (`dropped`). Failures of the database, of the expression and of the trigger are
  steps of the specification, so the theorem says that there is no other way.
- `TokenTypes`, `QuotaIsKept`: a start commits its row as running before it counts, so
  the tasks that have passed the check are among those the next check counts.
  `CounterIsExact` from `CountInv`: an operation that no other one overlapped
  knows what the counter has to be.
- `ConfigTypeCorrect`, `CacheStaysCoherent` from `ConfigInv`: of each copy of the
  table that a request carries to the step at which it replaces the cache, the
  invariant says what `CacheCoherent` says of the cache, and the lock makes it
  the only one.
- `WordExportTypes`, `ServedWhole` from `ExportInv`: documents are numbered in the
  order in which they replace each other; what an exporter sees at a later look
  is the one seen before, a later one or none, and no sidecar runs ahead of its
  document.
- `IndexIsExact` from `IndexInv`: under the lock there is one transaction, and while
  its task is clean it removes the rows of that task and inserts the best of its
  results that have a metric. That a best one exists and is unique is a lemma by
  well-founded induction on finite sets.
- `ChatTakesNth` from `ListInv`: what a conversation shows and what is cached for it
  change together, so a number takes the entry at that place however the rows and
  their order have changed; a list that is too old is found by no number.
- `RowsAreOwn` from `RowInv`: what each row of the sheet may show after the first
  clear (`Explained`), and how far each clear reaches.
- `SheetRowTypes`, `LibraryTypes`, `SnapshotTypesCorrect`, `IndexTypesCorrect`,
  `ChatTypes`: the types of the state of each component, on top of its invariant. For
  the kept rows they need `WithinPlan`: no thread has more executions left to do than
  the plan has. For a chat, that a page is cut out of the rows just ordered, which
  has each task once.
- `TypesCorrect`: `TypeOK` of `MaintenanceMC`, the run in which the first state chooses the
  component that moves. The component that was chosen begins and moves as its
  own specification says (`PartBegins`, `PartMoves`), so its type theorem carries
  over; so would every other theorem of this section.
- `AnswersExplained` from `LibraryInv`: until a day is left out for one of the reasons,
  the days the library has and those that calls are still writing leave no gap
  together, in whatever order they are written, whatever range was asked for and
  whichever kind of provider answered. A fetch that stands apart from the rows of the
  library (an older range, or too few of the newest rows) is one of the reasons.
- `KeptRowsRepeat` from `RowsInv`: the tables have one row of a key and only grow
  within an epoch; what a combination was executed with is still kept.
  `FailuresExplained` from `FailureInv`: unless something is excused, the rows of a
  thread agree with its stock, and nobody else is about to insert what it has
  not found.

### Windows (`SheetDataProofs`), for every stretch of dates and list of parameters

`PlanTypes` and `PlansAreExact`, from `PlanInv` (a request is planned once, by the
expansion of its kind). What has to be shown is about the expansions:

- `RegisteredIs`: registering goes through the windows one by one, and after the first
  k of them (`RegisteredUpTo`) each label has the rows of the window that took it
  first, and a window with rows is kept or gives way. It gives way only if it is a
  recent window whose label other rows have. That no other window can meet its
  label again (`Fits`) is a fact about each list of windows: `AutoWindowsAre`,
  `C4WindowsAre`, `TrainingWindowsAre`.
- `GivenWay`: the label of a recent window is made of the years of its rows, so two
  windows that share one begin in one calendar year; these are the exceptions that
  `EveryWindowPlanned` names, and there are no others.
- `CombinationsAre`, `DeduplicatedIs`, `SignaturesTell`: the nested loops make each pair
  and group of each window, the first of each signature stays, and signatures tell
  executions apart unless random groups make executions of the same rows differ.
- `YearsReach`: a training looks back far enough for each year it is asked for, so
  cutting the rows at its start takes none of a year away.
- `CustomIs`: the announced number is an upper bound, and exact without repetition.

The proofs need of the constants that the dates start at 0 without a gap and that
the lists of parameters are sequences (`PlanAssumption`).

### Figures (`ReturnMetricsProofs`), for every frame

- `FramesGrowByMonth` from `FrameInv`: the rows have their types, and the months never
  go back. It is the only thing the figures need of the way a frame comes about;
  its consequence is that the groups by month and by year are stretches of the
  frame (`YearsDivide`, `EndsListed`).
- `FiguresAlwaysAgree`: `FiguresAgree` in any such frame. Each side of each equation is
  a loop of its own in the code, so each loop has an invariant over the rows it
  has seen: the longest stretch below an earlier peak (`RepairUpTo`), the same by
  years, where a stretch is handed from one year to the next (`YearsUpTo`), the
  first row of the deepest fall (`LightUpTo`), the longest runs of gaining and of
  losing months (`StreakUpTo`), the months above all before them (`HighsUpTo`). The
  growths multiply to the growth of the frame since the closes in between cancel
  (`Telescope`). For the first year the product of the months is the last close over
  `One`, the growth the last close over the first row: equal if and only if that row
  is `One`, which is the equivalence `ReturnsCompound` ends with. Drawdown, repair days and
  new highs are proved for values of any sign.
- The loops are folds, and the induction theorems of the library cannot be
  instantiated. `EveryNatural` (`LoopProofs`) states induction for a set and follows
  from `NatLessThanWellFounded`, which needs no instance; `FoldExists` and `FoldRun`
  use it to show that a fold goes through a sequence of values, one for each row. In
  `ReturnMetrics`, `WindowPlan` and `ChatCommands` sorted lists are therefore written with `InOrder`, the
  increasing listing of a finite set, and not with recursive helpers.

### Only model-checked

- Liveness (`QueuedServed`, `LocksReleased`, `HungTaskSettles`, `ExecutionEnds`,
  `LockRecovered`): fairness and `ENABLED` are out of reach of the prover.
- The violations, which are counterexamples and need no proof.

## 10. What is not modelled

- Formatting and pure computation: workbooks, report documents, PDF files, ratios
  with roots and powers, rolling windows, distributions, strategies. They are the
  larger part of the code by lines; a unit test reaches them as well as a model.
- Network clients: the retry of a request to Google and the parsing of ranges,
  the price providers and their proxies. Their failures are actions of the models
  that call them.
- Reading for pages: task results, logs, dashboards, queries of the summary index.
- Authentication, users, roles, navigation, token administration: rows that are
  edited one at a time, on which no component above decides.
- Of boot: schema repair, seeds, display counters. Of the watchdog: its alarms.
- The quota counts of `start_task` are read at one moment; that two starts of
  different tasks may both pass the last free place is a hazard without a property,
  since the pool bounds what really runs. Boot resumes from a list it read once and
  may write the queue mark over a task that a relay has started meanwhile;
  `TaskRecovery` models it, and `QueuedNotExecuting` is therefore not claimed there.
