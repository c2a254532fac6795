---------------------------- MODULE SummaryIndex ----------------------------
(***************************************************************************)
(* The summary index of the task results                                   *)
(* (app/services/model_summary/jobs.py, the index part of                  *)
(* app/repositories/backtest_repository.py, data_cleanup.py).              *)
(*                                                                         *)
(* For each task and period the index keeps the best result. A task writes *)
(* its rows when its work is over; an administrator rebuilds all of them   *)
(* in a background job. Both read the results, remove the old rows and     *)
(* insert the new ones in a transaction under _index_lock; results are     *)
(* saved, cleaned up and deleted without it.                               *)
(***************************************************************************)
EXTENDS Integers, FiniteSets

CONSTANTS
  IndexedTask,
  Result,       \* ids of task_results, in the order they are saved
  Owner,        \* task of a result
  Period,       \* group key of a result: period, year or K-line range
  Metric,       \* best_metric_value; Null when it cannot be parsed
  Date,         \* day of result_timestamp
  Rebuild,      \* rebuild jobs, by their row in tasks
  Null,
  ResetIndex    \* what an administrator may choose for reset

ASSUME IndexAssumption ==
  /\ Result \subseteq Nat
  /\ Owner \in [Result -> IndexedTask]
  /\ Metric \in [Result -> Int \cup {Null}]
  /\ Date \in [Result -> Int]
  /\ ResetIndex \subseteq BOOLEAN
  /\ Null \notin Int
  /\ IndexedTask \cap Rebuild = {}

VARIABLES
  work,      \* a task: running, upserting its index rows, finished
  saved,     \* rows of task_results
  index,     \* rows of the index: one result and the transaction that wrote it
  inside,    \* holder of _index_lock, at most one
  pending,   \* the transaction of a holder
  job,       \* rebuild jobs
  dirty      \* history: results of a task changed since its rows were derived

indexVars == <<work, saved, index, inside, pending, job, dirty>>

Actor == IndexedTask \cup Rebuild
NoPending == [tasks |-> {}, old |-> {}, new |-> {}]
JobRow == {"none", "pending", "running", "completed"}
NoJob == [row |-> "none", thread |-> "none", reset |-> FALSE, left |-> {}]

ResultsOf(ts) == {r \in saved : Owner[r] \in ts}
RowsOf(ts) == {x \in index : Owner[x.result] \in ts}

\* _extract_candidate_records: results without a metric are not ranked.
Candidates(rs) == {r \in rs : Metric[r] # Null}

\* _is_better_record: the greater metric, then the newer.
Better(r, s) == Metric[r] > Metric[s] \/ (Metric[r] = Metric[s] /\ r > s)
BestOf(rs) == CHOOSE r \in rs : \A s \in rs \ {r} : Better(r, s)

SamePeriod(r, q) == Owner[r] = Owner[q] /\ Period[r] = Period[q]
Best(rs) == {BestOf({r \in Candidates(rs) : SamePeriod(r, q)}) : q \in Candidates(rs)}

IndexTypeOK ==
  /\ work \in [IndexedTask -> {"running", "upsert", "ending", "finished"}]
  /\ saved \subseteq Result
  /\ index \subseteq [result : Result, by : Actor]
  /\ inside \subseteq Actor
  /\ pending \in [Actor -> [tasks : SUBSET IndexedTask, old : SUBSET [result : Result, by : Actor], new : SUBSET Result]]
  /\ \A b \in Rebuild : /\ job[b].row \in JobRow
                        /\ job[b].left \subseteq IndexedTask
  /\ dirty \in [IndexedTask -> BOOLEAN]

IndexInit ==
  /\ work = [t \in IndexedTask |-> "running"]
  /\ saved = {}
  /\ index = {}
  /\ inside = {}
  /\ pending = [a \in Actor |-> NoPending]
  /\ job = [b \in Rebuild |-> NoJob]
  /\ dirty = [t \in IndexedTask |-> FALSE]

Soil(ts) == dirty' = [t \in IndexedTask |-> dirty[t] \/ t \in ts]

-----------------------------------------------------------------------------
(* Results come and go without the index lock.                             *)

SaveResult(r) ==
  /\ work[Owner[r]] = "running"
  /\ r \notin saved
  /\ \A q \in Result : Owner[q] = Owner[r] /\ q < r => q \in saved
  /\ saved' = saved \cup {r}
  /\ Soil({Owner[r]})
  /\ UNCHANGED <<work, index, inside, pending, job>>

\* cleanup_old_results: the oldest results go, with the index rows that name them.
CleanupResult(r) ==
  /\ r \in saved
  /\ \A q \in saved : r <= q
  /\ saved' = saved \ {r}
  /\ index' = {x \in index : x.result # r}
  /\ Soil({Owner[r]})
  /\ UNCHANGED <<work, inside, pending, job>>

\* clear_task_execution_data, by a restart from the first step.
ClearAndRestart(t) ==
  /\ work[t] = "finished"
  /\ saved' = saved \ ResultsOf({t})
  /\ index' = index \ RowsOf({t})
  /\ work' = [work EXCEPT ![t] = "running"]
  /\ Soil({t})
  /\ UNCHANGED <<inside, pending, job>>

-----------------------------------------------------------------------------
(* One index transaction: _upsert_task_batch under _index_lock.            *)

EndWork(t) ==
  /\ work[t] = "running"
  /\ work' = [work EXCEPT ![t] = "upsert"]
  /\ UNCHANGED <<saved, index, inside, pending, job, dirty>>

LockIndex(a) ==
  /\ inside = {}
  /\ inside' = inside \cup {a}

\* The results are read and the rows to remove are fixed; nothing is visible yet.
Derive(a, ts) ==
  /\ pending[a] = NoPending
  /\ pending' = [pending EXCEPT ![a] =
       [tasks |-> ts, old |-> RowsOf(ts), new |-> Best(ResultsOf(ts))]]
  /\ dirty' = [t \in IndexedTask |-> dirty[t] /\ t \notin ts]

InsertBeside(a) ==
  /\ index' = index \cup {[result |-> r, by |-> a] : r \in pending[a].new}
  /\ pending' = [pending EXCEPT ![a] = NoPending]

Insert(a) ==
  /\ index' = (index \ pending[a].old) \cup {[result |-> r, by |-> a] : r \in pending[a].new}
  /\ pending' = [pending EXCEPT ![a] = NoPending]

UpsertLock(t) ==
  /\ work[t] = "upsert"
  /\ LockIndex(t)
  /\ UNCHANGED <<work, saved, index, pending, job, dirty>>

UpsertDerive(t) ==
  /\ t \in inside
  /\ work[t] = "upsert"
  /\ Derive(t, {t})
  /\ UNCHANGED <<work, saved, index, inside, job>>

UpsertCommit(t) ==
  /\ t \in inside
  /\ pending[t].tasks = {t}
  /\ Insert(t)
  /\ inside' = inside \ {t}
  /\ work' = [work EXCEPT ![t] = "ending"]
  /\ UNCHANGED <<saved, job, dirty>>

\* The final status is written after the index.
FinishTask(t) ==
  /\ work[t] = "ending"
  /\ work' = [work EXCEPT ![t] = "finished"]
  /\ UNCHANGED <<saved, index, inside, pending, job, dirty>>

\* A task that fails or is cancelled writes no index.
FinishWithoutIndex(t) ==
  /\ work[t] = "running"
  /\ work' = [work EXCEPT ![t] = "finished"]
  /\ UNCHANGED <<saved, index, inside, pending, job, dirty>>

-----------------------------------------------------------------------------
(* The rebuild job.                                                        *)

ActiveJob == \E b \in Rebuild : job[b].row \in {"pending", "running"}

\* start_rebuild_job under _jobs_lock: no second job beside an active row.
StartJob(b, reset) ==
  /\ job[b].row = "none"
  /\ ~ActiveJob
  /\ job' = [job EXCEPT ![b] = [row |-> "pending", thread |-> "start", reset |-> reset, left |-> {}]]
  /\ UNCHANGED <<work, saved, index, inside, pending, dirty>>

RunJob(b) ==
  /\ job[b].thread = "start"
  /\ job' = [job EXCEPT ![b].row = "running", ![b].thread = "lock"]
  /\ UNCHANGED <<work, saved, index, inside, pending, dirty>>

RebuildLock(b) ==
  /\ job[b].thread = "lock"
  /\ LockIndex(b)
  /\ job' = [job EXCEPT ![b].thread = IF job[b].reset THEN "reset" ELSE "list"]
  /\ UNCHANGED <<work, saved, index, pending, dirty>>

\* Commits before the tasks are listed.
ResetAll(b) ==
  /\ job[b].thread = "reset"
  /\ index' = {}
  /\ Soil(IndexedTask)
  /\ job' = [job EXCEPT ![b].thread = "list"]
  /\ UNCHANGED <<work, saved, inside, pending>>

ListFinished(b) ==
  /\ job[b].thread = "list"
  /\ job' = [job EXCEPT ![b].thread = "batch", ![b].left = {t \in IndexedTask : work[t] = "finished"}]
  /\ UNCHANGED <<work, saved, index, inside, pending, dirty>>

\* A batch is one transaction.
BatchDerive(b) ==
  /\ job[b].thread = "batch"
  /\ \E t \in job[b].left : Derive(b, {t})
  /\ UNCHANGED <<work, saved, index, inside, job>>

BatchCommit(b) ==
  /\ job[b].thread = "batch"
  /\ pending[b] # NoPending
  /\ Insert(b)
  /\ job' = [job EXCEPT ![b].left = @ \ pending[b].tasks]
  /\ UNCHANGED <<work, saved, inside, dirty>>

\* dedupe_best_per_task: of the rows of a task and period one is kept, of the newest
\* day and, of that day, with the greatest metric. Rows that tie are told apart by
\* their row id: any of them.
RanksAfter(x, y) ==
  \/ Date[x.result] < Date[y.result]
  \/ Date[x.result] = Date[y.result] /\ Metric[x.result] < Metric[y.result]

FirstOfEach(kept) ==
  /\ \A x \in index : \E y \in kept : SamePeriod(x.result, y.result)
  /\ \A x \in index, y \in kept : SamePeriod(x.result, y.result) =>
       ~RanksAfter(y, x) /\ (x \in kept => x = y)

EndJob(b) ==
  /\ job[b].thread = "batch"
  /\ job[b].left = {}
  /\ pending[b] = NoPending
  /\ \E kept \in SUBSET index : FirstOfEach(kept) /\ index' = kept
  /\ inside' = inside \ {b}
  /\ job' = [job EXCEPT ![b].row = "completed", ![b].thread = "none"]
  /\ UNCHANGED <<work, saved, pending, dirty>>

-----------------------------------------------------------------------------
UpsertStep(t) == EndWork(t) \/ UpsertLock(t) \/ UpsertDerive(t) \/ UpsertCommit(t) \/ FinishTask(t)

RebuildStep(b) ==
  \/ RunJob(b) \/ RebuildLock(b) \/ ResetAll(b) \/ ListFinished(b)
  \/ BatchDerive(b) \/ BatchCommit(b) \/ EndJob(b)

IndexNext ==
  \/ \E r \in Result : SaveResult(r) \/ CleanupResult(r)
  \/ \E t \in IndexedTask : UpsertStep(t) \/ FinishWithoutIndex(t) \/ ClearAndRestart(t)
  \/ \E b \in Rebuild :
       \/ RebuildStep(b)
       \/ \E reset \in ResetIndex : StartJob(b, reset)

IndexSpec == IndexInit /\ [][IndexNext]_indexVars

-----------------------------------------------------------------------------
(* Properties.                                                             *)

\* Whatever upserts, rebuilds, cleanups and restarts overlap: the rows of a task
\* name exactly the best result of each period that has one with a metric, unless its
\* results or its rows were changed after the last transaction had read them.
IndexExact ==
  \A t \in IndexedTask : ~dirty[t] /\ (\A a \in Actor : t \notin pending[a].tasks) =>
    {x.result : x \in RowsOf({t})} = Best(ResultsOf({t}))
=============================================================================
