--------------------------- MODULE ScheduledRuns ---------------------------
(***************************************************************************)
(* The scheduler of the maintenance jobs                                   *)
(* (app/services/scheduler_service.py, scheduled_task_worker.py,           *)
(* app/repositories/scheduled_task_repository.py).                         *)
(*                                                                         *)
(* A process loads the active rows into its in-memory schedule. A trigger, *)
(* the cron thread or "run now", takes the run lock of the row and starts  *)
(* a separate process for the work, which gives the lock back by the id of *)
(* the instance that started it. A lock older than the timeout is taken    *)
(* over. The worker process outlives the process that started it.          *)
(*                                                                         *)
(* An edit is checked by croniter, the schedule is kept by APScheduler,    *)
(* which reads fewer forms: a row of the other forms leaves the schedule   *)
(* and nobody is told. The same happens when the database fails between    *)
(* the two sides of an edit, or while the rows are loaded.                 *)
(***************************************************************************)
EXTENDS Integers, FiniteSets

CONSTANTS
  Job,            \* rows of scheduled_tasks
  Instance,       \* process starts, in order; each has its own instance_id
  MaxWorkers,     \* bound: worker processes of one instance and job at one time
  None,
  SerialEdits,    \* TRUE: one administrator at a time edits the rows
  MaxUp,          \* bound: processes up at one time
  MaxFaults       \* bound: failures of the database or of the spawn

ASSUME SchedulerAssumption ==
  /\ None \notin Instance \cup Job
  /\ SerialEdits \in BOOLEAN
  /\ MaxUp \in Nat /\ MaxFaults \in Nat /\ MaxWorkers \in Nat

Kind == {"cron", "manual"}

\* What croniter accepts: the five fields that CronTrigger.from_crontab reads too,
\* and what it refuses (six fields, @daily).
Form == {"crontab", "extended"}

VARIABLES
  row,        \* is_active of a row; "absent" before create, "gone" after delete
  cron,       \* the form of cron_expression
  runBy,      \* running_instance_id; None when is_running is false
  stale,      \* the lock is held and last_run_time is older than the timeout
  proc,       \* life of a process
  loading,    \* active rows a starting process has read, with their form
  jobs,       \* the schedule of a process (APScheduler)
  dropped,    \* history: processes whose last attempt to schedule a row failed
  edits,      \* edits written to one side, not yet to the other
  behind,     \* history: processes that had read a row when another one edited it
  trig,       \* the thread of a trigger
  working,    \* number of worker processes, by the instance that started them
  disturbed,  \* history: a lock was taken from an execution that still runs
  faults

scheduleVars == <<row, cron, runBy, stale, proc, loading, jobs, dropped, edits, behind, trig,
                  working, disturbed, faults>>
rowVars == <<row, cron, edits, behind>>
procVars == <<proc, loading, jobs, dropped>>

Rows == {"absent", "active", "inactive", "gone"}
Life == {"new", "booting", "running", "loaded", "up", "down"}
Step == {"idle", "read", "acquire", "takeover", "record", "spawn", "release"}
Trigger == Instance \X Job \X Kind
RunningOnceLoaded(i) == proc[i] = "up"
Running(i) == proc[i] \in {"running", "loaded", "up"}

ScheduleTypeOK ==
  /\ row \in [Job -> Rows]
  /\ cron \in [Job -> Form]
  /\ runBy \in [Job -> Instance \cup {None}]
  /\ stale \in [Job -> BOOLEAN]
  /\ proc \in [Instance -> Life]
  /\ loading \in [Instance -> SUBSET (Job \X Form)]
  /\ jobs \in [Instance -> SUBSET Job]
  /\ dropped \subseteq Instance \X Job
  /\ edits \subseteq Instance \X Job \X {"active", "inactive", "gone"}
  /\ behind \subseteq Instance \X Job
  /\ trig \in [Trigger -> Step]
  /\ working \in [Instance \X Job -> 0..MaxWorkers]
  /\ disturbed \in [Job -> BOOLEAN]
  /\ faults \in 0..MaxFaults

\* Nothing runs.
QuietSchedule ==
  /\ row \in [Job -> {"absent", "active"}]
  /\ cron \in [Job -> Form] /\ \A j \in Job : row[j] = "absent" => cron[j] = "crontab"
  /\ runBy = [j \in Job |-> None]
  /\ stale = [j \in Job |-> FALSE]
  /\ loading = [i \in Instance |-> {}]
  /\ jobs = [i \in Instance |-> {}]
  /\ dropped = {}
  /\ edits = {}
  /\ behind = {}
  /\ trig = [g \in Trigger |-> "idle"]
  /\ working = [p \in Instance \X Job |-> 0]
  /\ disturbed = [j \in Job |-> FALSE]
  /\ faults = 0

ScheduleInit == QuietSchedule /\ proc = [i \in Instance |-> "new"]

Busy(j) == {i \in Instance : working[<<i, j>>] > 0}
Acquired(j) == {g \in Trigger : g[2] = j /\ trig[g] \in {"record", "spawn"}}
Executing(j) == Busy(j) # {} \/ Acquired(j) # {}

-----------------------------------------------------------------------------
(* The life of a process.                                                  *)

\* start(): the scheduler comes up half a minute after the process.
StartProcess(i) ==
  /\ proc[i] = "new" /\ \A k \in Instance : k < i => proc[k] # "new"
  /\ Cardinality({k \in Instance : proc[k] \notin {"new", "down"}}) < MaxUp
  /\ proc' = [proc EXCEPT ![i] = "booting"]
  /\ UNCHANGED <<rowVars, loading, jobs, dropped, runBy, stale, trig, working, disturbed, faults>>

\* is_running is set before the rows are read, so that no edit falls in between.
StartScheduler(i) ==
  /\ proc[i] = "booting"
  /\ proc' = [proc EXCEPT ![i] = "running"]
  /\ UNCHANGED <<rowVars, loading, jobs, dropped, runBy, stale, trig, working, disturbed, faults>>

LoadRows(i) ==
  /\ proc[i] = "running"
  /\ proc' = [proc EXCEPT ![i] = "loaded"]
  /\ loading' = [loading EXCEPT ![i] = {r \in Job \X Form : row[r[1]] = "active" /\ cron[r[1]] = r[2]}]
  /\ UNCHANGED <<rowVars, jobs, dropped, runBy, stale, trig, working, disturbed, faults>>

\* load_tasks_from_database swallows a failure of the database: the scheduler
\* runs without the rows.
LoadFails(i) ==
  /\ proc[i] = "running"
  /\ faults < MaxFaults
  /\ faults' = faults + 1
  /\ proc' = [proc EXCEPT ![i] = "up"]
  /\ dropped' = dropped \cup {p \in {i} \X Job : row[p[2]] = "active"}
  /\ UNCHANGED <<rowVars, loading, jobs, runBy, stale, trig, working, disturbed>>

Accepted(rows) == {j \in Job : <<j, "crontab">> \in rows}
Refused(rows)  == {j \in Job : <<j, "extended">> \in rows}

\* add_job of each row that was read. It removes the job of the row before it
\* reads the expression, and returns False for every failure: after one of the
\* database some rows may be left out.
AddLoaded(i) ==
  /\ proc[i] = "loaded"
  /\ proc' = [proc EXCEPT ![i] = "up"]
  /\ loading' = [loading EXCEPT ![i] = {}]
  /\ \E lost \in SUBSET loading[i] :
       LET added == loading[i] \ lost IN
       /\ lost # {} => faults < MaxFaults
       /\ faults' = IF lost = {} THEN faults ELSE faults + 1
       /\ jobs' = [jobs EXCEPT ![i] = (@ \ Refused(added)) \cup Accepted(added)]
       /\ dropped' = (dropped \ ({i} \X Accepted(added)))
                       \cup ({i} \X (Refused(added) \cup Accepted(lost) \cup Refused(lost)))
  /\ UNCHANGED <<rowVars, runBy, stale, trig, working, disturbed>>

\* The process ends with its threads; its worker processes and locks stay.
CrashProcess(i) ==
  /\ proc[i] \notin {"new", "down"}
  /\ \E k \in Instance : proc[k] = "new"
  /\ proc' = [proc EXCEPT ![i] = "down"]
  /\ loading' = [loading EXCEPT ![i] = {}]
  /\ jobs' = [jobs EXCEPT ![i] = {}]
  /\ dropped' = {p \in dropped : p[1] # i}
  /\ edits' = {e \in edits : e[1] # i}
  /\ behind' = {p \in behind : p[1] # i}
  /\ trig' = [g \in Trigger |-> IF g[1] = i THEN "idle" ELSE trig[g]]
  /\ UNCHANGED <<row, cron, runBy, stale, working, disturbed, faults>>

-----------------------------------------------------------------------------
(* A trigger: _execute_task in the cron thread or in the thread of "run    *)
(* now", at most one of each kind per process and job.                     *)

Fire(i, j, kind) ==
  /\ Running(i)
  /\ row[j] # "absent"
  /\ kind = "cron" => j \in jobs[i]
  /\ kind = "manual" => row[j] # "gone"
  /\ trig[<<i, j, kind>>] = "idle"
  /\ trig' = [trig EXCEPT ![<<i, j, kind>>] = "read"]
  /\ UNCHANGED <<rowVars, procVars, runBy, stale, working, disturbed, faults>>

AfterReadIfFree(j) ==
  IF row[j] = "active" /\ runBy[j] = None THEN "acquire" ELSE "idle"

\* A row that is running and not overdue is skipped; an overdue one is taken
\* over by a condition on its time.
AfterRead(j) ==
  IF row[j] # "active" THEN "idle"
  ELSE IF runBy[j] = None THEN "acquire"
  ELSE IF stale[j] THEN "takeover" ELSE "idle"

ReadRow(i, j, kind) ==
  /\ trig[<<i, j, kind>>] = "read"
  /\ trig' = [trig EXCEPT ![<<i, j, kind>>] = AfterRead(j)]
  /\ UNCHANGED <<rowVars, procVars, runBy, stale, working, disturbed, faults>>

AnyoneAcquires(j, pc) == row[j] # "gone"

\* The WHERE clause of acquire_run_lock.
CanAcquire(j, pc) ==
  /\ row[j] # "gone"
  /\ IF pc = "acquire" THEN runBy[j] = None ELSE runBy[j] = None \/ stale[j]

AcquireRunLock(i, j, kind) ==
  LET g == <<i, j, kind>> IN
  /\ trig[g] \in {"acquire", "takeover"}
  /\ IF CanAcquire(j, trig[g])
     THEN /\ runBy' = [runBy EXCEPT ![j] = i]
          /\ stale' = [stale EXCEPT ![j] = FALSE]
          /\ trig' = [trig EXCEPT ![g] = "record"]
          /\ disturbed' = [disturbed EXCEPT ![j] = @ \/ (stale[j] /\ Executing(j))]
     ELSE /\ trig' = [trig EXCEPT ![g] = "idle"]
          /\ UNCHANGED <<runBy, stale, disturbed>>
  /\ UNCHANGED <<rowVars, procVars, working, faults>>

\* refresh_entity fails when the row was deleted meanwhile.
RecordRun(i, j, kind) ==
  LET g == <<i, j, kind>> IN
  /\ trig[g] = "record"
  /\ trig' = [trig EXCEPT ![g] = IF row[j] = "gone" THEN "release" ELSE "spawn"]
  /\ UNCHANGED <<rowVars, procVars, runBy, stale, working, disturbed, faults>>

SpawnWorker(i, j, kind) ==
  LET g == <<i, j, kind>> IN
  /\ trig[g] = "spawn"
  /\ trig' = [trig EXCEPT ![g] = "idle"]
  /\ working[<<i, j>>] < MaxWorkers
  /\ working' = [working EXCEPT ![<<i, j>>] = @ + 1]
  /\ UNCHANGED <<rowVars, procVars, runBy, stale, disturbed, faults>>

\* An exception at any point, before the lock was taken too.
TriggerFails(i, j, kind) ==
  LET g == <<i, j, kind>> IN
  /\ trig[g] \in {"read", "acquire", "takeover", "record", "spawn"}
  /\ faults < MaxFaults
  /\ faults' = faults + 1
  /\ trig' = [trig EXCEPT ![g] = "release"]
  /\ UNCHANGED <<rowVars, procVars, runBy, stale, working, disturbed>>

\* release_run_lock: by the id of an instance, whoever of that instance took it.
Release(i, j) ==
  /\ runBy' = [runBy EXCEPT ![j] = IF @ = i THEN None ELSE @]
  /\ stale' = [stale EXCEPT ![j] = @ /\ runBy[j] # i]

ReleaseAfterFailure(i, j, kind) ==
  LET g == <<i, j, kind>> IN
  /\ trig[g] = "release"
  /\ trig' = [trig EXCEPT ![g] = "idle"]
  /\ Release(i, j)
  /\ disturbed' = [disturbed EXCEPT ![j] = @ \/ (runBy[j] = i /\ Executing(j))]
  /\ UNCHANGED <<rowVars, procVars, working, faults>>

-----------------------------------------------------------------------------
(* Worker processes and time.                                              *)

\* execute_task: the work is over, with or without success.
WorkerEnds(i, j) ==
  /\ working[<<i, j>>] > 0
  /\ working' = [working EXCEPT ![<<i, j>>] = @ - 1]
  /\ Release(i, j)
  /\ UNCHANGED <<rowVars, procVars, trig, disturbed, faults>>

WorkerDies(i, j) ==
  /\ working[<<i, j>>] > 0
  /\ faults < MaxFaults
  /\ faults' = faults + 1
  /\ working' = [working EXCEPT ![<<i, j>>] = @ - 1]
  /\ UNCHANGED <<rowVars, procVars, runBy, stale, trig, disturbed>>

\* Hours pass. Not in the middle of the statements of one trigger.
TimeoutPasses(j) ==
  /\ runBy[j] # None
  /\ ~stale[j]
  /\ \A g \in Trigger : g[2] = j => trig[g] \in {"idle", "read"}
  /\ stale' = [stale EXCEPT ![j] = TRUE]
  /\ UNCHANGED <<rowVars, procVars, runBy, trig, working, disturbed, faults>>

-----------------------------------------------------------------------------
(* create_task, update_task, toggle_task: the row first, then the schedule *)
(* of the process that serves the request. delete_task: the other way.     *)

EditRow(i, j, status, form) ==
  /\ proc[i] \notin {"new", "down"}
  /\ SerialEdits => edits = {}
  /\ row[j] # "gone"
  /\ row' = [row EXCEPT ![j] = status]
  /\ cron' = [cron EXCEPT ![j] = form]
  /\ behind' = (behind \ {<<i, j>>})
                  \cup {p \in Instance \X {j} : p[1] # i /\ proc[p[1]] \in {"loaded", "up"}}
  /\ edits' = IF Running(i) THEN edits \cup {<<i, j, status>>} ELSE edits
  /\ UNCHANGED <<procVars, runBy, stale, trig, working, disturbed, faults>>

Unschedule(i, j) ==
  /\ proc[i] \notin {"new", "down"}
  /\ SerialEdits => edits = {}
  /\ row[j] \notin {"absent", "gone"}
  /\ jobs' = [jobs EXCEPT ![i] = @ \ {j}]
  /\ edits' = edits \cup {<<i, j, "gone">>}
  /\ UNCHANGED <<row, cron, behind, proc, loading, dropped, runBy, stale, trig, working, disturbed, faults>>

\* remove_job, then add_job of the row as it is now, whose answer is not read.
SyncSchedule(i, j, status) ==
  /\ <<i, j, status>> \in edits
  /\ edits' = edits \ {<<i, j, status>>}
  /\ IF status = "gone"
     THEN /\ row' = [row EXCEPT ![j] = "gone"]
          /\ runBy' = [runBy EXCEPT ![j] = None]
          /\ stale' = [stale EXCEPT ![j] = FALSE]
          /\ UNCHANGED <<jobs, dropped>>
     ELSE LET added == status = "active" /\ row[j] # "gone" /\ cron[j] = "crontab" IN
          /\ jobs' = [jobs EXCEPT ![i] = IF added THEN @ \cup {j} ELSE @ \ {j}]
          /\ dropped' = IF status = "inactive" \/ added THEN dropped \ {<<i, j>>}
                                                       ELSE dropped \cup {<<i, j>>}
          /\ UNCHANGED <<row, runBy, stale>>
  /\ UNCHANGED <<cron, behind, proc, loading, trig, working, disturbed, faults>>

\* The database fails between the two sides: the job is removed by then.
SyncFails(i, j, status) ==
  /\ <<i, j, status>> \in edits
  /\ faults < MaxFaults
  /\ faults' = faults + 1
  /\ edits' = edits \ {<<i, j, status>>}
  /\ jobs' = [jobs EXCEPT ![i] = IF status = "gone" THEN @ ELSE @ \ {j}]
  /\ dropped' = dropped \cup {<<i, j>>}
  /\ UNCHANGED <<row, cron, behind, proc, loading, runBy, stale, trig, working, disturbed>>

-----------------------------------------------------------------------------
BootStep(i) == StartProcess(i) \/ StartScheduler(i) \/ LoadRows(i) \/ AddLoaded(i)

TriggerStep(i, j, kind) ==
  /\ trig[<<i, j, kind>>] # "idle"
  /\ \/ ReadRow(i, j, kind) \/ AcquireRunLock(i, j, kind) \/ RecordRun(i, j, kind)
     \/ SpawnWorker(i, j, kind) \/ ReleaseAfterFailure(i, j, kind)

ScheduleNext ==
  \/ \E i \in Instance :
       \/ BootStep(i) \/ LoadFails(i) \/ CrashProcess(i)
       \/ \E j \in Job :
            \/ \E kind \in Kind :
                 Fire(i, j, kind) \/ TriggerStep(i, j, kind) \/ TriggerFails(i, j, kind)
            \/ \E status \in {"active", "inactive"}, form \in Form : EditRow(i, j, status, form)
            \/ Unschedule(i, j)
            \/ WorkerEnds(i, j) \/ WorkerDies(i, j)
            \/ \E status \in {"active", "inactive", "gone"} :
                 SyncSchedule(i, j, status) \/ SyncFails(i, j, status)
  \/ \E j \in Job : TimeoutPasses(j)

ScheduleSpec == ScheduleInit /\ [][ScheduleNext]_scheduleVars

\* Processes are restarted and come up, threads run, cron fires, an edit that
\* wrote one side writes the other, and time passes. Nobody has to edit a row or
\* press "run now", and no worker process has to end.
ScheduleFairness ==
  /\ WF_scheduleVars(\E i \in Instance : BootStep(i))
  /\ WF_scheduleVars(\E e \in edits : SyncSchedule(e[1], e[2], e[3]))
  /\ \A j \in Job :
       /\ WF_scheduleVars(\E i \in Instance : Fire(i, j, "cron"))
       /\ \A kind \in Kind : WF_scheduleVars(\E i \in Instance : TriggerStep(i, j, kind))
       /\ WF_scheduleVars(TimeoutPasses(j))

ScheduleFairSpec == ScheduleSpec /\ ScheduleFairness

-----------------------------------------------------------------------------
(* Properties.                                                             *)

\* The run lock admits one execution at a time, over processes, the two kinds
\* of trigger and restarts that worker processes outlive: until a lock is taken
\* over from, or released under, an execution that is still alive.
ExclusiveRuns ==
  \A j \in Job : ~disturbed[j] =>
    /\ \A g, h \in Acquired(j) : g = h
    /\ Acquired(j) # {} => Busy(j) = {}
    /\ \A i, k \in Busy(j) : i = k /\ working[<<i, j>>] = 1
    /\ row[j] # "gone" =>
         /\ \A g \in Acquired(j) : runBy[j] = g[1]
         /\ \A i \in Busy(j) : runBy[j] = i

\* A row that is active is in the schedule of every process that has loaded the
\* rows, whatever edits fell into the start of the scheduler, with two exceptions:
\* the row was edited through another process since, or the last attempt of this one
\* to schedule it failed. Then it is out of the schedule, and stays out until it is
\* edited again or the process is restarted.
ActiveIsScheduled ==
  \A i \in Instance, j \in Job :
    /\ proc[i] = "up" /\ row[j] = "active" /\ <<i, j>> \notin behind
    /\ ~\E e \in edits : e[1] = i /\ e[2] = j
    /\ <<i, j>> \notin dropped
    => j \in jobs[i]

\* The lock of an execution that died does not block its job for ever: after the
\* timeout the next trigger takes it over, in a new process too, as long as the row
\* is active and no process failed to schedule it.
LockRecovered ==
  \A j \in Job :
    (runBy[j] # None /\ ~Executing(j))
      ~> (runBy[j] = None \/ Executing(j) \/ row[j] # "active" \/ \E i \in Instance : <<i, j>> \in dropped)
=============================================================================
