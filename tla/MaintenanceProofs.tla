------------------------- MODULE MaintenanceProofs -------------------------
(***************************************************************************)
(* Proofs about the components that keep what is counted or derived: the   *)
(* scheduler of the recurring jobs and the quota of the Google tokens,     *)
(* which count and lock in the database; the system configuration, kept in *)
(* memory under a lock that its writers take late; the generated Word      *)
(* reports, kept on disk without a lock; the index of the best results,    *)
(* which jobs in the database recompute; the lists of tasks that the chat  *)
(* service keeps.                                                          *)
(*                                                                         *)
(* First part: the run lock admits one execution of a job at a time, for   *)
(* every number of jobs and processes, until a lock is taken over from an  *)
(* execution that is still alive. With the types ExclusiveRuns is          *)
(* inductive: that the row names the instance whose trigger or worker      *)
(* executes is what makes the WHERE clause of acquire_run_lock sufficient. *)
(*                                                                         *)
(* Second part: an active row is in the schedule of the process it was     *)
(* edited through, if the edits of the administrators come one at a time.  *)
(* A process that has read the rows but not yet scheduled them keeps them  *)
(* in hand, and an edit that is under way is about to schedule its row.    *)
(*                                                                         *)
(* Third part: starts in any number and any order do not overrun the limit *)
(* of a token or of the system, and the stored counter is exact. Each      *)
(* start commits its row as running before it counts the rows that run. So *)
(* the tasks that have passed the check are among those that the next      *)
(* check counts, and it lets one more pass only below the limit. No other  *)
(* step adds to them.                                                      *)
(*                                                                         *)
(* Fourth part: no stale entry of the configuration outlives the requests  *)
(* that raced. CacheCoherent speaks of the cache and the table. A request  *)
(* that loads rows carries a copy of the table to the step at which it     *)
(* replaces the cache, so the invariant says of each copy what             *)
(* CacheCoherent says of the cache: it is what the table says, or a writer *)
(* has not finished. It needs that there is one copy at a time, which the  *)
(* lock provides.                                                          *)
(*                                                                         *)
(* Fifth part: a report from the disk is served whole, in time and under   *)
(* its own name or an earlier one, for any number of exporters and any     *)
(* times. Between its looks at the disk an exporter knows only what it     *)
(* saw. What carries over is that documents are numbered in the order in   *)
(* which they replace each other: the document that is there at a later    *)
(* look is the one seen before, a later one, or none. The sidecar, and the *)
(* one that a writer is about to put there, never run ahead of the         *)
(* document.                                                               *)
(*                                                                         *)
(* Sixth part: the index of a task that is not marked dirty names the best *)
(* result of each of its periods and nothing else. A transaction is of one *)
(* task, and while that task is clean it removes the rows of the task and  *)
(* inserts the best of its results.                                        *)
(*                                                                         *)
(* Seventh part: a number of a chat takes the entry of the last list of    *)
(* its conversation. The cache and what the chat shows change together,    *)
(* list by list; the rows and their order do not matter. For the types     *)
(* they do: a page that is cached is one the rows were just ordered into,  *)
(* each task once.                                                         *)
(*                                                                         *)
(* Last part: all components in one run. A part takes the steps of its own *)
(* specification, the part that moves is never another one, and so each    *)
(* type theorem carries over to the run.                                   *)
(***************************************************************************)
EXTENDS MaintenanceMC, SheetDataProofs, ReturnMetricsProofs

(* The run lock. *)

\* ExclusiveRuns of one job.
Exclusive(j) ==
  /\ \A g, h \in Acquired(j) : g = h
  /\ Acquired(j) # {} => Busy(j) = {}
  /\ \A i, k \in Busy(j) : i = k /\ working[<<i, j>>] = 1
  /\ row[j] # "gone" =>
       /\ \A g \in Acquired(j) : runBy[j] = g[1]
       /\ \A i \in Busy(j) : runBy[j] = i

ScheduleInv == ScheduleTypeOK /\ ExclusiveRuns

LEMMA ExclusiveRunsOfEach == ExclusiveRuns <=> \A j \in Job : ~disturbed[j] => Exclusive(j)
BY DEF ExclusiveRuns, Exclusive

-----------------------------------------------------------------------------
LEMMA ScheduleInitial == ScheduleInit => ScheduleInv
<1> SUFFICES ASSUME ScheduleInit PROVE ScheduleInv
  OBVIOUS
<1>1. ScheduleTypeOK
  BY SchedulerAssumption DEF ScheduleInit, QuietSchedule, ScheduleTypeOK, Rows, Life, Step
<1>2. \A j \in Job : Acquired(j) = {} /\ Busy(j) = {}
  BY DEF ScheduleInit, QuietSchedule, Acquired, Busy
<1> QED
  BY <1>1, <1>2 DEF ScheduleInv, ExclusiveRuns

(***************************************************************************)
(* Every step keeps the types.                                             *)
(***************************************************************************)
LEMMA ScheduleTypes ==
  ASSUME ScheduleTypeOK, [ScheduleNext]_scheduleVars
  PROVE  ScheduleTypeOK'
<1>1. CASE UNCHANGED scheduleVars
  BY <1>1, SchedulerAssumption DEF ScheduleTypeOK, scheduleVars
<1>2. ASSUME NEW i \in Instance, BootStep(i)
      PROVE  ScheduleTypeOK'
  <2>1. CASE StartProcess(i) \/ StartScheduler(i)
    BY <2>1, SchedulerAssumption DEF ScheduleTypeOK, StartProcess, StartScheduler, rowVars, Life
  <2>2. CASE LoadRows(i)
    <3>1. {r \in Job \X Form : row[r[1]] = "active" /\ cron[r[1]] = r[2]} \in SUBSET (Job \X Form)
      OBVIOUS
    <3> QED
      BY <2>2, <3>1, SchedulerAssumption DEF ScheduleTypeOK, LoadRows, rowVars, Life
  <2>3. CASE AddLoaded(i)
    <3>1. PICK lost \in SUBSET loading[i] :
            LET added == loading[i] \ lost IN
            /\ lost # {} => faults < MaxFaults
            /\ faults' = IF lost = {} THEN faults ELSE faults + 1
            /\ jobs' = [jobs EXCEPT ![i] = (@ \ Refused(added)) \cup Accepted(added)]
            /\ dropped' = (dropped \ ({i} \X Accepted(added)))
                            \cup ({i} \X (Refused(added) \cup Accepted(lost) \cup Refused(lost)))
      BY <2>3 DEF AddLoaded
    <3>2. \A rows : Accepted(rows) \subseteq Job /\ Refused(rows) \subseteq Job
      BY DEF Accepted, Refused
    <3>3. PICK got : got = Accepted(loading[i] \ lost) /\ got \subseteq Job
      BY <3>2
    <3>4. PICK out : out = Refused(loading[i] \ lost) /\ out \subseteq Job
      BY <3>2
    <3>5. PICK left : left = out \cup Accepted(lost) \cup Refused(lost) /\ left \subseteq Job
      BY <3>2, <3>4
    <3>6. /\ jobs' = [jobs EXCEPT ![i] = (@ \ out) \cup got]
          /\ dropped' = (dropped \ ({i} \X got)) \cup ({i} \X left)
      BY <3>1, <3>3, <3>4, <3>5
    <3>7. jobs' \in [Instance -> SUBSET Job]
      BY <3>3, <3>4, <3>6 DEF ScheduleTypeOK
    <3>8. dropped' \subseteq Instance \X Job
      BY <3>3, <3>5, <3>6 DEF ScheduleTypeOK
    <3>9. faults' \in 0..MaxFaults
      BY <3>1, SchedulerAssumption DEF ScheduleTypeOK
    <3>10. /\ proc' \in [Instance -> Life]
           /\ loading' \in [Instance -> SUBSET (Job \X Form)]
      BY <2>3 DEF ScheduleTypeOK, AddLoaded, Life
    <3>11. UNCHANGED <<rowVars, runBy, stale, trig, working, disturbed>>
      BY <2>3 DEF AddLoaded
    <3> QED
      BY <3>7, <3>8, <3>9, <3>10, <3>11 DEF ScheduleTypeOK, rowVars
  <2> QED
    BY <1>2, <2>1, <2>2, <2>3 DEF BootStep
<1>2a. ASSUME NEW i \in Instance, LoadFails(i)
       PROVE  ScheduleTypeOK'
  <2>1. dropped' \subseteq Instance \X Job
    BY <1>2a DEF ScheduleTypeOK, LoadFails
  <2> QED
    BY <1>2a, <2>1, SchedulerAssumption DEF ScheduleTypeOK, LoadFails, rowVars, Life
<1>3. ASSUME NEW i \in Instance, CrashProcess(i)
      PROVE  ScheduleTypeOK'
  <2>1. dropped' \subseteq Instance \X Job
    BY <1>3 DEF ScheduleTypeOK, CrashProcess
  <2> QED
    BY <1>3, <2>1, SchedulerAssumption DEF ScheduleTypeOK, CrashProcess, Life, Step
<1>4. ASSUME NEW i \in Instance, NEW j \in Job, NEW kind \in Kind,
             Fire(i, j, kind) \/ TriggerStep(i, j, kind) \/ TriggerFails(i, j, kind)
      PROVE  ScheduleTypeOK'
  <2>1. <<i, j, kind>> \in Trigger /\ <<i, j>> \in Instance \X Job
    BY DEF Trigger
  <2>2. CASE Fire(i, j, kind)
    BY <2>1, <2>2, SchedulerAssumption DEF ScheduleTypeOK, Fire, rowVars, procVars, Step
  <2>3. CASE ReadRow(i, j, kind)
    BY <2>1, <2>3, SchedulerAssumption DEF ScheduleTypeOK, ReadRow, AfterRead, rowVars, procVars, Step
  <2>4. CASE AcquireRunLock(i, j, kind)
    <3> DEFINE g == <<i, j, kind>>
    <3>1. ASSUME CanAcquire(j, trig[g])
          PROVE  /\ runBy' \in [Job -> Instance \cup {None}]
                 /\ stale' \in [Job -> BOOLEAN]
                 /\ trig' \in [Trigger -> Step]
      <4>1. /\ runBy' = [runBy EXCEPT ![j] = i]
            /\ stale' = [stale EXCEPT ![j] = FALSE]
            /\ trig' = [trig EXCEPT ![g] = "record"]
        BY <2>4, <3>1 DEF AcquireRunLock
      <4> QED
        BY <2>1, <4>1 DEF ScheduleTypeOK, Step
    <3>2. ASSUME ~CanAcquire(j, trig[g])
          PROVE  /\ runBy' \in [Job -> Instance \cup {None}]
                 /\ stale' \in [Job -> BOOLEAN]
                 /\ trig' \in [Trigger -> Step]
      <4>1. /\ trig' = [trig EXCEPT ![g] = "idle"]
            /\ UNCHANGED <<runBy, stale>>
        BY <2>4, <3>2 DEF AcquireRunLock
      <4> QED
        BY <2>1, <4>1 DEF ScheduleTypeOK, Step
    <3>3. disturbed' \in [Job -> BOOLEAN]
      BY <2>4 DEF ScheduleTypeOK, AcquireRunLock
    <3>4. UNCHANGED <<rowVars, procVars, working, faults>>
      BY <2>4 DEF AcquireRunLock
    <3> QED
      BY <3>1, <3>2, <3>3, <3>4, SchedulerAssumption DEF ScheduleTypeOK, rowVars, procVars
  <2>5. CASE RecordRun(i, j, kind)
    BY <2>1, <2>5, SchedulerAssumption DEF ScheduleTypeOK, RecordRun, rowVars, procVars, Step
  <2>6. CASE SpawnWorker(i, j, kind)
    BY <2>1, <2>6, SchedulerAssumption DEF ScheduleTypeOK, SpawnWorker, rowVars, procVars, Step
  <2>7. CASE ReleaseAfterFailure(i, j, kind)
    BY <2>1, <2>7, SchedulerAssumption DEF ScheduleTypeOK, ReleaseAfterFailure, Release, rowVars, procVars, Step
  <2>8. CASE TriggerFails(i, j, kind)
    BY <2>1, <2>8, SchedulerAssumption DEF ScheduleTypeOK, TriggerFails, rowVars, procVars, Step
  <2> QED
    BY <1>4, <2>2, <2>3, <2>4, <2>5, <2>6, <2>7, <2>8 DEF TriggerStep
<1>5. ASSUME NEW i \in Instance, NEW j \in Job, NEW status \in {"active", "inactive"}, NEW form \in Form,
             EditRow(i, j, status, form)
      PROVE  ScheduleTypeOK'
  <2>1. edits' \subseteq Instance \X Job \X {"active", "inactive", "gone"}
    <3>1. <<i, j, status>> \in Instance \X Job \X {"active", "inactive", "gone"}
      OBVIOUS
    <3> QED
      BY <1>5, <3>1 DEF ScheduleTypeOK, EditRow
  <2> QED
    BY <1>5, <2>1 DEF ScheduleTypeOK, EditRow, procVars, Rows
<1>6. ASSUME NEW i \in Instance, NEW j \in Job, Unschedule(i, j)
      PROVE  ScheduleTypeOK'
  <2>1. edits' \subseteq Instance \X Job \X {"active", "inactive", "gone"}
    BY <1>6 DEF ScheduleTypeOK, Unschedule
  <2>2. jobs[i] \ {j} \in SUBSET Job
    BY DEF ScheduleTypeOK
  <2> QED
    BY <1>6, <2>1, <2>2 DEF ScheduleTypeOK, Unschedule
<1>7. ASSUME NEW i \in Instance, NEW j \in Job, WorkerEnds(i, j) \/ WorkerDies(i, j)
      PROVE  ScheduleTypeOK'
  <2>1. <<i, j>> \in Instance \X Job
    OBVIOUS
  <2>2. working[<<i, j>>] > 0 => working[<<i, j>>] - 1 \in 0..MaxWorkers
    BY <2>1, SchedulerAssumption DEF ScheduleTypeOK
  <2>3. working' \in [Instance \X Job -> 0..MaxWorkers]
    BY <1>7, <2>1, <2>2 DEF ScheduleTypeOK, WorkerEnds, WorkerDies
  <2>4. (stale[j] /\ runBy[j] # i) \in BOOLEAN
    OBVIOUS
  <2>5. CASE WorkerEnds(i, j)
    BY <2>3, <2>4, <2>5 DEF ScheduleTypeOK, WorkerEnds, Release, rowVars, procVars
  <2>6. CASE WorkerDies(i, j)
    BY <2>3, <2>6, SchedulerAssumption DEF ScheduleTypeOK, WorkerDies, rowVars, procVars
  <2> QED
    BY <1>7, <2>5, <2>6
<1>8. ASSUME NEW i \in Instance, NEW j \in Job, NEW status \in {"active", "inactive", "gone"},
             SyncSchedule(i, j, status) \/ SyncFails(i, j, status)
      PROVE  ScheduleTypeOK'
  <2>1. edits' \subseteq edits
    BY <1>8 DEF SyncSchedule, SyncFails
  <2>2. /\ jobs[i] \cup {j} \in SUBSET Job
        /\ jobs[i] \ {j} \in SUBSET Job
    BY DEF ScheduleTypeOK
  <2>3. CASE SyncSchedule(i, j, status) /\ status = "gone"
    BY <2>1, <2>3, SchedulerAssumption DEF ScheduleTypeOK, SyncSchedule, Rows
  <2>4. CASE SyncSchedule(i, j, status) /\ status # "gone"
    <3> DEFINE added == status = "active" /\ row[j] # "gone" /\ cron[j] = "crontab"
    <3>1. /\ jobs' = [jobs EXCEPT ![i] = IF added THEN @ \cup {j} ELSE @ \ {j}]
          /\ dropped' \subseteq dropped \cup {<<i, j>>}
      BY <2>4 DEF SyncSchedule
    <3>2. jobs' \in [Instance -> SUBSET Job]
      BY <2>2, <3>1 DEF ScheduleTypeOK
    <3>3. dropped' \subseteq Instance \X Job
      BY <3>1 DEF ScheduleTypeOK
    <3>4. UNCHANGED <<row, runBy, stale, cron, behind, proc, loading, trig, working, disturbed, faults>>
      BY <2>4 DEF SyncSchedule
    <3> QED
      BY <2>1, <3>2, <3>3, <3>4 DEF ScheduleTypeOK
  <2>5. CASE SyncFails(i, j, status)
    <3>1. jobs' \in [Instance -> SUBSET Job]
      BY <2>2, <2>5 DEF ScheduleTypeOK, SyncFails
    <3>2. dropped' \subseteq Instance \X Job
      BY <2>5 DEF ScheduleTypeOK, SyncFails
    <3> QED
      BY <2>1, <2>5, <3>1, <3>2, SchedulerAssumption DEF ScheduleTypeOK, SyncFails
  <2> QED
    BY <1>8, <2>3, <2>4, <2>5
<1>9. ASSUME NEW j \in Job, TimeoutPasses(j)
      PROVE  ScheduleTypeOK'
  BY <1>9, SchedulerAssumption DEF ScheduleTypeOK, TimeoutPasses, rowVars, procVars
<1> QED
  BY <1>1, <1>2, <1>2a, <1>3, <1>4, <1>5, <1>6, <1>7, <1>8, <1>9 DEF ScheduleNext

-----------------------------------------------------------------------------
(***************************************************************************)
(* The lock.                                                               *)
(***************************************************************************)
\* A step that starts no execution of a job, ends none and leaves its lock
\* alone. A row that is gone stays gone.
LEMMA FewerTriggers ==
  ASSUME NEW j \in Job, Exclusive(j), UNCHANGED runBy[j],
         \A g \in Trigger : g[2] = j /\ trig'[g] \in {"record", "spawn"} => trig[g] \in {"record", "spawn"},
         \A i \in Instance : working'[<<i, j>>] = working[<<i, j>>],
         row[j] = "gone" => row'[j] = "gone"
  PROVE  Exclusive(j)'
<1>1. Acquired(j)' \subseteq Acquired(j)
  BY DEF Acquired
<1>2. Busy(j)' = Busy(j)
  BY DEF Busy
<1> QED
  BY <1>1, <1>2 DEF Exclusive, Busy

\* Nothing of a history is forgotten.
LEMMA DisturbedStays ==
  ASSUME ScheduleTypeOK, [ScheduleNext]_scheduleVars, NEW k \in Job, disturbed[k]
  PROVE  disturbed'[k]
<1>1. CASE UNCHANGED disturbed
  BY <1>1
<1>2. ASSUME NEW i \in Instance, NEW j \in Job, NEW kind \in Kind, AcquireRunLock(i, j, kind)
      PROVE  disturbed'[k]
  BY <1>2 DEF ScheduleTypeOK, AcquireRunLock
<1>3. ASSUME NEW i \in Instance, NEW j \in Job, NEW kind \in Kind, ReleaseAfterFailure(i, j, kind)
      PROVE  disturbed'[k]
  BY <1>3 DEF ScheduleTypeOK, ReleaseAfterFailure
<1>4. ASSUME NEW i \in Instance, BootStep(i) \/ LoadFails(i) \/ CrashProcess(i)
      PROVE  UNCHANGED disturbed
  BY <1>4 DEF BootStep, StartProcess, StartScheduler, LoadRows, LoadFails, AddLoaded, CrashProcess
<1>5. ASSUME NEW i \in Instance, NEW j \in Job, NEW kind \in Kind,
             \/ Fire(i, j, kind) \/ ReadRow(i, j, kind) \/ RecordRun(i, j, kind)
             \/ SpawnWorker(i, j, kind) \/ TriggerFails(i, j, kind)
      PROVE  UNCHANGED disturbed
  BY <1>5 DEF Fire, ReadRow, RecordRun, SpawnWorker, TriggerFails
<1>6. ASSUME NEW i \in Instance, NEW j \in Job, NEW status \in {"active", "inactive", "gone"},
             \/ SyncSchedule(i, j, status) \/ SyncFails(i, j, status)
             \/ Unschedule(i, j) \/ WorkerEnds(i, j) \/ WorkerDies(i, j) \/ TimeoutPasses(j)
      PROVE  UNCHANGED disturbed
  BY <1>6 DEF SyncSchedule, SyncFails, Unschedule, WorkerEnds, WorkerDies, TimeoutPasses
<1>7. \A j \in Job : TimeoutPasses(j) => UNCHANGED disturbed
  BY DEF TimeoutPasses
<1>8. ASSUME NEW i \in Instance, NEW j \in Job, NEW status \in {"active", "inactive"}, NEW form \in Form,
             EditRow(i, j, status, form)
      PROVE  UNCHANGED disturbed
  BY <1>8 DEF EditRow
<1> QED
  BY <1>1, <1>2, <1>3, <1>4, <1>5, <1>6, <1>7, <1>8, ZenonT(60) DEF ScheduleNext, TriggerStep, scheduleVars

\* An execution needs the lock: a row whose lock is free has none.
LEMMA FreeIsIdle ==
  ASSUME ScheduleTypeOK, NEW j \in Job, Exclusive(j), row[j] # "gone", runBy[j] = None
  PROVE  ~Executing(j)
BY SchedulerAssumption DEF Exclusive, Executing, Acquired, Busy, Trigger

LEMMA AcquireIsExclusive ==
  ASSUME ScheduleTypeOK, NEW i \in Instance, NEW j \in Job, NEW kind \in Kind,
         AcquireRunLock(i, j, kind), Exclusive(j), ~disturbed'[j]
  PROVE  Exclusive(j)'
<1> DEFINE g == <<i, j, kind>>
<1>g. g \in Trigger /\ g[1] = i /\ g[2] = j
  BY DEF Trigger
<1>2. CASE CanAcquire(j, trig[g])
  <2>1. ~Executing(j)
    <3>1. row[j] # "gone" /\ (runBy[j] = None \/ stale[j])
      BY <1>2 DEF CanAcquire
    <3>2. ~(stale[j] /\ Executing(j))
      BY <1>2 DEF AcquireRunLock, ScheduleTypeOK
    <3> QED
      BY <3>1, <3>2, FreeIsIdle
  <2>2. Acquired(j)' = {g}
    <3>1. trig' = [trig EXCEPT ![g] = "record"]
      BY <1>2 DEF AcquireRunLock
    <3>2. trig'[g] = "record" /\ \A h \in Trigger \ {g} : trig'[h] = trig[h]
      BY <1>g, <3>1 DEF ScheduleTypeOK
    <3>3. \A h \in Trigger : ~(h[2] = j /\ trig[h] \in {"record", "spawn"})
      BY <2>1 DEF Executing, Acquired
    <3> QED
      BY <1>g, <3>2, <3>3 DEF Acquired
  <2>3. Busy(j)' = {}
    BY <2>1 DEF AcquireRunLock, Executing, Busy
  <2>4. runBy'[j] = i
    BY <1>2 DEF AcquireRunLock, ScheduleTypeOK
  <2> QED
    BY <1>g, <2>2, <2>3, <2>4 DEF Exclusive
<1>3. CASE ~CanAcquire(j, trig[g])
  BY <1>g, <1>3, FewerTriggers DEF AcquireRunLock, ScheduleTypeOK, rowVars
<1> QED
  BY <1>2, <1>3

LEMMA SpawnIsExclusive ==
  ASSUME ScheduleTypeOK, NEW i \in Instance, NEW j \in Job, NEW kind \in Kind,
         SpawnWorker(i, j, kind), Exclusive(j)
  PROVE  Exclusive(j)'
<1> DEFINE g == <<i, j, kind>>
<1>g. g \in Trigger /\ g[1] = i /\ g[2] = j
  BY DEF Trigger
<1>2. Acquired(j) = {g} /\ Busy(j) = {}
  BY <1>g DEF SpawnWorker, Exclusive, Acquired
<1>3. Acquired(j)' = {}
  BY <1>g, <1>2 DEF SpawnWorker, ScheduleTypeOK, Acquired
<1>4. \A k \in Instance : working[<<k, j>>] = 0
  BY <1>2, SchedulerAssumption DEF Busy, ScheduleTypeOK
<1>5. /\ working'[<<i, j>>] = 1
      /\ \A k \in Instance \ {i} : working'[<<k, j>>] = 0
  BY <1>4 DEF SpawnWorker, ScheduleTypeOK
<1>6. Busy(j)' = {i}
  BY <1>5 DEF Busy
<1>7. row[j] # "gone" => runBy[j] = i
  BY <1>g, <1>2 DEF Exclusive
<1> QED
  BY <1>3, <1>5, <1>6, <1>7 DEF Exclusive, SpawnWorker, rowVars

LEMMA ReleaseIsExclusive ==
  ASSUME ScheduleTypeOK, NEW i \in Instance, NEW j \in Job, NEW kind \in Kind,
         ReleaseAfterFailure(i, j, kind), Exclusive(j), ~disturbed'[j]
  PROVE  Exclusive(j)'
<1> DEFINE g == <<i, j, kind>>
<1>g. g \in Trigger
  BY DEF Trigger
<1>2. CASE runBy[j] = i
  <2>1. ~Executing(j)
    BY <1>2 DEF ReleaseAfterFailure, ScheduleTypeOK
  <2>2. Acquired(j)' = {} /\ Busy(j)' = {}
    BY <1>g, <2>1 DEF ReleaseAfterFailure, ScheduleTypeOK, Executing, Acquired, Busy
  <2> QED
    BY <2>2 DEF Exclusive
<1>3. CASE runBy[j] # i
  <2>1. runBy'[j] = runBy[j]
    BY <1>3 DEF ReleaseAfterFailure, Release, ScheduleTypeOK
  <2> QED
    BY <1>g, <2>1, FewerTriggers DEF ReleaseAfterFailure, ScheduleTypeOK, rowVars
<1> QED
  BY <1>2, <1>3

\* The end of the only worker leaves none.
LEMMA EndIsExclusive ==
  ASSUME ScheduleTypeOK, NEW i \in Instance, NEW j \in Job,
         WorkerEnds(i, j) \/ WorkerDies(i, j), Exclusive(j)
  PROVE  Exclusive(j)'
<1>1. /\ working[<<i, j>>] > 0
      /\ working' = [working EXCEPT ![<<i, j>>] = @ - 1]
      /\ UNCHANGED <<rowVars, trig>>
  BY DEF WorkerEnds, WorkerDies
<1>2. Busy(j) = {i} /\ working[<<i, j>>] = 1 /\ Acquired(j) = {}
  BY <1>1 DEF Exclusive, Busy
<1>3. /\ working'[<<i, j>>] = 0
      /\ \A k \in Instance \ {i} : working'[<<k, j>>] = working[<<k, j>>]
  BY <1>1, <1>2 DEF ScheduleTypeOK
<1>4. Busy(j)' = {} /\ Acquired(j)' = {}
  BY <1>1, <1>2, <1>3 DEF Busy, Acquired
<1> QED
  BY <1>4 DEF Exclusive

-----------------------------------------------------------------------------
LEMMA ExclusiveStep ==
  ASSUME ScheduleInv, [ScheduleNext]_scheduleVars, NEW k \in Job, ~disturbed'[k]
  PROVE  Exclusive(k)'
<1>1. ScheduleTypeOK /\ Exclusive(k)
  BY DisturbedStays, ExclusiveRunsOfEach DEF ScheduleInv
<1>2. CASE UNCHANGED scheduleVars
  BY <1>1, <1>2, FewerTriggers DEF scheduleVars
<1>3. ASSUME NEW i \in Instance, BootStep(i) \/ LoadFails(i) \/ CrashProcess(i)
      PROVE  Exclusive(k)'
  <2>1. UNCHANGED <<runBy, working, row>>
    BY <1>3 DEF BootStep, StartProcess, StartScheduler, LoadRows, LoadFails, AddLoaded, CrashProcess, rowVars
  <2>2. \A g \in Trigger : trig'[g] \in {"idle", trig[g]}
    BY <1>3 DEF BootStep, StartProcess, StartScheduler, LoadRows, LoadFails, AddLoaded, CrashProcess
  <2> QED
    BY <1>1, <2>1, <2>2, FewerTriggers
<1>4. ASSUME NEW i \in Instance, NEW j \in Job, NEW kind \in Kind,
             Fire(i, j, kind) \/ TriggerStep(i, j, kind) \/ TriggerFails(i, j, kind)
      PROVE  Exclusive(k)'
  <2>g. <<i, j, kind>> \in Trigger /\ <<i, j, kind>>[2] = j
    BY DEF Trigger
  <2>2. CASE Fire(i, j, kind) \/ ReadRow(i, j, kind) \/ RecordRun(i, j, kind) \/ TriggerFails(i, j, kind)
    <3>1. UNCHANGED <<runBy, working, row>>
      BY <2>2 DEF Fire, ReadRow, RecordRun, TriggerFails, rowVars
    <3>2. \A g \in Trigger : trig'[g] \in {"record", "spawn"} => trig[g] \in {"record", "spawn"}
      BY <1>1, <2>g, <2>2 DEF Fire, ReadRow, AfterRead, RecordRun, TriggerFails, ScheduleTypeOK
    <3> QED
      BY <1>1, <3>1, <3>2, FewerTriggers
  <2>3. CASE k # j /\ (AcquireRunLock(i, j, kind) \/ SpawnWorker(i, j, kind) \/ ReleaseAfterFailure(i, j, kind))
    <3>1. runBy'[k] = runBy[k] /\ row' = row
      BY <1>1, <2>3 DEF AcquireRunLock, SpawnWorker, ReleaseAfterFailure, Release, ScheduleTypeOK, rowVars
    <3>2. \A g \in Trigger : g[2] = k => trig'[g] = trig[g]
      BY <1>1, <2>g, <2>3 DEF AcquireRunLock, SpawnWorker, ReleaseAfterFailure, ScheduleTypeOK
    <3>3. \A p \in Instance : working'[<<p, k>>] = working[<<p, k>>]
      BY <1>1, <2>3 DEF AcquireRunLock, SpawnWorker, ReleaseAfterFailure, ScheduleTypeOK
    <3> QED
      BY <1>1, <3>1, <3>2, <3>3, FewerTriggers
  <2>4. CASE k = j /\ (AcquireRunLock(i, j, kind) \/ SpawnWorker(i, j, kind) \/ ReleaseAfterFailure(i, j, kind))
    BY <1>1, <2>4, AcquireIsExclusive, SpawnIsExclusive, ReleaseIsExclusive
  <2> QED
    BY <1>4, <2>2, <2>3, <2>4 DEF TriggerStep
<1>5. ASSUME NEW i \in Instance, NEW j \in Job, NEW status \in {"active", "inactive"}, NEW form \in Form,
             EditRow(i, j, status, form)
      PROVE  Exclusive(k)'
  <2>1. UNCHANGED <<runBy, working, trig>> /\ (row[k] = "gone" => row'[k] = "gone")
    BY <1>1, <1>5 DEF EditRow, ScheduleTypeOK
  <2> QED
    BY <1>1, <2>1, FewerTriggers
<1>5a. ASSUME NEW i \in Instance, NEW j \in Job, Unschedule(i, j)
      PROVE  Exclusive(k)'
  <2>1. UNCHANGED <<runBy, working, trig, row>>
    BY <1>5a DEF Unschedule
  <2> QED
    BY <1>1, <2>1, FewerTriggers
<1>6. ASSUME NEW i \in Instance, NEW j \in Job, WorkerEnds(i, j) \/ WorkerDies(i, j)
      PROVE  Exclusive(k)'
  <2>1. CASE k = j
    BY <1>1, <1>6, <2>1, EndIsExclusive
  <2>2. CASE k # j
    <3>1. runBy'[k] = runBy[k] /\ UNCHANGED <<row, trig>>
      BY <1>1, <1>6, <2>2 DEF WorkerEnds, WorkerDies, Release, ScheduleTypeOK, rowVars
    <3>2. \A p \in Instance : working'[<<p, k>>] = working[<<p, k>>]
      BY <1>1, <1>6, <2>2 DEF WorkerEnds, WorkerDies, ScheduleTypeOK
    <3> QED
      BY <1>1, <3>1, <3>2, FewerTriggers
  <2> QED
    BY <2>1, <2>2
<1>7. ASSUME NEW i \in Instance, NEW j \in Job, NEW status \in {"active", "inactive", "gone"},
             SyncSchedule(i, j, status) \/ SyncFails(i, j, status)
      PROVE  Exclusive(k)'
  <2>1. CASE SyncSchedule(i, j, status) /\ status = "gone" /\ k = j
    <3>1. row'[k] = "gone" /\ UNCHANGED <<trig, working>>
      BY <1>1, <2>1 DEF SyncSchedule, ScheduleTypeOK
    <3>2. Acquired(k)' = Acquired(k) /\ Busy(k)' = Busy(k)
      BY <3>1 DEF Acquired, Busy
    <3> QED
      BY <1>1, <3>1, <3>2 DEF Exclusive
  <2>2. CASE SyncFails(i, j, status) \/ (SyncSchedule(i, j, status) /\ (status # "gone" \/ k # j))
    <3>1. runBy'[k] = runBy[k] /\ row'[k] = row[k] /\ UNCHANGED <<trig, working>>
      BY <1>1, <2>2 DEF SyncSchedule, SyncFails, ScheduleTypeOK
    <3> QED
      BY <1>1, <3>1, FewerTriggers
  <2> QED
    BY <1>7, <2>1, <2>2
<1>8. ASSUME NEW j \in Job, TimeoutPasses(j)
      PROVE  Exclusive(k)'
  BY <1>1, <1>8, FewerTriggers DEF TimeoutPasses, rowVars
<1> QED
  BY <1>2, <1>3, <1>4, <1>5, <1>5a, <1>6, <1>7, <1>8 DEF ScheduleNext

LEMMA ScheduleStep == ScheduleInv /\ [ScheduleNext]_scheduleVars => ScheduleInv'
<1> SUFFICES ASSUME ScheduleInv, [ScheduleNext]_scheduleVars PROVE ScheduleInv'
  OBVIOUS
<1>1. ScheduleTypeOK'
  BY ScheduleTypes DEF ScheduleInv
<1>2. \A j \in Job : ~disturbed'[j] => Exclusive(j)'
  BY ExclusiveStep
<1>3. ExclusiveRuns'
  BY <1>2 DEF ExclusiveRuns, Exclusive
<1> QED
  BY <1>1, <1>3 DEF ScheduleInv

(***************************************************************************)
(* The rows, the schedules, the triggers and the workers are always of     *)
(* their types.                                                            *)
(***************************************************************************)
THEOREM ScheduleTypeCorrect == ScheduleSpec => []ScheduleTypeOK
<1>1. ScheduleInv => ScheduleTypeOK
  BY DEF ScheduleInv
<1> QED
  BY <1>1, ScheduleInitial, ScheduleStep, PTL DEF ScheduleSpec

(***************************************************************************)
(* However many processes, jobs, cron triggers and administrators there    *)
(* are, and wherever processes and workers die: a job is executed at most  *)
(* once at a time, until the lock of an execution that is alive is taken.  *)
(***************************************************************************)
THEOREM RunsAreExclusive == ScheduleSpec => []ExclusiveRuns
<1>1. ScheduleInv => ExclusiveRuns
  BY DEF ScheduleInv
<1> QED
  BY <1>1, ScheduleInitial, ScheduleStep, PTL DEF ScheduleSpec

-----------------------------------------------------------------------------
(* The schedules of the processes. *)

EditKinds == {"active", "inactive", "gone"}

\* Edits of one administrator come one at a time; until the schedule is changed
\* the row is what the edit made of it.
EditsAlone ==
  /\ \A e, f \in edits : e = f
  /\ \A e \in edits : e[3] # "gone" => row[e[2]] = e[3]

\* A row of a process that has read the rows is in its schedule or among the
\* rows it has read, unless an edit that went through it is about to add it.
Scheduled(i, j) ==
  /\ proc[i] \in {"loaded", "up"} /\ row[j] = "active" /\ <<i, j>> \notin behind
  /\ ~\E e \in edits : e[1] = i /\ e[2] = j
  /\ <<i, j>> \notin dropped
  => j \in jobs[i] \/ (proc[i] = "loaded" /\ \E form \in Form : <<j, form>> \in loading[i])

LoadInv ==
  /\ ScheduleTypeOK
  /\ EditsAlone
  /\ \A i \in Instance, j \in Job : Scheduled(i, j)

LEMMA LoadInitial == ScheduleInit => LoadInv
<1> SUFFICES ASSUME ScheduleInit PROVE LoadInv
  OBVIOUS
<1>1. ScheduleTypeOK
  BY SchedulerAssumption DEF ScheduleInit, QuietSchedule, ScheduleTypeOK, Rows, Life, Step
<1> QED
  BY <1>1 DEF ScheduleInit, QuietSchedule, LoadInv, EditsAlone, Scheduled

\* A step that leaves rows, edits and schedules alone.
LEMMA SchedulesStay ==
  ASSUME LoadInv, UNCHANGED <<rowVars, procVars>>
  PROVE  EditsAlone' /\ \A i \in Instance, j \in Job : Scheduled(i, j)'
BY DEF LoadInv, EditsAlone, Scheduled, rowVars, procVars

LEMMA LoadStep ==
  ASSUME SerialEdits, LoadInv, [ScheduleNext]_scheduleVars
  PROVE  LoadInv'
<1>1. ScheduleTypeOK' /\ ScheduleTypeOK /\ EditsAlone /\ \A i \in Instance, j \in Job : Scheduled(i, j)
  BY ScheduleTypes DEF LoadInv
<1> DEFINE StillHolds == EditsAlone' /\ \A i \in Instance, j \in Job : Scheduled(i, j)'
<1>2. CASE UNCHANGED scheduleVars
  <2>1. StillHolds
    BY <1>2, SchedulesStay DEF scheduleVars, rowVars, procVars
  <2> QED
    BY <1>1, <2>1 DEF LoadInv
<1>3. ASSUME NEW i \in Instance, BootStep(i) \/ LoadFails(i)
      PROVE  StillHolds
  <2>1. UNCHANGED rowVars
    BY <1>3 DEF BootStep, StartProcess, StartScheduler, LoadRows, LoadFails, AddLoaded
  <2>2. EditsAlone'
    BY <1>1, <2>1 DEF EditsAlone, rowVars
  <2>3. ASSUME NEW k \in Instance, NEW j \in Job PROVE Scheduled(k, j)'
    <3>1. CASE k # i
      <4>1. proc'[k] = proc[k] /\ jobs'[k] = jobs[k] /\ loading'[k] = loading[k]
        BY <1>1, <1>3, <3>1 DEF BootStep, StartProcess, StartScheduler, LoadRows, LoadFails, AddLoaded,
                               ScheduleTypeOK
      <4>2. <<k, j>> \notin dropped' => <<k, j>> \notin dropped
        <5>1. CASE StartProcess(i) \/ StartScheduler(i) \/ LoadRows(i) \/ LoadFails(i)
          BY <5>1 DEF StartProcess, StartScheduler, LoadRows, LoadFails
        <5>2. CASE AddLoaded(i)
          <6>1. PICK lost \in SUBSET loading[i] :
                  LET added == loading[i] \ lost IN
                  dropped' = (dropped \ ({i} \X Accepted(added)))
                              \cup ({i} \X (Refused(added) \cup Accepted(lost) \cup Refused(lost)))
            BY <5>2 DEF AddLoaded
          <6>2. PICK got : got = Accepted(loading[i] \ lost)
            OBVIOUS
          <6>3. dropped \ ({i} \X got) \subseteq dropped'
            BY <6>1, <6>2
          <6>4. <<k, j>> \notin {i} \X got
            BY <3>1
          <6> QED
            BY <6>3, <6>4
        <5> QED
          BY <1>3, <5>1, <5>2 DEF BootStep
      <4> QED
        BY <1>1, <2>1, <4>1, <4>2 DEF Scheduled, rowVars
    <3>2. CASE k = i /\ (StartProcess(i) \/ StartScheduler(i))
      BY <1>1, <3>2 DEF Scheduled, StartProcess, StartScheduler, ScheduleTypeOK
    <3>3. CASE k = i /\ LoadRows(i)
      <4>1. /\ loading'[i] = {r \in Job \X Form : row[r[1]] = "active" /\ cron[r[1]] = r[2]}
            /\ proc'[i] = "loaded"
        BY <1>1, <3>3 DEF LoadRows, ScheduleTypeOK
      <4>2. row[j] = "active" => <<j, cron[j]>> \in loading'[i] /\ cron[j] \in Form
        BY <1>1, <4>1 DEF ScheduleTypeOK
      <4> QED
        BY <2>1, <3>3, <4>1, <4>2 DEF Scheduled, rowVars
    <3>4. CASE k = i /\ AddLoaded(i)
      <4>1. PICK lost \in SUBSET loading[i] :
              LET added == loading[i] \ lost IN
              /\ jobs' = [jobs EXCEPT ![i] = (@ \ Refused(added)) \cup Accepted(added)]
              /\ dropped' = (dropped \ ({i} \X Accepted(added)))
                              \cup ({i} \X (Refused(added) \cup Accepted(lost) \cup Refused(lost)))
        BY <3>4 DEF AddLoaded
      <4>2. PICK got : got = Accepted(loading[i] \ lost)
        OBVIOUS
      <4>3. PICK out : out = Refused(loading[i] \ lost)
        OBVIOUS
      <4>4. PICK left : left = out \cup Accepted(lost) \cup Refused(lost)
        OBVIOUS
      <4>5. /\ jobs'[i] = (jobs[i] \ out) \cup got
            /\ dropped' = (dropped \ ({i} \X got)) \cup ({i} \X left)
        BY <1>1, <4>1, <4>2, <4>3, <4>4 DEF ScheduleTypeOK
      <4>6. ASSUME <<i, j>> \notin dropped', j \notin jobs'[i]
            PROVE  /\ <<i, j>> \notin dropped
                   /\ j \notin jobs[i]
                   /\ ~\E form \in Form : <<j, form>> \in loading[i]
        <5>1. j \notin got /\ j \notin left
          BY <4>5, <4>6
        <5>2. j \notin out
          BY <4>4, <5>1
        <5>3. ASSUME NEW form \in Form, <<j, form>> \in loading[i]
              PROVE  FALSE
          <6>1. <<j, form>> \notin lost
            BY <4>4, <5>1 DEF Accepted, Refused, Form
          <6> QED
            BY <4>2, <4>3, <5>1, <5>2, <5>3, <6>1 DEF Accepted, Refused, Form
        <5> QED
          BY <4>5, <4>6, <5>1, <5>2, <5>3
      <4>7. proc[i] = "loaded" /\ proc'[i] = "up"
        BY <1>1, <3>4 DEF AddLoaded, ScheduleTypeOK
      <4>8. Scheduled(i, j)
        BY <1>1
      <4> QED
        BY <2>1, <3>4, <4>6, <4>7, <4>8 DEF Scheduled, rowVars
    <3>5. CASE k = i /\ LoadFails(i)
      <4>1. row[j] = "active" => <<i, j>> \in dropped'
        BY <3>5 DEF LoadFails
      <4> QED
        BY <2>1, <3>5, <4>1 DEF Scheduled, rowVars
    <3> QED
      BY <1>3, <3>1, <3>2, <3>3, <3>4, <3>5 DEF BootStep
  <2> QED
    BY <2>2, <2>3
<1>4. ASSUME NEW i \in Instance, CrashProcess(i)
      PROVE  StillHolds
  <2>1. EditsAlone'
    BY <1>1, <1>4 DEF EditsAlone, CrashProcess
  <2>2. ASSUME NEW k \in Instance, NEW j \in Job PROVE Scheduled(k, j)'
    <3>1. CASE k = i
      BY <1>1, <1>4, <3>1 DEF Scheduled, CrashProcess, ScheduleTypeOK
    <3>2. CASE k # i
      BY <1>1, <1>4, <3>2 DEF Scheduled, CrashProcess, ScheduleTypeOK
    <3> QED
      BY <3>1, <3>2
  <2> QED
    BY <2>1, <2>2
<1>5. ASSUME NEW i \in Instance, NEW j \in Job, NEW kind \in Kind,
             Fire(i, j, kind) \/ TriggerStep(i, j, kind) \/ TriggerFails(i, j, kind)
      PROVE  StillHolds
  <2>1. UNCHANGED <<rowVars, procVars>>
    BY <1>5 DEF Fire, TriggerStep, TriggerFails, ReadRow, AcquireRunLock, RecordRun, SpawnWorker,
                ReleaseAfterFailure
  <2> QED
    BY <2>1, SchedulesStay
<1>6. ASSUME NEW i \in Instance, NEW j \in Job, NEW status \in {"active", "inactive"}, NEW form \in Form,
             EditRow(i, j, status, form)
      PROVE  StillHolds
  <2>1. edits = {} /\ edits' \subseteq {<<i, j, status>>}
    BY <1>6 DEF EditRow
  <2>2. /\ row' = [row EXCEPT ![j] = status]
        /\ behind' = (behind \ {<<i, j>>})
              \cup {p \in Instance \X {j} : p[1] # i /\ proc[p[1]] \in {"loaded", "up"}}
        /\ UNCHANGED procVars
    BY <1>6 DEF EditRow
  <2>3. EditsAlone'
    <3>1. row'[j] = status
      BY <1>1, <2>2 DEF ScheduleTypeOK
    <3>2. \A e \in edits' : e = <<i, j, status>>
      BY <2>1
    <3> QED
      BY <3>1, <3>2 DEF EditsAlone
  <2>4. ASSUME NEW k \in Instance, NEW h \in Job PROVE Scheduled(k, h)'
    <3>1. CASE h # j
      BY <1>1, <2>1, <2>2, <3>1 DEF Scheduled, ScheduleTypeOK, procVars
    <3>2. CASE h = j /\ k # i
      <4>1. proc[k] \in {"loaded", "up"} => <<k, j>> \in behind'
        BY <2>2, <3>2
      <4>2. proc' = proc
        BY <2>2 DEF procVars
      <4> QED
        BY <3>2, <4>1, <4>2 DEF Scheduled
    <3>3. CASE h = j /\ k = i /\ Running(i)
      <4>1. <<i, j, status>> \in edits'
        BY <1>6, <3>3 DEF EditRow
      <4> QED
        BY <3>3, <4>1 DEF Scheduled
    <3>4. CASE h = j /\ k = i /\ ~Running(i)
      BY <2>2, <3>4 DEF Scheduled, Running, procVars
    <3> QED
      BY <3>1, <3>2, <3>3, <3>4
  <2> QED
    BY <2>3, <2>4
<1>7. ASSUME NEW i \in Instance, NEW j \in Job, Unschedule(i, j)
      PROVE  StillHolds
  <2>1. edits = {} /\ edits' = {<<i, j, "gone">>}
    BY <1>7 DEF Unschedule
  <2>2. UNCHANGED <<row, behind, proc, loading, dropped>> /\ jobs' = [jobs EXCEPT ![i] = @ \ {j}]
    BY <1>7 DEF Unschedule
  <2>3. EditsAlone'
    BY <2>1 DEF EditsAlone
  <2>4. ASSUME NEW k \in Instance, NEW h \in Job PROVE Scheduled(k, h)'
    <3>1. CASE k = i /\ h = j
      BY <2>1, <3>1 DEF Scheduled
    <3>2. CASE ~(k = i /\ h = j)
      <4>1. h \in jobs[k] => h \in jobs'[k]
        BY <1>1, <2>2, <3>2 DEF ScheduleTypeOK
      <4> QED
        BY <1>1, <2>1, <2>2, <4>1 DEF Scheduled
    <3> QED
      BY <3>1, <3>2
  <2> QED
    BY <2>3, <2>4
<1>8. ASSUME NEW i \in Instance, NEW j \in Job, WorkerEnds(i, j) \/ WorkerDies(i, j)
      PROVE  StillHolds
  BY <1>8, SchedulesStay DEF WorkerEnds, WorkerDies
<1>9. ASSUME NEW i \in Instance, NEW j \in Job, NEW status \in EditKinds,
             SyncSchedule(i, j, status) \/ SyncFails(i, j, status)
      PROVE  StillHolds
  <2>1. edits = {<<i, j, status>>} /\ edits' = {}
    BY <1>1, <1>9 DEF SyncSchedule, SyncFails, EditsAlone
  <2>2. EditsAlone'
    BY <2>1 DEF EditsAlone
  <2>3. ASSUME NEW k \in Instance, NEW h \in Job PROVE Scheduled(k, h)'
    <3>0. ~(k = i /\ h = j) => ~\E e \in edits : e[1] = k /\ e[2] = h
      BY <2>1
    <3>1. CASE SyncSchedule(i, j, status) /\ status = "gone"
      <4>1. /\ row' = [row EXCEPT ![j] = "gone"]
            /\ UNCHANGED <<behind, proc, loading, jobs, dropped>>
        BY <3>1 DEF SyncSchedule
      <4>2. row'[h] = "active" => h # j /\ row'[h] = row[h]
        BY <1>1, <4>1 DEF ScheduleTypeOK
      <4> QED
        BY <1>1, <3>0, <4>1, <4>2 DEF Scheduled
    <3>2. CASE SyncSchedule(i, j, status) /\ status # "gone"
      <4> DEFINE added == status = "active" /\ row[j] # "gone" /\ cron[j] = "crontab"
      <4>1. /\ jobs' = [jobs EXCEPT ![i] = IF added THEN @ \cup {j} ELSE @ \ {j}]
            /\ dropped' = IF status = "inactive" \/ added THEN dropped \ {<<i, j>>}
                                                         ELSE dropped \cup {<<i, j>>}
            /\ UNCHANGED <<row, behind, proc, loading>>
        BY <3>2 DEF SyncSchedule
      <4>2. row[j] = status
        BY <1>1, <2>1, <3>2 DEF EditsAlone
      <4>3. CASE k = i /\ h = j
        <5>1. row[j] = "active" => j \in jobs'[i] \/ <<i, j>> \in dropped'
          BY <1>1, <4>1, <4>2 DEF ScheduleTypeOK
        <5> QED
          BY <4>1, <4>3, <5>1 DEF Scheduled
      <4>4. CASE ~(k = i /\ h = j)
        <5>1. h \in jobs[k] => h \in jobs'[k]
          BY <1>1, <4>1, <4>4 DEF ScheduleTypeOK
        <5>2. <<k, h>> \in dropped => <<k, h>> \in dropped'
          BY <4>1, <4>4
        <5> QED
          BY <1>1, <3>0, <4>1, <4>4, <5>1, <5>2 DEF Scheduled
      <4> QED
        BY <4>3, <4>4
    <3>3. CASE SyncFails(i, j, status)
      <4>1. /\ jobs' = [jobs EXCEPT ![i] = IF status = "gone" THEN @ ELSE @ \ {j}]
            /\ dropped' = dropped \cup {<<i, j>>}
            /\ UNCHANGED <<row, behind, proc, loading>>
        BY <3>3 DEF SyncFails
      <4>2. CASE k = i /\ h = j
        BY <4>1, <4>2 DEF Scheduled
      <4>3. CASE ~(k = i /\ h = j)
        <5>1. h \in jobs[k] => h \in jobs'[k]
          BY <1>1, <4>1, <4>3 DEF ScheduleTypeOK
        <5> QED
          BY <1>1, <3>0, <4>1, <4>3, <5>1 DEF Scheduled
      <4> QED
        BY <4>2, <4>3
    <3> QED
      BY <1>9, <3>1, <3>2, <3>3
  <2> QED
    BY <2>2, <2>3
<1>10. ASSUME NEW j \in Job, TimeoutPasses(j)
      PROVE  StillHolds
  BY <1>10, SchedulesStay DEF TimeoutPasses
<1>11. StillHolds => LoadInv'
  BY <1>1 DEF LoadInv
<1> QED
  BY <1>2, <1>3, <1>4, <1>5, <1>6, <1>7, <1>8, <1>9, <1>10, <1>11 DEF ScheduleNext, EditKinds

\* For every number of processes and jobs: if the administrators edit one row at a
\* time, an active row is in the schedule of every process that has loaded the rows
\* and was not passed by an edit of the row through another one, unless the last
\* attempt to schedule it there failed (scheduler_service.py).
THEOREM RowsAreScheduled ==
  ASSUME SerialEdits
  PROVE  ScheduleSpec => []ActiveIsScheduled
<1>1. LoadInv => ActiveIsScheduled
  <2> SUFFICES ASSUME LoadInv, NEW i \in Instance, NEW j \in Job, Scheduled(i, j),
                      proc[i] = "up", row[j] = "active", <<i, j>> \notin behind,
                      ~\E e \in edits : e[1] = i /\ e[2] = j, <<i, j>> \notin dropped
               PROVE  j \in jobs[i]
    BY DEF LoadInv, ActiveIsScheduled
  <2> QED
    BY DEF Scheduled
<1>2. LoadInv /\ [ScheduleNext]_scheduleVars => LoadInv'
  BY LoadStep
<1> QED
  BY <1>1, <1>2, LoadInitial, PTL DEF ScheduleSpec

-----------------------------------------------------------------------------
(* The token quota. *)

\* Tasks that a token serves or is about to serve.
UsersOfTokens == {t \in User : stage[t] \in {"checked", "noted", "held", "undoing"}}

QuotaInv == TokenTypeOK /\ QuotaKept

LEMMA TypesInit == TokenInit => TokenTypeOK
  BY TokenAssumption DEF TokenInit, TokenTypeOK, Stage, Idle

(***************************************************************************)
(* Types, one action at a time.                                            *)
(***************************************************************************)
LEMMA TypesNext == TokenTypeOK /\ [TokenNext]_tokenVars => TokenTypeOK'
<1> SUFFICES ASSUME TokenTypeOK, [TokenNext]_tokenVars PROVE TokenTypeOK'
  OBVIOUS
<1>1. CASE UNCHANGED tokenVars
  BY <1>1 DEF tokenVars, TokenTypeOK
<1>2. \A k \in Token : \A ts : ts \subseteq User => Using(k, ts) \in Nat
  BY TokenAssumption, FS_Subset, FS_CardinalityType DEF Using
<1>3. ASSUME NEW t \in User PROVE TokenOf[t] \in Token
  BY TokenAssumption
<1>4. ASSUME NEW t \in User, Begins(t) PROVE alone' \in SUBSET User
  BY <1>4 DEF Begins, TokenTypeOK
<1>5. ASSUME NEW t \in User, NEW s \in Stage, MovesTo(t, s) PROVE stage' \in [User -> Stage]
  BY <1>5 DEF MovesTo, TokenTypeOK
<1>6. ASSUME NEW t \in User, NEW n \in Nat, NEW recount \in BOOLEAN, Writes(t, n, recount)
      PROVE  stored' \in [Token -> Nat] /\ mixed' \in [Token -> BOOLEAN]
  BY <1>3, <1>6 DEF Writes, TokenTypeOK
<1>7. ASSUME NEW t \in User, MarkUser(t) PROVE TokenTypeOK'
  <2>1. starts' \in [User -> 0..MaxStarts]
    BY <1>7, TokenAssumption DEF MarkUser, TokenTypeOK
  <2> QED
    BY <1>4, <1>5, <1>7, <2>1 DEF MarkUser, TokenTypeOK, Stage
<1>8. ASSUME NEW t \in User, ValidateTaskStart(t) PROVE TokenTypeOK'
  BY <1>5, <1>8 DEF ValidateTaskStart, TokenTypeOK, Stage
<1>9. ASSUME NEW t \in User, ScanUsage(t) PROVE TokenTypeOK'
  <2>1. Using(TokenOf[t], RunningTasks \ {t}) \in Nat
    BY <1>2, <1>3 DEF RunningTasks
  <2>2. scan' \in [User -> Nat]
    BY <1>9, <2>1 DEF ScanUsage, TokenTypeOK
  <2>3. stage' \in [User -> Stage]
    BY <1>5, <1>9 DEF ScanUsage, Stage
  <2> QED
    BY <1>9, <2>2, <2>3 DEF ScanUsage, TokenTypeOK
<1>10. ASSUME NEW t \in User, IncrementUsage(t) PROVE TokenTypeOK'
  <2>1. scan[t] + 1 \in Nat
    BY DEF TokenTypeOK
  <2>2. stored' \in [Token -> Nat] /\ mixed' \in [Token -> BOOLEAN]
    BY <1>6, <1>10, <2>1 DEF IncrementUsage
  <2>3. stage' \in [User -> Stage]
    BY <1>5, <1>10 DEF IncrementUsage, Stage
  <2> QED
    BY <1>10, <2>2, <2>3 DEF IncrementUsage, TokenTypeOK
<1>11. ASSUME NEW t \in User, StartRefused(t) \/ EndUse(t) PROVE TokenTypeOK'
  <2>1. scan' \in [User -> Nat]
    BY <1>3, <1>11 DEF StartRefused, EndUse, TokenTypeOK
  <2>2. stage' \in [User -> Stage] /\ alone' \in SUBSET User
    BY <1>4, <1>5, <1>11 DEF StartRefused, EndUse, Stage
  <2> QED
    BY <1>11, <2>1, <2>2 DEF StartRefused, EndUse, TokenTypeOK
<1>12. ASSUME NEW t \in User, ReleaseUsage(t) PROVE TokenTypeOK'
  <2>1. Decremented(scan[t]) \in Nat
    BY DEF Decremented, TokenTypeOK
  <2>2. stored' \in [Token -> Nat] /\ mixed' \in [Token -> BOOLEAN]
    BY <1>6, <1>12, <2>1 DEF ReleaseUsage
  <2>3. stage' \in [User -> Stage]
    BY <1>5, <1>12 DEF ReleaseUsage, Stage
  <2> QED
    BY <1>12, <2>2, <2>3 DEF ReleaseUsage, TokenTypeOK
<1>13. ASSUME NEW t \in User, BackToPending(t) PROVE TokenTypeOK'
  BY <1>5, <1>13 DEF BackToPending, TokenTypeOK, Stage
<1>14. CASE ReconcileScan
  BY <1>2, <1>14 DEF ReconcileScan, TokenTypeOK, RunningTasks
<1>15. CASE ReconcileWrite
  BY <1>15 DEF ReconcileWrite, TokenTypeOK, InUse, Idle
<1>16. CASE RebootTokens
  BY <1>16 DEF RebootTokens, TokenTypeOK, Stage, Idle
<1> QED
  BY <1>1, <1>7, <1>8, <1>9, <1>10, <1>11, <1>12, <1>13, <1>14, <1>15, <1>16 DEF TokenNext

-----------------------------------------------------------------------------
(***************************************************************************)
(* The quota speaks of numbers of tasks: fewer tasks keep it.              *)
(***************************************************************************)
LEMMA FewerUsers ==
  ASSUME NEW S, NEW R, R \subseteq User, S \subseteq R
  PROVE  /\ Cardinality(S) \in Nat /\ Cardinality(R) \in Nat
         /\ Cardinality(S) <= Cardinality(R)
         /\ \A k : /\ Using(k, S) \in Nat /\ Using(k, R) \in Nat
                   /\ Using(k, S) <= Using(k, R)
<1>1. \A T : T \subseteq User => IsFiniteSet(T)
  BY TokenAssumption, FS_Subset
<1>2. IsFiniteSet(S) /\ IsFiniteSet(R)
  BY <1>1
<1>3. Cardinality(S) <= Cardinality(R)
  BY <1>2, FS_Subset
<1>4. ASSUME NEW k
      PROVE  /\ Using(k, S) \in Nat /\ Using(k, R) \in Nat
             /\ Using(k, S) <= Using(k, R)
  <2> DEFINE A == {t \in S : TokenOf[t] = k}
             B == {t \in R : TokenOf[t] = k}
  <2>1. A \subseteq B /\ IsFiniteSet(A) /\ IsFiniteSet(B)
    BY <1>1
  <2>2. Cardinality(A) <= Cardinality(B) /\ Cardinality(A) \in Nat /\ Cardinality(B) \in Nat
    BY <2>1, FS_Subset, FS_CardinalityType
  <2> QED
    BY <2>2 DEF Using
<1> QED
  BY <1>2, <1>3, <1>4, FS_CardinalityType

(***************************************************************************)
(* What one check lets pass stays within the limits, for every token: the  *)
(* one it checked has room, and the others serve no more than before.      *)
(***************************************************************************)
LEMMA CheckKeepsQuota ==
  ASSUME QuotaInv, NEW t \in User, ValidateTaskStart(t)
  PROVE  QuotaKept'
<1>1. UsersOfTokens' \subseteq RunningTasks /\ RunningTasks \subseteq User /\ UsersOfTokens \subseteq User
  BY DEF QuotaInv, TokenTypeOK, ValidateTaskStart, MovesTo, UsersOfTokens, RunningTasks, RunningRow
<1>2. GlobalLimit \in Nat /\ Limit \in [Token -> Nat] /\ TokenOf[t] \in Token
  BY TokenAssumption
<1>3. CASE Available(TokenOf[t], RunningTasks)
  <2>1. GlobalLimit > 0 => Cardinality(UsersOfTokens') <= GlobalLimit
    BY <1>1, <1>2, <1>3, FewerUsers DEF Available
  <2>2. ASSUME NEW k \in Token, Limit[k] > 0 PROVE Using(k, UsersOfTokens') <= Limit[k]
    <3>1. CASE k = TokenOf[t]
      <4>1. /\ Using(k, UsersOfTokens') \in Nat /\ Using(k, RunningTasks) \in Nat
            /\ Using(k, UsersOfTokens') <= Using(k, RunningTasks)
        BY <1>1, FewerUsers
      <4>2. Using(k, RunningTasks) < Limit[k]
        BY <1>3, <2>2, <3>1 DEF Available
      <4> QED
        BY <4>1, <4>2, <1>2
    <3>2. CASE k # TokenOf[t]
      <4>1. {u \in UsersOfTokens' : TokenOf[u] = k} = {u \in UsersOfTokens : TokenOf[u] = k}
        BY <3>2 DEF QuotaInv, TokenTypeOK, ValidateTaskStart, MovesTo, UsersOfTokens
      <4>2. Using(k, UsersOfTokens') = Using(k, UsersOfTokens)
        BY <4>1 DEF Using
      <4> QED
        BY <2>2, <4>2 DEF QuotaInv, QuotaKept, UsersOfTokens
    <3> QED
      BY <3>1, <3>2
  <2>3. QuotaKept' <=> /\ GlobalLimit > 0 => Cardinality(UsersOfTokens') <= GlobalLimit
                       /\ \A k \in Token : Limit[k] > 0 => Using(k, UsersOfTokens') <= Limit[k]
    BY DEF QuotaKept, UsersOfTokens, Using
  <2> QED
    BY <2>1, <2>2, <2>3
<1>4. CASE ~Available(TokenOf[t], RunningTasks)
  <2>1. UsersOfTokens' = UsersOfTokens
    BY <1>4 DEF QuotaInv, TokenTypeOK, ValidateTaskStart, MovesTo, UsersOfTokens, CountedAtStart
  <2> QED
    BY <2>1 DEF QuotaInv, QuotaKept, UsersOfTokens, Using
<1> QED
  BY <1>3, <1>4

(***************************************************************************)
(* A step that adds nobody keeps the quota.                                *)
(***************************************************************************)
LEMMA NobodyAdded ==
  ASSUME QuotaInv, UsersOfTokens' \subseteq UsersOfTokens
  PROVE  QuotaKept'
<1>1. UsersOfTokens \subseteq User
  BY DEF UsersOfTokens
<1>2. GlobalLimit \in Nat /\ Limit \in [Token -> Nat]
  BY TokenAssumption
<1>3. /\ GlobalLimit > 0 => Cardinality(UsersOfTokens) <= GlobalLimit
      /\ \A k \in Token : Limit[k] > 0 => Using(k, UsersOfTokens) <= Limit[k]
  BY DEF QuotaInv, QuotaKept, UsersOfTokens
<1>4. /\ Cardinality(UsersOfTokens') \in Nat /\ Cardinality(UsersOfTokens) \in Nat
      /\ Cardinality(UsersOfTokens') <= Cardinality(UsersOfTokens)
      /\ \A k : /\ Using(k, UsersOfTokens') \in Nat /\ Using(k, UsersOfTokens) \in Nat
                /\ Using(k, UsersOfTokens') <= Using(k, UsersOfTokens)
  BY <1>1, FewerUsers
<1>5. /\ GlobalLimit > 0 => Cardinality(UsersOfTokens') <= GlobalLimit
      /\ \A k \in Token : Limit[k] > 0 => Using(k, UsersOfTokens') <= Limit[k]
  BY <1>2, <1>3, <1>4
<1>6. QuotaKept' <=> /\ GlobalLimit > 0 => Cardinality(UsersOfTokens') <= GlobalLimit
                     /\ \A k \in Token : Limit[k] > 0 => Using(k, UsersOfTokens') <= Limit[k]
  BY DEF QuotaKept, UsersOfTokens, Using
<1> QED
  BY <1>5, <1>6

LEMMA QuotaNext == QuotaInv /\ [TokenNext]_tokenVars => QuotaInv'
<1> SUFFICES ASSUME QuotaInv, [TokenNext]_tokenVars PROVE QuotaInv'
  OBVIOUS
<1>1. TokenTypeOK'
  BY TypesNext DEF QuotaInv
<1>2. QuotaKept'
  <2>1. CASE UNCHANGED tokenVars
    BY <2>1, NobodyAdded DEF tokenVars, UsersOfTokens
  <2>2. ASSUME NEW t \in User, ValidateTaskStart(t) PROVE QuotaKept'
    BY <2>2, CheckKeepsQuota
  <2>3. ASSUME NEW t \in User,
               \/ MarkUser(t) \/ ScanUsage(t) \/ IncrementUsage(t) \/ StartRefused(t)
               \/ EndUse(t) \/ ReleaseUsage(t) \/ BackToPending(t)
        PROVE  UsersOfTokens' \subseteq UsersOfTokens
    BY <2>3 DEF QuotaInv, TokenTypeOK, UsersOfTokens, MovesTo, MarkUser, ScanUsage, IncrementUsage,
         StartRefused, EndUse, ReleaseUsage, BackToPending
  <2>4. CASE ReconcileScan \/ ReconcileWrite \/ RebootTokens
    BY <2>4, NobodyAdded DEF UsersOfTokens, ReconcileScan, ReconcileWrite, RebootTokens
  <2> QED
    BY <2>1, <2>2, <2>3, <2>4, NobodyAdded DEF TokenNext
<1> QED
  BY <1>1, <1>2 DEF QuotaInv

LEMMA QuotaInit == TokenInit => QuotaKept
<1> SUFFICES ASSUME TokenInit PROVE QuotaKept
  OBVIOUS
<1>1. UsersOfTokens = {}
  BY DEF TokenInit, UsersOfTokens
<1>2. Cardinality(UsersOfTokens) = 0 /\ \A k : Using(k, UsersOfTokens) = 0
  <2>1. \A k : {t \in UsersOfTokens : TokenOf[t] = k} = {}
    BY <1>1
  <2> QED
    BY <1>1, <2>1, FS_EmptySet DEF Using
<1> QED
  BY <1>2, TokenAssumption DEF QuotaKept, UsersOfTokens

\* However many starts of however many tasks overlap, no token and not the
\* system serves more tasks than its limit: the check of a start counts every
\* row that has said running (google_sheet_token_service.py).
THEOREM QuotaIsKept == TokenSpec => []QuotaKept
<1>1. TokenInit => QuotaInv
  BY TypesInit, QuotaInit DEF QuotaInv
<1>2. QuotaInv => QuotaKept
  BY DEF QuotaInv
<1> QED
  BY <1>1, <1>2, QuotaNext, PTL DEF TokenSpec

\* No counter of a token goes below zero, whatever overlaps.
THEOREM TokenTypes == TokenSpec => []TokenTypeOK
  BY TypesInit, TypesNext, PTL DEF TokenSpec

-----------------------------------------------------------------------------
(***************************************************************************)
(* The stored counter. It is exact, counting those that are about to give  *)
(* their token back, until an overlapped operation writes it. An operation *)
(* that nobody overlapped knows what the counter has to be: while it is    *)
(* under way no other task of its token moves, so what it has read holds.  *)
(***************************************************************************)
Releasing(k) == {t \in User : TokenOf[t] = k /\ stage[t] \in {"undoing", "closing"}}

Exact(k) == ~mixed[k] => stored[k] = Cardinality(Holders(k)) + Cardinality(Releasing(k))

\* What an operation that is alone has read is still so.
Undisturbed(t) ==
  /\ stage[t] \in InOperation
  /\ Rivals(t) = {}
  /\ stage[t] = "noted" => scan[t] = Cardinality(Holders(TokenOf[t]))
  /\ stage[t] \in {"undoing", "closing"} => scan[t] = stored[TokenOf[t]]

CountInv ==
  /\ TokenTypeOK
  /\ alone # {} => tally = Idle
  /\ \A t \in alone : Undisturbed(t)
  /\ \A k \in Token : Exact(k)

(***************************************************************************)
(* A step of one task, as far as the others see it.                        *)
(***************************************************************************)
UserStep(t) ==
  \/ MarkUser(t) \/ ValidateTaskStart(t) \/ ScanUsage(t) \/ IncrementUsage(t)
  \/ StartRefused(t) \/ EndUse(t) \/ ReleaseUsage(t) \/ BackToPending(t)

LEMMA OthersStay ==
  ASSUME TokenTypeOK, NEW u \in User, UserStep(u)
  PROVE  /\ \A t \in User \ {u} : stage'[t] = stage[t] /\ scan'[t] = scan[t]
         /\ stage' \in [User -> Stage]
         /\ \A k \in Token \ {TokenOf[u]} : stored'[k] = stored[k] /\ mixed'[k] = mixed[k]
         /\ alone' \subseteq alone \cup {u}
         /\ tally' = tally
<1>1. TokenTypeOK'
  BY TypesNext DEF UserStep, TokenNext
<1>2. tally' = tally /\ alone' \subseteq alone \cup {u}
  BY DEF UserStep, MarkUser, ValidateTaskStart, ScanUsage, IncrementUsage, StartRefused,
     EndUse, ReleaseUsage, BackToPending, Begins
<1>3. \A t \in User \ {u} : stage'[t] = stage[t]
  BY DEF UserStep, MarkUser, ValidateTaskStart, ScanUsage, IncrementUsage, StartRefused,
     EndUse, ReleaseUsage, BackToPending, MovesTo, TokenTypeOK
<1>4. \A t \in User \ {u} : scan'[t] = scan[t]
  BY DEF UserStep, MarkUser, ValidateTaskStart, ScanUsage, IncrementUsage, StartRefused,
     EndUse, ReleaseUsage, BackToPending, TokenTypeOK
<1>5. \A k \in Token \ {TokenOf[u]} : stored'[k] = stored[k] /\ mixed'[k] = mixed[k]
  BY DEF UserStep, MarkUser, ValidateTaskStart, ScanUsage, IncrementUsage, StartRefused,
     EndUse, ReleaseUsage, BackToPending, Writes, TokenTypeOK
<1> QED
  BY <1>1, <1>2, <1>3, <1>4, <1>5 DEF TokenTypeOK

\* Whoever stays alone beside a step of u has another token.
LEMMA AloneHasOtherToken ==
  ASSUME CountInv, NEW u \in User, UserStep(u), NEW t \in alone', t # u
  PROVE  t \in alone /\ t \in User /\ TokenOf[t] # TokenOf[u]
<1>1. t \in alone /\ t \in User
  BY OthersStay DEF CountInv, TokenTypeOK
<1>2. ASSUME TokenOf[t] = TokenOf[u] PROVE FALSE
  <2>1. stage[t] \in InOperation /\ u \notin Rivals(t)
    BY <1>1 DEF CountInv, Undisturbed
  <2>2. stage[u] \notin InOperation
    BY <1>2, <2>1 DEF Rivals
  <2>3. Begins(u)
    BY <2>2 DEF UserStep, MarkUser, ValidateTaskStart, ScanUsage, IncrementUsage, StartRefused,
       EndUse, ReleaseUsage, BackToPending, InOperation, Stage
  <2>4. t \in Rivals(u)
    BY <1>1, <1>2, <2>1 DEF Rivals
  <2> QED
    BY <2>3, <2>4 DEF Begins
<1> QED
  BY <1>1, <1>2

LEMMA OtherTokensStay ==
  ASSUME TokenTypeOK, NEW u \in User, UserStep(u), NEW k, k # TokenOf[u]
  PROVE  Holders(k)' = Holders(k) /\ Releasing(k)' = Releasing(k)
<1>1. \A t \in User : TokenOf[t] = k => stage'[t] = stage[t]
  BY OthersStay
<1> QED
  BY <1>1 DEF Holders, Releasing

LEMMA AloneStays ==
  ASSUME CountInv, NEW u \in User, UserStep(u), NEW t \in alone', t # u
  PROVE  Undisturbed(t)'
<1>1. t \in alone /\ t \in User /\ TokenOf[t] # TokenOf[u] /\ Undisturbed(t)
  BY AloneHasOtherToken DEF CountInv
<1>2. stage'[t] = stage[t] /\ scan'[t] = scan[t]
  BY <1>1, OthersStay DEF CountInv
<1>3. stored'[TokenOf[t]] = stored[TokenOf[t]]
  BY <1>1, OthersStay, TokenAssumption DEF CountInv
<1>4. Holders(TokenOf[t])' = Holders(TokenOf[t])
  BY <1>1, OtherTokensStay DEF CountInv
<1>5. Rivals(t)' = {}
  <2>1. \A v \in User : TokenOf[v] = TokenOf[t] => stage'[v] = stage[v]
    BY <1>1, OthersStay DEF CountInv
  <2> QED
    BY <1>1, <2>1 DEF Undisturbed, Rivals
<1> QED
  BY <1>1, <1>2, <1>3, <1>4, <1>5 DEF Undisturbed

-----------------------------------------------------------------------------
(***************************************************************************)
(* Numbers of tasks when one comes or goes.                                *)
(***************************************************************************)
LEMMA Counting ==
  ASSUME NEW S, S \subseteq User, NEW u \in User
  PROVE  /\ Cardinality(S) \in Nat
         /\ u \notin S => Cardinality(S \cup {u}) = Cardinality(S) + 1
         /\ u \in S => Cardinality(S \ {u}) = Cardinality(S) - 1
<1>1. IsFiniteSet(S)
  BY TokenAssumption, FS_Subset
<1> QED
  BY <1>1, FS_CardinalityType, FS_AddElement, FS_RemoveElement

\* The tasks of the token of the one that moves.
LEMMA OwnTokenMoves ==
  ASSUME TokenTypeOK, NEW u \in User, UserStep(u)
  PROVE  LET k == TokenOf[u] IN
         /\ Holders(k)' = IF stage'[u] = "held" THEN Holders(k) \cup {u} ELSE Holders(k) \ {u}
         /\ Releasing(k)' = IF stage'[u] \in {"undoing", "closing"}
                              THEN Releasing(k) \cup {u} ELSE Releasing(k) \ {u}
  BY OthersStay DEF Holders, Releasing

\* The counter of that token.
LEMMA OwnCounter ==
  ASSUME CountInv, NEW u \in User, UserStep(u)
  PROVE  Exact(TokenOf[u])'
<1> DEFINE k == TokenOf[u]
           H == Holders(k)
           R == Releasing(k)
<1>1. k \in Token /\ Exact(k) /\ TokenTypeOK
  BY TokenAssumption DEF CountInv
<1>2. H \subseteq User /\ R \subseteq User
  BY DEF Holders, Releasing
<1>3. /\ Holders(k)' = IF stage'[u] = "held" THEN H \cup {u} ELSE H \ {u}
      /\ Releasing(k)' = IF stage'[u] \in {"undoing", "closing"} THEN R \cup {u} ELSE R \ {u}
  BY <1>1, OwnTokenMoves
<1>4. /\ u \in H <=> stage[u] = "held"
      /\ u \in R <=> stage[u] \in {"undoing", "closing"}
  BY DEF Holders, Releasing
<1>5. CASE MarkUser(u) \/ ValidateTaskStart(u) \/ ScanUsage(u) \/ BackToPending(u)
  <2>1. /\ stage[u] \in {"pending", "marked", "checked", "undone", "closed"}
        /\ stage'[u] \in {"pending", "marked", "checked", "noted", "undone"}
        /\ stored' = stored /\ mixed' = mixed
    BY <1>1, <1>5 DEF MarkUser, ValidateTaskStart, ScanUsage, BackToPending, MovesTo, TokenTypeOK
  <2>2. Holders(k)' = H /\ Releasing(k)' = R
    BY <1>3, <1>4, <2>1
  <2> QED
    BY <1>1, <2>1, <2>2 DEF Exact
<1>6. CASE StartRefused(u) \/ EndUse(u)
  <2>1. /\ stage[u] = "held" /\ stage'[u] \in {"undoing", "closing"}
        /\ stored' = stored /\ mixed' = mixed
    BY <1>1, <1>6 DEF StartRefused, EndUse, MovesTo, TokenTypeOK
  <2>2. Holders(k)' = H \ {u} /\ Releasing(k)' = R \cup {u} /\ u \in H /\ u \notin R
    BY <1>3, <1>4, <2>1
  <2>3. /\ Cardinality(H \ {u}) = Cardinality(H) - 1 /\ Cardinality(H) \in Nat
        /\ Cardinality(R \cup {u}) = Cardinality(R) + 1 /\ Cardinality(R) \in Nat
    BY <1>2, <2>2, Counting
  <2>4. Cardinality(Holders(k)') + Cardinality(Releasing(k)') = Cardinality(H) + Cardinality(R)
    BY <2>2, <2>3
  <2> QED
    BY <1>1, <2>1, <2>4 DEF Exact
<1>7. CASE IncrementUsage(u)
  <2>1. /\ stage[u] = "noted" /\ stage'[u] = "held"
        /\ stored'[k] = scan[u] + 1
        /\ mixed'[k] = (IF u \in alone THEN FALSE ELSE TRUE)
    BY <1>1, <1>7 DEF IncrementUsage, Writes, MovesTo, TokenTypeOK
  <2>2. CASE u \in alone
    <3>1. Undisturbed(u)
      BY <2>2 DEF CountInv
    <3>2. scan[u] = Cardinality(H)
      BY <2>1, <3>1 DEF Undisturbed
    <3>3. R = {}
      BY <2>1, <3>1 DEF Undisturbed, Rivals, Releasing, InOperation, Stage
    <3>4. Holders(k)' = H \cup {u} /\ u \notin H /\ Releasing(k)' = {}
      BY <1>3, <1>4, <2>1, <3>3
    <3>5. Cardinality(Holders(k)') = Cardinality(H) + 1 /\ Cardinality(H) \in Nat
      BY <1>2, <3>4, Counting
    <3>6. Cardinality(Releasing(k)') = 0
      BY <3>4, FS_EmptySet
    <3> QED
      BY <2>1, <3>2, <3>5, <3>6 DEF Exact
  <2>3. CASE u \notin alone
    BY <2>1, <2>3 DEF Exact
  <2> QED
    BY <2>2, <2>3
<1>8. CASE ReleaseUsage(u)
  <2>1. /\ stage[u] \in {"undoing", "closing"} /\ stage'[u] \in {"undone", "closed"}
        /\ stored'[k] = Decremented(scan[u])
    BY <1>1, <1>8 DEF ReleaseUsage, Writes, MovesTo, TokenTypeOK
  <2>2. u \in alone => mixed'[k] = mixed[k]
    BY <1>1, <1>8, Zenon DEF ReleaseUsage, Writes, TokenTypeOK
  <2>3. u \notin alone => mixed'[k] = TRUE
    BY <1>1, <1>8 DEF ReleaseUsage, Writes, TokenTypeOK
  <2>4. CASE u \in alone /\ ~mixed[k]
    <3>1. Undisturbed(u)
      BY <2>4 DEF CountInv
    <3>2. R = {u}
      BY <1>4, <2>1, <3>1 DEF Undisturbed, Rivals, Releasing, InOperation, Stage
    <3>3. scan[u] = Cardinality(H) + 1 /\ Cardinality(H) \in Nat
      <4>1. Cardinality(R) = 1
        BY <3>2, FS_Singleton
      <4> QED
        BY <1>1, <1>2, <2>1, <2>4, <3>1, <4>1, Counting DEF Undisturbed, Exact
    <3>4. Holders(k)' = H /\ Releasing(k)' = {}
      BY <1>3, <1>4, <2>1, <3>2
    <3>5. Cardinality(Releasing(k)') = 0
      BY <3>4, FS_EmptySet
    <3> QED
      BY <2>1, <3>3, <3>4, <3>5 DEF Exact, Decremented
  <2>5. CASE u \notin alone \/ mixed[k]
    BY <1>1, <2>2, <2>3, <2>5 DEF Exact, TokenTypeOK
  <2> QED
    BY <2>4, <2>5
<1> QED
  BY <1>5, <1>6, <1>7, <1>8 DEF UserStep

\* And what the one that moves has read, when it is alone.
LEMMA OwnReading ==
  ASSUME CountInv, NEW u \in User, UserStep(u), u \in alone'
  PROVE  Undisturbed(u)'
<1>1. TokenTypeOK /\ TokenOf[u] \in Token
  BY TokenAssumption DEF CountInv
<1>2. Rivals(u)' = Rivals(u)
  BY <1>1, OthersStay DEF Rivals
<1>3. CASE MarkUser(u)
  <2>1. Rivals(u) = {} /\ stage'[u] = "marked"
    BY <1>1, <1>3 DEF MarkUser, MovesTo, Begins, TokenTypeOK
  <2> QED
    BY <1>2, <2>1 DEF Undisturbed, InOperation, Stage
<1>4. CASE StartRefused(u) \/ EndUse(u)
  <2>1. /\ Rivals(u) = {} /\ stage'[u] \in {"undoing", "closing"}
        /\ scan'[u] = stored'[TokenOf[u]]
    BY <1>1, <1>4 DEF StartRefused, EndUse, MovesTo, Begins, TokenTypeOK
  <2> QED
    BY <1>2, <2>1 DEF Undisturbed, InOperation, Stage
<1>5. CASE ValidateTaskStart(u)
  <2>1. Rivals(u) = {}
    BY <1>5 DEF ValidateTaskStart, CountInv, Undisturbed
  <2>2. stage'[u] \in {"checked", "undone"}
    BY <1>1, <1>5 DEF ValidateTaskStart, MovesTo, TokenTypeOK
  <2> QED
    BY <1>2, <2>1, <2>2 DEF Undisturbed, InOperation, Stage
<1>6. CASE ScanUsage(u)
  <2> DEFINE k == TokenOf[u]
             others == RunningTasks \ {u}
  <2>1. Rivals(u) = {}
    BY <1>6 DEF ScanUsage, CountInv, Undisturbed
  <2>2. CASE Available(k, others)
    <3>1. stage'[u] = "noted" /\ scan'[u] = Using(k, others)
      BY <1>1, <1>6, <2>2 DEF ScanUsage, MovesTo, TokenTypeOK
    <3>2. {t \in others : TokenOf[t] = k} = Holders(k) \ {u}
      BY <1>1, <2>1 DEF RunningTasks, RunningRow, Rivals, InOperation, Holders, TokenTypeOK
    <3>3. Holders(k)' = Holders(k) \ {u}
      BY <1>1, <3>1, OwnTokenMoves
    <3>4. scan'[u] = Cardinality(Holders(k)')
      BY <3>1, <3>2, <3>3 DEF Using
    <3> QED
      BY <1>2, <2>1, <3>1, <3>4 DEF Undisturbed, InOperation, Stage
  <2>3. CASE ~Available(k, others)
    <3>1. stage'[u] = "undone"
      BY <1>1, <1>6, <2>3 DEF ScanUsage, MovesTo, TokenTypeOK
    <3> QED
      BY <1>2, <2>1, <3>1 DEF Undisturbed, InOperation, Stage
  <2> QED
    BY <2>2, <2>3
<1>7. CASE ReleaseUsage(u)
  <2>1. Rivals(u) = {}
    BY <1>7 DEF ReleaseUsage, CountInv, Undisturbed
  <2>2. stage'[u] \in {"undone", "closed"}
    BY <1>1, <1>7 DEF ReleaseUsage, MovesTo, TokenTypeOK
  <2> QED
    BY <1>2, <2>1, <2>2 DEF Undisturbed, InOperation, Stage
<1>8. CASE IncrementUsage(u) \/ BackToPending(u)
  BY <1>8 DEF IncrementUsage, BackToPending
<1> QED
  BY <1>3, <1>4, <1>5, <1>6, <1>7, <1>8 DEF UserStep

-----------------------------------------------------------------------------
(***************************************************************************)
(* The invariant is kept.                                                  *)
(***************************************************************************)
LEMMA CountUserStep ==
  ASSUME CountInv, NEW u \in User, UserStep(u)
  PROVE  CountInv'
<1>1. TokenTypeOK /\ TokenTypeOK' /\ TokenOf[u] \in Token
  BY TypesNext, TokenAssumption DEF CountInv, UserStep, TokenNext
<1>2. alone' # {} => tally' = Idle
  <2>1. CASE u \in alone' /\ u \notin alone
    BY <2>1 DEF UserStep, MarkUser, ValidateTaskStart, ScanUsage, IncrementUsage, StartRefused,
       EndUse, ReleaseUsage, BackToPending, Begins
  <2>2. CASE u \notin alone' \/ u \in alone
    BY <1>1, <2>2, OthersStay DEF CountInv
  <2> QED
    BY <2>1, <2>2
<1>3. ASSUME NEW t \in alone' PROVE Undisturbed(t)'
  BY <1>3, AloneStays, OwnReading
<1>4. ASSUME NEW k \in Token PROVE Exact(k)'
  <2>1. CASE k = TokenOf[u]
    BY <2>1, OwnCounter
  <2>2. CASE k # TokenOf[u]
    <3>1. Holders(k)' = Holders(k) /\ Releasing(k)' = Releasing(k)
      BY <1>1, <2>2, OtherTokensStay
    <3>2. stored'[k] = stored[k] /\ mixed'[k] = mixed[k]
      BY <1>1, <2>2, OthersStay
    <3> QED
      BY <3>1, <3>2 DEF CountInv, Exact
  <2> QED
    BY <2>1, <2>2
<1> QED
  BY <1>1, <1>2, <1>3, <1>4 DEF CountInv

LEMMA CountWhenPending ==
  ASSUME \A t \in User : stage[t] = "pending",
         stored = [k \in Token |-> 0], NEW k \in Token
  PROVE  Exact(k)
<1>1. Holders(k) = {} /\ Releasing(k) = {}
  BY DEF Holders, Releasing
<1> QED
  BY <1>1, FS_EmptySet DEF Exact

LEMMA CountNext == CountInv /\ [TokenNext]_tokenVars => CountInv'
<1> SUFFICES ASSUME CountInv, [TokenNext]_tokenVars PROVE CountInv'
  OBVIOUS
<1>1. TokenTypeOK /\ TokenTypeOK'
  BY TypesNext DEF CountInv
<1>2. CASE UNCHANGED tokenVars
  <2>1. \A t \in alone : Undisturbed(t)'
    BY <1>2 DEF tokenVars, CountInv, Undisturbed, Rivals, Holders
  <2>2. \A k \in Token : Exact(k)'
    BY <1>2 DEF tokenVars, CountInv, Exact, Holders, Releasing
  <2> QED
    BY <1>1, <1>2, <2>1, <2>2 DEF tokenVars, CountInv
<1>3. ASSUME NEW u \in User, UserStep(u) PROVE CountInv'
  BY <1>3, CountUserStep
<1>4. CASE ReconcileScan
  <2>1. \A k \in Token : Exact(k)'
    BY <1>4 DEF ReconcileScan, CountInv, Exact, Holders, Releasing
  <2> QED
    BY <1>1, <1>4, <2>1 DEF ReconcileScan, CountInv
<1>5. CASE ReconcileWrite
  <2>1. alone = {} /\ alone' = {}
    BY <1>5 DEF ReconcileWrite, CountInv
  <2>2. ASSUME NEW k \in Token PROVE Exact(k)'
    <3>1. Holders(k)' = Holders(k) /\ Releasing(k)' = Releasing(k)
      BY <1>5 DEF ReconcileWrite, Holders, Releasing
    <3>2. CASE InUse(tally[k])
      BY <1>1, <1>5, <3>2 DEF ReconcileWrite, Exact, TokenTypeOK
    <3>3. CASE ~InUse(tally[k])
      <4>1. stored'[k] = stored[k] /\ (mixed'[k] <=> mixed[k])
        BY <1>1, <1>5, <3>3 DEF ReconcileWrite, TokenTypeOK
      <4> QED
        BY <3>1, <4>1 DEF CountInv, Exact
    <3> QED
      BY <3>2, <3>3
  <2> QED
    BY <1>1, <2>1, <2>2 DEF CountInv
<1>6. CASE RebootTokens
  <2>1. /\ \A t \in User : stage'[t] = "pending"
        /\ stored' = [k \in Token |-> 0]
        /\ alone' = {}
    BY <1>6 DEF RebootTokens
  <2>2. ASSUME NEW k \in Token PROVE Exact(k)'
    <3>1. Holders(k)' = {} /\ Releasing(k)' = {}
      BY <2>1 DEF Holders, Releasing
    <3> QED
      BY <2>1, <3>1, FS_EmptySet DEF Exact
  <2> QED
    BY <1>1, <2>1, <2>2 DEF CountInv
<1> QED
  BY <1>2, <1>3, <1>4, <1>5, <1>6 DEF TokenNext, UserStep

\* Whenever no operation on a token is under way its stored counter is the
\* number of tasks that hold it, unless one that overlapped another wrote it:
\* scan and write, read and decrement agree when they are not disturbed
\* (google_sheet_token_repository.py, increment_usage and release_usage).
THEOREM CounterIsExact == TokenSpec => []CountExact
<1>1. TokenInit => CountInv
  <2> SUFFICES ASSUME TokenInit PROVE CountInv
    OBVIOUS
  <2>1. \A k \in Token : Exact(k)
    BY CountWhenPending DEF TokenInit
  <2> QED
    BY <2>1, TypesInit DEF TokenInit, CountInv
<1>2. CountInv => CountExact
  <2> SUFFICES ASSUME CountInv, NEW k \in Token, ~mixed[k],
                      \A t \in User : TokenOf[t] = k => stage[t] \notin InOperation
               PROVE  stored[k] = Cardinality(Holders(k))
    BY DEF CountExact
  <2>1. Releasing(k) = {}
    BY DEF Releasing, InOperation, Stage
  <2>2. Cardinality(Holders(k)) \in Nat
    <3>1. Holders(k) \subseteq User
      BY DEF Holders
    <3> QED
      BY <3>1, TokenAssumption, FS_Subset, FS_CardinalityType
  <2> QED
    BY <2>1, <2>2, FS_EmptySet DEF CountInv, Exact
<1> QED
  BY <1>1, <1>2, CountNext, PTL DEF TokenSpec

-----------------------------------------------------------------------------
(* The configuration cache and the Word exports. *)

Requests == [at : Steps, key : Key \cup {Absent}, value : Value \cup {Absent},
             rows : [Key -> Value \cup {Missing, Absent}]]

\* The steps at which a request keeps the lock.
Keeping == {"install", "first", "confirm"}

\* The lock is kept by the request that is at one of these steps.
OneKeeper == \A r \in Request : request[r].at \in Keeping <=> keeper = r

\* A request has a key, and the ones that write a row have a value.
RequestShape ==
  \A r \in Request :
    /\ request[r].at # "none" => request[r].key \in Key
    /\ request[r].at \in {"upsert", "put", "row"} => request[r].value \in Value

\* A writer whose row is in the table and whose entry is not yet in the cache.
Pending(k) ==
  \E r \in Request :
    \/ request[r].at \in {"put", "lock"}
    \/ request[r].at = "pop" /\ request[r].key = k

CopyCoherent ==
  \A r \in Request : request[r].at \in Keeping =>
    \A k \in Key : request[r].rows[k] = table[k] \/ Pending(k)

ConfigInv ==
  /\ ConfigTypeOK
  /\ RequestShape
  /\ OneKeeper
  /\ ~broken => CopyCoherent
  /\ CacheCoherent

-----------------------------------------------------------------------------
(***************************************************************************)
(* The initial state has an empty cache and no request.                    *)
(***************************************************************************)
LEMMA ConfigInitial == ConfigInit => ConfigInv
<1> SUFFICES ASSUME ConfigInit PROVE ConfigInv
  OBVIOUS
<1>1. /\ NoRequest \in Requests
      /\ NoRequest.at = "none"
  BY DEF NoRequest, Requests, Steps
<1>2. \A r \in Request : request[r] = NoRequest
  BY DEF ConfigInit
<1>3. ConfigTypeOK
  BY <1>1 DEF ConfigInit, ConfigTypeOK, Requests, Nobody
<1>4. RequestShape /\ CopyCoherent
  BY <1>1, <1>2 DEF RequestShape, CopyCoherent, Keeping
<1>5. OneKeeper
  BY <1>1, <1>2, ConfigAssumption DEF OneKeeper, Keeping, ConfigInit, Nobody
<1>6. CacheCoherent
  BY DEF CacheCoherent, ConfigInit
<1> QED
  BY <1>3, <1>4, <1>5, <1>6 DEF ConfigInv

(***************************************************************************)
(* What the ways in which a request goes on do to the requests.            *)
(***************************************************************************)
RequestsTyped == request \in [Request -> Requests] /\ RequestShape

LEMMA RequestContinues ==
  ASSUME RequestsTyped, NEW r \in Request, NEW step \in Steps, Continues(r, step),
         request[r].at # "none",
         step \in {"upsert", "put", "row"} => request[r].at \in {"upsert", "put", "row"}
  PROVE  RequestsTyped'
BY DEF RequestsTyped, RequestShape, Requests, Continues

LEMMA RequestReturns ==
  ASSUME RequestsTyped, NEW r \in Request, Returns(r)
  PROVE  RequestsTyped'
<1>1. /\ NoRequest \in Requests
      /\ NoRequest.at = "none"
  BY DEF NoRequest, Requests, Steps
<1>2. request' = [request EXCEPT ![r] = NoRequest]
  BY DEF Returns
<1> QED
  BY <1>1, <1>2 DEF RequestsTyped, RequestShape

LEMMA RequestCopies ==
  ASSUME RequestsTyped, NEW r \in Request, NEW step \in {"install", "first", "confirm"},
         table \in [Key -> Value \cup {Missing}],
         request[r].at # "none",
         Copies(r, step)
  PROVE  RequestsTyped'
<1>1. step \in Steps /\ table \in [Key -> Value \cup {Missing, Absent}]
  BY DEF Steps
<1> QED
  BY <1>1 DEF RequestsTyped, RequestShape, Requests, Copies

(***************************************************************************)
(* Every step keeps the types and the shape of the requests.               *)
(***************************************************************************)
LEMMA ConfigTypes ==
  ASSUME ConfigTypeOK, RequestShape, [ConfigNext]_configVars
  PROVE  ConfigTypeOK' /\ RequestShape'
<1>1. RequestsTyped
  BY DEF RequestsTyped, ConfigTypeOK, Requests
<1> DEFINE RestTyped ==
      /\ table \in [Key -> Value \cup {Missing}]
      /\ cache \in [Key -> Value \cup {Missing, Absent}]
      /\ loaded \in BOOLEAN
      /\ keeper \in Request \cup {Nobody}
      /\ broken \in BOOLEAN
<1>rest. RestTyped
  BY DEF ConfigTypeOK
<1>steps. {"put", "lock", "pop"} \subseteq Steps
  BY DEF Steps
<1>2. CASE UNCHANGED configVars
  BY <1>2 DEF ConfigTypeOK, RequestShape, configVars
<1>3. ASSUME NEW r \in Request, Arrivals(r)
      PROVE  RequestsTyped' /\ RestTyped'
  <2>1. PICK k \in Key, v \in Value \cup {Absent}, step \in {"upsert", "row", "delete", "read"} :
          /\ Arrive(r, k, v, step)
          /\ step \in {"upsert", "row"} => v \in Value
    BY <1>3 DEF Arrivals
  <2>2. RequestsTyped'
    BY <1>1, <2>1 DEF Arrive, RequestsTyped, RequestShape, Requests, Steps
  <2> QED
    BY <1>rest, <2>1, <2>2 DEF Arrive
<1>4. ASSUME NEW r \in Request, UpsertRow(r)
      PROVE  RequestsTyped' /\ RestTyped'
  BY <1>1, <1>rest, <1>steps, <1>4, RequestContinues DEF UpsertRow, At, RequestsTyped, RequestShape
<1>5. ASSUME NEW r \in Request, PutEntry(r)
      PROVE  RequestsTyped' /\ RestTyped'
  BY <1>1, <1>rest, <1>steps, <1>5, RequestContinues DEF PutEntry, At, RequestsTyped, RequestShape
<1>6. ASSUME NEW r \in Request, UpdateFails(r)
      PROVE  RequestsTyped' /\ RestTyped'
  BY <1>1, <1>rest, <1>6, RequestReturns DEF UpdateFails
<1>7. ASSUME NEW r \in Request, UpdateRow(r)
      PROVE  RequestsTyped' /\ RestTyped'
  BY <1>1, <1>rest, <1>steps, <1>7, RequestContinues, RequestReturns
     DEF UpdateRow, At, RequestsTyped, RequestShape
<1>8. ASSUME NEW r \in Request, DeleteRow(r)
      PROVE  RequestsTyped' /\ RestTyped'
  BY <1>1, <1>rest, <1>steps, <1>8, RequestContinues, RequestReturns
     DEF DeleteRow, At, RequestsTyped, RequestShape
<1>9. ASSUME NEW r \in Request, PopEntry(r)
      PROVE  RequestsTyped' /\ RestTyped'
  BY <1>1, <1>rest, <1>9, RequestReturns DEF PopEntry
<1>10. ASSUME NEW r \in Request, Load(r)
      PROVE  RequestsTyped' /\ RestTyped'
  BY <1>1, <1>rest, <1>10, RequestCopies DEF Load, At
<1>11. ASSUME NEW r \in Request, request[r].rows \in [Key -> Value \cup {Missing, Absent}]
       PROVE  EntriesOf(request[r].rows) \in [Key -> Value \cup {Missing, Absent}]
  BY <1>11 DEF EntriesOf
<1>12. \A r \in Request : request[r].rows \in [Key -> Value \cup {Missing, Absent}]
  BY <1>1 DEF RequestsTyped, Requests
<1>13. ASSUME NEW r \in Request, Install(r)
       PROVE  RequestsTyped' /\ RestTyped'
  BY <1>1, <1>rest, <1>11, <1>12, <1>13, RequestReturns DEF Install
<1>14. ASSUME NEW r \in Request, ReadEntry(r)
       PROVE  RequestsTyped' /\ RestTyped'
  BY <1>1, <1>rest, <1>14, RequestReturns, RequestCopies DEF ReadEntry, At
<1>15. ASSUME NEW r \in Request, InstallFirst(r)
       PROVE  RequestsTyped' /\ RestTyped'
  BY <1>1, <1>rest, <1>11, <1>12, <1>15, RequestReturns, RequestCopies DEF InstallFirst, At
<1>16. ASSUME NEW r \in Request, ConfirmEntry(r)
       PROVE  RequestsTyped' /\ RestTyped'
  BY <1>1, <1>rest, <1>12, <1>16, RequestReturns DEF ConfirmEntry
<1>17. ASSUME NEW r \in Request, ReadFails(r)
       PROVE  RequestsTyped' /\ RestTyped'
  BY <1>1, <1>rest, <1>17, RequestReturns, RequestCopies DEF ReadFails, At
<1>18. RequestsTyped' /\ RestTyped' => ConfigTypeOK' /\ RequestShape'
  BY DEF RequestsTyped, ConfigTypeOK, Requests
<1> QED
  BY <1>2, <1>3, <1>4, <1>5, <1>6, <1>7, <1>8, <1>9, <1>10, <1>13, <1>14, <1>15, <1>16, <1>17,
     <1>18 DEF ConfigNext

(***************************************************************************)
(* Every step keeps the lock with the request that keeps it: a step takes  *)
(* the lock only when it is free and gives it back when the request ends.  *)
(***************************************************************************)
LEMMA LockIsExclusive ==
  ASSUME ConfigTypeOK, OneKeeper, [ConfigNext]_configVars
  PROVE  OneKeeper'
<1>1. CASE UNCHANGED configVars
  BY <1>1 DEF OneKeeper, configVars
<1>2. ASSUME NEW r \in Request, Arrivals(r)
      PROVE  OneKeeper'
  BY <1>2 DEF ConfigTypeOK, OneKeeper, Arrivals, Arrive, At, Keeping
<1>3. ASSUME NEW r \in Request,
             \/ UpsertRow(r) \/ PutEntry(r) \/ UpdateFails(r)
             \/ UpdateRow(r) \/ DeleteRow(r) \/ PopEntry(r)
      PROVE  OneKeeper'
  BY <1>3 DEF ConfigTypeOK, OneKeeper, UpsertRow, PutEntry, UpdateFails, UpdateRow, DeleteRow,
              PopEntry, At, Continues, Returns, NoRequest, Keeping
<1>4. ASSUME NEW r \in Request, Load(r) \/ Install(r) \/ ReadEntry(r)
      PROVE  OneKeeper'
  BY <1>4, ConfigAssumption
     DEF ConfigTypeOK, OneKeeper, Load, Install, ReadEntry, Copies, At, Returns, NoRequest, Nobody,
         Keeping
<1>5. ASSUME NEW r \in Request, InstallFirst(r) \/ ConfirmEntry(r) \/ ReadFails(r)
      PROVE  OneKeeper'
  BY <1>5, ConfigAssumption
     DEF ConfigTypeOK, OneKeeper, InstallFirst, ConfirmEntry, ReadFails, Copies, At, Returns, NoRequest,
         Nobody, Keeping
<1> QED
  BY <1>1, <1>2, <1>3, <1>4, <1>5 DEF ConfigNext

-----------------------------------------------------------------------------
(***************************************************************************)
(* The cache.                                                              *)
(***************************************************************************)
\* What is pending settles the entry in CacheCoherent.
LEMMA PendingSettles ==
  ASSUME NEW k \in Key, Pending(k)
  PROVE  \E r \in Request : Settles(r, k)
BY DEF Pending, Settles

\* Only the step of the request changes.
LEMMA ContinuesKeeps ==
  ASSUME ConfigTypeOK, NEW r \in Request, NEW step, Continues(r, step)
  PROVE  /\ request'[r].at = step
         /\ request'[r].key = request[r].key
         /\ request'[r].rows = request[r].rows
BY DEF ConfigTypeOK, Continues

\* A request that goes on without a write, with the copy it has or a new one.
LEMMA OnlyReads ==
  ASSUME ConfigTypeOK, OneKeeper', NEW r \in Request, UNCHANGED <<table, cache>>,
         \A q \in Request \ {r} : request'[q] = request[q],
         request[r].at \notin {"put", "lock", "install", "pop"},
         request'[r].at \in Keeping => request'[r].rows = table,
         CopyCoherent,
         \A k \in Key : cache[k] \in {Absent, table[k]} \/ \E q \in Request : Settles(q, k)
  PROVE  /\ CopyCoherent'
         /\ \A k \in Key : cache'[k] \in {Absent, table'[k]} \/ (\E q \in Request : Settles(q, k))'
<1>1. ASSUME NEW k \in Key, Pending(k)
      PROVE  Pending(k)'
  BY <1>1 DEF Pending
<1>2. CopyCoherent'
  BY <1>1 DEF CopyCoherent
<1>3. ASSUME NEW k \in Key, NEW q \in Request, Settles(q, k)
      PROVE  Settles(q, k)'
  BY <1>3 DEF Settles
<1> QED
  BY <1>2, <1>3

(***************************************************************************)
(* A step that keeps the table, every pending writer and every copy, or    *)
(* that makes a copy of the table, keeps the copies coherent; the steps    *)
(* that write the table leave their writer pending.                        *)
(***************************************************************************)
LEMMA Coherence ==
  ASSUME ConfigInv, [ConfigNext]_configVars, OneKeeper'
  PROVE  (~broken => CopyCoherent)' /\ CacheCoherent'
<1> USE DEF ConfigInv
<1> DEFINE Correct == \A k \in Key : cache[k] \in {Absent, table[k]} \/ \E q \in Request : Settles(q, k)
<1> SUFFICES ASSUME ~broken, ~broken'
             PROVE  /\ CopyCoherent'
                    /\ Correct'
  <2>1. ~broken' => ~broken
    BY DEF ConfigNext, Arrivals, Arrive, UpsertRow, PutEntry, UpdateFails, UpdateRow, Load, Install,
           DeleteRow, PopEntry, ReadEntry, InstallFirst, ConfirmEntry, ReadFails, configVars
  <2> QED
    BY <2>1 DEF CacheCoherent
<1>1. /\ CopyCoherent
      /\ Correct
  BY DEF CacheCoherent
<1>2. CASE UNCHANGED configVars
  BY <1>1, <1>2 DEF CopyCoherent, Pending, Settles, configVars
<1>3. ASSUME NEW r \in Request, Arrivals(r)
      PROVE  /\ CopyCoherent'
             /\ Correct'
  <2>1. /\ request[r].at = "none" /\ request'[r].at \in {"upsert", "row", "delete", "read"}
        /\ \A q \in Request \ {r} : request'[q] = request[q]
    BY <1>3 DEF ConfigTypeOK, Arrivals, Arrive, At
  <2> QED
    BY <1>1, <1>3, <2>1, OnlyReads DEF Arrivals, Arrive, Keeping
<1>4. ASSUME NEW r \in Request, UpsertRow(r)
      PROVE  /\ CopyCoherent'
             /\ Correct'
  BY <1>1, <1>4 DEF ConfigTypeOK, CopyCoherent, Pending, Settles, Keeping, UpsertRow, Continues, At
<1>5. ASSUME NEW r \in Request, PutEntry(r)
      PROVE  /\ CopyCoherent'
             /\ Correct'
  BY <1>1, <1>5 DEF ConfigTypeOK, CopyCoherent, Pending, Settles, Keeping, PutEntry, Continues, At
<1>6. ASSUME NEW r \in Request, UpdateRow(r)
      PROVE  /\ CopyCoherent'
             /\ Correct'
  <2>1. /\ request[r].at = "row"
        /\ \A q \in Request \ {r} : request'[q] = request[q]
    BY <1>6 DEF ConfigTypeOK, UpdateRow, At, Continues, Returns
  <2>2. CASE table[request[r].key] = Missing
    <3>1. request'[r].at = "none"
      BY <1>6, <2>2 DEF ConfigTypeOK, UpdateRow, Returns, NoRequest
    <3> QED
      BY <1>1, <1>6, <2>1, <2>2, <3>1, OnlyReads DEF UpdateRow, Keeping
  <2>3. CASE table[request[r].key] # Missing
    <3>1. /\ request'[r].at = "lock" /\ request'[r].key = request[r].key
          /\ \A q \in Request : request'[q].rows = request[q].rows
      BY <1>6, <2>1, <2>3, ContinuesKeeps DEF UpdateRow
    <3>2. \A k \in Key : table'[k] = table[k] \/ Pending(k)'
      BY <1>6, <2>3, <3>1 DEF ConfigTypeOK, UpdateRow, Pending
    <3>3. ASSUME NEW k \in Key, Pending(k)
          PROVE  Pending(k)'
      BY <2>1, <3>1, <3>3 DEF Pending
    <3>4. CopyCoherent'
      BY <1>1, <2>1, <3>1, <3>2, <3>3 DEF CopyCoherent, Keeping
    <3>5. ASSUME NEW k \in Key, table'[k] = table[k], NEW q \in Request, Settles(q, k)
          PROVE  Settles(q, k)'
      BY <2>1, <3>1, <3>5 DEF Settles
    <3>6. ASSUME NEW k \in Key, Pending(k)'
          PROVE  \E q \in Request : Settles(q, k)'
      BY <3>6 DEF Pending, Settles
    <3> QED
      BY <1>1, <1>6, <3>2, <3>4, <3>5, <3>6 DEF UpdateRow
  <2> QED
    BY <2>2, <2>3
<1>7. ASSUME NEW r \in Request, DeleteRow(r)
      PROVE  /\ CopyCoherent'
             /\ Correct'
  <2>1. /\ request[r].at = "delete"
        /\ \A q \in Request \ {r} : request'[q] = request[q]
    BY <1>7 DEF ConfigTypeOK, DeleteRow, At, Continues, Returns
  <2>2. CASE table[request[r].key] = Missing
    <3>1. request'[r].at = "none"
      BY <1>7, <2>2 DEF ConfigTypeOK, DeleteRow, Returns, NoRequest
    <3> QED
      BY <1>1, <1>7, <2>1, <2>2, <3>1, OnlyReads DEF DeleteRow, Keeping
  <2>3. CASE table[request[r].key] # Missing
    <3>1. /\ request'[r].at = "pop" /\ request'[r].key = request[r].key
          /\ \A q \in Request : request'[q].rows = request[q].rows
      BY <1>7, <2>1, <2>3, ContinuesKeeps DEF DeleteRow
    <3>2. \A k \in Key : table'[k] = table[k] \/ Pending(k)'
      BY <1>7, <2>3, <3>1 DEF ConfigTypeOK, DeleteRow, Pending
    <3>3. ASSUME NEW k \in Key, Pending(k)
          PROVE  Pending(k)'
      BY <2>1, <3>1, <3>3 DEF Pending
    <3>4. CopyCoherent'
      BY <1>1, <2>1, <3>1, <3>2, <3>3 DEF CopyCoherent, Keeping
    <3>5. ASSUME NEW k \in Key, table'[k] = table[k], NEW q \in Request, Settles(q, k)
          PROVE  Settles(q, k)'
      BY <2>1, <3>1, <3>5 DEF Settles
    <3>6. ASSUME NEW k \in Key, Pending(k)'
          PROVE  \E q \in Request : Settles(q, k)'
      BY <3>6 DEF Pending, Settles
    <3> QED
      BY <1>1, <1>7, <3>2, <3>4, <3>5, <3>6 DEF DeleteRow
  <2> QED
    BY <2>2, <2>3
<1>8. ASSUME NEW r \in Request, PopEntry(r)
      PROVE  /\ CopyCoherent'
             /\ Correct'
  BY <1>1, <1>8, ConfigAssumption DEF ConfigTypeOK, CopyCoherent, Pending, Settles, Keeping, PopEntry, OneKeeper, At, Returns, NoRequest, Nobody
<1>9. ASSUME NEW r \in Request, Load(r)
      PROVE  /\ CopyCoherent'
             /\ Correct'
  BY <1>1, <1>9, ConfigAssumption DEF ConfigTypeOK, CopyCoherent, Pending, Settles, Keeping, Load, OneKeeper, At, Copies, Nobody
<1>10. ASSUME NEW r \in Request, Install(r)
      PROVE  /\ CopyCoherent'
             /\ Correct'
  <2>1. /\ request[r].at = "install" /\ request'[r].at = "none"
        /\ \A q \in Request \ {r} : request'[q] = request[q] /\ request[q].at \notin Keeping
    BY <1>10, ConfigAssumption DEF ConfigTypeOK, OneKeeper, Install, At, Returns, NoRequest, Nobody, Keeping
  <2>2. CopyCoherent'
    BY <2>1 DEF CopyCoherent, Keeping
  <2>3. ASSUME NEW k \in Key
        PROVE  cache'[k] \in {Absent, table'[k]} \/ \E q \in Request : Settles(q, k)'
    <3>1. CASE request[r].rows[k] = table[k]
      BY <1>10, <3>1 DEF Install, EntriesOf
    <3>2. CASE request[r].rows[k] # table[k]
      <4>1. Pending(k)
        BY <1>1, <2>1, <3>2 DEF CopyCoherent, Keeping
      <4> QED
        BY <2>1, <4>1 DEF Pending, Settles
    <3> QED
      BY <3>1, <3>2
  <2> QED
    BY <2>2, <2>3
<1>11. ASSUME NEW r \in Request, ReadEntry(r)
       PROVE  /\ CopyCoherent'
              /\ Correct'
  BY <1>1, <1>11, ConfigAssumption DEF ConfigTypeOK, CopyCoherent, Pending, Settles, Keeping, ReadEntry, OneKeeper, At, Returns, Copies, NoRequest, Nobody
<1>12. ASSUME NEW r \in Request, InstallFirst(r)
       PROVE  /\ CopyCoherent'
              /\ Correct'
  <2>1. /\ request[r].at = "first" /\ request'[r].at \in {"none", "confirm"}
        /\ request'[r].at = "confirm" => request'[r].rows = table
        /\ \A q \in Request \ {r} : request'[q] = request[q] /\ request[q].at \notin Keeping
    BY <1>12, ConfigAssumption
       DEF ConfigTypeOK, OneKeeper, InstallFirst, At, Returns, Copies, NoRequest, Nobody, Keeping
  <2>2. CopyCoherent'
    BY <1>12, <2>1 DEF CopyCoherent, Keeping, InstallFirst
  <2>3. ASSUME NEW k \in Key
        PROVE  cache'[k] \in {Absent, table'[k]} \/ \E q \in Request : Settles(q, k)'
    <3>1. CASE request[r].rows[k] = table[k]
      BY <1>12, <3>1 DEF InstallFirst, EntriesOf
    <3>2. CASE request[r].rows[k] # table[k]
      <4>1. Pending(k)
        BY <1>1, <2>1, <3>2 DEF CopyCoherent, Keeping
      <4> QED
        BY <2>1, <4>1 DEF Pending, Settles
    <3> QED
      BY <3>1, <3>2
  <2> QED
    BY <2>2, <2>3
<1>13. ASSUME NEW r \in Request, ConfirmEntry(r)
       PROVE  /\ CopyCoherent'
              /\ Correct'
  BY <1>1, <1>13, ConfigAssumption, SMTT(40) DEF ConfigTypeOK, RequestShape, CopyCoherent, Pending, Settles, Keeping, ConfirmEntry, OneKeeper, At, Returns, NoRequest, Nobody
<1>14. ASSUME NEW r \in Request, ReadFails(r)
       PROVE  /\ CopyCoherent'
              /\ Correct'
  <2>1. /\ request[r].at \in {"first", "confirm"}
        /\ request'[r].at \in Keeping => request'[r].rows = table
        /\ \A q \in Request \ {r} : request'[q] = request[q]
    BY <1>14 DEF ConfigTypeOK, ReadFails, At, Returns, Copies, NoRequest, Keeping
  <2> QED
    BY <1>1, <1>14, <2>1, OnlyReads DEF ReadFails
<1>15. \A r \in Request : ~UpdateFails(r)
  BY DEF UpdateFails
<1> QED
  BY <1>2, <1>3, <1>4, <1>5, <1>6, <1>7, <1>8, <1>9, <1>10, <1>11, <1>12, <1>13, <1>14, <1>15
     DEF ConfigNext

-----------------------------------------------------------------------------
LEMMA ConfigStep == ConfigInv /\ [ConfigNext]_configVars => ConfigInv'
BY ConfigTypes, LockIsExclusive, Coherence DEF ConfigInv

(***************************************************************************)
(* The cache, the lock and the requests are always of their types.         *)
(***************************************************************************)
THEOREM ConfigTypeCorrect == ConfigSpec => []ConfigTypeOK
<1>1. ConfigInv => ConfigTypeOK
  BY DEF ConfigInv
<1> QED
  BY <1>1, ConfigInitial, ConfigStep, PTL DEF ConfigSpec

(***************************************************************************)
(* Whatever requests race, and however many: no stale entry of the cache   *)
(* outlives the writers that are still under way.                          *)
(***************************************************************************)
THEOREM CacheStaysCoherent == ConfigSpec => []CacheCoherent
<1>1. ConfigInv => CacheCoherent
  BY DEF ConfigInv
<1> QED
  BY <1>1, ConfigInitial, ConfigStep, PTL DEF ConfigSpec

-----------------------------------------------------------------------------
(***************************************************************************)
(* Second part: the Word reports.                                          *)
(***************************************************************************)
Documents == {NoFile} \cup [id : Nat, at : Nat, whole : BOOLEAN]

Visits == [at : ExporterPc, checked : Nat, name : Nat, body : Documents,
           size : Nat, own : Nat]

\* A document that is there satisfies what an exporter remembers of it.
DocumentAtLeast(n) == docx # NoFile => n <= docx.id

DiskInv ==
  /\ docx \in Documents
  /\ docx # NoFile => docx.whole
  /\ sidecar # NoFile => DocumentAtLeast(sidecar.id)

\* What an exporter has in hand, by how far it has come.
Remembered(e) ==
  /\ e.checked <= minute /\ e.name <= written
  /\ e.at \in {"name", "open"} /\ docx # NoFile => e.checked <= docx.at + Ttl
  /\ e.at = "open" => DocumentAtLeast(e.name)
  /\ e.at \in {"stat", "served"} /\ e.body # NoFile =>
       /\ e.body.whole
       /\ e.checked <= e.body.at + Ttl
       /\ e.name <= e.body.id
       /\ e.body.id <= written
  /\ e.at = "stat" /\ e.body # NoFile => DocumentAtLeast(e.body.id)
  /\ e.at = "served" /\ e.body # NoFile => e.body.id <= e.size
  /\ e.at = "second" => e.own \in 1..written /\ DocumentAtLeast(e.own)

ExportInv ==
  /\ WordExportTypeOK
  /\ exporter \in [Exporter -> Visits]
  /\ DiskInv
  /\ \A x \in Exporter : Remembered(exporter[x])

-----------------------------------------------------------------------------
(***************************************************************************)
(* The disk is empty at first, and nobody exports.                         *)
(***************************************************************************)
LEMMA ExportInitial == WordExportInit => ExportInv
<1> SUFFICES ASSUME WordExportInit PROVE ExportInv
  OBVIOUS
<1>1. NotExporting \in Visits
  BY DEF NotExporting, Visits, ExporterPc, Documents
<1>2. NotExporting.at = "idle" /\ NotExporting.checked = 0 /\ NotExporting.name = 0
  BY DEF NotExporting
<1>3. WordExportTypeOK
  BY <1>2, ExportAssumption DEF WordExportInit, WordExportTypeOK, ExporterPc
<1>4. exporter \in [Exporter -> Visits]
  BY <1>1 DEF WordExportInit
<1>5. DiskInv
  BY DEF WordExportInit, DiskInv, Documents, DocumentAtLeast
<1>6. \A x \in Exporter : Remembered(exporter[x])
  <2>1. \A x \in Exporter : exporter[x] = NotExporting
    BY DEF WordExportInit
  <2>2. minute = 0 /\ written = 0
    BY DEF WordExportInit
  <2>3. Remembered(NotExporting)
    BY <1>2, <2>2 DEF Remembered
  <2> QED
    BY <2>1, <2>3
<1> QED
  BY <1>3, <1>4, <1>5, <1>6 DEF ExportInv

(***************************************************************************)
(* A step of an exporter that leaves the disk and the clock alone keeps    *)
(* the invariant when its next visit is in order.                          *)
(***************************************************************************)
LEMMA ExporterSteps ==
  ASSUME ExportInv, NEW x \in Exporter, NEW r \in Visits, Remembered(r),
         exporter' = [exporter EXCEPT ![x] = r],
         UNCHANGED <<minute, docx, sidecar, cleaner, written>>
  PROVE  ExportInv'
<1>1. exporter' \in [Exporter -> Visits]
  BY DEF ExportInv
<1>2. \A y \in Exporter : exporter'[y] = IF y = x THEN r ELSE exporter[y]
  BY DEF ExportInv
<1>3. \A y \in Exporter : Remembered(exporter[y])'
  <2> SUFFICES ASSUME NEW y \in Exporter PROVE Remembered(exporter[y])'
    OBVIOUS
  <2>1. Remembered(exporter'[y])
    BY <1>2 DEF ExportInv
  <2> QED
    BY <2>1 DEF Remembered, DocumentAtLeast
<1>4. WordExportTypeOK'
  BY <1>1 DEF ExportInv, WordExportTypeOK, Visits
<1>5. DiskInv'
  BY DEF ExportInv, DiskInv, DocumentAtLeast
<1> QED
  BY <1>1, <1>3, <1>4, <1>5 DEF ExportInv

(***************************************************************************)
(* The visits that carry nothing are in order.                             *)
(***************************************************************************)
LEMMA EmptyVisits ==
  ASSUME ExportInv, NEW a \in {"idle", "build", "first"}
  PROVE  LET r == [NotExporting EXCEPT !.at = a] IN r \in Visits /\ Remembered(r)
<1> DEFINE r == [NotExporting EXCEPT !.at = a]
<1>1. r = [at |-> a, checked |-> 0, name |-> 0, body |-> NoFile, size |-> 0, own |-> 0]
  BY DEF NotExporting
<1>2. r \in Visits
  BY <1>1 DEF Visits, ExporterPc, Documents
<1>3. minute \in Nat /\ written \in Nat
  BY ExportAssumption DEF ExportInv, WordExportTypeOK
<1>4. Remembered(r)
  BY <1>1, <1>3 DEF Remembered
<1> QED
  BY <1>2, <1>4

-----------------------------------------------------------------------------
(***************************************************************************)
(* The look-up: what is fresh now is fresh for this visit.                 *)
(***************************************************************************)
LEMMA LookUpKeeps == ASSUME ExportInv, NEW x \in Exporter, LookUp(x) PROVE ExportInv'
<1> DEFINE r == IF Ttl > 0 /\ Fresh(docx, Ttl) /\ sidecar # NoFile
                  THEN [Now(x, "name") EXCEPT !.checked = minute] ELSE Miss
<1>1. exporter' = [exporter EXCEPT ![x] = r] /\ exporter[x] \in Visits
  BY DEF LookUp, Goes, ExportInv
<1>2. minute \in Nat /\ written \in Nat /\ Ttl \in Nat
  BY ExportAssumption DEF ExportInv, WordExportTypeOK
<1>3. Miss \in Visits /\ Remembered(Miss)
  BY EmptyVisits DEF Miss
<1>4. r \in Visits /\ Remembered(r)
  <2>1. CASE Ttl > 0 /\ Fresh(docx, Ttl) /\ sidecar # NoFile
    <3>1. r = [exporter[x] EXCEPT !.at = "name", !.checked = minute]
      BY <2>1, <1>1 DEF Now, Visits
    <3>2. r \in Visits /\ r.at = "name" /\ r.checked = minute /\ r.name = exporter[x].name
      BY <3>1, <1>1, <1>2 DEF Visits, ExporterPc
    <3>3. docx # NoFile => minute <= docx.at + Ttl
      BY <2>1, <1>2 DEF Fresh, ExportInv, DiskInv, Documents
    <3>4. r.name <= written
      BY <3>2 DEF ExportInv, Remembered
    <3> QED
      BY <3>2, <3>3, <3>4, <1>2 DEF Remembered
  <2>2. CASE ~(Ttl > 0 /\ Fresh(docx, Ttl) /\ sidecar # NoFile)
    BY <2>2, <1>3
  <2> QED
    BY <2>1, <2>2
<1> QED
  BY <1>1, <1>4, ExporterSteps DEF LookUp

(***************************************************************************)
(* The name: the sidecar does not run ahead of the document.               *)
(***************************************************************************)
LEMMA ReadNameKeeps == ASSUME ExportInv, NEW x \in Exporter, ReadName(x) PROVE ExportInv'
<1> DEFINE r == IF sidecar = NoFile THEN Miss
                ELSE [Now(x, "open") EXCEPT !.name = sidecar.id]
<1>1. exporter' = [exporter EXCEPT ![x] = r] /\ exporter[x] \in Visits /\ exporter[x].at = "name"
  BY DEF ReadName, Goes, ExportInv
<1>2. Remembered(exporter[x])
  BY DEF ExportInv
<1>3. Miss \in Visits /\ Remembered(Miss)
  BY EmptyVisits DEF Miss
<1>4. r \in Visits /\ Remembered(r)
  <2>1. CASE sidecar # NoFile
    <3>1. sidecar.id \in 0..written /\ written \in Nat /\ DocumentAtLeast(sidecar.id)
      BY <2>1, ExportAssumption DEF ExportInv, WordExportTypeOK, DiskInv
    <3>2. r = [exporter[x] EXCEPT !.at = "open", !.name = sidecar.id]
      BY <2>1, <1>1 DEF Now, Visits
    <3>3. sidecar.id \in Nat
      BY <3>1
    <3>4. r \in Visits /\ r.at = "open" /\ r.checked = exporter[x].checked /\ r.name = sidecar.id
      BY <3>3, <3>2, <1>1 DEF Visits, ExporterPc
    <3> QED
      BY <3>1, <3>4, <1>1, <1>2 DEF Remembered
  <2> QED
    BY <2>1, <1>3
<1> QED
  BY <1>1, <1>4, ExporterSteps DEF ReadName

(***************************************************************************)
(* The document that is opened is at least the one that was found fresh.   *)
(***************************************************************************)
LEMMA OpenKeeps == ASSUME ExportInv, NEW x \in Exporter, OpenDocument(x) PROVE ExportInv'
<1> DEFINE r == IF docx = NoFile THEN Miss ELSE [Now(x, "stat") EXCEPT !.body = docx]
<1>1. exporter' = [exporter EXCEPT ![x] = r] /\ exporter[x] \in Visits /\ exporter[x].at = "open"
  BY DEF OpenDocument, Goes, ExportInv
<1>2. Remembered(exporter[x])
  BY DEF ExportInv
<1>3. Miss \in Visits /\ Remembered(Miss)
  BY EmptyVisits DEF Miss
<1>4. r \in Visits /\ Remembered(r)
  <2>1. CASE docx # NoFile
    <3>1. /\ docx \in [id : Nat, at : Nat, whole : BOOLEAN] /\ docx.whole
          /\ docx.id <= written /\ written \in Nat
      BY <2>1, ExportAssumption DEF ExportInv, WordExportTypeOK, DiskInv, Documents
    <3>2. r = [exporter[x] EXCEPT !.at = "stat", !.body = docx]
      BY <2>1, <1>1 DEF Now, Visits
    <3>3. /\ r \in Visits /\ r.at = "stat" /\ r.checked = exporter[x].checked
          /\ r.name = exporter[x].name /\ r.body = docx
      BY <3>1, <3>2, <1>1 DEF Visits, ExporterPc, Documents
    <3>4. exporter[x].name <= docx.id /\ exporter[x].checked <= docx.at + Ttl
      BY <2>1, <1>1, <1>2 DEF Remembered, DocumentAtLeast
    <3> QED
      BY <3>1, <3>3, <3>4, <1>2 DEF Remembered, DocumentAtLeast
  <2> QED
    BY <2>1, <1>3
<1> QED
  BY <1>1, <1>4, ExporterSteps DEF OpenDocument

(***************************************************************************)
(* The length is taken of the opened document or of a later one.           *)
(***************************************************************************)
LEMMA StatKeeps == ASSUME ExportInv, NEW x \in Exporter, StatDocument(x) PROVE ExportInv'
<1> DEFINE r == IF docx = NoFile THEN Miss ELSE [Now(x, "served") EXCEPT !.size = docx.id]
<1>1. exporter' = [exporter EXCEPT ![x] = r] /\ exporter[x] \in Visits /\ exporter[x].at = "stat"
  BY DEF StatDocument, Goes, ExportInv
<1>2. Remembered(exporter[x])
  BY DEF ExportInv
<1>3. Miss \in Visits /\ Remembered(Miss)
  BY EmptyVisits DEF Miss
<1>4. r \in Visits /\ Remembered(r)
  <2>1. CASE docx # NoFile
    <3>1. docx.id \in Nat
      BY <2>1 DEF ExportInv, DiskInv, Documents
    <3>2. r = [exporter[x] EXCEPT !.at = "served", !.size = docx.id]
      BY <2>1, <1>1 DEF Now, Visits
    <3>3. /\ r \in Visits /\ r.at = "served" /\ r.checked = exporter[x].checked
          /\ r.name = exporter[x].name /\ r.body = exporter[x].body /\ r.size = docx.id
      BY <3>1, <3>2, <1>1 DEF Visits, ExporterPc
    <3> QED
      BY <2>1, <3>3, <1>1, <1>2 DEF Remembered, DocumentAtLeast
  <2> QED
    BY <2>1, <1>3
<1> QED
  BY <1>1, <1>4, ExporterSteps DEF StatDocument

(***************************************************************************)
(* Steps that put nothing on the disk and keep nothing in hand.            *)
(***************************************************************************)
LEMMA EmptyHandedKeeps ==
  ASSUME ExportInv, NEW x \in Exporter,
         Build(x) \/ BuildFails(x) \/ StoreFails(x) \/ Answered(x)
  PROVE  ExportInv'
<1>1. NotExporting = [NotExporting EXCEPT !.at = "idle"]
  BY DEF NotExporting
<1>2. PICK a \in {"idle", "first"} :
        exporter' = [exporter EXCEPT ![x] = [NotExporting EXCEPT !.at = a]]
  BY <1>1 DEF Build, BuildFails, StoreFails, Answered, Goes
<1> QED
  BY <1>2, EmptyVisits, ExporterSteps DEF Build, BuildFails, StoreFails, Answered

(***************************************************************************)
(* A new document has the largest number, and is as young as can be.       *)
(***************************************************************************)
LEMMA WriteFirstKeeps == ASSUME ExportInv, NEW x \in Exporter, WriteFirst(x) PROVE ExportInv'
<1> DEFINE new == [id |-> written + 1, at |-> minute, whole |-> TRUE]
<1>1. /\ written < MaxWrite /\ written' = written + 1 /\ docx' = new
      /\ UNCHANGED <<sidecar, minute, cleaner>>
  BY DEF WriteFirst, WriteFile, WriteOrder, AtomicWrite
<1>2. /\ exporter[x] \in Visits
      /\ exporter' = [exporter EXCEPT ![x] = [Now(x, "second") EXCEPT !.own = written']]
  BY DEF WriteFirst, Goes, ExportInv
<1>3. minute \in Nat /\ written \in Nat /\ MaxWrite \in Nat /\ minute \in 0..MaxMinute
  BY ExportAssumption DEF ExportInv, WordExportTypeOK
<1>4. new \in Documents /\ new.id = written + 1 /\ new.at = minute /\ new.whole
  BY <1>3 DEF Documents
<1> DEFINE r == [exporter[x] EXCEPT !.at = "second", !.own = written + 1]
<1>5. exporter' = [exporter EXCEPT ![x] = r]
  BY <1>1, <1>2 DEF Now, Visits
<1>6. /\ r \in Visits /\ r.at = "second" /\ r.own = written + 1
      /\ r.checked = exporter[x].checked /\ r.name = exporter[x].name
  <2>1. written + 1 \in Nat
    BY <1>3
  <2> QED
    BY <2>1, <1>2 DEF Visits, ExporterPc
<1>7. exporter' \in [Exporter -> Visits]
  BY <1>5, <1>6 DEF ExportInv
<1>8. \A y \in Exporter : exporter'[y] = IF y = x THEN r ELSE exporter[y]
  BY <1>5 DEF ExportInv
<1>9. \A y \in Exporter : Remembered(exporter[y])'
  <2> SUFFICES ASSUME NEW y \in Exporter PROVE Remembered(exporter[y])'
    OBVIOUS
  <2>1. Remembered(exporter[y]) /\ Remembered(exporter[x]) /\ exporter[y] \in Visits
    BY DEF ExportInv
  <2>2. CASE y = x
    <3>1. exporter'[y] = r
      BY <2>2, <1>8
    <3>2. r.checked <= minute /\ r.name <= written /\ r.name \in Nat
      BY <2>1, <1>2, <1>6 DEF Remembered, Visits
    <3>3. written + 1 \in 1..(written + 1) /\ r.name <= written + 1
      BY <3>2, <1>3
    <3> QED
      BY <3>1, <3>2, <3>3, <1>1, <1>4, <1>6 DEF Remembered, DocumentAtLeast
  <2>3. CASE y # x
    <3>1. exporter'[y] = exporter[y]
      BY <2>3, <1>8
    <3>2. exporter[y].checked \in Nat /\ exporter[y].name \in Nat /\ Ttl \in Nat
      BY <2>1, ExportAssumption DEF Visits
    <3>3. exporter[y].body # NoFile => exporter[y].body.id \in Nat
      BY <2>1 DEF Visits, Documents
    <3>4. exporter[y].own \in Nat
      BY <2>1 DEF Visits
    <3> QED
      BY <2>1, <3>1, <3>2, <3>3, <3>4, <1>1, <1>3, <1>4 DEF Remembered, DocumentAtLeast
  <2> QED
    BY <2>2, <2>3
<1>10. WordExportTypeOK'
  BY <1>1, <1>3, <1>4, <1>7 DEF ExportInv, WordExportTypeOK, Visits
<1>11. DiskInv'
  <2>1. sidecar # NoFile => sidecar.id \in 0..written
    BY DEF ExportInv, WordExportTypeOK
  <2> QED
    BY <2>1, <1>1, <1>3, <1>4 DEF DiskInv, DocumentAtLeast
<1> QED
  BY <1>7, <1>9, <1>10, <1>11 DEF ExportInv

(***************************************************************************)
(* The sidecar goes with the document its writer put there, or an earlier  *)
(* one than the document that is there by now.                             *)
(***************************************************************************)
LEMMA WriteSecondKeeps == ASSUME ExportInv, NEW x \in Exporter, WriteSecond(x) PROVE ExportInv'
<1>1. /\ UNCHANGED <<docx, written, minute, cleaner>>
      /\ exporter[x].at = "second" /\ exporter' = [exporter EXCEPT ![x] = NotExporting]
      /\ sidecar' = [id |-> IF exporter[x].own = 0 THEN written + 1 ELSE exporter[x].own,
                     at |-> minute, task |-> ReportOf[x]]
  BY DEF WriteSecond, WriteFile, WriteOrder, Goes
<1>2. exporter[x].own \in 1..written /\ DocumentAtLeast(exporter[x].own)
  BY <1>1 DEF ExportInv, Remembered
<1>3. minute \in Nat /\ written \in Nat
  BY ExportAssumption DEF ExportInv, WordExportTypeOK
<1>4. sidecar'.id = exporter[x].own /\ sidecar'.at = minute
  BY <1>1, <1>2, <1>3
<1>5. NotExporting = [NotExporting EXCEPT !.at = "idle"]
  BY DEF NotExporting
<1>6. NotExporting \in Visits /\ Remembered(NotExporting)
  BY <1>5, EmptyVisits
<1>7. exporter' \in [Exporter -> Visits]
  BY <1>1, <1>6 DEF ExportInv
<1>8. \A y \in Exporter : Remembered(exporter[y])'
  <2> SUFFICES ASSUME NEW y \in Exporter PROVE Remembered(exporter[y])'
    OBVIOUS
  <2>1. Remembered(exporter'[y])
    BY <1>1, <1>6 DEF ExportInv
  <2> QED
    BY <2>1, <1>1 DEF Remembered, DocumentAtLeast
<1>9. WordExportTypeOK'
  BY <1>1, <1>2, <1>3, <1>4, <1>7 DEF ExportInv, WordExportTypeOK, Visits
<1>10. DiskInv'
  BY <1>1, <1>2, <1>4 DEF ExportInv, DiskInv, DocumentAtLeast
<1> QED
  BY <1>7, <1>8, <1>9, <1>10 DEF ExportInv

(***************************************************************************)
(* Deletions, the clock and a restart: a file that is gone satisfies every *)
(* memory of it, and no visit is younger than the clock.                   *)
(***************************************************************************)
LEMMA CleaningKeeps ==
  ASSUME ExportInv, Sweep \/ Clear \/ Unlink \/ MinutePasses \/ Restarted
  PROVE  ExportInv'
<1>1. minute \in Nat /\ written \in Nat /\ MaxMinute \in Nat
  BY ExportAssumption DEF ExportInv, WordExportTypeOK
<1>2. docx' \in {docx, NoFile} /\ sidecar' \in {sidecar, NoFile} /\ written' = written
  BY DEF Sweep, Clear, Unlink, MinutePasses, Restarted
<1>3. minute' = minute \/ (minute < MaxMinute /\ minute' = minute + 1)
  BY DEF Sweep, Clear, Unlink, MinutePasses, Restarted
<1>4. cleaner' \in Seq(File)
  <2>1. CASE Sweep
    BY <2>1 DEF Sweep, File
  <2>2. CASE Clear
    <3>1. <<"sidecar", "docx">> \in Seq(File) /\ <<"docx", "sidecar">> \in Seq(File)
      BY DEF File
    <3> QED
      BY <2>2, <3>1 DEF Clear, Entry
  <2>3. CASE Unlink
    BY <2>3 DEF Unlink, ExportInv, WordExportTypeOK
  <2>4. CASE MinutePasses
    BY <2>4 DEF MinutePasses, ExportInv, WordExportTypeOK
  <2>5. CASE Restarted
    BY <2>5 DEF Restarted
  <2> QED
    BY <2>1, <2>2, <2>3, <2>4, <2>5
<1>5. NotExporting \in Visits /\ Remembered(NotExporting)
  <2>1. NotExporting = [NotExporting EXCEPT !.at = "idle"]
    BY DEF NotExporting
  <2> QED
    BY <2>1, EmptyVisits
<1>6. exporter' = exporter \/ exporter' = [y \in Exporter |-> NotExporting]
  BY DEF Sweep, Clear, Unlink, MinutePasses, Restarted
<1>7. exporter' \in [Exporter -> Visits]
  BY <1>5, <1>6 DEF ExportInv
<1>8. \A y \in Exporter : Remembered(exporter'[y])
  BY <1>5, <1>6 DEF ExportInv
<1>9. \A y \in Exporter : Remembered(exporter[y])'
  <2> SUFFICES ASSUME NEW y \in Exporter PROVE Remembered(exporter[y])'
    OBVIOUS
  <2>1. exporter'[y].checked \in Nat
    BY <1>7 DEF Visits
  <2>2. Remembered(exporter'[y])
    BY <1>8
  <2> QED
    BY <2>1, <2>2, <1>1, <1>2, <1>3 DEF Remembered, DocumentAtLeast
<1>10. WordExportTypeOK'
  <2>1. docx # NoFile => docx.id \in 1..written /\ docx.at \in 0..minute
    BY DEF ExportInv, WordExportTypeOK
  <2>2. sidecar # NoFile => sidecar.id \in 0..written /\ sidecar.at \in 0..minute
    BY DEF ExportInv, WordExportTypeOK
  <2>3. minute' \in 0..MaxMinute /\ written' \in 0..MaxWrite
    BY <1>1, <1>2, <1>3 DEF ExportInv, WordExportTypeOK
  <2> QED
    BY <2>1, <2>2, <2>3, <1>1, <1>2, <1>3, <1>4, <1>7 DEF WordExportTypeOK, Visits
<1>11. DiskInv'
  BY <1>2 DEF ExportInv, DiskInv, DocumentAtLeast, Documents
<1> QED
  BY <1>7, <1>9, <1>10, <1>11 DEF ExportInv

-----------------------------------------------------------------------------
(***************************************************************************)
(* Every step keeps the invariant.                                         *)
(***************************************************************************)
LEMMA ExportInductive == ExportInv /\ [WordExportNext]_exportVars => ExportInv'
<1> SUFFICES ASSUME ExportInv, [WordExportNext]_exportVars PROVE ExportInv'
  OBVIOUS
<1>1. CASE UNCHANGED exportVars
  BY <1>1 DEF exportVars, ExportInv, WordExportTypeOK, DiskInv, Remembered, DocumentAtLeast
<1>2. ASSUME NEW x \in Exporter,
             \/ LookUp(x) \/ ReadName(x) \/ OpenDocument(x) \/ StatDocument(x)
             \/ Build(x) \/ BuildFails(x) \/ WriteFirst(x) \/ WriteSecond(x) \/ StoreFails(x)
             \/ Answered(x)
      PROVE  ExportInv'
  BY <1>2, LookUpKeeps, ReadNameKeeps, OpenKeeps, StatKeeps, EmptyHandedKeeps,
     WriteFirstKeeps, WriteSecondKeeps
<1>3. CASE Sweep \/ Clear \/ Unlink \/ MinutePasses \/ Restarted
  BY <1>3, CleaningKeeps
<1> QED
  BY <1>1, <1>2, <1>3 DEF WordExportNext

\* A report that is served from the disk is whole, was in time when it was
\* looked up, and carries neither the name nor the length of an earlier one
\* that would not be its own, however many threads export and clear: the cache
\* of Word reports needs no lock (ttl_cache.py).
THEOREM ServedWhole == WordExportSpec => []ReportServedWhole
<1>1. ExportInv => ReportServedWhole
  BY DEF ExportInv, Remembered, ReportServedWhole
<1> QED
  BY <1>1, ExportInitial, ExportInductive, PTL DEF WordExportSpec

\* The numbers of documents, sidecars and visits stay in their ranges.
THEOREM WordExportTypes == WordExportSpec => []WordExportTypeOK
<1>1. ExportInv => WordExportTypeOK
  BY DEF ExportInv
<1> QED
  BY <1>1, ExportInitial, ExportInductive, PTL DEF WordExportSpec

-----------------------------------------------------------------------------
(* The index of the best results. *)

LEMMA HasGreatest ==
  ASSUME NEW S, IsFiniteSet(S), S # {}, NEW f \in [S -> Int]
  PROVE  \E x \in S : \A y \in S : f[x] >= f[y]
<1> DEFINE Above(x) == {y \in S : f[y] > f[x]}
<1> DEFINE T == {Above(x) : x \in S}
<1>1. T \subseteq FiniteSubsetsOf(S) /\ T # {}
  <2>1. \A x \in S : Above(x) \in SUBSET S
    OBVIOUS
  <2>2. \A V \in SUBSET S : IsFiniteSet(V)
    BY FS_Subset
  <2>3. \A x \in S : Above(x) \in FiniteSubsetsOf(S)
    <3> HIDE DEF Above
    <3> QED
      BY <2>1, <2>2 DEF FiniteSubsetsOf
  <2>4. PICK x \in S : TRUE
    OBVIOUS
  <2>5. T \subseteq FiniteSubsetsOf(S)
    <3> HIDE DEF Above
    <3> QED
      BY <2>3
  <2>6. Above(x) \in T
    BY <2>4
  <2> QED
    BY <2>5, <2>6
<1>2. PICK U \in T : \A V \in T : <<V, U>> \notin StrictSubsetOrdering(S)
  BY <1>1, FS_StrictSubsetOrderingWellFounded, WFMin
<1>3. PICK m \in S : U = Above(m)
  BY <1>2
<1>4. Above(m) = {}
  <2> SUFFICES ASSUME NEW y \in Above(m) PROVE FALSE
    OBVIOUS
  <2>1. y \in S /\ f[y] > f[m] /\ f[m] \in Int /\ f[y] \in Int
    OBVIOUS
  <2>2. Above(y) \subseteq Above(m) /\ y \notin Above(y)
    <3>1. ASSUME NEW z \in S, f[z] > f[y] PROVE f[z] > f[m]
      BY <2>1, <3>1
    <3>2. ~(f[y] > f[y])
      BY <2>1
    <3> QED
      BY <3>1, <3>2
  <2>3. Above(y) \in T
    BY <2>1
  <2>4. <<Above(y), Above(m)>> \in StrictSubsetOrdering(S)
    BY <2>1, <2>2, <2>3 DEF StrictSubsetOrdering
  <2> QED
    BY <1>2, <1>3, <2>3, <2>4
<1>5. \A y \in S : f[m] >= f[y]
  BY <1>4
<1> HIDE DEF T
<1> QED
  BY <1>5

-----------------------------------------------------------------------------
(***************************************************************************)
(* The best of some results is one of them.                                *)
(***************************************************************************)
LEMMA BestOfIn ==
  ASSUME NEW rs \in SUBSET Result, IsFiniteSet(rs), rs # {}, \A r \in rs : Metric[r] # Null
  PROVE  BestOf(rs) \in rs
<1>1. rs \in SUBSET Int /\ \A r \in rs : Metric[r] \in Int
  BY IndexAssumption
<1>2. PICK v \in rs : \A y \in rs : Metric[v] >= Metric[y]
  <2> DEFINE f == [r \in rs |-> Metric[r]]
  <2>1. f \in [rs -> Int]
    BY <1>1
  <2>2. PICK x \in rs : \A y \in rs : f[x] >= f[y]
    <3> HIDE DEF f
    <3> QED
      BY <2>1, HasGreatest
  <2> QED
    BY <2>2
<1> DEFINE C == {r \in rs : Metric[r] = Metric[v]}
<1>3. C # {} /\ C \subseteq rs
  BY <1>2
<1>4. PICK m \in C : \A y \in C : m >= y
  <2> DEFINE f == [r \in C |-> r]
  <2>1. f \in [C -> Int]
    BY <1>1
  <2>2. IsFiniteSet(C)
    BY <1>3, FS_Subset
  <2>3. PICK x \in C : \A y \in C : f[x] >= f[y]
    <3> HIDE DEF f, C
    <3> QED
      BY <2>1, <2>2, <1>3, HasGreatest
  <2> QED
    BY <2>3
<1>5. m \in rs /\ Metric[m] = Metric[v] /\ Metric[v] \in Int /\ m \in Int
  BY <1>1, <1>2, <1>4
<1>6. ASSUME NEW s \in rs \ {m} PROVE Better(m, s)
  <2>1. s \in Int /\ Metric[s] \in Int /\ Metric[v] >= Metric[s]
    BY <1>1, <1>2
  <2>2. CASE Metric[s] # Metric[v]
    BY <1>5, <2>1, <2>2 DEF Better
  <2>3. CASE Metric[s] = Metric[v]
    <3>1. m >= s
      BY <1>4, <2>3
    <3> QED
      BY <1>5, <1>6, <2>1, <2>3, <3>1 DEF Better
  <2> QED
    BY <2>2, <2>3
<1> QED
  BY <1>5, <1>6 DEF BestOf

\* One of each period, and each of its own.
LEMMA BestOnePerPeriod ==
  ASSUME NEW rs \in SUBSET Result, IsFiniteSet(rs)
  PROVE  /\ Best(rs) \subseteq rs
         /\ \A r, s \in Best(rs) : SamePeriod(r, s) => r = s
<1> DEFINE cs == Candidates(rs)
           Class(q) == {r \in cs : SamePeriod(r, q)}
<1>0. cs \subseteq rs /\ \A r \in cs : Metric[r] # Null
  BY DEF Candidates
<1>1. ASSUME NEW q \in cs PROVE BestOf(Class(q)) \in Class(q)
  <2>1. q \in Class(q) /\ Class(q) \in SUBSET Result /\ Class(q) \subseteq rs
    BY <1>0 DEF SamePeriod
  <2>2. IsFiniteSet(Class(q))
    BY <2>1, FS_Subset
  <2>3. \A r \in Class(q) : Metric[r] # Null
    BY <1>0
  <2> HIDE DEF Class
  <2> QED
    BY <2>1, <2>2, <2>3, BestOfIn
<1>2. Best(rs) = {BestOf(Class(q)) : q \in cs}
  BY DEF Best
<1> HIDE DEF cs
<1>3. ASSUME NEW q \in cs, NEW p \in cs, SamePeriod(BestOf(Class(q)), BestOf(Class(p)))
      PROVE  BestOf(Class(q)) = BestOf(Class(p))
  <2>1. SamePeriod(BestOf(Class(q)), q) /\ SamePeriod(BestOf(Class(p)), p)
    BY <1>1
  <2>2. \A r : SamePeriod(r, q) <=> SamePeriod(r, p)
    BY <1>3, <2>1 DEF SamePeriod
  <2>3. Class(q) = Class(p)
    BY <2>2
  <2> QED
    BY <2>3
<1>4. \A r \in Best(rs) : \E q \in cs : r = BestOf(Class(q))
  BY <1>2
<1>5. Best(rs) \subseteq rs
  BY <1>0, <1>1, <1>4
<1>6. ASSUME NEW r \in Best(rs), NEW s \in Best(rs), SamePeriod(r, s) PROVE r = s
  BY <1>3, <1>4, <1>6
<1> QED
  BY <1>5, <1>6

-----------------------------------------------------------------------------
(***************************************************************************)
(* The invariant.                                                          *)
(***************************************************************************)
Names(t) == {x.result : x \in RowsOf({t})}

\* A transaction is of one task; while the task is clean it removes its rows and
\* inserts the best of its results.
OfOneTask(a) ==
  \/ pending[a] = NoPending
  \/ \E t \in IndexedTask :
       /\ pending[a].tasks = {t}
       /\ \A x \in pending[a].old : Owner[x.result] = t
       /\ \A r \in pending[a].new : r \in Result /\ Owner[r] = t
       /\ ~dirty[t] => /\ pending[a].old = RowsOf({t})
                       /\ pending[a].new = Best(ResultsOf({t}))

Guarded ==
  /\ inside \subseteq Actor
  /\ \A a, c \in inside : a = c
  /\ \A a \in Actor : pending[a] # NoPending => a \in inside
  /\ \A b \in Rebuild : job[b].thread \in {"reset", "list", "batch"} => b \in inside

JobAt == {"none", "start", "lock", "reset", "list", "batch"}
JobRows == [row : JobRow, thread : JobAt, reset : BOOLEAN, left : SUBSET IndexedTask]

IndexTypes ==
  /\ saved \subseteq Result /\ IsFiniteSet(saved)
  /\ \A x \in index : x.result \in Result
  /\ dirty \in [IndexedTask -> BOOLEAN]
  /\ pending \in [Actor -> [tasks : SUBSET IndexedTask, old : SUBSET [result : Result, by : Actor],
                            new : SUBSET Result]]
  /\ index \subseteq [result : Result, by : Actor]
  /\ job \in [Rebuild -> JobRows]

IndexInv ==
  /\ IndexTypes
  /\ Guarded
  /\ \A a \in Actor : OfOneTask(a)
  /\ IndexExact

-----------------------------------------------------------------------------
(* What a step leaves to the tasks whose results and rows it does not touch. *)

Same(t) ==
  /\ RowsOf({t})' = RowsOf({t})
  /\ ResultsOf({t})' = ResultsOf({t})
  /\ dirty'[t] = dirty[t]

LEMMA OthersKeep ==
  ASSUME IndexInv, IndexTypes', Guarded', pending' = pending,
         \A t \in IndexedTask : dirty'[t] \/ Same(t)
  PROVE  IndexInv'
<1>1. ASSUME NEW a \in Actor PROVE OfOneTask(a)'
  <2>1. OfOneTask(a)
    BY DEF IndexInv
  <2>2. CASE pending[a] = NoPending
    BY <2>2 DEF OfOneTask
  <2>3. CASE pending[a] # NoPending
    <3>1. PICK t \in IndexedTask :
            /\ pending[a].tasks = {t}
            /\ \A x \in pending[a].old : Owner[x.result] = t
            /\ \A r \in pending[a].new : r \in Result /\ Owner[r] = t
            /\ ~dirty[t] => /\ pending[a].old = RowsOf({t})
                            /\ pending[a].new = Best(ResultsOf({t}))
      BY <2>1, <2>3 DEF OfOneTask
    <3>2. ~dirty'[t] => /\ pending[a].old = RowsOf({t})'
                        /\ pending[a].new = Best(ResultsOf({t})')
      BY <3>1 DEF Same
    <3>3. Best(ResultsOf({t})') = Best(ResultsOf({t}))'
      BY DEF Best, Candidates, SamePeriod, BestOf, Better
    <3> QED
      BY <3>1, <3>2, <3>3 DEF OfOneTask
  <2> QED
    BY <2>2, <2>3
<1>2. IndexExact'
  <2> SUFFICES ASSUME NEW t \in IndexedTask, ~dirty'[t],
                      \A a \in Actor : t \notin pending[a].tasks
               PROVE  {x.result : x \in RowsOf({t})'} = Best(ResultsOf({t})')
    BY DEF IndexExact, Best, Candidates, SamePeriod, BestOf, Better
  <2>1. Same(t) /\ ~dirty[t]
    BY DEF Same
  <2>2. {x.result : x \in RowsOf({t})} = Best(ResultsOf({t}))
    BY <2>1 DEF IndexInv, IndexExact
  <2> QED
    BY <2>1, <2>2 DEF Same
<1> QED
  BY <1>1, <1>2 DEF IndexInv

LEMMA OutsideKeeps ==
  ASSUME IndexInv, IndexTypes', Guarded', UNCHANGED <<saved, index, pending, dirty>>
  PROVE  IndexInv'
<1>1. \A t \in IndexedTask : Same(t)
  BY DEF Same, RowsOf, ResultsOf
<1> QED
  BY <1>1, OthersKeep

-----------------------------------------------------------------------------
(***************************************************************************)
(* Results come and go.                                                    *)
(***************************************************************************)
LEMMA SaveKeeps == ASSUME IndexInv, NEW r \in Result, SaveResult(r) PROVE IndexInv'
<1>1. /\ saved' = saved \cup {r}
      /\ dirty' = [t \in IndexedTask |-> dirty[t] \/ t \in {Owner[r]}]
      /\ UNCHANGED <<work, index, inside, pending, job>>
  BY DEF SaveResult, Soil
<1>2. IndexTypes'
  <2>1. IsFiniteSet(saved')
    BY <1>1, FS_AddElement DEF IndexInv, IndexTypes
  <2> QED
    BY <1>1, <2>1 DEF IndexInv, IndexTypes
<1>3. Guarded'
  BY <1>1 DEF IndexInv, Guarded
<1>4. ASSUME NEW t \in IndexedTask, ~dirty'[t] PROVE Same(t)
  <2>1. Owner[r] # t /\ dirty'[t] = dirty[t]
    BY <1>1, <1>4 DEF IndexInv, IndexTypes
  <2>2. ResultsOf({t})' = ResultsOf({t})
    BY <1>1, <2>1 DEF ResultsOf
  <2>3. RowsOf({t})' = RowsOf({t})
    BY <1>1 DEF RowsOf
  <2> QED
    BY <2>1, <2>2, <2>3 DEF Same
<1> QED
  BY <1>1, <1>2, <1>3, <1>4, OthersKeep

LEMMA CleanupKeeps == ASSUME IndexInv, NEW r \in Result, CleanupResult(r) PROVE IndexInv'
<1>1. /\ saved' = saved \ {r}
      /\ index' = {x \in index : x.result # r}
      /\ dirty' = [t \in IndexedTask |-> dirty[t] \/ t \in {Owner[r]}]
      /\ UNCHANGED <<work, inside, pending, job>>
  BY DEF CleanupResult, Soil
<1>2. IndexTypes'
  <2>1. IsFiniteSet(saved')
    BY <1>1, FS_Subset DEF IndexInv, IndexTypes
  <2> QED
    BY <1>1, <2>1 DEF IndexInv, IndexTypes
<1>3. Guarded'
  BY <1>1 DEF IndexInv, Guarded
<1>4. ASSUME NEW t \in IndexedTask, ~dirty'[t] PROVE Same(t)
  <2>1. Owner[r] # t /\ dirty'[t] = dirty[t]
    BY <1>1, <1>4 DEF IndexInv, IndexTypes
  <2>2. ResultsOf({t})' = ResultsOf({t})
    BY <1>1, <2>1 DEF ResultsOf
  <2>3. RowsOf({t})' = RowsOf({t})
    BY <1>1, <2>1 DEF RowsOf
  <2> QED
    BY <2>1, <2>2, <2>3 DEF Same
<1> QED
  BY <1>1, <1>2, <1>3, <1>4, OthersKeep

LEMMA ClearKeeps == ASSUME IndexInv, NEW u \in IndexedTask, ClearAndRestart(u) PROVE IndexInv'
<1>1. /\ saved' = saved \ ResultsOf({u})
      /\ index' = index \ RowsOf({u})
      /\ dirty' = [t \in IndexedTask |-> dirty[t] \/ t \in {u}]
      /\ UNCHANGED <<inside, pending, job>>
  BY DEF ClearAndRestart, Soil
<1>2. IndexTypes'
  <2>1. IsFiniteSet(saved')
    BY <1>1, FS_Subset DEF IndexInv, IndexTypes
  <2> QED
    BY <1>1, <2>1 DEF IndexInv, IndexTypes
<1>3. Guarded'
  BY <1>1 DEF IndexInv, Guarded
<1>4. ASSUME NEW t \in IndexedTask, ~dirty'[t] PROVE Same(t)
  <2>1. u # t /\ dirty'[t] = dirty[t]
    BY <1>1, <1>4 DEF IndexInv, IndexTypes
  <2>2. ResultsOf({t})' = ResultsOf({t})
    BY <1>1, <2>1 DEF ResultsOf
  <2>3. RowsOf({t})' = RowsOf({t})
    BY <1>1, <2>1 DEF RowsOf
  <2> QED
    BY <2>1, <2>2, <2>3 DEF Same
<1> QED
  BY <1>1, <1>2, <1>3, <1>4, OthersKeep

LEMMA ResetKeeps == ASSUME IndexInv, NEW b \in Rebuild, ResetAll(b) PROVE IndexInv'
<1>1. /\ index' = {}
      /\ dirty' = [t \in IndexedTask |-> dirty[t] \/ t \in IndexedTask]
      /\ job' = [job EXCEPT ![b].thread = "list"]
      /\ job[b].thread = "reset"
      /\ UNCHANGED <<saved, inside, pending>>
  BY DEF ResetAll, Soil
<1>2. IndexTypes'
  BY <1>1, ZenonT(40) DEF IndexInv, IndexTypes, JobRows, JobRow, JobAt
<1>3. Guarded'
  BY <1>1 DEF IndexInv, Guarded, IndexTypes, JobRows
<1>4. \A t \in IndexedTask : dirty'[t]
  BY <1>1
<1> QED
  BY <1>1, <1>2, <1>3, <1>4, OthersKeep

-----------------------------------------------------------------------------
(***************************************************************************)
(* A transaction.                                                          *)
(***************************************************************************)
\* The primed index as the model reads it.
LEMMA ExactNext ==
  ASSUME \A t \in IndexedTask :
           ~dirty'[t] /\ (\A a \in Actor : t \notin pending'[a].tasks)
           => {x.result : x \in RowsOf({t})'} = Best(ResultsOf({t})')
  PROVE  IndexExact'
BY DEF IndexExact, Best, Candidates, SamePeriod, BestOf, Better

LEMMA FitsNext ==
  ASSUME NEW a \in Actor,
         \/ pending'[a] = NoPending
         \/ \E t \in IndexedTask :
              /\ pending'[a].tasks = {t}
              /\ \A x \in pending'[a].old : Owner[x.result] = t
              /\ \A r \in pending'[a].new : r \in Result /\ Owner[r] = t
              /\ ~dirty'[t] => /\ pending'[a].old = RowsOf({t})'
                               /\ pending'[a].new = Best(ResultsOf({t})')
  PROVE  OfOneTask(a)'
BY DEF OfOneTask, Best, Candidates, SamePeriod, BestOf, Better

LEMMA DeriveKeeps ==
  ASSUME IndexInv, NEW a \in Actor, NEW t \in IndexedTask, a \in inside, Derive(a, {t}),
         UNCHANGED <<work, saved, index, inside, job>>
  PROVE  IndexInv'
<1>1. /\ pending[a] = NoPending
      /\ pending' = [pending EXCEPT ![a] =
           [tasks |-> {t}, old |-> RowsOf({t}), new |-> Best(ResultsOf({t}))]]
      /\ dirty' = [u \in IndexedTask |-> dirty[u] /\ u \notin {t}]
  BY DEF Derive
<1>2. /\ RowsOf({t}) \subseteq index
      /\ \A x \in RowsOf({t}) : Owner[x.result] = t
      /\ ResultsOf({t}) \subseteq saved
      /\ \A r \in ResultsOf({t}) : Owner[r] = t
  BY DEF RowsOf, ResultsOf
<1>3. Best(ResultsOf({t})) \subseteq ResultsOf({t})
  <2>1. ResultsOf({t}) \in SUBSET Result /\ IsFiniteSet(ResultsOf({t}))
    BY <1>2, FS_Subset DEF IndexInv, IndexTypes
  <2> QED
    BY <2>1, BestOnePerPeriod
<1>4. \A ts : RowsOf(ts)' = RowsOf(ts) /\ ResultsOf(ts)' = ResultsOf(ts)
  BY DEF RowsOf, ResultsOf
<1>5. pending'[a] = [tasks |-> {t}, old |-> RowsOf({t}), new |-> Best(ResultsOf({t}))]
      /\ \A c \in Actor : c # a => pending'[c] = pending[c]
  BY <1>1 DEF IndexInv, IndexTypes
<1>6. IndexTypes'
  <2>1. RowsOf({t}) \subseteq [result : Result, by : Actor] /\ Best(ResultsOf({t})) \subseteq Result
    BY <1>2, <1>3 DEF IndexInv, IndexTypes
  <2>2. [tasks |-> {t}, old |-> RowsOf({t}), new |-> Best(ResultsOf({t}))]
          \in [tasks : SUBSET IndexedTask, old : SUBSET [result : Result, by : Actor],
               new : SUBSET Result]
    BY <2>1
  <2>3. pending' \in [Actor -> [tasks : SUBSET IndexedTask, old : SUBSET [result : Result, by : Actor],
                               new : SUBSET Result]]
    BY <1>1, <2>2 DEF IndexInv, IndexTypes
  <2> QED
    BY <1>1, <2>3 DEF IndexInv, IndexTypes
<1>7. Guarded'
  BY <1>5 DEF IndexInv, Guarded
\* No other transaction is open.
<1>8. \A c \in Actor : c # a => pending'[c] = NoPending
  BY <1>5 DEF IndexInv, Guarded
<1>9. ASSUME NEW c \in Actor PROVE OfOneTask(c)'
  <2>1. CASE c # a
    BY <1>8, <2>1, FitsNext
  <2>2. CASE c = a
    <3>1. /\ pending'[c].tasks = {t}
          /\ pending'[c].old = RowsOf({t})
          /\ pending'[c].new = Best(ResultsOf({t}))
      BY <1>5, <2>2
    <3>2. /\ \A x \in pending'[c].old : Owner[x.result] = t
          /\ \A r \in pending'[c].new : r \in Result /\ Owner[r] = t
      BY <1>2, <1>3, <3>1 DEF IndexInv, IndexTypes
    <3>3. /\ pending'[c].old = RowsOf({t})'
          /\ pending'[c].new = Best(ResultsOf({t})')
      BY <1>4, <3>1
    <3> QED
      BY <3>1, <3>2, <3>3, FitsNext
  <2> QED
    BY <2>1, <2>2
<1>10. IndexExact'
  <2>1. ASSUME NEW u \in IndexedTask, ~dirty'[u], \A c \in Actor : u \notin pending'[c].tasks
        PROVE  {x.result : x \in RowsOf({u})'} = Best(ResultsOf({u})')
    <3>1. u # t
      BY <1>5, <2>1
    <3>2. ~dirty[u] /\ \A c \in Actor : u \notin pending[c].tasks
      <4>1. ~dirty[u]
        BY <1>1, <2>1, <3>1
      <4>2. \A c \in Actor : c # a => u \notin pending[c].tasks
        BY <1>5, <2>1
      <4>3. u \notin pending[a].tasks
        BY <1>1 DEF NoPending
      <4> QED
        BY <4>1, <4>2, <4>3
    <3>3. {x.result : x \in RowsOf({u})} = Best(ResultsOf({u}))
      BY <3>2 DEF IndexInv, IndexExact
    <3> QED
      BY <1>4, <3>3
  <2> QED
    BY <2>1, ExactNext
<1> QED
  BY <1>6, <1>7, <1>9, <1>10 DEF IndexInv

\* The rows of a clean task are the best of its results again.
LEMMA InsertKeeps ==
  ASSUME IndexInv, NEW a \in Actor, pending[a] # NoPending, Insert(a),
         UNCHANGED <<saved, dirty>>, Guarded',
         job' \in [Rebuild -> JobRows]
  PROVE  IndexInv'
<1>1. /\ index' = (index \ pending[a].old) \cup {[result |-> r, by |-> a] : r \in pending[a].new}
      /\ pending' = [pending EXCEPT ![a] = NoPending]
  BY DEF Insert
<1>2. PICK t \in IndexedTask :
        /\ pending[a].tasks = {t}
        /\ \A x \in pending[a].old : Owner[x.result] = t
        /\ \A r \in pending[a].new : r \in Result /\ Owner[r] = t
        /\ ~dirty[t] => /\ pending[a].old = RowsOf({t})
                        /\ pending[a].new = Best(ResultsOf({t}))
  BY DEF IndexInv, OfOneTask
<1>3. \A c \in Actor : pending'[c] = NoPending
  BY <1>1 DEF IndexInv, Guarded, IndexTypes
<1>4. IndexTypes'
  <2>1. \A r \in pending[a].new : [result |-> r, by |-> a] \in [result : Result, by : Actor]
    BY <1>2
  <2>2. index' \subseteq [result : Result, by : Actor]
    BY <1>1, <2>1 DEF IndexInv, IndexTypes
  <2>3. NoPending \in [tasks : SUBSET IndexedTask, old : SUBSET [result : Result, by : Actor],
                       new : SUBSET Result]
    BY DEF NoPending
  <2>4. pending' \in [Actor -> [tasks : SUBSET IndexedTask, old : SUBSET [result : Result, by : Actor],
                               new : SUBSET Result]]
    BY <1>1, <2>3 DEF IndexInv, IndexTypes
  <2> QED
    BY <2>2, <2>4 DEF IndexInv, IndexTypes
<1>5. ASSUME NEW u \in IndexedTask, ~dirty'[u]
      PROVE  {x.result : x \in RowsOf({u})'} = Best(ResultsOf({u})')
  <2>1. ResultsOf({u})' = ResultsOf({u})
    BY DEF ResultsOf
  <2>2. CASE u = t
    <3>1. pending[a].old = RowsOf({t}) /\ pending[a].new = Best(ResultsOf({t}))
      BY <1>2, <1>5, <2>2
    <3>2. ASSUME NEW x PROVE x \in RowsOf({t})' <=> \E r \in pending[a].new : x = [result |-> r, by |-> a]
      <4>1. x \in RowsOf({t})' <=> x \in index' /\ Owner[x.result] = t
        BY DEF RowsOf
      <4>2. x \in index' <=> \/ x \in index /\ x \notin RowsOf({t})
                             \/ \E r \in pending[a].new : x = [result |-> r, by |-> a]
        BY <1>1, <3>1
      <4>3. x \in RowsOf({t}) <=> x \in index /\ Owner[x.result] = t
        BY DEF RowsOf
      <4>4. \A r \in pending[a].new : Owner[[result |-> r, by |-> a].result] = t
        BY <1>2
      <4> QED
        BY <4>1, <4>2, <4>3, <4>4
    <3>3. ASSUME NEW r
          PROVE  r \in {x.result : x \in RowsOf({t})'} <=> r \in pending[a].new
      <4>1. ASSUME r \in pending[a].new PROVE \E x \in RowsOf({t})' : r = x.result
        <5>1. [result |-> r, by |-> a] \in RowsOf({t})'
          BY <3>2, <4>1
        <5>2. [result |-> r, by |-> a].result = r
          OBVIOUS
        <5> QED
          BY <5>1, <5>2
      <4>2. ASSUME NEW x \in RowsOf({t})', r = x.result PROVE r \in pending[a].new
        <5>1. PICK q \in pending[a].new : x = [result |-> q, by |-> a]
          BY <3>2, <4>2
        <5> QED
          BY <4>2, <5>1
      <4> QED
        BY <4>1, <4>2
    <3>4. {x.result : x \in RowsOf({t})'} = pending[a].new
      BY <3>3
    <3> QED
      BY <2>1, <2>2, <3>1, <3>4
  <2>3. CASE u # t
    <3>1. RowsOf({u})' = RowsOf({u})
      BY <1>1, <1>2, <2>3 DEF RowsOf
    <3>2. \A c \in Actor : u \notin pending[c].tasks
      <4>1. \A c \in Actor : c # a => pending[c] = NoPending
        BY DEF IndexInv, Guarded
      <4> QED
        BY <1>2, <2>3, <4>1 DEF NoPending
    <3>3. {x.result : x \in RowsOf({u})} = Best(ResultsOf({u}))
      BY <1>5, <3>2 DEF IndexInv, IndexExact
    <3> QED
      BY <2>1, <3>1, <3>3
  <2> QED
    BY <2>2, <2>3
<1>6. IndexExact'
  BY <1>5, ExactNext
<1>7. \A c \in Actor : OfOneTask(c)'
  BY <1>3, FitsNext
<1> QED
  BY <1>4, <1>6, <1>7 DEF IndexInv

\* Deduplication takes the name of no result from a clean task.
LEMMA EndJobKeeps == ASSUME IndexInv, NEW b \in Rebuild, EndJob(b) PROVE IndexInv'
<1>1. /\ job[b].thread = "batch" /\ pending[b] = NoPending
      /\ inside' = inside \ {b}
      /\ job' = [job EXCEPT ![b].row = "completed", ![b].thread = "none"]
      /\ UNCHANGED <<work, saved, pending, dirty>>
  BY DEF EndJob
<1>k. PICK kept \in SUBSET index : FirstOfEach(kept) /\ index' = kept
  BY DEF EndJob
<1>2. b \in inside /\ inside' = {}
  BY <1>1 DEF IndexInv, Guarded
<1>3. \A a \in Actor : pending[a] = NoPending
  BY <1>1, <1>2 DEF IndexInv, Guarded
<1>4. IndexTypes'
  BY <1>1, <1>k DEF IndexInv, IndexTypes, JobRows, JobRow, JobAt
<1>5. Guarded'
  <2>1. \A c \in Rebuild : c # b => job[c].thread \notin {"reset", "list", "batch"}
    BY <1>2 DEF IndexInv, Guarded
  <2>2. \A c \in Rebuild : job'[c].thread \notin {"reset", "list", "batch"}
    BY <1>1, <2>1 DEF IndexInv, IndexTypes, JobRows
  <2> QED
    BY <1>1, <1>2, <1>3, <2>2 DEF IndexInv, Guarded
<1>6. ASSUME NEW t \in IndexedTask, ~dirty'[t]
      PROVE  {x.result : x \in RowsOf({t})'} = Best(ResultsOf({t})')
  <2>1. ~dirty[t] /\ \A a \in Actor : t \notin pending[a].tasks
    BY <1>1, <1>3, <1>6 DEF NoPending
  <2>2. {x.result : x \in RowsOf({t})} = Best(ResultsOf({t}))
    BY <2>1 DEF IndexInv, IndexExact
  <2>3. ResultsOf({t}) \in SUBSET Result /\ IsFiniteSet(ResultsOf({t}))
    BY FS_Subset DEF ResultsOf, IndexInv, IndexTypes
  <2>4. RowsOf({t})' \subseteq RowsOf({t})
    BY <1>k DEF RowsOf
  <2>5. ASSUME NEW x \in RowsOf({t}) PROVE \E y \in RowsOf({t})' : x.result = y.result
    <3>1. PICK y \in kept : SamePeriod(x.result, y.result)
      BY <1>k DEF FirstOfEach, RowsOf
    <3>2. y \in RowsOf({t})' /\ y \in RowsOf({t})
      BY <1>k, <3>1 DEF RowsOf, SamePeriod
    <3>3. x.result \in Best(ResultsOf({t})) /\ y.result \in Best(ResultsOf({t}))
      BY <2>2, <3>2
    <3>4. x.result = y.result
      BY <2>3, <3>1, <3>3, BestOnePerPeriod
    <3> QED
      BY <3>2, <3>4
  <2>6. {x.result : x \in RowsOf({t})'} = {x.result : x \in RowsOf({t})}
    BY <2>4, <2>5
  <2>7. ResultsOf({t})' = ResultsOf({t})
    BY <1>1 DEF ResultsOf
  <2> QED
    BY <2>2, <2>6, <2>7
<1>7. IndexExact'
  BY <1>6, ExactNext
<1>8. \A a \in Actor : OfOneTask(a)'
  BY <1>1, <1>3 DEF OfOneTask
<1> QED
  BY <1>4, <1>5, <1>7, <1>8 DEF IndexInv

-----------------------------------------------------------------------------
LEMMA IndexInitial == IndexInit => IndexInv
<1> SUFFICES ASSUME IndexInit PROVE IndexInv
  OBVIOUS
<1>1. IndexTypes
  <2>1. NoPending \in [tasks : SUBSET IndexedTask, old : SUBSET [result : Result, by : Actor],
                       new : SUBSET Result]
    BY DEF NoPending
  <2>2. NoJob \in JobRows
    BY DEF NoJob, JobRows, JobRow, JobAt
  <2> QED
    BY <2>1, <2>2, FS_EmptySet DEF IndexInit, IndexTypes
<1>2. Guarded
  BY DEF IndexInit, Guarded, NoJob
<1>3. \A a \in Actor : OfOneTask(a)
  BY DEF IndexInit, OfOneTask
<1>4. IndexExact
  BY DEF IndexInit, IndexExact, RowsOf, ResultsOf, Best, Candidates
<1> QED
  BY <1>1, <1>2, <1>3, <1>4 DEF IndexInv

LEMMA UpsertStepKeeps ==
  ASSUME IndexInv, NEW t \in IndexedTask, UpsertStep(t)
  PROVE  IndexInv'
<1>1. t \in Actor /\ t \notin Rebuild
  BY IndexAssumption DEF Actor
<1>2. CASE EndWork(t) \/ FinishTask(t)
  <2>1. UNCHANGED <<saved, index, inside, pending, job, dirty>>
    BY <1>2 DEF EndWork, FinishTask
  <2> QED
    BY <2>1, OutsideKeeps DEF IndexInv, IndexTypes, Guarded
<1>3. CASE UpsertLock(t)
  <2>1. inside = {} /\ inside' = {t} /\ UNCHANGED <<saved, index, pending, job, dirty>>
    BY <1>3 DEF UpsertLock, LockIndex
  <2>2. Guarded'
    BY <1>1, <2>1 DEF IndexInv, Guarded
  <2>3. IndexTypes'
    BY <2>1 DEF IndexInv, IndexTypes
  <2> QED
    BY <2>1, <2>2, <2>3, OutsideKeeps
<1>4. CASE UpsertDerive(t)
  BY <1>1, <1>4, DeriveKeeps DEF UpsertDerive
<1>5. CASE UpsertCommit(t)
  <2>1. /\ t \in inside /\ pending[t].tasks = {t} /\ Insert(t) /\ inside' = inside \ {t}
        /\ UNCHANGED <<saved, job, dirty>>
    BY <1>5 DEF UpsertCommit
  <2>2. pending[t] # NoPending
    BY <2>1 DEF NoPending
  <2>3. inside' = {}
    BY <2>1 DEF IndexInv, Guarded
  <2>4. \A a \in Actor : pending'[a] = NoPending
    BY <1>1, <2>1 DEF IndexInv, Guarded, Insert, IndexTypes
  <2>5. \A b \in Rebuild : job[b].thread \notin {"reset", "list", "batch"}
    BY <1>1, <2>1 DEF IndexInv, Guarded
  <2>6. Guarded'
    BY <2>1, <2>3, <2>4, <2>5 DEF Guarded
  <2> QED
    BY <1>1, <2>1, <2>2, <2>6, InsertKeeps DEF IndexInv, IndexTypes
<1> QED
  BY <1>2, <1>3, <1>4, <1>5 DEF UpsertStep

LEMMA RebuildStepKeeps ==
  ASSUME IndexInv, NEW b \in Rebuild, RebuildStep(b)
  PROVE  IndexInv'
<1>1. b \in Actor
  BY DEF Actor
<1>2. CASE RunJob(b)
  <2>1. /\ job' = [job EXCEPT ![b].row = "running", ![b].thread = "lock"]
        /\ UNCHANGED <<saved, index, inside, pending, dirty>>
    BY <1>2 DEF RunJob
  <2>2. job' \in [Rebuild -> JobRows]
    BY <2>1, ZenonT(40) DEF IndexInv, IndexTypes, JobRows, JobAt, JobRow
  <2>3. \A c \in Rebuild : job'[c].thread = IF c = b THEN "lock" ELSE job[c].thread
    BY <2>1 DEF IndexInv, IndexTypes, JobRows
  <2>4. IndexTypes'
    BY <2>1, <2>2 DEF IndexInv, IndexTypes
  <2>5. \A c \in Rebuild : job'[c].thread \in {"reset", "list", "batch"} => c \in inside
    BY <2>3 DEF IndexInv, Guarded
  <2>6. UNCHANGED <<inside, pending>>
    BY <2>1
  <2>7. Guarded'
    BY <2>5, <2>6 DEF IndexInv, Guarded
  <2>8. IndexTypes' /\ Guarded'
    BY <2>4, <2>7
  <2> QED
    BY <2>1, <2>8, OutsideKeeps
<1>3. CASE RebuildLock(b)
  <2>1. /\ inside = {} /\ inside' = {b}
        /\ job' = [job EXCEPT ![b].thread = IF job[b].reset THEN "reset" ELSE "list"]
        /\ UNCHANGED <<saved, index, pending, dirty>>
    BY <1>3 DEF RebuildLock, LockIndex
  <2>2. IndexTypes'
    BY <2>1 DEF IndexInv, IndexTypes, JobRows, JobRow, JobAt
  <2>3. \A c \in Rebuild : c # b => job'[c].thread \notin {"reset", "list", "batch"}
    BY <2>1 DEF IndexInv, IndexTypes, Guarded, JobRows, JobRow, JobAt
  <2>4. Guarded'
    BY <1>1, <2>1, <2>3 DEF IndexInv, Guarded
  <2> QED
    BY <2>1, <2>2, <2>4, OutsideKeeps
<1>4. CASE ResetAll(b)
  BY <1>4, ResetKeeps
<1>5. CASE ListFinished(b)
  <2>1. /\ job[b].thread = "list"
        /\ job' = [job EXCEPT ![b].thread = "batch",
                              ![b].left = {t \in IndexedTask : work[t] = "finished"}]
        /\ UNCHANGED <<saved, index, inside, pending, dirty>>
    BY <1>5 DEF ListFinished
  <2>2. PICK ended \in SUBSET IndexedTask : ended = {t \in IndexedTask : work[t] = "finished"}
    OBVIOUS
  <2>3. job' = [job EXCEPT ![b].thread = "batch", ![b].left = ended]
    BY <2>1, <2>2
  <2>4. job' \in [Rebuild -> JobRows]
    BY <2>3, ZenonT(40) DEF IndexInv, IndexTypes, JobRows, JobAt
  <2>5. \A c \in Rebuild : c # b => job'[c].thread = job[c].thread
    BY <2>3 DEF IndexInv, IndexTypes, JobRows
  <2>6. IndexTypes'
    BY <2>1, <2>4 DEF IndexInv, IndexTypes
  <2>7. Guarded'
    BY <2>1, <2>5 DEF IndexInv, Guarded
  <2>8. IndexTypes' /\ Guarded'
    BY <2>6, <2>7
  <2> QED
    BY <2>1, <2>8, OutsideKeeps
<1>6. CASE BatchDerive(b)
  <2>1. job[b].thread = "batch" /\ UNCHANGED <<work, saved, index, inside, job>>
    BY <1>6 DEF BatchDerive
  <2>2. PICK t \in job[b].left : Derive(b, {t})
    BY <1>6 DEF BatchDerive
  <2>3. t \in IndexedTask /\ b \in inside
    BY <2>1, <2>2 DEF IndexInv, IndexTypes, Guarded, JobRows, JobRow, JobAt
  <2> QED
    BY <1>1, <2>1, <2>2, <2>3, DeriveKeeps
<1>7. CASE BatchCommit(b)
  <2>1. /\ job[b].thread = "batch" /\ pending[b] # NoPending /\ Insert(b)
        /\ job' = [job EXCEPT ![b].left = @ \ pending[b].tasks]
        /\ UNCHANGED <<saved, inside, dirty>>
    BY <1>7 DEF BatchCommit
  <2>2. job' \in [Rebuild -> JobRows]
        /\ \A c \in Rebuild : job'[c].thread = job[c].thread
    BY <2>1 DEF IndexInv, IndexTypes, JobRows, JobRow, JobAt
  <2>3. \A a \in Actor : pending'[a] # NoPending => pending[a] # NoPending
    BY <1>1, <2>1 DEF Insert, IndexInv, IndexTypes
  <2>4. Guarded'
    BY <2>1, <2>2, <2>3 DEF IndexInv, Guarded
  <2> QED
    BY <1>1, <2>1, <2>2, <2>4, InsertKeeps
<1>8. CASE EndJob(b)
  BY <1>8, EndJobKeeps
<1> QED
  BY <1>2, <1>3, <1>4, <1>5, <1>6, <1>7, <1>8 DEF RebuildStep

LEMMA IndexStep == ASSUME IndexInv, [IndexNext]_indexVars PROVE IndexInv'
<1>1. ASSUME NEW r \in Result, SaveResult(r) \/ CleanupResult(r) PROVE IndexInv'
  BY <1>1, SaveKeeps, CleanupKeeps
<1>2. ASSUME NEW t \in IndexedTask, UpsertStep(t) \/ FinishWithoutIndex(t) \/ ClearAndRestart(t)
      PROVE  IndexInv'
  <2>1. CASE FinishWithoutIndex(t)
    <3>1. UNCHANGED <<saved, index, inside, pending, job, dirty>>
      BY <2>1 DEF FinishWithoutIndex
    <3> QED
      BY <3>1, OutsideKeeps DEF IndexInv, IndexTypes, Guarded, JobRows, JobRow, JobAt
  <2> QED
    BY <1>2, <2>1, UpsertStepKeeps, ClearKeeps
<1>3. ASSUME NEW b \in Rebuild, RebuildStep(b) PROVE IndexInv'
  BY <1>3, RebuildStepKeeps
<1>4. ASSUME NEW b \in Rebuild, NEW reset \in ResetIndex, StartJob(b, reset) PROVE IndexInv'
  <2>1. /\ job' = [job EXCEPT ![b] = [row |-> "pending", thread |-> "start",
                                      reset |-> reset, left |-> {}]]
        /\ UNCHANGED <<saved, index, inside, pending, dirty>>
    BY <1>4 DEF StartJob
  <2>2. reset \in BOOLEAN
    BY IndexAssumption
  <2>3. IndexTypes' /\ Guarded'
    BY <2>1, <2>2 DEF IndexInv, IndexTypes, Guarded, JobRows, JobRow, JobAt
  <2> QED
    BY <2>1, <2>3, OutsideKeeps
<1>5. CASE UNCHANGED indexVars
  BY <1>5, OutsideKeeps DEF indexVars, IndexInv, IndexTypes, Guarded
<1> QED
  BY <1>1, <1>2, <1>3, <1>4, <1>5 DEF IndexNext

\* For every number of tasks, results, rebuilds and threads, whatever overlaps: the
\* rows of a task that no open transaction touches and that nothing has changed
\* since are the best of its results (app/services/model_summary/jobs.py).
THEOREM IndexIsExact == IndexSpec => []IndexExact
<1>1. IndexInit => IndexInv
  BY IndexInitial
<1>2. IndexInv /\ [IndexNext]_indexVars => IndexInv'
  BY IndexStep
<1>3. IndexInv => IndexExact
  BY DEF IndexInv
<1> QED
  BY <1>1, <1>2, <1>3, PTL DEF IndexSpec

\* A task is at one of the four stages of its index rows.
WorkTyped == work \in [IndexedTask -> {"running", "upsert", "ending", "finished"}]

LEMMA WorkStep == ASSUME WorkTyped, [IndexNext]_indexVars PROVE WorkTyped'
<1>1. CASE work' = work
  BY <1>1 DEF WorkTyped
<1>2. ASSUME NEW t \in IndexedTask, UpsertStep(t) \/ FinishWithoutIndex(t) \/ ClearAndRestart(t)
      PROVE  WorkTyped'
  BY <1>2 DEF WorkTyped, UpsertStep, EndWork, UpsertLock, UpsertDerive, UpsertCommit, FinishTask,
     FinishWithoutIndex, ClearAndRestart
<1>3. ASSUME NEW r \in Result, SaveResult(r) \/ CleanupResult(r) PROVE WorkTyped'
  BY <1>1, <1>3 DEF SaveResult, CleanupResult
<1>4. ASSUME NEW b \in Rebuild, RebuildStep(b) \/ \E reset \in ResetIndex : StartJob(b, reset)
      PROVE  WorkTyped'
  BY <1>1, <1>4 DEF RebuildStep, RunJob, RebuildLock, ResetAll, ListFinished, BatchDerive,
     BatchCommit, EndJob, StartJob
<1>5. CASE UNCHANGED indexVars
  BY <1>1, <1>5 DEF indexVars
<1> QED
  BY <1>2, <1>3, <1>4, <1>5 DEF IndexNext

\* The index names results there have been, each under the transaction that wrote it,
\* and a rebuild has only tasks left that are indexed.
THEOREM IndexTypesCorrect == IndexSpec => []IndexTypeOK
<1>1. IndexInit => WorkTyped
  BY DEF IndexInit, WorkTyped
<1>2. WorkTyped /\ [IndexNext]_indexVars => WorkTyped'
  BY WorkStep
<1>3. IndexInv /\ [IndexNext]_indexVars => IndexInv'
  BY IndexStep
<1>4. IndexInv /\ WorkTyped => IndexTypeOK
  <2> SUFFICES ASSUME IndexInv, WorkTyped PROVE IndexTypeOK
    OBVIOUS
  <2>1. IndexTypes /\ inside \subseteq Actor
    BY DEF IndexInv, Guarded
  <2>2. \A b \in Rebuild : job[b].row \in JobRow /\ job[b].left \subseteq IndexedTask
    BY <2>1 DEF IndexTypes, JobRows
  <2> QED
    BY <2>1, <2>2 DEF IndexTypes, WorkTyped, IndexTypeOK
<1> QED
  BY <1>1, <1>2, <1>3, <1>4, IndexInitial, PTL DEF IndexSpec

(* The lists of the chat service. *)

\* A list of the cache that a number still finds.
Young(c) == listCache[c] # NoList /\ listCache[c].young

\* The reply has an entry for every task of the list, in the same place.
Shows(c) ==
  /\ DOMAIN screen[c] = DOMAIN listCache[c].tasks
  /\ \A n \in DOMAIN screen[c] : screen[c][n].task = listCache[c].tasks[n]

ListInv ==
  /\ listCache = [c \in Chat |-> listCache[c]]
  /\ screen = [c \in Chat |-> screen[c]]
  /\ \A c \in Chat :
       /\ listCache[c] # NoList =>
            listCache[c] = [tasks |-> listCache[c].tasks, young |-> listCache[c].young]
       /\ IF Young(c) THEN Shows(c) ELSE screen[c] = <<>>

(***************************************************************************)
(* A step changes the cached list and the shown one of a conversation      *)
(* together, and a number changes neither but for a list that is old.      *)
(***************************************************************************)
LEMMA ListInvStays ==
  ASSUME ListInv, [ChatNext]_chatVars,
         \A s : [tasks |-> s, young |-> TRUE] # NoList
  PROVE  ListInv'
<1> USE DEF ListInv
<1>1. CASE UNCHANGED <<listCache, screen>>
  BY <1>1 DEF Young, Shows
<1>2. ASSUME NEW c \in Chat, ListCommand(c) PROVE ListInv'
  <2>1. PICK tasks, page, size :
          /\ listCache' = [listCache EXCEPT ![c] = [tasks |-> tasks, young |-> TRUE]]
          /\ screen' = [screen EXCEPT ![c] = Numbered(tasks, page, size)]
    <3> HIDE DEF ListInv
    <3>1. \E which \in {"running", "stopped"}, size \in PerPage, page \in 1..Len(recent) :
            LET tasks == PageOf(Ordered(StatusGroup(which)), page, size) IN
            /\ CacheList(c, tasks)
            /\ screen' = [screen EXCEPT ![c] = Numbered(tasks, page, size)]
      BY <1>2 DEF ListCommand
    <3> QED
      BY <3>1, Zenon DEF CacheList, CacheKey
  <2>2. /\ listCache'[c] = [tasks |-> tasks, young |-> TRUE]
        /\ screen'[c] = Numbered(tasks, page, size)
        /\ \A d \in Chat \ {c} : listCache'[d] = listCache[d] /\ screen'[d] = screen[d]
        /\ listCache' = [d \in Chat |-> listCache'[d]]
        /\ screen' = [d \in Chat |-> screen'[d]]
    BY <2>1, Zenon
  <2>3. /\ DOMAIN Numbered(tasks, page, size) = DOMAIN tasks
        /\ \A n \in DOMAIN tasks : Numbered(tasks, page, size)[n].task = tasks[n]
    BY DEF Numbered
  <2>4. Young(c)' /\ Shows(c)'
    BY <2>2, <2>3 DEF Young, Shows
  <2>5. \A d \in Chat \ {c} : (Young(d)' <=> Young(d)) /\ (Shows(d)' <=> Shows(d))
    BY <2>2 DEF Young, Shows
  <2>6. listCache'[c] = [tasks |-> listCache'[c].tasks, young |-> listCache'[c].young]
    BY <2>2
  <2> QED
    BY <2>2, <2>4, <2>5, <2>6
<1>3. ASSUME NEW c \in Chat, ListGrowsOld(c) PROVE ListInv'
  <2>1. /\ listCache[c] # NoList
        /\ listCache' = [listCache EXCEPT ![c] = [listCache[c] EXCEPT !.young = FALSE]]
        /\ screen' = [screen EXCEPT ![c] = <<>>]
    BY <1>3, Zenon DEF ListGrowsOld
  <2>2. /\ listCache'[c] = [listCache[c] EXCEPT !.young = FALSE]
        /\ screen'[c] = <<>>
        /\ \A d \in Chat \ {c} : listCache'[d] = listCache[d] /\ screen'[d] = screen[d]
        /\ listCache' = [d \in Chat |-> listCache'[d]]
        /\ screen' = [d \in Chat |-> screen'[d]]
    BY <2>1, Zenon
  <2>3. listCache'[c] = [tasks |-> listCache[c].tasks, young |-> FALSE]
    BY <2>1, <2>2
  <2>4. ~Young(c)'
    BY <2>3 DEF Young
  <2>5. \A d \in Chat \ {c} : (Young(d)' <=> Young(d)) /\ (Shows(d)' <=> Shows(d))
    BY <2>2 DEF Young, Shows
  <2> QED
    BY <2>2, <2>3, <2>4, <2>5
<1>4. ASSUME NEW c \in Chat, NEW n \in Number, NumberCommand(c, n) PROVE ListInv'
  <2>1. /\ screen' = screen
        /\ \/ listCache' = listCache
           \/ /\ listCache[c] # NoList /\ ~listCache[c].young
              /\ listCache' = [listCache EXCEPT ![c] = NoList]
    BY <1>4, Zenon DEF NumberCommand, CacheKey
  <2>2. CASE listCache' = listCache
    BY <1>1, <2>1, <2>2
  <2>3. CASE /\ listCache[c] # NoList /\ ~listCache[c].young
             /\ listCache' = [listCache EXCEPT ![c] = NoList]
    <3>1. /\ listCache'[c] = NoList
          /\ \A d \in Chat \ {c} : listCache'[d] = listCache[d]
          /\ listCache' = [d \in Chat |-> listCache'[d]]
      BY <2>3, Zenon
    <3>2. ~Young(c)' /\ screen'[c] = <<>>
      BY <2>1, <2>3, <3>1 DEF Young
    <3>3. \A d \in Chat \ {c} : (Young(d)' <=> Young(d)) /\ (Shows(d)' <=> Shows(d))
      BY <2>1, <3>1 DEF Young, Shows
    <3> QED
      BY <2>1, <3>1, <3>2, <3>3
  <2> QED
    BY <2>1, <2>2, <2>3
<1>5. CASE NameCommand \/ IdCommand \/ BatchRead \/ BatchNext \/ BatchAborts \/ WebChanges
  BY <1>1, <1>5 DEF NameCommand, IdCommand, BatchRead, BatchNext, BatchAborts, WebChanges
<1>6. CASE UNCHANGED chatVars
  BY <1>1, <1>6 DEF chatVars
<1> QED
  BY <1>2, <1>3, <1>4, <1>5, <1>6 DEF ChatNext

(***************************************************************************)
(* What a number restarts is what the reply shows in its place.            *)
(***************************************************************************)
LEMMA NumberTakesNth ==
  ASSUME ListInv, NEW c \in Chat, NEW n \in Number, NumberCommand(c, n)
  PROVE  NthOfLastList'
<1>1. /\ numbered'.chat = c /\ numbered'.number = n
      /\ numbered'.took = IF Young(c) /\ n \in DOMAIN listCache[c].tasks
                            THEN {listCache[c].tasks[n]} ELSE {}
      /\ screen' = screen
  BY DEF NumberCommand, CacheKey, Young
<1>2. CASE Young(c)
  BY <1>1, <1>2 DEF ListInv, Shows, NthOfLastList
<1>3. CASE ~Young(c)
  <2>1. screen[c] = <<>> /\ numbered'.took = {}
    BY <1>1, <1>3 DEF ListInv
  <2>2. DOMAIN screen[c] = {}
    BY <2>1
  <2> QED
    BY <1>1, <2>1, <2>2 DEF NthOfLastList
<1> QED
  BY <1>2, <1>3

(***************************************************************************)
(* "Restart number N" takes entry N of the last list of its conversation.  *)
(***************************************************************************)
THEOREM ChatTakesNth ==
  ASSUME \A s : [tasks |-> s, young |-> TRUE] # NoList
  PROVE  ChatSpec => []NthOfLastList
<1>1. ChatInit => ListInv /\ NthOfLastList
  <2> SUFFICES ASSUME ChatInit PROVE ListInv /\ NthOfLastList
    OBVIOUS
  <2>1. listCache = [c \in Chat |-> NoList] /\ screen = [c \in Chat |-> <<>>]
    BY DEF ChatInit
  <2>2. numbered.chat \notin Chat
    BY ChatAssumption DEF ChatInit, NoAnswer
  <2> QED
    BY <2>1, <2>2 DEF ListInv, Young, NthOfLastList
<1>2. ListInv /\ NthOfLastList /\ [ChatNext]_chatVars => (ListInv /\ NthOfLastList)'
  <2> SUFFICES ASSUME ListInv, NthOfLastList, [ChatNext]_chatVars
               PROVE  (ListInv /\ NthOfLastList)'
    OBVIOUS
  <2>1. ListInv'
    BY ListInvStays
  <2>2. CASE \E c \in Chat, n \in Number : NumberCommand(c, n)
    BY <2>1, <2>2, NumberTakesNth
  <2>3. CASE numbered' = NoAnswer
    BY <2>1, <2>3, ChatAssumption DEF NoAnswer, NthOfLastList
  <2>4. CASE UNCHANGED <<screen, numbered>>
    BY <2>1, <2>4 DEF NthOfLastList
  <2> QED
    BY <2>2, <2>3, <2>4 DEF ChatNext, chatVars, ListCommand, ListGrowsOld, NameCommand,
       IdCommand, BatchRead, BatchNext, BatchAborts, WebChanges
<1> QED
  BY <1>1, <1>2, PTL DEF ChatSpec

(***************************************************************************)
(* Every list of tasks has tasks only; that of all tasks has each of them  *)
(* once, whatever is restarted or updated.                                 *)
(***************************************************************************)
CachedList == [tasks : Seq(ListedTask), young : BOOLEAN]

ListsTyped ==
  /\ listCache = [c \in Chat |-> listCache[c]]
  /\ \A c \in Chat : listCache[c] # NoList => listCache[c] \in CachedList
  /\ recent \in Seq(ListedTask) /\ ToSet(recent) = ListedTask /\ IsInjective(recent)
  /\ rowState \in [ListedTask -> RowState]

RestOfChat == todo \in Seq(ListedTask) /\ numbered.took \subseteq ListedTask

LEMMA OrderedTasks ==
  ASSUME ListsTyped, NEW states
  PROVE  Ordered(states) \in Seq(ListedTask)
<1>1. {i \in DOMAIN recent : rowState[recent[i]] \in states} \in SUBSET (1..Len(recent))
  BY DEF ListsTyped
<1> QED
  BY <1>1, RowsAtPlaces DEF Ordered, ListsTyped

LEMMA PageTyped ==
  ASSUME NEW s \in Seq(ListedTask), NEW page \in Nat \ {0}, NEW size \in Nat \ {0}
  PROVE  PageOf(s, page, size) \in Seq(ListedTask)
<1>1. PICK m : m = (page - 1) * size + 1 /\ m \in Nat \ {0}
  <2>1. (page - 1) \in Nat /\ (page - 1) * size \in Nat
    OBVIOUS
  <2> QED
    BY <2>1
<1>2. PICK n : n = (IF page * size < Len(s) THEN page * size ELSE Len(s)) /\ n \in Nat /\ n <= Len(s)
  <2>1. page * size \in Nat /\ Len(s) \in Nat
    OBVIOUS
  <2> QED
    BY <2>1
<1>3. \A i \in m..n : s[i] \in ListedTask
  <2>1. \A i \in m..n : i \in 1..Len(s)
    BY <1>1, <1>2
  <2> QED
    BY <2>1
<1>4. SubSeq(s, m, n) \in Seq(ListedTask)
  BY <1>1, <1>2, <1>3
<1> QED
  BY <1>1, <1>2, <1>4 DEF PageOf

\* The task that is touched comes to the front, the others keep their order.
LEMMA TouchKeeps ==
  ASSUME ListsTyped, NEW t \in ListedTask, Touch(t)
  PROVE  recent' \in Seq(ListedTask) /\ ToSet(recent') = ListedTask /\ IsInjective(recent')
<1>1. DOMAIN recent = 1..Len(recent)
  BY DEF ListsTyped
<1>2. PICK P \in SUBSET (1..Len(recent)) : P = {i \in DOMAIN recent : recent[i] # t}
  BY <1>1
<1>3. PICK r : r = RowsAt(recent, P)
  OBVIOUS
<1>4. r \in Seq(ListedTask) /\ ToSet(r) = {recent[i] : i \in P} /\ IsInjective(r)
  BY <1>2, <1>3, RowsAtPlaces DEF ListsTyped
<1>5. ToSet(r) = ListedTask \ {t}
  <2>1. ListedTask = {recent[i] : i \in DOMAIN recent}
    BY DEF ListsTyped, ToSet
  <2> QED
    BY <1>2, <1>4, <2>1
<1>6. recent' = <<t>> \o r /\ <<t>> \in Seq(ListedTask) /\ ToSet(<<t>>) = {t}
  BY <1>2, <1>3 DEF Touch, ToSet
<1>7. recent' \in Seq(ListedTask) /\ ToSet(recent') = ListedTask
  <2>1. PICK one \in Seq(ListedTask) : one = <<t>> /\ ToSet(one) = {t}
    BY <1>6
  <2>2. one \o r \in Seq(ListedTask) /\ ToSet(one \o r) = ToSet(one) \cup ToSet(r)
    BY <1>4, <2>1, MembersOfConcat
  <2> QED
    BY <1>5, <1>6, <2>1, <2>2
<1>8. ASSUME NEW i \in DOMAIN recent', NEW j \in DOMAIN recent', recent'[i] = recent'[j] PROVE i = j
  <2>1. PICK n \in Nat : n = Len(r) /\ DOMAIN r = 1..n
    BY <1>4
  <2>2. /\ DOMAIN recent' = 1..(n + 1) /\ recent'[1] = t
        /\ \A k \in 2..(n + 1) : recent'[k] = r[k - 1]
    BY <1>4, <1>6, <2>1
  <2>3. \A k \in 2..(n + 1) : recent'[k] # t
    <3> TAKE k \in 2..(n + 1)
    <3>1. k - 1 \in 1..n
      BY <2>1
    <3>2. r[k - 1] \in ToSet(r)
      BY <2>1, <3>1 DEF ToSet
    <3> QED
      BY <1>5, <2>2, <3>2
  <2>4. CASE i = 1 \/ j = 1
    BY <1>8, <2>2, <2>3, <2>4
  <2>5. CASE i # 1 /\ j # 1
    <3>1. i \in 2..(n + 1) /\ j \in 2..(n + 1) /\ i - 1 \in 1..n /\ j - 1 \in 1..n
      BY <2>1, <2>2, <2>5
    <3>2. r[i - 1] = r[j - 1]
      BY <1>8, <2>2, <3>1
    <3>3. i - 1 = j - 1
      BY <1>4, <2>1, <3>1, <3>2 DEF IsInjective
    <3> QED
      BY <3>1, <3>3
  <2> QED
    BY <2>4, <2>5
<1>9. IsInjective(recent')
  BY <1>8 DEF IsInjective
<1> QED
  BY <1>7, <1>9

LEMMA RestartTyped ==
  ASSUME ListsTyped, NEW t \in ListedTask, Restart(t)
  PROVE  /\ recent' \in Seq(ListedTask) /\ ToSet(recent') = ListedTask /\ IsInjective(recent')
         /\ rowState' \in [ListedTask -> RowState]
<1>1. CASE UNCHANGED <<rowState, recent>>
  BY <1>1 DEF ListsTyped
<1>2. CASE /\ \E s \in {"running", "pending"} : rowState' = [rowState EXCEPT ![t] = s]
           /\ Touch(t)
  BY <1>2, TouchKeeps DEF ListsTyped, RowState
<1> QED
  BY <1>1, <1>2 DEF Restart

LEMMA ChatTypesInitial == ChatInit => ListsTyped /\ RestOfChat
<1> SUFFICES ASSUME ChatInit PROVE ListsTyped /\ RestOfChat
  OBVIOUS
<1>1. PICK n \in Nat : n = Cardinality(ListedTask) /\ IsFiniteSet(ListedTask)
  BY ChatAssumption, FS_CardinalityType
<1>2. recent \in [1..n -> ListedTask] /\ \A i, j \in 1..n : i # j => recent[i] # recent[j]
  BY <1>1 DEF ChatInit, SetToSeqs
<1>3. recent \in Injection(1..n, ListedTask) /\ IsInjective(recent)
  BY <1>2 DEF Injection, IsInjective
<1>4. IsFiniteSet(1..n) /\ Cardinality(1..n) = n
  BY FS_Interval
<1>5. recent \in Surjection(1..n, ListedTask)
  BY <1>1, <1>3, <1>4, FS_Injection
<1>6. ToSet(recent) = ListedTask
  BY <1>2, <1>5 DEF Surjection, ToSet
<1>7. recent \in Seq(ListedTask)
  BY <1>2
<1>8. /\ listCache = [c \in Chat |-> NoList] /\ todo = <<>> /\ numbered.took = {}
      /\ rowState = [t \in ListedTask |-> "error"]
  BY DEF ChatInit, NoAnswer
<1> QED
  BY <1>3, <1>6, <1>7, <1>8 DEF ListsTyped, RestOfChat, RowState

LEMMA ChatTypesStep ==
  ASSUME ListsTyped, RestOfChat, [ChatNext]_chatVars
  PROVE  (ListsTyped /\ RestOfChat)'
<1>1. ASSUME listCache' = listCache, UNCHANGED <<recent, rowState>> PROVE ListsTyped'
  BY <1>1 DEF ListsTyped
<1>2. ASSUME listCache' = listCache, NEW t \in ListedTask, Restart(t) PROVE ListsTyped'
  BY <1>2, RestartTyped DEF ListsTyped
<1>3. ASSUME numbered' = NoAnswer, todo' = todo PROVE RestOfChat'
  BY <1>3 DEF RestOfChat, NoAnswer
<1>4. ASSUME NEW c \in Chat, NEW l, listCache' = [listCache EXCEPT ![c] = l],
             l # NoList => l \in CachedList, UNCHANGED <<recent, rowState>>
      PROVE  ListsTyped'
  <2>1. /\ listCache' = [d \in Chat |-> listCache'[d]]
        /\ \A d \in Chat : listCache'[d] = IF d = c THEN l ELSE listCache[d]
    BY <1>4, Zenon DEF ListsTyped
  <2>2. \A d \in Chat : listCache'[d] # NoList => listCache'[d] \in CachedList
    BY <1>4, <2>1, Zenon DEF ListsTyped
  <2> QED
    BY <1>4, <2>1, <2>2 DEF ListsTyped
<1>5. ASSUME NEW c \in Chat, ListCommand(c) PROVE (ListsTyped /\ RestOfChat)'
  <2>1. PICK which \in {"running", "stopped"}, size \in PerPage, page \in 1..Len(recent) :
          CacheList(c, PageOf(Ordered(StatusGroup(which)), page, size))
    BY <1>5, Zenon DEF ListCommand
  <2>2. PICK tasks : tasks = PageOf(Ordered(StatusGroup(which)), page, size)
    OBVIOUS
  <2>3. tasks \in Seq(ListedTask)
    <3>1. size \in Nat \ {0} /\ page \in Nat \ {0}
      BY ChatAssumption
    <3>2. Ordered(StatusGroup(which)) \in Seq(ListedTask)
      BY OrderedTasks
    <3> QED
      BY <2>2, <3>1, <3>2, PageTyped
  <2>4. listCache' = [listCache EXCEPT ![c] = [tasks |-> tasks, young |-> TRUE]]
    BY <2>1, <2>2 DEF CacheList, CacheKey
  <2>5. [tasks |-> tasks, young |-> TRUE] \in CachedList
    BY <2>3 DEF CachedList
  <2>6. numbered' = NoAnswer /\ UNCHANGED <<rowState, recent, todo>>
    BY <1>5 DEF ListCommand
  <2> QED
    BY <1>3, <1>4, <2>4, <2>5, <2>6
<1>6. ASSUME NEW c \in Chat, ListGrowsOld(c) PROVE (ListsTyped /\ RestOfChat)'
  <2>1. /\ listCache[c] # NoList
        /\ listCache' = [listCache EXCEPT ![c] = [listCache[c] EXCEPT !.young = FALSE]]
        /\ numbered' = NoAnswer /\ UNCHANGED <<rowState, recent, todo>>
    BY <1>6, Zenon DEF ListGrowsOld
  <2>2. [listCache[c] EXCEPT !.young = FALSE] \in CachedList
    BY <2>1 DEF ListsTyped, CachedList
  <2> QED
    BY <1>3, <1>4, <2>1, <2>2
<1>7. ASSUME NEW c \in Chat, NEW n \in Number, NumberCommand(c, n) PROVE (ListsTyped /\ RestOfChat)'
  <2>1. PICK cached : cached = listCache[c]
    OBVIOUS
  <2>2. PICK found \in BOOLEAN : found = (cached # NoList /\ cached.young /\ n \in DOMAIN cached.tasks)
    OBVIOUS
  <2>3. /\ IF found THEN Restart(cached.tasks[n]) ELSE UNCHANGED <<rowState, recent>>
        /\ numbered'.took = IF found THEN {cached.tasks[n]} ELSE {}
        /\ listCache' = listCache \/ listCache' = [listCache EXCEPT ![c] = NoList]
        /\ todo' = todo
    BY <1>7, <2>1, <2>2 DEF NumberCommand, CacheKey
  <2>4. found => cached.tasks[n] \in ListedTask
    <3>1. cached # NoList => cached \in CachedList
      BY <2>1 DEF ListsTyped
    <3>2. cached \in CachedList => cached.tasks \in Seq(ListedTask)
      BY DEF CachedList
    <3>3. \A s \in Seq(ListedTask) : \A k \in DOMAIN s : s[k] \in ListedTask
      OBVIOUS
    <3> QED
      BY <2>2, <3>1, <3>2, <3>3
  <2>5. /\ recent' \in Seq(ListedTask) /\ ToSet(recent') = ListedTask /\ IsInjective(recent')
        /\ rowState' \in [ListedTask -> RowState]
    BY <2>3, <2>4, RestartTyped DEF ListsTyped
  <2>6. /\ listCache' = [d \in Chat |-> listCache'[d]]
        /\ \A d \in Chat : listCache'[d] # NoList => listCache'[d] \in CachedList
    <3>1. CASE listCache' = listCache
      BY <3>1 DEF ListsTyped
    <3>2. CASE listCache' = [listCache EXCEPT ![c] = NoList]
      <4>1. /\ listCache' = [d \in Chat |-> listCache'[d]]
            /\ \A d \in Chat : listCache'[d] = IF d = c THEN NoList ELSE listCache[d]
        BY <3>2, Zenon DEF ListsTyped
      <4> QED
        BY <4>1, Zenon DEF ListsTyped
    <3> QED
      BY <2>3, <3>1, <3>2
  <2>7. RestOfChat'
    BY <2>3, <2>4 DEF RestOfChat
  <2> QED
    BY <2>5, <2>6, <2>7 DEF ListsTyped
<1>8. CASE NameCommand \/ IdCommand
  <2>1. PICK t \in ListedTask : Restart(t)
    BY <1>8 DEF NameCommand, IdCommand
  <2>2. numbered' = NoAnswer /\ UNCHANGED <<listCache, todo>>
    BY <1>8 DEF NameCommand, IdCommand
  <2> QED
    BY <1>2, <1>3, <2>1, <2>2
<1>9. CASE BatchRead
  <2>1. PICK failed \in Seq(ListedTask) : failed = Ordered({"error"})
    BY OrderedTasks
  <2>2. PageOf(failed, 1, BatchLimit) \in Seq(ListedTask)
    BY ChatAssumption, PageTyped
  <2>3. /\ todo' = PageOf(failed, 1, BatchLimit) /\ numbered' = NoAnswer
        /\ UNCHANGED <<rowState, recent, listCache>>
    BY <1>9, <2>1 DEF BatchRead
  <2> QED
    BY <1>1, <2>2, <2>3 DEF RestOfChat, NoAnswer
<1>10. CASE BatchNext \/ BatchAborts
  <2>1. todo # <<>> /\ UNCHANGED <<listCache, numbered>>
    BY <1>10 DEF BatchNext, BatchAborts
  <2>2. Head(todo) \in ListedTask /\ Tail(todo) \in Seq(ListedTask)
    BY <2>1 DEF RestOfChat
  <2>3. todo' \in Seq(ListedTask)
    <3>1. todo' = Tail(todo) \/ todo' = <<>>
      BY <1>10 DEF BatchNext, BatchAborts
    <3>2. <<>> \in Seq(ListedTask)
      OBVIOUS
    <3> QED
      BY <2>2, <3>1, <3>2
  <2>4. UNCHANGED <<rowState, recent>> \/ Restart(Head(todo))
    BY <1>10 DEF BatchNext, BatchAborts
  <2> QED
    BY <1>1, <1>2, <2>1, <2>2, <2>3, <2>4 DEF RestOfChat
<1>11. CASE WebChanges
  <2>1. PICK t \in ListedTask :
          /\ \E s \in RowState \ {rowState[t]} : rowState' = [rowState EXCEPT ![t] = s]
          /\ Touch(t)
    BY <1>11 DEF WebChanges
  <2>2. rowState' \in [ListedTask -> RowState]
    BY <2>1 DEF ListsTyped
  <2>3. numbered' = NoAnswer /\ UNCHANGED <<listCache, todo>>
    BY <1>11 DEF WebChanges
  <2> QED
    BY <1>3, <2>1, <2>2, <2>3, TouchKeeps DEF ListsTyped
<1>12. CASE UNCHANGED chatVars
  BY <1>1, <1>12 DEF chatVars, RestOfChat
<1> QED
  BY <1>5, <1>6, <1>7, <1>8, <1>9, <1>10, <1>11, <1>12 DEF ChatNext

\* Whatever is listed, restarted or updated in whatever order: the list of all tasks
\* stays a permutation of them, and no list, page or batch has anything else.
THEOREM ChatTypes == ChatSpec => []ChatTypeOK
<1>1. ListsTyped /\ RestOfChat /\ [ChatNext]_chatVars => (ListsTyped /\ RestOfChat)'
  BY ChatTypesStep
<1>2. ListsTyped /\ RestOfChat => ChatTypeOK
  <2>1. \A s \in Seq(ListedTask) : ToSet(s) \subseteq ListedTask
    BY DEF ToSet
  <2> QED
    BY <2>1 DEF ListsTyped, RestOfChat, CachedList, ChatTypeOK
<1> QED
  BY <1>1, <1>2, ChatTypesInitial, PTL DEF ChatSpec

-----------------------------------------------------------------------------
(* All components in one run. *)

(***************************************************************************)
(* The part that was chosen first begins and moves as its own              *)
(* specification says, so what is proved of a component is true of the run *)
(* that checks it.                                                         *)
(***************************************************************************)
LEMMA PartBegins ==
  Init =>
    /\ part = "schedule" => ScheduleInit
    /\ part = "index" => IndexInit
    /\ part = "token" => TokenInit
    /\ part = "chat" => ChatInit
    /\ part = "snapshots" => SnapshotInit
    /\ part = "windows" => PlanInit
    /\ part = "library" => LibraryInit
    /\ part = "config" => ConfigInit
    /\ part = "metrics" => MetricInit
    /\ part = "exports" => WordExportInit
    /\ part = "rows" => RowInit
BY DEF Init

LEMMA PartMoves ==
  [Next]_vars =>
    /\ part' = part
    /\ part = "schedule" => [ScheduleNext]_scheduleVars
    /\ part = "index" => [IndexNext]_indexVars
    /\ part = "token" => [TokenNext]_tokenVars
    /\ part = "chat" => [ChatNext]_chatVars
    /\ part = "snapshots" => [SnapshotNext]_snapshotVars
    /\ part = "windows" => [PlanNext]_planVars
    /\ part = "library" => [LibraryNext]_libraryVars
    /\ part = "config" => [ConfigNext]_configVars
    /\ part = "metrics" => [MetricNext]_metricVars
    /\ part = "exports" => [WordExportNext]_exportVars
    /\ part = "rows" => [RowNext]_cellVars
<1> SUFFICES ASSUME [Next]_vars
    PROVE  /\ part' = part
           /\ part = "schedule" => [ScheduleNext]_scheduleVars
           /\ part = "index" => [IndexNext]_indexVars
           /\ part = "token" => [TokenNext]_tokenVars
           /\ part = "chat" => [ChatNext]_chatVars
           /\ part = "snapshots" => [SnapshotNext]_snapshotVars
           /\ part = "windows" => [PlanNext]_planVars
           /\ part = "library" => [LibraryNext]_libraryVars
           /\ part = "config" => [ConfigNext]_configVars
           /\ part = "metrics" => [MetricNext]_metricVars
           /\ part = "exports" => [WordExportNext]_exportVars
           /\ part = "rows" => [RowNext]_cellVars
  OBVIOUS
<1>1. CASE TaskParts /\ UNCHANGED <<part, priceVars, otherVars>>
  BY <1>1 DEF TaskParts, priceVars, otherVars
<1>2. CASE PriceParts /\ UNCHANGED <<part, taskVars, otherVars>>
  BY <1>2 DEF PriceParts, taskVars, otherVars
<1>3. CASE OtherParts /\ UNCHANGED <<part, taskVars, priceVars>>
  BY <1>3 DEF OtherParts, taskVars, priceVars
<1>4. CASE UNCHANGED vars
  BY <1>4 DEF vars, taskVars, priceVars, otherVars
<1> QED
  BY <1>1, <1>2, <1>3, <1>4 DEF Next

\* Every component keeps the types of its own state in the run of all of them.
THEOREM TypesCorrect == Spec => []TypeOK
<1>1. Spec => [](part = "schedule" => ScheduleTypeOK)
  <2>1. Init /\ part = "schedule" => ScheduleInit
    BY PartBegins
  <2>2. part = "schedule" /\ [Next]_vars => (part = "schedule")' /\ [ScheduleNext]_scheduleVars
    BY PartMoves
  <2>3. ~(part = "schedule") /\ [Next]_vars => ~(part = "schedule")'
    BY PartMoves
  <2> QED
    BY <2>1, <2>2, <2>3, ScheduleTypeCorrect, PTL DEF Spec, ScheduleSpec
<1>2. Spec => [](part = "index" => IndexTypeOK)
  <2>1. Init /\ part = "index" => IndexInit
    BY PartBegins
  <2>2. part = "index" /\ [Next]_vars => (part = "index")' /\ [IndexNext]_indexVars
    BY PartMoves
  <2>3. ~(part = "index") /\ [Next]_vars => ~(part = "index")'
    BY PartMoves
  <2> QED
    BY <2>1, <2>2, <2>3, IndexTypesCorrect, PTL DEF Spec, IndexSpec
<1>3. Spec => [](part = "token" => TokenTypeOK)
  <2>1. Init /\ part = "token" => TokenInit
    BY PartBegins
  <2>2. part = "token" /\ [Next]_vars => (part = "token")' /\ [TokenNext]_tokenVars
    BY PartMoves
  <2>3. ~(part = "token") /\ [Next]_vars => ~(part = "token")'
    BY PartMoves
  <2> QED
    BY <2>1, <2>2, <2>3, TokenTypes, PTL DEF Spec, TokenSpec
<1>4. Spec => [](part = "chat" => ChatTypeOK)
  <2>1. Init /\ part = "chat" => ChatInit
    BY PartBegins
  <2>2. part = "chat" /\ [Next]_vars => (part = "chat")' /\ [ChatNext]_chatVars
    BY PartMoves
  <2>3. ~(part = "chat") /\ [Next]_vars => ~(part = "chat")'
    BY PartMoves
  <2> QED
    BY <2>1, <2>2, <2>3, ChatTypes, PTL DEF Spec, ChatSpec
<1>5. Spec => [](part = "snapshots" => SnapshotTypeOK)
  <2>1. Init /\ part = "snapshots" => SnapshotInit
    BY PartBegins
  <2>2. part = "snapshots" /\ [Next]_vars => (part = "snapshots")' /\ [SnapshotNext]_snapshotVars
    BY PartMoves
  <2>3. ~(part = "snapshots") /\ [Next]_vars => ~(part = "snapshots")'
    BY PartMoves
  <2> QED
    BY <2>1, <2>2, <2>3, SnapshotTypesCorrect, PTL DEF Spec, SnapshotSpec
<1>6. Spec => [](part = "windows" => PlanTypeOK)
  <2>1. Init /\ part = "windows" => PlanInit
    BY PartBegins
  <2>2. part = "windows" /\ [Next]_vars => (part = "windows")' /\ [PlanNext]_planVars
    BY PartMoves
  <2>3. ~(part = "windows") /\ [Next]_vars => ~(part = "windows")'
    BY PartMoves
  <2> QED
    BY <2>1, <2>2, <2>3, PlanTypes, PTL DEF Spec, PlanSpec
<1>7. Spec => [](part = "library" => LibraryTypeOK)
  <2>1. Init /\ part = "library" => LibraryInit
    BY PartBegins
  <2>2. part = "library" /\ [Next]_vars => (part = "library")' /\ [LibraryNext]_libraryVars
    BY PartMoves
  <2>3. ~(part = "library") /\ [Next]_vars => ~(part = "library")'
    BY PartMoves
  <2> QED
    BY <2>1, <2>2, <2>3, LibraryTypes, PTL DEF Spec, LibrarySpec
<1>8. Spec => [](part = "config" => ConfigTypeOK)
  <2>1. Init /\ part = "config" => ConfigInit
    BY PartBegins
  <2>2. part = "config" /\ [Next]_vars => (part = "config")' /\ [ConfigNext]_configVars
    BY PartMoves
  <2>3. ~(part = "config") /\ [Next]_vars => ~(part = "config")'
    BY PartMoves
  <2> QED
    BY <2>1, <2>2, <2>3, ConfigTypeCorrect, PTL DEF Spec, ConfigSpec
<1>9. Spec => [](part = "metrics" => FrameTypeOK)
  <2>1. Init /\ part = "metrics" => MetricInit
    BY PartBegins
  <2>2. part = "metrics" /\ [Next]_vars => (part = "metrics")' /\ [MetricNext]_metricVars
    BY PartMoves
  <2>3. ~(part = "metrics") /\ [Next]_vars => ~(part = "metrics")'
    BY PartMoves
  <2>4. FrameInv => FrameTypeOK
    BY DEF FrameInv
  <2> QED
    BY <2>1, <2>2, <2>3, <2>4, FramesGrowByMonth, PTL DEF Spec
<1>10. Spec => [](part = "exports" => WordExportTypeOK)
  <2>1. Init /\ part = "exports" => WordExportInit
    BY PartBegins
  <2>2. part = "exports" /\ [Next]_vars => (part = "exports")' /\ [WordExportNext]_exportVars
    BY PartMoves
  <2>3. ~(part = "exports") /\ [Next]_vars => ~(part = "exports")'
    BY PartMoves
  <2> QED
    BY <2>1, <2>2, <2>3, WordExportTypes, PTL DEF Spec, WordExportSpec
<1>11. Spec => [](part = "rows" => RowTypeOK)
  <2>1. Init /\ part = "rows" => RowInit
    BY PartBegins
  <2>2. part = "rows" /\ [Next]_vars => (part = "rows")' /\ [RowNext]_cellVars
    BY PartMoves
  <2>3. ~(part = "rows") /\ [Next]_vars => ~(part = "rows")'
    BY PartMoves
  <2> QED
    BY <2>1, <2>2, <2>3, SheetRowTypes, PTL DEF Spec
<1>12. Spec => [](part \in {"schedule", "index", "token", "chat", "snapshots", "windows",
                      "library", "config", "metrics", "exports", "rows"})
  <2>1. Init => part \in {"schedule", "index", "token", "chat", "snapshots", "windows",
                         "library", "config", "metrics", "exports", "rows"}
    BY DEF Init
  <2>2. /\ part \in {"schedule", "index", "token", "chat", "snapshots", "windows",
                    "library", "config", "metrics", "exports", "rows"}
        /\ [Next]_vars
        => (part \in {"schedule", "index", "token", "chat", "snapshots", "windows",
                      "library", "config", "metrics", "exports", "rows"})'
    BY PartMoves
  <2> QED
    BY <2>1, <2>2, PTL DEF Spec
<1>13. /\ part \in {"schedule", "index", "token", "chat", "snapshots", "windows",
                   "library", "config", "metrics", "exports", "rows"}
       /\ part = "schedule" => ScheduleTypeOK
       /\ part = "index" => IndexTypeOK
       /\ part = "token" => TokenTypeOK
       /\ part = "chat" => ChatTypeOK
       /\ part = "snapshots" => SnapshotTypeOK
       /\ part = "windows" => PlanTypeOK
       /\ part = "library" => LibraryTypeOK
       /\ part = "config" => ConfigTypeOK
       /\ part = "metrics" => FrameTypeOK
       /\ part = "exports" => WordExportTypeOK
       /\ part = "rows" => RowTypeOK
       => TypeOK
  BY DEF TypeOK
<1> QED
  BY <1>1, <1>2, <1>3, <1>4, <1>5, <1>6, <1>7, <1>8, <1>9, <1>10, <1>11, <1>12, <1>13, PTL
=============================================================================
