---------------------------- MODULE TaskRuntime ----------------------------
(***************************************************************************)
(* The task runtime of the application (app/services/task): how a request  *)
(* thread starts, cancels, restarts and deletes a task, how a pool worker  *)
(* executes it and settles it, and how the end of one execution hands its  *)
(* spreadsheets over to the next waiting task.                             *)
(*                                                                         *)
(* Three kinds of state meet here: rows of the database (status, the       *)
(* [SHEET_QUEUED] mark, the sheet execution locks), dictionaries of the    *)
(* TaskManager of this process (handles, stop events, token occupancy),    *)
(* and the program counters of the threads that read one and write the     *)
(* other. An action is what one thread does between two points at which    *)
(* another thread can be seen to act: a commit, or the end of a section    *)
(* under _runtime_state_lock.                                              *)
(***************************************************************************)
EXTENDS Naturals, Sequences, FiniteSets

CONSTANTS
  Task,         \* task rows
  Sheet,        \* spreadsheet ids
  Caller,       \* HTTP request threads that use the TaskManager
  Daemon,       \* background threads that use it (startup, watchdog)
  None,         \* no task, no thread
  SheetsOf,     \* the sheets a task's configuration refers to
  Rank,         \* position of a task in (created_at, id) order
  TypeOf,       \* task_type
  TypeLimit,    \* task_concurrency_<type>
  MaxRunning,   \* task_max_workers as start_task reads it
  PoolSize,     \* max_workers of the thread pool, fixed at its creation
  MaxExec,      \* bound: executions of one task that exist at a time
  SerialStarts, \* assumption of this run: see MayStart
  Faults,       \* which calls out of the runtime may fail in this run
  Requests      \* which requests each caller makes in this run

(***************************************************************************)
(* An execution is one submission of a task: the _TaskExecution handle,    *)
(* its pool thread and its stop event, whose identities the code compares. *)
(* Its number is free again once nothing of it is left.                    *)
(***************************************************************************)
Slot   == 1..MaxExec
Exec   == Task \X Slot
Thread == Caller \cup Daemon \cup Exec

FaultKinds   == {"validate", "token", "submit", "stall"}
RequestKinds == {"create", "cancel", "restart", "delete"}

ASSUME ConstantsAssumption ==
  /\ SheetsOf \in [Task -> SUBSET Sheet]
  /\ Rank \in [Task -> Nat]
  /\ \A t, u \in Task : Rank[t] = Rank[u] => t = u
  /\ TypeLimit \in [{TypeOf[t] : t \in Task} -> Nat]
  /\ MaxRunning \in Nat
  /\ PoolSize \in Nat \ {0}
  /\ MaxExec \in Nat \ {0}
  /\ None \notin Task \cup Thread
  /\ (Caller \cup Daemon) \cap Exec = {}
  /\ SerialStarts \in BOOLEAN
  /\ Faults \subseteq FaultKinds
  /\ Requests \in [Caller -> SUBSET RequestKinds]

VARIABLES
  \* the database
  status,       \* Task.status; "absent" before the row is there, "deleted" after
  queued,       \* Task.error_message starts with [SHEET_QUEUED]
  lockOf,       \* sheet execution lock table: holder of a sheet
  \* the dictionaries of the TaskManager
  handle,       \* running_tasks: the execution registered for a task, 0 if none
  stopEvent,    \* task_stop_events: the event registered for a task, 0 if none
  fired,        \* events that have been set
  workerId,     \* _active_worker_ids: the execution whose thread is registered
  tokenHeld,    \* tasks with an entry in task_token_occupancy
  queue,        \* work queue of the thread pool
  sheetStart,   \* owner of sheet_start_lock
  \* one execution: a submission of a task to the pool
  exec,         \* where an execution is
  execEvent,    \* the event its service was given
  outcome,      \* what execute_task returned or raised, then the final status
  finished,     \* finished_spreadsheet_ids, the sheets it hands over
  \* one thread inside a TaskManager operation
  pc, arg, slot,
  \* bookkeeping of the model
  cancelAck     \* tasks whose last acknowledged request was a cancel

dbVars     == <<status, queued, lockOf>>
dictVars   == <<handle, stopEvent, fired, workerId>>
memVars    == <<dictVars, tokenHeld, queue, sheetStart>>
workVars   == <<execEvent, outcome, finished>>
execVars   == <<exec, workVars>>
threadVars == <<pc, arg, slot>>
vars == <<dbVars, memVars, execVars, threadVars, cancelAck>>

-----------------------------------------------------------------------------
Status == {"absent", "pending", "running", "completed", "error", "cancelled",
           "deleted"}
Returned == {"started", "queued", "rejected"}

\* Inside start_task.
StartPc == {"check", "read", "lock", "mark", "token", "admit", "register",
            "enqueue", "rollback", "rollbackRunning"}
\* Inside start_task, from the moment the sheet locks may be held.
Reserving == {"mark", "token", "admit", "register", "enqueue", "rollback",
              "rollbackRunning"}
RestartPc == {"snapshot", "join", "reset"}
\* Between the read and the write of cancel_task: what was read, and for whom.
CancelPc  == {"cancelPending", "cancelRunning", "stopPending", "stopRunning"}
Pc == {"idle", "popHandle"} \cup Returned \cup StartPc \cup RestartPc \cup CancelPc

ExecPc == {"none", "admitted", "registered", "queued", "begun", "working", "ended",
           "finalizing", "closing", "releasing", "cleanup", "relay",
           "relaying"}
\* _TaskExecution.is_alive: a future exists and it is not done.
AliveExec == ExecPc \ {"none", "admitted", "registered"}
\* A pool thread is running the execution.
BusyExec  == AliveExec \ {"queued"}
Outcome   == {"none", "completed", "cancelled", "error", "exception"}

TypeOK ==
  /\ status \in [Task -> Status]
  /\ queued \in [Task -> BOOLEAN]
  /\ lockOf \in [Sheet -> Task \cup {None}]
  /\ handle \in [Task -> 0..MaxExec]
  /\ stopEvent \in [Task -> 0..MaxExec]
  /\ fired \subseteq Exec
  /\ workerId \in [Task -> 0..MaxExec]
  /\ tokenHeld \subseteq Task
  /\ queue \in Seq(Exec)
  /\ sheetStart \in Thread \cup {None}
  /\ exec \in [Exec -> ExecPc]
  /\ execEvent \in [Exec -> 0..MaxExec]
  /\ outcome \in [Exec -> Outcome]
  /\ finished \in [Exec -> SUBSET Sheet]
  /\ pc \in [Thread -> Pc]
  /\ arg \in [Thread -> Task \cup {None}]
  /\ slot \in [Thread -> 0..MaxExec]
  /\ cancelAck \subseteq Task

Init ==
  /\ status = [t \in Task |-> "absent"]
  /\ queued = [t \in Task |-> FALSE]
  /\ lockOf = [s \in Sheet |-> None]
  /\ handle = [t \in Task |-> 0]
  /\ stopEvent = [t \in Task |-> 0]
  /\ fired = {}
  /\ workerId = [t \in Task |-> 0]
  /\ tokenHeld = {}
  /\ queue = <<>>
  /\ sheetStart = None
  /\ exec = [x \in Exec |-> "none"]
  /\ execEvent = [x \in Exec |-> 0]
  /\ outcome = [x \in Exec |-> "none"]
  /\ finished = [x \in Exec |-> {}]
  /\ pc = [th \in Thread |-> "idle"]
  /\ arg = [th \in Thread |-> None]
  /\ slot = [th \in Thread |-> 0]
  /\ cancelAck = {}

-----------------------------------------------------------------------------
(* The sheet execution locks (SheetLockRepository). *)

Held(t) == {s \in Sheet : lockOf[s] = t}

ConflictOnEverySheet(t) ==
  SheetsOf[t] # {} /\ \A s \in SheetsOf[t] : lockOf[s] \notin {None, t}

\* find_conflict: some sheet of the task is held by another task.
Conflict(t) == \E s \in SheetsOf[t] : lockOf[s] \notin {None, t}

\* acquire_all once find_conflict, under the same sheet_start_lock, found none.
AcquireAll(t) ==
  lockOf' = [s \in Sheet |-> IF s \in SheetsOf[t] THEN t ELSE lockOf[s]]

ReleaseSheetsOfAnyone(S, t) ==
  lockOf' = [s \in Sheet |-> IF s \in S THEN None ELSE lockOf[s]]

\* release_sheets and release_all_by_task: rows of another holder stay.
ReleaseSheets(S, t) ==
  lockOf' = [s \in Sheet |-> IF s \in S /\ lockOf[s] = t THEN None ELSE lockOf[s]]

(* The runtime dictionaries. *)

\* handle and handle.is_alive()
HandleAlive(t) == handle[t] # 0 /\ exec[<<t, handle[t]>>] \in AliveExec

RunningExecutions == {t \in Task : HandleAlive(t)}

TypeRunning(type) == {t \in RunningExecutions : TypeOf[t] = type}

\* _is_active_generation, asked by the thread that runs execution x.
ActiveGeneration(x) ==
  /\ HandleAlive(x[1])
  /\ workerId[x[1]] \in {0, x[2]}

\* _is_stop_requested
StopRequested(t) == stopEvent[t] # 0 /\ <<t, stopEvent[t]>> \in fired

\* Set events that a dictionary or a running service still refers to.
ReachableFired(E) ==
  fired' = {e \in E : \/ stopEvent'[e[1]] = e[2]
                       \/ \E n \in Slot : execEvent'[<<e[1], n>>] = e[2]}

FireUnregistered(t) == fired' = fired \cup {<<t, stopEvent[t]>>}

FireEvent(t) ==
  fired' = IF stopEvent[t] = 0 THEN fired ELSE fired \cup {<<t, stopEvent[t]>>}

(* Threads. *)

Goto(th, label) == pc' = [pc EXCEPT ![th] = label]

Enter(th, t, label) ==
  /\ Goto(th, label)
  /\ arg' = [arg EXCEPT ![th] = t]
  /\ slot' = slot

\* A request thread drops the result of start_task; the others read it.
Return(th, result) ==
  /\ Goto(th, IF th \in Caller THEN "idle" ELSE result)
  /\ arg' = [arg EXCEPT ![th] = None]
  /\ slot' = [slot EXCEPT ![th] = 0]

Step(th, from, to) ==
  /\ pc[th] = from
  /\ Goto(th, to)
  /\ UNCHANGED <<arg, slot>>

\* sheet_start_lock is an RLock: a relaying worker already owns it, and
\* leaving start_task does not give it up.
CanEnterSheetStart(th) == sheetStart \in {None, th}
SheetStartByTask(th) == IF th \in Exec THEN th[1] ELSE None

SheetStartAfter(th) == IF th \in Exec THEN th ELSE None

\* A thread that starts or restarts a task. Nothing in the code keeps another
\* one from starting the same task at the same time: the handle a second call
\* looks for is registered at the end of start_task. With SerialStarts a run
\* assumes that it does not happen; without, a run shows what does.
Starting(th) == pc[th] \in StartPc \cup RestartPc \cup {"stopPending", "stopRunning"}

MayStart(t) == SerialStarts => \A th \in Thread : Starting(th) => arg[th] # t

\* _rollback_start_reservation, but for the status.
RollbackTokenOnly(t) == tokenHeld' = tokenHeld \ {t} /\ UNCHANGED lockOf
RollbackLocksOnly(t) == UNCHANGED tokenHeld /\ ReleaseSheets(SheetsOf[t], t)

RollbackReservation(t) ==
  tokenHeld' = tokenHeld \ {t} /\ ReleaseSheets(SheetsOf[t], t)

\* revert_running_to_pending
LeaveRunning(t) == UNCHANGED status

RevertRunning(t) ==
  status' = [status EXCEPT ![t] = IF @ = "running" THEN "pending" ELSE @]

\* error_message := None, which takes the [SHEET_QUEUED] mark off.
KeepQueueMark(t) == UNCHANGED queued

ClearQueueMark(t) == queued' = [queued EXCEPT ![t] = FALSE]

-----------------------------------------------------------------------------
(* start_task, run by thread th for task arg[th]. *)

\* A second call finds the handle alive; a dead handle is dropped.
CheckHandle(th) ==
  LET t == arg[th] IN
  /\ pc[th] = "check"
  /\ IF HandleAlive(t)
       THEN Return(th, "rejected") /\ UNCHANGED handle
       ELSE /\ Goto(th, "read")
            /\ handle' = [handle EXCEPT ![t] = 0]
            /\ UNCHANGED <<arg, slot>>
  /\ UNCHANGED <<dbVars, stopEvent, fired, workerId, tokenHeld, queue,
                 sheetStart, execVars, cancelAck>>

ReadTask(th) ==
  /\ pc[th] = "read"
  /\ IF status[arg[th]] = "pending"
       THEN Goto(th, "lock") /\ UNCHANGED <<arg, slot>>
       ELSE Return(th, "rejected")
  /\ UNCHANGED <<dbVars, memVars, execVars, cancelAck>>

\* Under sheet_start_lock: a busy sheet queues the task, ...
QueueForSheet(th) ==
  LET t == arg[th] IN
  /\ pc[th] = "lock"
  /\ CanEnterSheetStart(th)
  /\ Conflict(t)
  /\ queued' = [queued EXCEPT ![t] = (status[t] # "deleted")]
  /\ Return(th, "queued")
  /\ UNCHANGED <<status, lockOf, memVars, execVars, cancelAck>>

\* ... otherwise the task takes all its locks and keeps sheet_start_lock.
AcquireSheets(th) ==
  /\ Step(th, "lock", "mark")
  /\ CanEnterSheetStart(th)
  /\ ~Conflict(arg[th])
  /\ AcquireAll(arg[th])
  /\ sheetStart' = th
  /\ UNCHANGED <<status, queued, dictVars, tokenHeld, queue, execVars,
                 cancelAck>>

\* validate_c_series_sheet_models raises out of the sheet_start_lock section.
ValidateFails(th) ==
  /\ "validate" \in Faults
  /\ Step(th, "mark", "rollback")
  /\ sheetStart' = SheetStartAfter(th)
  /\ UNCHANGED <<dbVars, dictVars, tokenHeld, queue, execVars, cancelAck>>

\* mark_running_if_pending updated one row: the [SHEET_QUEUED] mark goes too.
MarkRunning(th) ==
  LET t == arg[th] IN
  /\ Step(th, "mark", "token")
  /\ status[t] = "pending"
  /\ status' = [status EXCEPT ![t] = "running"]
  /\ ClearQueueMark(t)
  /\ sheetStart' = SheetStartAfter(th)
  /\ UNCHANGED <<lockOf, dictVars, tokenHeld, queue, execVars, cancelAck>>

\* It updated none: the reservation is rolled back inside the section.
MarkRunningTooLate(th) ==
  LET t == arg[th] IN
  /\ pc[th] = "mark"
  /\ status[t] # "pending"
  /\ RollbackReservation(t)
  /\ sheetStart' = SheetStartAfter(th)
  /\ Return(th, "rejected")
  /\ UNCHANGED <<status, queued, dictVars, queue, execVars, cancelAck>>

TakeToken(th) ==
  /\ Step(th, "token", "admit")
  /\ tokenHeld' = tokenHeld \cup {arg[th]}
  /\ UNCHANGED <<dbVars, dictVars, queue, sheetStart, execVars, cancelAck>>

\* validate_task_start or increment_usage raises.
TokenFails(th) ==
  /\ "token" \in Faults
  /\ Step(th, "token", "rollbackRunning")
  /\ UNCHANGED <<dbVars, memVars, execVars, cancelAck>>

QuotaFree(t) ==
  /\ Cardinality(RunningExecutions) < MaxRunning
  /\ Cardinality(TypeRunning(TypeOf[t])) < TypeLimit[TypeOf[t]]

RejectForQuota(th) ==
  /\ Step(th, "admit", "rollbackRunning")
  /\ ~QuotaFree(arg[th])
  /\ UNCHANGED <<dbVars, memVars, execVars, cancelAck>>

\* A number no trace of an earlier execution of the task is left of.
FreeSlots(t) ==
  {n \in Slot : /\ exec[<<t, n>>] = "none"
                /\ n \notin {handle[t], stopEvent[t], workerId[t]}
                /\ \A m \in Slot : execEvent[<<t, m>>] # n}

\* Within the quota: a fresh stop event for the coming execution.
Admit(th) ==
  LET t == arg[th] IN
  /\ pc[th] = "admit"
  /\ QuotaFree(t)
  /\ Goto(th, "register")
  /\ \E n \in FreeSlots(t) :
       /\ \A m \in FreeSlots(t) : n <= m
       /\ exec' = [exec EXCEPT ![<<t, n>>] = "admitted"]
       /\ slot' = [slot EXCEPT ![th] = n]
       /\ stopEvent' = [stopEvent EXCEPT ![t] = n]
       /\ UNCHANGED execEvent
       /\ ReachableFired(fired)
  /\ UNCHANGED <<dbVars, handle, workerId, tokenHeld, queue, sheetStart,
                 outcome, finished, arg, cancelAck>>

\* submit_task_execution registers the handle before the pool knows of it.
Register(th) ==
  LET x == <<arg[th], slot[th]>> IN
  /\ Step(th, "register", "enqueue")
  /\ handle' = [handle EXCEPT ![arg[th]] = slot[th]]
  /\ exec' = [exec EXCEPT ![x] = "registered"]
  /\ UNCHANGED <<dbVars, stopEvent, fired, workerId, tokenHeld, queue,
                 sheetStart, workVars, cancelAck>>

Enqueue(th) ==
  LET x == <<arg[th], slot[th]>> IN
  /\ pc[th] = "enqueue"
  /\ exec' = [exec EXCEPT ![x] = "queued"]
  /\ queue' = Append(queue, x)
  /\ Return(th, "started")
  /\ UNCHANGED <<dbVars, dictVars, tokenHeld, sheetStart, workVars, cancelAck>>

\* pool.submit raises: handle and event are withdrawn.
SubmitFails(th) ==
  LET t == arg[th] IN
  /\ "submit" \in Faults
  /\ Step(th, "enqueue", "rollbackRunning")
  /\ exec' = [exec EXCEPT ![<<t, slot[th]>>] = "none"]
  /\ handle' = [handle EXCEPT ![t] = 0]
  /\ stopEvent' = [stopEvent EXCEPT ![t] = 0]
  /\ UNCHANGED execEvent
  /\ ReachableFired(fired)
  /\ UNCHANGED <<dbVars, workerId, tokenHeld, queue, sheetStart, outcome,
                 finished, cancelAck>>

\* _rollback_start_reservation: the sheets are free, and nobody is told.
Rollback(th) ==
  LET t == arg[th] IN
  /\ pc[th] \in {"rollback", "rollbackRunning"}
  /\ RollbackReservation(t)
  /\ IF pc[th] = "rollbackRunning" THEN RevertRunning(t) ELSE UNCHANGED status
  /\ Return(th, "rejected")
  /\ UNCHANGED <<queued, dictVars, queue, sheetStart, execVars, cancelAck>>

StartStep(th) ==
  \/ CheckHandle(th) \/ ReadTask(th) \/ QueueForSheet(th) \/ AcquireSheets(th)
  \/ ValidateFails(th) \/ MarkRunning(th) \/ MarkRunningTooLate(th)
  \/ TakeToken(th) \/ TokenFails(th) \/ RejectForQuota(th) \/ Admit(th)
  \/ Register(th) \/ Enqueue(th) \/ SubmitFails(th) \/ Rollback(th)

-----------------------------------------------------------------------------
(* One execution x of task x[1] in a thread of the pool. *)

ExecStep(x, from, to) ==
  /\ exec[x] = from
  /\ exec' = [exec EXCEPT ![x] = to]

\* A free pool thread takes the next execution and registers itself.
Begin ==
  /\ queue # <<>>
  /\ Cardinality({y \in Exec : exec[y] \in BusyExec}) < PoolSize
  /\ LET x == Head(queue) IN
       /\ ExecStep(x, "queued", "begun")
       /\ workerId' = [workerId EXCEPT ![x[1]] = x[2]]
  /\ queue' = Tail(queue)
  /\ UNCHANGED <<dbVars, handle, stopEvent, fired, tokenHeld, sheetStart,
                 workVars, threadVars, cancelAck>>

\* The row is gone: the execution ends without a result.
TaskMissing(x) ==
  /\ ExecStep(x, "begun", "closing")
  /\ status[x[1]] = "deleted"
  /\ UNCHANGED <<dbVars, memVars, workVars, threadVars, cancelAck>>

\* _mark_task_running: whatever the status was, it is running now; the
\* service gets the event that is registered at this moment.
MarkTaskRunning(x) ==
  LET t == x[1] IN
  /\ ExecStep(x, "begun", "working")
  /\ status[t] # "deleted"
  /\ status' = [status EXCEPT ![t] = "running"]
  /\ execEvent' = [execEvent EXCEPT ![x] = stopEvent[t]]
  /\ UNCHANGED <<queued, lockOf, memVars, outcome, finished, threadVars,
                 cancelAck>>

\* _is_cancel_requested, as the service of x sees it.
CancelRequested(x) ==
  \/ execEvent[x] # 0 /\ <<x[1], execEvent[x]>> \in fired
  \/ status[x[1]] = "cancelled"

\* execute_task returns or raises. A cancel is noticed between two steps of
\* the service; one that comes after the last check is not noticed.
FinishWork(x) ==
  /\ ExecStep(x, "working", "ended")
  /\ \E r \in {"completed", "error", "exception", "cancelled"} :
       /\ r = "cancelled" => CancelRequested(x)
       /\ outcome' = [outcome EXCEPT ![x] = r]
  /\ execEvent' = [execEvent EXCEPT ![x] = 0]
  /\ UNCHANGED stopEvent
  /\ ReachableFired(fired)
  /\ UNCHANGED <<dbVars, handle, workerId, tokenHeld, queue, sheetStart,
                 finished, threadVars, cancelAck>>

\* _finalize_task_execution reads the task afresh: a cancel it can see
\* prevails over the result. An exception is recorded without looking.
Verdict(x) ==
  CASE outcome[x] = "exception" -> "error"
    [] status[x[1]] = "cancelled" \/ StopRequested(x[1]) -> "cancelled"
    [] OTHER -> outcome[x]

ReadVerdict(x) ==
  /\ IF ActiveGeneration(x) /\ status[x[1]] # "deleted"
       THEN /\ ExecStep(x, "ended", "finalizing")
            /\ outcome' = [outcome EXCEPT
                 ![x] = IF @ = "exception" THEN @ ELSE Verdict(x)]
       ELSE ExecStep(x, "ended", "closing") /\ UNCHANGED outcome
  /\ UNCHANGED <<dbVars, memVars, execEvent, finished, threadVars, cancelAck>>

\* update_fields writes what was decided, whatever the row says by now; a
\* recorded exception replaces the error message.
WriteVerdict(x) ==
  LET t == x[1] IN
  /\ ExecStep(x, "finalizing", "closing")
  /\ status' = [status EXCEPT
       ![t] = IF @ = "deleted" THEN @ ELSE
              IF outcome[x] = "exception" THEN "error" ELSE outcome[x]]
  /\ queued' = [queued EXCEPT ![t] = @ /\ outcome[x] # "exception"]
  /\ outcome' = [outcome EXCEPT ![x] = "none"]
  /\ UNCHANGED <<lockOf, memVars, execEvent, finished, threadVars, cancelAck>>

\* The thread of x ends; _wrapped takes back a worker id that is still its own.
Exit(x) ==
  /\ exec' = [exec EXCEPT ![x] = "none"]
  /\ execEvent' = [execEvent EXCEPT ![x] = 0]
  /\ outcome' = [outcome EXCEPT ![x] = "none"]
  /\ finished' = [finished EXCEPT ![x] = {}]

ForgetWorker(x) ==
  workerId' = [workerId EXCEPT ![x[1]] = IF @ = x[2] THEN 0 ELSE @]

\* The finally block: a replaced execution leaves everything as it is, ...
CloseReplaced(x) ==
  /\ exec[x] = "closing"
  /\ ~ActiveGeneration(x)
  /\ Exit(x)
  /\ ForgetWorker(x)
  /\ UNCHANGED <<dbVars, handle, stopEvent, fired, tokenHeld, queue,
                 sheetStart, threadVars, cancelAck>>

CloseActive(x) ==
  /\ ExecStep(x, "closing", "releasing")
  /\ ActiveGeneration(x)
  /\ UNCHANGED <<dbVars, memVars, workVars, threadVars, cancelAck>>

HandOver(t) == Held(t)

\* ... the active one remembers the locks it holds, then gives them up, ...
ReleaseResources(x) ==
  LET t == x[1] IN
  /\ ExecStep(x, "releasing", "cleanup")
  /\ finished' = [finished EXCEPT ![x] = HandOver(t)]
  /\ tokenHeld' = tokenHeld \ {t}
  /\ ReleaseSheets(Sheet, t)
  /\ UNCHANGED <<status, queued, dictVars, queue, sheetStart, execEvent,
                 outcome, threadVars, cancelAck>>

\* ... leaves the dictionaries (_cleanup_runtime_state), ...
Cleanup(x) ==
  LET t == x[1] IN
  /\ ExecStep(x, "cleanup", "relay")
  /\ handle' = [handle EXCEPT ![t] = 0]
  /\ stopEvent' = [stopEvent EXCEPT ![t] = 0]
  /\ UNCHANGED execEvent
  /\ ReachableFired(fired)
  /\ ForgetWorker(x)
  /\ UNCHANGED <<dbVars, tokenHeld, queue, sheetStart, outcome, finished,
                 threadVars, cancelAck>>

\* ... and, under sheet_start_lock, starts the oldest pending task that uses
\* one of the sheets it held, if there is one (_start_next_pending_task).
Waiting(x) ==
  {t \in Task \ {x[1]} : status[t] = "pending" /\ SheetsOf[t] \cap finished[x] # {}}

RelayNobody(x) ==
  /\ exec[x] = "relay"
  /\ sheetStart = None
  /\ Waiting(x) = {}
  /\ Exit(x)
  /\ ForgetWorker(x)
  /\ UNCHANGED <<dbVars, handle, stopEvent, fired, tokenHeld, queue,
                 sheetStart, threadVars, cancelAck>>

RelayNext(x) ==
  /\ ExecStep(x, "relay", "relaying")
  /\ sheetStart = None
  /\ \E t \in Waiting(x) :
       /\ \A u \in Waiting(x) : Rank[t] <= Rank[u]
       /\ MayStart(t)
       /\ Enter(x, t, "check")
  /\ sheetStart' = x
  /\ UNCHANGED <<dbVars, dictVars, tokenHeld, queue, workVars, cancelAck>>

\* start_task has returned; whatever it returned, nobody else is started.
RelayEnd(x) ==
  /\ exec[x] = "relaying"
  /\ pc[x] \in Returned
  /\ Goto(x, "idle")
  /\ sheetStart' = None
  /\ Exit(x)
  /\ ForgetWorker(x)
  /\ UNCHANGED <<dbVars, handle, stopEvent, fired, tokenHeld, queue, arg, slot,
                 cancelAck>>

ExecutionStep(x) ==
  \/ TaskMissing(x) \/ MarkTaskRunning(x) \/ FinishWork(x) \/ ReadVerdict(x)
  \/ WriteVerdict(x) \/ CloseReplaced(x) \/ CloseActive(x) \/ ReleaseResources(x)
  \/ Cleanup(x) \/ RelayNobody(x) \/ RelayNext(x) \/ RelayEnd(x)

-----------------------------------------------------------------------------
(* Requests of callers. *)

\* create_and_start_task: the row is there, for a relay too, before it is started.
\* Tasks are created in the order of their ranks.
RequestCreate(c) ==
  /\ "create" \in Requests[c]
  /\ pc[c] = "idle"
  /\ \E t \in Task :
       /\ status[t] = "absent"
       /\ \A u \in Task : Rank[u] < Rank[t] => status[u] # "absent"
       /\ MayStart(t)
       /\ status' = [status EXCEPT ![t] = "pending"]
       /\ Enter(c, t, "check")
  /\ UNCHANGED <<queued, lockOf, memVars, execVars, cancelAck>>

\* cancel_task, first half: the row is read and the registered event is set.
CancelRead(th, t, pendingPc, runningPc) ==
  /\ status[t] \in {"pending", "running"}
  /\ FireEvent(t)
  /\ Enter(th, t, IF status[t] = "pending" THEN pendingPc ELSE runningPc)

RequestCancel(c) ==
  /\ "cancel" \in Requests[c]
  /\ pc[c] = "idle"
  /\ \E t \in Task : CancelRead(c, t, "cancelPending", "cancelRunning")
  /\ UNCHANGED <<dbVars, handle, stopEvent, workerId, tokenHeld, queue,
                 sheetStart, execVars, cancelAck>>

\* Second half: the row says cancelled, whatever it said in between.
CancelWrite(c) ==
  LET t == arg[c]
      wasPending == pc[c] \in {"cancelPending", "stopPending"}
      byRestart == pc[c] \in {"stopPending", "stopRunning"} IN
  /\ pc[c] \in CancelPc
  /\ status' = [status EXCEPT ![t] = IF @ = "deleted" THEN @ ELSE "cancelled"]
  /\ tokenHeld' = IF wasPending THEN tokenHeld \ {t} ELSE tokenHeld
  /\ cancelAck' = IF status[t] = "deleted" THEN cancelAck ELSE cancelAck \cup {t}
  /\ IF byRestart THEN Goto(c, "join") /\ UNCHANGED <<arg, slot>>
                  ELSE Return(c, "idle")
  /\ UNCHANGED <<queued, lockOf, dictVars, queue, sheetStart, execVars>>

\* restart_task: refused for a running task whose thread is alive, unless its
\* log has been silent for task_status_check_timeout.
RequestRestart(c) ==
  /\ "restart" \in Requests[c]
  /\ pc[c] = "idle"
  /\ \E t \in Task :
       /\ status[t] \notin {"absent", "deleted"}
       /\ status[t] = "running" /\ HandleAlive(t) => "stall" \in Faults
       /\ MayStart(t)
       /\ Enter(c, t, "snapshot")
  /\ UNCHANGED <<dbVars, memVars, execVars, cancelAck>>

\* A registered execution is cancelled first; a task that is over is not.
RestartStops(c) ==
  LET t == arg[c] IN
  /\ pc[c] = "snapshot"
  /\ handle[t] # 0
  /\ CancelRead(c, t, "stopPending", "stopRunning")
  /\ UNCHANGED <<dbVars, handle, stopEvent, workerId, tokenHeld, queue,
                 sheetStart, execVars, cancelAck>>

RestartNothingToStop(c) ==
  LET t == arg[c] IN
  /\ Step(c, "snapshot", "join")
  /\ handle[t] = 0 \/ status[t] \notin {"pending", "running"}
  /\ UNCHANGED <<dbVars, memVars, execVars, cancelAck>>

\* After at most three seconds: still alive is a conflict.
RestartJoin(c) ==
  LET t == arg[c] IN
  /\ pc[c] = "join"
  /\ IF HandleAlive(t)
       THEN Return(c, "idle") /\ UNCHANGED stopEvent
       ELSE /\ Goto(c, "reset")
            /\ stopEvent' = [stopEvent EXCEPT ![t] = 0]
            /\ UNCHANGED <<arg, slot>>
  /\ UNCHANGED execVars
  /\ ReachableFired(fired)
  /\ UNCHANGED <<dbVars, handle, workerId, tokenHeld, queue, sheetStart,
                 cancelAck>>

\* From the checkpoint, or from the first step, which clears what the task
\* left behind: results, token occupancy and sheet execution locks.
RestartReset(c) ==
  LET t == arg[c] IN
  /\ pc[c] = "reset"
  /\ \/ UNCHANGED <<tokenHeld, lockOf>>
     \/ tokenHeld' = tokenHeld \ {t} /\ ReleaseSheets(Sheet, t)
  /\ IF status[t] = "deleted"
       THEN Return(c, "idle") /\ UNCHANGED <<status, queued, cancelAck>>
       ELSE /\ Goto(c, "check")
            /\ status' = [status EXCEPT ![t] = "pending"]
            /\ ClearQueueMark(t)
            /\ cancelAck' = cancelAck \ {t}
            /\ UNCHANGED <<arg, slot>>
  /\ UNCHANGED <<dictVars, queue, sheetStart, execVars>>

\* delete_task: the row and the locks go, and the token if the row said running; ...
RequestDelete(c) ==
  /\ "delete" \in Requests[c]
  /\ pc[c] = "idle"
  /\ \E t \in Task :
       /\ status[t] \notin {"absent", "deleted"}
       /\ status' = [status EXCEPT ![t] = "deleted"]
       /\ queued' = [queued EXCEPT ![t] = FALSE]
       /\ tokenHeld' = IF status[t] = "running" THEN tokenHeld \ {t} ELSE tokenHeld
       /\ ReleaseSheets(Sheet, t)
       /\ cancelAck' = cancelAck \ {t}
       /\ Enter(c, t, "popHandle")
  /\ UNCHANGED <<dictVars, queue, sheetStart, execVars>>

\* ... then the dictionaries forget the task and its event is set.
DeletePop(c) ==
  LET t == arg[c] IN
  /\ pc[c] = "popHandle"
  /\ handle' = [handle EXCEPT ![t] = 0]
  /\ stopEvent' = [stopEvent EXCEPT ![t] = 0]
  /\ UNCHANGED execVars
  /\ ReachableFired(fired \cup {<<t, n>> : n \in {stopEvent[t]} \ {0}})
  /\ Return(c, "idle")
  /\ UNCHANGED <<dbVars, workerId, tokenHeld, queue, sheetStart, cancelAck>>

Request(c) ==
  RequestCreate(c) \/ RequestCancel(c) \/ RequestRestart(c) \/ RequestDelete(c)

OperationStep(c) ==
  \/ CancelWrite(c) \/ RestartStops(c) \/ RestartNothingToStop(c) \/ RestartJoin(c)
  \/ RestartReset(c) \/ DeletePop(c)

-----------------------------------------------------------------------------
Next ==
  \/ Begin
  \/ \E x \in Exec : ExecutionStep(x)
  \/ \E th \in Thread : StartStep(th)
  \/ \E c \in Caller : Request(c) \/ OperationStep(c)

Spec == Init /\ [][Next]_vars

\* Threads run, services end, and a worker that waits for sheet_start_lock gets
\* it some time although others come and go before it. No request ever has to
\* be made.
Fairness ==
  /\ WF_vars(Begin)
  /\ \A x \in Exec : /\ WF_vars(ExecutionStep(x))
                     /\ SF_vars(RelayNobody(x) \/ RelayNext(x))
  /\ \A th \in Thread : WF_vars(StartStep(th))
  /\ \A c \in Caller : WF_vars(OperationStep(c))

FairSpec == Spec /\ Fairness

-----------------------------------------------------------------------------
(* Properties. *)

\* An execution whose thread has not yet given the task's resources up ...
Unreleased == {"queued", "begun", "working", "ended", "finalizing", "closing",
               "releasing"}
\* ... or has not yet left the dictionaries.
Handled == Unreleased \cup {"cleanup"}

Reserves(t) == \E th \in Thread : pc[th] \in Reserving /\ arg[th] = t
Executes(t) == \E n \in Slot : exec[<<t, n>>] \in Unreleased

\* While an execution works, every sheet of its task is locked for its task,
\* and it is the execution that running_tasks names, so that cancel, restart
\* and its own finally block find it. (A deleted task is outside: delete_task
\* takes the locks from under its thread.)
WorkingHoldsLocks ==
  \A x \in Exec :
    exec[x] = "working" /\ status[x[1]] # "deleted" =>
      SheetsOf[x[1]] \subseteq Held(x[1]) /\ handle[x[1]] = x[2]

\* Two executions never work on one sheet, and never for one task, at a time.
SheetExclusive ==
  \A x, y \in Exec :
    /\ x # y
    /\ exec[x] = "working" /\ status[x[1]] # "deleted"
    /\ exec[y] = "working" /\ status[y[1]] # "deleted"
    => x[1] # y[1] /\ SheetsOf[x[1]] \cap SheetsOf[y[1]] = {}

\* A lock always has someone who will release it: a start_task on its way, or
\* an execution that has not reached its release. Every way out of start_task
\* and of the worker's finally block is behind this.
NoLockLeak ==
  \A s \in Sheet : lockOf[s] # None => Reserves(lockOf[s]) \/ Executes(lockOf[s])

\* The same for the token occupancy, as long as the task is not deleted.
TokenAccounted ==
  \A t \in tokenHeld : status[t] # "deleted" => Reserves(t) \/ Executes(t)

\* A running row is being started or executed: nobody waits for a task that
\* the page shows as running and no thread works on.
RunningHasThread ==
  \A t \in Task : status[t] = "running" => Reserves(t) \/ Executes(t)

\* A task that still waits for a sheet has no execution: [SHEET_QUEUED] is
\* taken off by whoever starts the task.
QueuedNotExecuting ==
  \A t \in Task : queued[t] => ~Executes(t)

\* A task that waits for a sheet is taken up again: the end of the execution
\* that holds the sheet cannot be missed by a task that queues at that moment.
QueuedServed ==
  \A t \in Task : queued[t] /\ status[t] = "pending"
                ~> ~(queued[t] /\ status[t] = "pending")

\* No task keeps a sheet for ever.
LocksReleased ==
  \A s \in Sheet, t \in Task : lockOf[s] = t ~> lockOf[s] # t

\* Tasks that are there and whose execution works.
AtWork ==
  {t \in Task : status[t] # "deleted" /\ \E n \in Slot : exec[<<t, n>>] = "working"}

Mutex == INSTANCE SheetMutex WITH holder <- lockOf, using <- AtWork

\* The runtime implements the mutual exclusion its lock table stands for: whole
\* sets of sheets, taken at once, kept as long as an execution works, given up
\* by their holder only.
ImplementsSheetMutex == Mutex!MutexSpec

-----------------------------------------------------------------------------
(* What the code's own documentation says and the code does not keep. *)

\* "Locks are only taken on start_task's successful path and released by the
\* end of the thread or by the watchdog" (sheet_execution_lock_service.py):
\* whoever works on a sheet, for a deleted task too, has it locked.
LockedWhileThreadWorks ==
  \A x \in Exec : exec[x] = "working" => SheetsOf[x[1]] \subseteq Held(x[1])

\* "The cancel signal prevails over the result, so that the end of the thread
\* does not turn a cancelled task into a completed one" (runtime.py).
CancelNotOverwritten == \A t \in cancelAck : status[t] # "completed"

\* A queued task waits "for the relay at the end of the holder" (runtime.py):
\* when nothing is in progress any more, no task waits for a free sheet.
Quiescent ==
  /\ \A x \in Exec : exec[x] = "none"
  /\ \A th \in Thread : pc[th] = "idle"

WaiterHasHolder ==
  Quiescent => \A t \in Task : ~(queued[t] /\ status[t] = "pending")
=============================================================================
