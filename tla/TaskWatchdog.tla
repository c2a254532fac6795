---------------------------- MODULE TaskWatchdog ----------------------------
(***************************************************************************)
(* The watchdog (app/services/task_watchdog.py) over the task runtime: a   *)
(* thread that looks at running tasks whose log is silent, at tasks that   *)
(* ended in an error and at those whose last forced restart failed. It     *)
(* stops waiting for a hung thread, detaches it and starts the task again, *)
(* a limited number of times.                                              *)
(*                                                                         *)
(* The number of restarts is kept in memory and, after a failed one, in    *)
(* the error message, which the runtime overwrites for its own purposes.   *)
(***************************************************************************)
EXTENDS TaskRuntime

CONSTANTS
  Watchdog,     \* the thread of the watchdog
  Recent,       \* tasks created within WATCHED_TASK_CREATED_WITHIN_DAYS
  MaxAttempts,  \* watchdog_max_restart_attempts
  LateWake      \* assumption of this run: see Wakes

ASSUME WatchdogAssumption ==
  /\ Watchdog \in Daemon \ Caller
  /\ Recent \subseteq Task
  /\ MaxAttempts \in Nat \ {0}
  /\ LateWake \in BOOLEAN

VARIABLES
  watch,     \* what the watchdog is doing
  watched,   \* the task it does it to
  attempts,  \* _retry_restart_attempts
  note,      \* what it has written into Task.error_message
  restarts   \* bookkeeping of the model: restarts since the task last came to
             \* something, or since its user took it up again

watchVars == <<watch, watched, attempts, note, restarts>>
wvars     == <<vars, watchVars>>

-----------------------------------------------------------------------------
\* Any other error message, or none.
NoNote == [kind |-> "other", attempt |-> 0]
\* watchdog_restart_failed or [WATCHDOG_FORCE_RESTART], attempt=N/MAX
Failed(n) == [kind |-> "failed", attempt |-> n]
\* "watchdog has given up"
Abandoned == [kind |-> "abandoned", attempt |-> 0]

Settled == {"completed", "error", "cancelled", "deleted"}

WatchdogTypeOK ==
  /\ TypeOK
  /\ watch \in {"idle", "force", "restart", "forcing", "restarting"}
  /\ watched \in Task \cup {None}
  /\ attempts \in [Task -> 0..MaxAttempts]
  /\ note \in [Task -> {NoNote, Abandoned} \cup {Failed(n) : n \in 1..MaxAttempts}]
  /\ restarts \in [Task -> Nat]

WInit ==
  /\ Init
  /\ watch = "idle"
  /\ watched = None
  /\ attempts = [t \in Task |-> 0]
  /\ note = [t \in Task |-> NoNote]
  /\ restarts = [t \in Task |-> 0]

\* A forced restart counts as a start in MayStart from the wait on: while it
\* waits and detaches, the watchdog is where restart_task is when it joins and
\* resets.
Idle == pc[Watchdog] = "idle"
Back == watch' = "idle" /\ watched' = None
WriteNote(t, n) ==
  note' = [note EXCEPT ![t] = IF status[t] = "deleted" THEN @ ELSE n]
WriteStatus(t, s) ==
  status' = [status EXCEPT ![t] = IF @ = "deleted" THEN @ ELSE s]

-----------------------------------------------------------------------------
(* The tasks of a round (list_watchdog_tasks) and their order of treatment.  *)

\* No thread of the task is anywhere but in a call of its service or in the queue.
Hangs(t) == \A n \in Slot : exec[<<t, n>>] \in {"none", "queued", "working"}

\* A running task that has logged nothing for watchdog_log_timeout_minutes: its
\* thread hangs in a call, waits for a place in the pool, or does not exist.
SilentGone(t) == status[t] = "running" /\ ~HandleAlive(t) /\ Hangs(t)

Silent(t) ==
  /\ status[t] = "running"
  /\ ~\E th \in Thread : Starting(th) /\ arg[th] = t
  /\ Hangs(t)

Watched(t) ==
  /\ t \in Recent
  /\ \/ Silent(t)
     \/ status[t] = "error" /\ note[t] # Abandoned
     \/ status[t] = "cancelled" /\ note[t].kind = "failed"

\* The row is read once; what follows does not look at its status again.
Observe(t) ==
  /\ watch = "idle"
  /\ Watched(t)
  /\ watch' = IF status[t] = "error" THEN "restart" ELSE "force"
  /\ watched' = t
  /\ UNCHANGED <<vars, attempts, note, restarts>>

\* _next_restart_attempt: the larger of the two records counts.
PersistedOnly(t) == note[t].attempt
PriorAttempts(t) == IF attempts[t] > note[t].attempt THEN attempts[t] ELSE note[t].attempt

NextAttemptUnlimited(t) ==
  /\ attempts' = [attempts EXCEPT ![t] = PriorAttempts(t) + 1]
  /\ restarts' = [restarts EXCEPT ![t] = @ + 1]

NextAttempt(t) ==
  /\ PriorAttempts(t) < MaxAttempts
  /\ attempts' = [attempts EXCEPT ![t] = PriorAttempts(t) + 1]
  /\ restarts' = [restarts EXCEPT ![t] = @ + 1]

\* _abandon_task: an error the watchdog leaves alone from now on. Nothing is
\* written for a row that is gone, which is left at once.
ForgetAttempts(t) == attempts' = [attempts EXCEPT ![t] = 0]
Abandon ==
  /\ watch \in {"force", "restart"} /\ Idle
  /\ status[watched] = "deleted" \/ PriorAttempts(watched) >= MaxAttempts
  /\ WriteStatus(watched, "error")
  /\ queued' = [queued EXCEPT ![watched] = FALSE]
  /\ WriteNote(watched, Abandoned)
  /\ IF status[watched] = "deleted" THEN UNCHANGED attempts ELSE ForgetAttempts(watched)
  /\ Back
  /\ UNCHANGED <<lockOf, memVars, execVars, threadVars, cancelAck, restarts>>

-----------------------------------------------------------------------------
(* _restart_task_with_reason *)

\* A hung thread may come back at any time. When that is during the last steps of
\* the wait, or before the execution that replaces it has begun, it finds itself
\* in _active_worker_ids next to a live handle and takes itself for the active
\* one. Without LateWake a run assumes that a thread comes back early enough to
\* end within the wait, or when it has been replaced; with it, a run shows what
\* happens otherwise.
Replacing(t) == handle[t] # 0 /\ exec[<<t, handle[t]>>] \in {"registered", "queued"}
Wakes(x) == LateWake \/ ~(handle[x[1]] # x[2] /\ Replacing(x[1]))

\* The thread is told to stop; the watchdog waits for it, but not for long.
TellNobody(t) == UNCHANGED fired
TellThread(t) == FireEvent(t)

ForceRestart ==
  /\ watch = "force" /\ Idle
  /\ status[watched] # "deleted"
  /\ MayStart(watched)
  /\ NextAttempt(watched)
  /\ TellThread(watched)
  /\ Enter(Watchdog, watched, "join")
  /\ watch' = "forcing"
  /\ UNCHANGED <<dbVars, handle, stopEvent, workerId, tokenHeld, queue, sheetStart,
                 execVars, cancelAck, watched, note>>

\* force_detach_running_task, whether the thread has stopped or not.
Detach ==
  /\ watch = "forcing"
  /\ Step(Watchdog, "join", "reset")
  /\ LateWake \/ Hangs(watched)
  /\ handle' = [handle EXCEPT ![watched] = 0]
  /\ stopEvent' = [stopEvent EXCEPT ![watched] = 0]
  /\ UNCHANGED execVars
  /\ ReachableFired(fired)
  /\ UNCHANGED <<dbVars, workerId, tokenHeld, queue, sheetStart, cancelAck, watchVars>>

\* _prepare_task_for_force_restart: whatever the row says by now, it is pending;
\* one that is gone is left.
Prepare ==
  /\ watch = "forcing" /\ pc[Watchdog] = "reset"
  /\ IF status[watched] = "deleted"
       THEN Return(Watchdog, "idle") /\ Back /\ UNCHANGED <<dbVars, tokenHeld, note>>
       ELSE /\ Step(Watchdog, "reset", "check")
            /\ ReleaseSheets(Sheet, watched)
            /\ tokenHeld' = tokenHeld \ {watched}
            /\ status' = [status EXCEPT ![watched] = "pending"]
            /\ ClearQueueMark(watched)
            /\ note' = [note EXCEPT ![watched] = NoNote]
            /\ UNCHANGED <<watch, watched>>
  /\ UNCHANGED <<dictVars, queue, sheetStart, execVars, cancelAck, attempts, restarts>>

-----------------------------------------------------------------------------
(* _restart_error_task *)

\* restart_task refuses a task that runs again by now.
CanRestart(t) == ~(status[t] = "running" /\ HandleAlive(t))

CallRestart ==
  /\ watch = "restart" /\ Idle
  /\ status[watched] # "deleted"
  /\ MayStart(watched)
  /\ NextAttempt(watched)
  /\ watch' = "restarting"
  /\ IF CanRestart(watched) THEN Enter(Watchdog, watched, "snapshot")
                            ELSE UNCHANGED threadVars
  /\ UNCHANGED <<dbVars, memVars, execVars, cancelAck, watched, note>>

\* The steps of restart_task, from the checkpoint.
RestartTask ==
  /\ watch = "restarting"
  /\ \/ RestartStops(Watchdog) \/ RestartNothingToStop(Watchdog)
     \/ CancelWrite(Watchdog) \/ RestartJoin(Watchdog)
     \/ UNCHANGED <<tokenHeld, lockOf>> /\ RestartReset(Watchdog)
  /\ note' = [note EXCEPT ![watched] = IF pc'[Watchdog] = "check" THEN NoNote ELSE @]
  /\ UNCHANGED <<watch, watched, attempts, restarts>>

-----------------------------------------------------------------------------
(* After start_task or restart_task. *)

Done == Goto(Watchdog, "idle") /\ UNCHANGED <<arg, slot>>

\* _mark_restart_running: for the page, if the row still says pending.
Publish ==
  /\ watch \in {"forcing", "restarting"} /\ pc[Watchdog] = "started"
  /\ status' = [status EXCEPT ![watched] = IF @ = "pending" THEN "running" ELSE @]
  /\ Done /\ Back
  /\ UNCHANGED <<queued, lockOf, memVars, execVars, cancelAck, attempts, note, restarts>>

\* The sheet is busy: the relay of its holder takes over.
LeaveQueued ==
  /\ watch \in {"forcing", "restarting"} /\ pc[Watchdog] = "queued"
  /\ Done /\ Back
  /\ UNCHANGED <<dbVars, memVars, execVars, cancelAck, attempts, note, restarts>>

\* _mark_force_restart_failed and _mark_error_restart_failed keep the count in
\* the row: the one as cancelled, the other as an error.
RecordFailure ==
  /\ \/ watch = "forcing" /\ pc[Watchdog] = "rejected"
     \/ watch = "restarting" /\ pc[Watchdog] \in {"rejected", "idle"}
  /\ WriteStatus(watched, IF watch = "forcing" THEN "cancelled" ELSE "error")
  /\ queued' = [queued EXCEPT ![watched] = FALSE]
  /\ WriteNote(watched, Failed(attempts[watched]))
  /\ Done /\ Back
  /\ UNCHANGED <<lockOf, memVars, execVars, cancelAck, attempts, restarts>>

\* _prune_retry_attempt_cache, at the end of a round: a task that is over.
OutOfWatch(t) == t \notin Recent \/ status[t] \in {"completed", "deleted"}
Prune ==
  /\ watch = "idle"
  /\ \E t \in Task : OutOfWatch(t) /\ attempts[t] > 0
  /\ attempts' = [t \in Task |-> IF OutOfWatch(t) THEN 0 ELSE attempts[t]]
  /\ UNCHANGED <<vars, watch, watched, note, restarts>>

-----------------------------------------------------------------------------
(* The runtime goes on. *)

\* What the runtime writes over the note of the watchdog: the reset of a restart,
\* the queue mark, the message of an exception.
MessageReplaced(t) ==
  \/ status[t] # "pending" /\ status'[t] = "pending"
  \/ queued'[t] # queued[t]
  \/ \E n \in Slot : /\ exec[<<t, n>>] = "finalizing" /\ exec'[<<t, n>>] = "closing"
                     /\ outcome[<<t, n>>] = "exception"

\* The user has started the task again, it has come to its end, or a thread
\* that was given up has begun to work after all or has written its own error.
Renewed(t) ==
  \/ \E c \in Caller : pc[c] = "reset" /\ pc'[c] # "reset" /\ arg[c] = t
  \/ status'[t] = "completed"
  \/ note[t] = Abandoned /\ MessageReplaced(t)
  \/ note[t] = Abandoned /\ status[t] # "running" /\ status'[t] = "running"

Meanwhile ==
  /\ note' = [t \in Task |-> IF MessageReplaced(t) THEN NoNote ELSE note[t]]
  /\ restarts' = [t \in Task |-> IF Renewed(t) THEN 0 ELSE restarts[t]]
  /\ UNCHANGED <<watch, watched, attempts>>

PoolStep(x) == Wakes(x) /\ (ExecutionStep(x) \/ StartStep(x)) /\ Meanwhile
CallerStep(c) == (StartStep(c) \/ OperationStep(c)) /\ Meanwhile

RuntimeStep ==
  \/ Begin /\ Meanwhile
  \/ \E x \in Exec : PoolStep(x)
  \/ \E c \in Caller : CallerStep(c) \/ (Request(c) /\ Meanwhile)

WatchdogStep ==
  \/ Abandon \/ ForceRestart \/ Detach \/ Prepare
  \/ CallRestart \/ RestartTask \/ Publish \/ LeaveQueued \/ RecordFailure
  \/ StartStep(Watchdog) /\ Meanwhile

WNext ==
  \/ RuntimeStep
  \/ \E t \in Task : Observe(t)
  \/ WatchdogStep \/ Prune

WSpec == WInit /\ [][WNext]_wvars

\* As in the runtime, but a service may hang for ever; the watchdog runs, and
\* each of its rounds treats every task.
WFairness ==
  /\ WF_wvars(Begin /\ Meanwhile)
  /\ \A x \in Exec : WF_wvars(exec[x] # "working" /\ PoolStep(x))
  /\ \A c \in Caller : WF_wvars(CallerStep(c))
  /\ WF_wvars(WatchdogStep)
  /\ \A t \in Recent : SF_wvars(Observe(t))

FairWSpec == WSpec /\ WFairness

-----------------------------------------------------------------------------
(* Properties. *)

\* No task is restarted for ever: whatever the runtime makes of its message and
\* however its threads end, the watchdog starts it at most MaxAttempts times
\* before somebody else has taken care of it.
RestartsBounded == \A t \in Task : restarts[t] <= MaxAttempts

\* Its stop event is set: the thread ends when it looks at it next.
Told(x) == execEvent[x] # 0 /\ <<x[1], execEvent[x]>> \in fired
\* Detached before it began, it works with the event of another execution.
Misled(x) == execEvent[x] # x[2]

\* When two executions work on one sheet, because one of them hung and was
\* detached, one of the two has been told to stop.
OverlapIsEnding ==
  \A x, y \in Exec :
    /\ x # y
    /\ exec[x] = "working" /\ status[x[1]] # "deleted"
    /\ exec[y] = "working" /\ status[y[1]] # "deleted"
    /\ SheetsOf[x[1]] \cap SheetsOf[y[1]] # {}
    => Told(x) \/ Told(y) \/ Misled(x) \/ Misled(y)

\* The locks of a task that was given up, or that is too old to be watched, stay
\* with its hung thread.
BehindUnwatched(t) ==
  \E s \in SheetsOf[t] : lockOf[s] \notin {None, t}
                         /\ (note[lockOf[s]] = Abandoned \/ lockOf[s] \notin Recent)

\* The bound MaxExec keeps a thread from one more start; the code has none.
AtBound == \E th \in Thread : pc[th] = "admit" /\ FreeSlots(arg[th]) = {}

\* A running task comes to its end, even if none of its threads ever does: it is
\* settled, given up, or waits for a sheet of a task nobody looks after.
HungTaskSettles ==
  \A t \in Recent : status[t] = "running"
                     ~> status[t] \in Settled \/ BehindUnwatched(t) \/ AtBound

\* "An old thread that wakes when its network call returns must not overwrite the
\* status of the task any more, or release what the new generation occupies"
\* (runtime.py): a thread that settles the task is the registered one, if there
\* is one.
ReplacedKeepsOut ==
  \A x \in Exec :
    exec[x] \in {"finalizing", "releasing"} => handle[x[1]] \in {0, x[2]}
=============================================================================
