------------------------- MODULE TaskWatchdogProofs -------------------------
(***************************************************************************)
(* Proofs about the watchdog over the task runtime, for any tasks, threads *)
(* and number of attempts.                                                 *)
(*                                                                         *)
(* RestartsBounded speaks of a bookkeeping variable of the model, the      *)
(* restarts since the task last came to something; the code has only its   *)
(* count in memory and the note in the row, which the runtime overwrites.  *)
(* The invariant relates them: the count in memory is never below the      *)
(* bookkeeping, but for a task whose row is gone or that was given up and  *)
(* says so. It needs to know where in a restart the watchdog is, since     *)
(* what the row says at that time will not be what it says in the end, and *)
(* that no step of the runtime brings back a row that is gone or takes     *)
(* the note of a given up task away without taking up the task.            *)
(*                                                                         *)
(* OverlapIsEnding speaks of two executions of one sheet, one of them      *)
(* detached. The second invariant, OverlapInv, drops what the runtime      *)
(* alone guarantees, that an execution is the registered one until it      *)
(* leaves the dictionaries, and says instead what remains true once the    *)
(* watchdog may detach: what the registered execution has, how one that    *)
(* is not registered any more comes to its end, and what a thread that     *)
(* starts the task again may rely on.                                      *)
(***************************************************************************)
EXTENDS TaskWatchdog, TaskRuntimeProofs

-----------------------------------------------------------------------------
(* The inductive invariant. *)

\* The variables of the watchdog have their types.
WatchTyped ==
  /\ watch \in {"idle", "force", "restart", "forcing", "restarting"}
  /\ watched \in Task \cup {None}
  /\ attempts \in [Task -> 0..MaxAttempts]
  /\ note \in [Task -> {NoNote, Abandoned} \cup {Failed(n) : n \in 1..MaxAttempts}]
  /\ restarts \in [Task -> Nat]

\* Inside restart_task, before the row is reset.
Stopping == {"snapshot", "stopPending", "stopRunning", "join", "reset"}

\* The watchdog is where its own variables say, and at the task they say. A
\* restart that has begun is counted.
AtWatched ==
  /\ watch = "idle" <=> watched = None
  /\ watch # "idle" => watched \in Recent
  /\ watch \in {"idle", "force", "restart"} => pc[Watchdog] = "idle"
  /\ watch = "forcing" => pc[Watchdog] \in {"join", "reset"} \cup StartPc \cup Returned
  /\ watch = "restarting" =>
       pc[Watchdog] \in Stopping \cup StartPc \cup Returned \cup {"idle"}
  /\ pc[Watchdog] \notin {"idle"} \cup Returned => arg[Watchdog] = watched
  /\ watch \in {"forcing", "restarting"} => attempts[watched] > 0

\* A task that was given up is not watched, until its row says running again.
LeftAlone(t) == note[t] = Abandoned /\ status[t] # "running" /\ watched # t

\* What the row says now will not be what it says when the watchdog leaves it.
Unreset(t) ==
  /\ watched = t
  /\ \/ watch = "forcing" /\ pc[Watchdog] \in {"join", "reset"}
     \/ watch = "restarting" /\ pc[Watchdog] \in Stopping \cup {"idle"}

\* The memory of the watchdog counts every restart of a task it may restart
\* again; where it forgets the count nothing is left to count.
Counted(t) ==
  /\ restarts[t] <= MaxAttempts
  /\ t \notin Recent => restarts[t] = 0
  /\ restarts[t] <= attempts[t] \/ status[t] = "deleted" \/ LeftAlone(t)
  /\ status[t] = "completed" => restarts[t] = 0 \/ Unreset(t)

WatchInv == Typed /\ WatchTyped /\ AtWatched /\ \A t \in Task : Counted(t)

-----------------------------------------------------------------------------
(* What a step of the runtime leaves alone. *)

LEMMA WatchdogThread ==
  Watchdog \in Thread /\ Watchdog \notin Exec /\ Watchdog \notin Caller
BY WatchdogAssumption, ConstantsAssumption DEF Thread

\* A step of one thread moves no other.
StaysAt(ti) == pc'[ti] = pc[ti] /\ arg'[ti] = arg[ti]

LEMMA StepStays ==
  ASSUME Typed, NEW th \in Thread, NEW ti \in Thread \ {th},
         NEW from, NEW to, Step(th, from, to)
  PROVE  StaysAt(ti)
BY DEF Typed, ThreadsTyped, Step, Goto, StaysAt

LEMMA EnterStays ==
  ASSUME Typed, NEW th \in Thread, NEW ti \in Thread \ {th}, NEW t, NEW to, Enter(th, t, to)
  PROVE  StaysAt(ti)
BY DEF Typed, ThreadsTyped, Enter, Goto, StaysAt

LEMMA ReturnStays ==
  ASSUME Typed, NEW th \in Thread, NEW ti \in Thread \ {th}, NEW result, Return(th, result)
  PROVE  StaysAt(ti)
BY DEF Typed, ThreadsTyped, Return, Goto, StaysAt

LEMMA GotoStays ==
  ASSUME Typed, NEW th \in Thread, NEW ti \in Thread \ {th}, NEW to, Goto(th, to), arg' = arg
  PROVE  StaysAt(ti)
BY DEF Typed, ThreadsTyped, Goto, StaysAt

LEMMA StartStays ==
  ASSUME Typed, NEW th \in Thread, NEW ti \in Thread \ {th}, StartStep(th)
  PROVE  StaysAt(ti)
<1>1. CASE CheckHandle(th)
  BY <1>1, ReturnStays, GotoStays DEF CheckHandle
<1>2. CASE ReadTask(th)
  BY <1>2, ReturnStays, GotoStays DEF ReadTask
<1>3. CASE QueueForSheet(th) \/ MarkRunningTooLate(th) \/ Enqueue(th) \/ Rollback(th)
  BY <1>3, ReturnStays DEF QueueForSheet, MarkRunningTooLate, Enqueue, Rollback
<1>4. CASE AcquireSheets(th) \/ ValidateFails(th) \/ MarkRunning(th) \/ TakeToken(th)
           \/ TokenFails(th) \/ RejectForQuota(th) \/ Register(th) \/ SubmitFails(th)
  BY <1>4, StepStays DEF AcquireSheets, ValidateFails, MarkRunning, TakeToken,
     TokenFails, RejectForQuota, Register, SubmitFails
<1>5. CASE Admit(th)
  BY <1>5, GotoStays DEF Admit
<1> QED
  BY <1>1, <1>2, <1>3, <1>4, <1>5 DEF StartStep

LEMMA CallerStays ==
  ASSUME Typed, NEW th \in Thread, NEW ti \in Thread \ {th},
         Request(th) \/ OperationStep(th)
  PROVE  StaysAt(ti)
<1>1. CASE RequestCreate(th) \/ RequestRestart(th) \/ RequestDelete(th)
  BY <1>1, EnterStays DEF RequestCreate, RequestRestart, RequestDelete
<1>2. CASE RequestCancel(th) \/ RestartStops(th)
  BY <1>2, EnterStays DEF RequestCancel, RestartStops, CancelRead
<1>3. CASE CancelWrite(th)
  BY <1>3, ReturnStays, GotoStays DEF CancelWrite
<1>4. CASE RestartNothingToStop(th)
  BY <1>4, StepStays DEF RestartNothingToStop
<1>5. CASE RestartJoin(th)
  BY <1>5, ReturnStays, GotoStays DEF RestartJoin
<1>6. CASE RestartReset(th)
  BY <1>6, ReturnStays, GotoStays DEF RestartReset
<1>7. CASE DeletePop(th)
  BY <1>7, ReturnStays DEF DeletePop
<1> QED
  BY <1>1, <1>2, <1>3, <1>4, <1>5, <1>6, <1>7 DEF Request, OperationStep

LEMMA ExecutionStays ==
  ASSUME Typed, NEW x \in Exec, NEW ti \in Thread \ {x}, ExecutionStep(x)
  PROVE  StaysAt(ti)
<1>0. x \in Thread
  BY DEF Thread
<1>1. CASE RelayNext(x)
  BY <1>0, <1>1, EnterStays DEF RelayNext
<1>2. CASE RelayEnd(x)
  BY <1>0, <1>2, GotoStays DEF RelayEnd
<1>3. CASE ~RelayNext(x) /\ ~RelayEnd(x)
  BY <1>3 DEF ExecutionStep, TaskMissing, MarkTaskRunning, FinishWork, ReadVerdict,
     WriteVerdict, CloseReplaced, CloseActive, ReleaseResources, Cleanup, RelayNobody,
     threadVars, StaysAt
<1> QED
  BY <1>1, <1>2, <1>3

\* A row that is gone stays so.
StaysDeleted == \A t \in Task : status[t] = "deleted" => status'[t] = "deleted"

LEMMA StartKeepsDeleted == ASSUME Typed, NEW th \in Thread, StartStep(th) PROVE StaysDeleted
<1>0. status \in [Task -> Status]
  BY DEF Typed, DbTyped
<1>1. CASE MarkRunning(th)
  BY <1>0, <1>1 DEF MarkRunning, StaysDeleted
<1>2. CASE Rollback(th)
  BY <1>0, <1>2 DEF Rollback, RevertRunning, StaysDeleted
<1>3. CASE ~MarkRunning(th) /\ ~Rollback(th)
  <2>1. status' = status
    BY <1>3 DEF StartStep, CheckHandle, ReadTask, QueueForSheet, AcquireSheets, ValidateFails,
       MarkRunningTooLate, TakeToken, TokenFails, RejectForQuota, Admit, Register, Enqueue,
       SubmitFails, dbVars
  <2> QED
    BY <2>1 DEF StaysDeleted
<1> QED
  BY <1>1, <1>2, <1>3

LEMMA CallerKeepsDeleted ==
  ASSUME Typed, NEW th \in Thread, Request(th) \/ OperationStep(th)
  PROVE  StaysDeleted
<1>0. status \in [Task -> Status]
  BY DEF Typed, DbTyped
<1>1. CASE RequestCreate(th)
  BY <1>0, <1>1 DEF RequestCreate, StaysDeleted
<1>2. CASE RequestDelete(th)
  BY <1>0, <1>2 DEF RequestDelete, StaysDeleted
<1>3. CASE CancelWrite(th)
  BY <1>0, <1>3 DEF CancelWrite, StaysDeleted
<1>4. CASE RestartReset(th)
  BY <1>0, <1>4 DEF RestartReset, StaysDeleted
<1>5. CASE RequestCancel(th) \/ RequestRestart(th) \/ RestartStops(th)
           \/ RestartNothingToStop(th) \/ RestartJoin(th) \/ DeletePop(th)
  <2>1. status' = status
    BY <1>5 DEF RequestCancel, RequestRestart, RestartStops, RestartNothingToStop, RestartJoin,
       DeletePop, dbVars
  <2> QED
    BY <2>1 DEF StaysDeleted
<1> QED
  BY <1>1, <1>2, <1>3, <1>4, <1>5 DEF Request, OperationStep

LEMMA ExecutionKeepsDeleted ==
  ASSUME Typed, NEW x \in Exec, ExecutionStep(x)
  PROVE  StaysDeleted
<1>0. status \in [Task -> Status]
  BY DEF Typed, DbTyped
<1>1. CASE MarkTaskRunning(x)
  BY <1>0, <1>1 DEF MarkTaskRunning, StaysDeleted
<1>2. CASE WriteVerdict(x)
  BY <1>0, <1>2 DEF WriteVerdict, StaysDeleted
<1>3. CASE ~MarkTaskRunning(x) /\ ~WriteVerdict(x)
  <2>1. status' = status
    BY <1>3 DEF ExecutionStep, TaskMissing, FinishWork, ReadVerdict, CloseReplaced,
       CloseActive, ReleaseResources, Cleanup, RelayNobody, RelayNext, RelayEnd, dbVars
  <2> QED
    BY <2>1 DEF StaysDeleted
<1> QED
  BY <1>1, <1>2, <1>3

-----------------------------------------------------------------------------
(* The runtime goes on: the message of a task that was given up is replaced only *)
(* by somebody who takes the task up again.                                      *)

LEMMA MeanwhileKeeps ==
  ASSUME WatchTyped, \A t \in Task : Counted(t), Meanwhile, StaysDeleted
  PROVE  WatchTyped' /\ \A t \in Task : Counted(t)'
<1>1. /\ note' = [t \in Task |-> IF MessageReplaced(t) THEN NoNote ELSE note[t]]
      /\ restarts' = [t \in Task |-> IF Renewed(t) THEN 0 ELSE restarts[t]]
      /\ UNCHANGED <<watch, watched, attempts>>
  BY DEF Meanwhile
<1>2. WatchTyped'
  <2>1. restarts' \in [Task -> Nat]
    BY <1>1 DEF WatchTyped
  <2>2. note' \in [Task -> {NoNote, Abandoned} \cup {Failed(n) : n \in 1..MaxAttempts}]
    <3> DEFINE Notes == {NoNote, Abandoned} \cup {Failed(n) : n \in 1..MaxAttempts}
    <3>1. NoNote \in Notes /\ note \in [Task -> Notes]
      BY DEF WatchTyped
    <3> HIDE DEF Notes
    <3>2. note' \in [Task -> Notes]
      BY <1>1, <3>1
    <3> QED
      BY <3>2 DEF Notes
  <2> QED
    BY <1>1, <2>1, <2>2 DEF WatchTyped, NoNote, Abandoned, Failed
<1>3. ASSUME NEW t \in Task PROVE Counted(t)'
  <2>1. /\ note'[t] = IF MessageReplaced(t) THEN NoNote ELSE note[t]
        /\ restarts'[t] = IF Renewed(t) THEN 0 ELSE restarts[t]
        /\ attempts[t] \in Nat /\ restarts[t] \in Nat /\ MaxAttempts \in Nat
    BY <1>1, WatchdogAssumption DEF WatchTyped
  <2>2. CASE Renewed(t)
    BY <1>1, <2>1, <2>2 DEF Counted
  <2>3. CASE ~Renewed(t)
    <3>1. /\ status'[t] # "completed"
          /\ note[t] = Abandoned => ~MessageReplaced(t)
          /\ note[t] = Abandoned /\ status[t] # "running" => status'[t] # "running"
      BY <2>3 DEF Renewed
    <3>2. restarts'[t] = restarts[t] /\ attempts' = attempts /\ watched' = watched
      BY <1>1, <2>1, <2>3
    <3>3. LeftAlone(t) => LeftAlone(t)'
      BY <2>1, <3>1, <3>2 DEF LeftAlone, Abandoned
    <3> QED
      BY <3>1, <3>2, <3>3 DEF Counted, StaysDeleted
  <2> QED
    BY <2>2, <2>3
<1> QED
  BY <1>2, <1>3

\* Steps of other threads leave the watchdog where it is.
LEMMA RuntimeKeeps == ASSUME WatchInv, RuntimeStep PROVE WatchInv'
<1>1. Typed /\ WatchTyped /\ AtWatched /\ (\A t \in Task : Counted(t)) /\ Meanwhile
  BY DEF WatchInv, RuntimeStep, PoolStep, CallerStep
<1>2. Typed' /\ StaysDeleted /\ StaysAt(Watchdog)
  <2>1. CASE Begin
    BY <1>1, <2>1, BeginTyped DEF Begin, dbVars, threadVars, StaysDeleted, StaysAt
  <2>2. ASSUME NEW x \in Exec, ExecutionStep(x) PROVE Typed' /\ StaysDeleted /\ StaysAt(Watchdog)
    BY <1>1, <2>2, ExecutionTyped, ExecutionKeepsDeleted, ExecutionStays, WatchdogThread
  <2>3. ASSUME NEW th \in Thread \ {Watchdog}, StartStep(th)
        PROVE  Typed' /\ StaysDeleted /\ StaysAt(Watchdog)
    BY <1>1, <2>3, StartTyped, StartKeepsDeleted, StartStays, WatchdogThread
  <2>4. ASSUME NEW th \in Thread \ {Watchdog}, Request(th) \/ OperationStep(th)
        PROVE  Typed' /\ StaysDeleted /\ StaysAt(Watchdog)
    BY <1>1, <2>4, CallerTyped, CallerKeepsDeleted, CallerStays, WatchdogThread
  <2>5. Exec \subseteq Thread \ {Watchdog} /\ Caller \subseteq Thread \ {Watchdog}
    BY WatchdogThread DEF Thread
  <2> QED
    BY <2>1, <2>2, <2>3, <2>4, <2>5 DEF RuntimeStep, PoolStep, CallerStep
<1>3. WatchTyped' /\ \A t \in Task : Counted(t)'
  BY <1>1, <1>2, MeanwhileKeeps
<1>4. AtWatched'
  BY <1>1, <1>2 DEF Meanwhile, AtWatched, StaysAt
<1> QED
  BY <1>2, <1>3, <1>4 DEF WatchInv

\* Inside start_task the watchdog keeps to its task.
LEMMA WatchdogStarts == ASSUME WatchInv, StartStep(Watchdog), Meanwhile PROVE WatchInv'
<1>1. Typed /\ WatchTyped /\ AtWatched /\ (\A t \in Task : Counted(t))
  BY DEF WatchInv
<1>2. Typed' /\ StaysDeleted
  BY <1>1, StartTyped, StartKeepsDeleted, WatchdogThread
<1>3. WatchTyped' /\ \A t \in Task : Counted(t)'
  BY <1>1, <1>2, MeanwhileKeeps
<1>4. /\ pc[Watchdog] \in StartPc
      /\ \/ pc'[Watchdog] \in Returned
         \/ pc'[Watchdog] \in StartPc /\ arg'[Watchdog] = arg[Watchdog]
  <2>1. pc \in [Thread -> Pc] /\ Watchdog \in Thread /\ Watchdog \notin Caller
    BY <1>1, WatchdogThread DEF Typed, ThreadsTyped
  <2> QED
    BY <2>1 DEF StartStep, CheckHandle, ReadTask, QueueForSheet, AcquireSheets, ValidateFails,
       MarkRunning, MarkRunningTooLate, TakeToken, TokenFails, RejectForQuota, Admit, Register,
       Enqueue, SubmitFails, Rollback, Step, Goto, Return, StartPc, Returned
<1>5. AtWatched'
  <2>1. UNCHANGED <<watch, watched, attempts>>
    BY DEF Meanwhile
  <2>2. watch \in {"forcing", "restarting"}
    BY <1>1, <1>4 DEF AtWatched, WatchTyped, StartPc
  <2> QED
    BY <1>1, <1>4, <2>1, <2>2 DEF AtWatched, StartPc, Returned
<1> QED
  BY <1>2, <1>3, <1>5 DEF WatchInv

-----------------------------------------------------------------------------
(* The steps of the watchdog itself. *)

\* A note says how often at most, and that a task was given up says nothing else.
LEMMA NoteSays ==
  ASSUME WatchTyped, NEW t \in Task
  PROVE  /\ note[t].attempt \in 0..MaxAttempts
         /\ note[t] = Abandoned => note[t].kind # "failed"
         /\ attempts[t] \in 0..MaxAttempts /\ restarts[t] \in Nat
         /\ PriorAttempts(t) \in Nat /\ PriorAttempts(t) >= attempts[t]
<1>1. note[t] \in {NoNote, Abandoned} \cup {Failed(n) : n \in 1..MaxAttempts}
      /\ attempts[t] \in 0..MaxAttempts /\ restarts[t] \in Nat /\ MaxAttempts \in Nat \ {0}
  BY WatchdogAssumption DEF WatchTyped
<1>2. note[t].attempt \in 0..MaxAttempts /\ (note[t] = Abandoned => note[t].kind # "failed")
  BY <1>1 DEF NoNote, Abandoned, Failed
<1>3. PriorAttempts(t) \in Nat /\ PriorAttempts(t) >= attempts[t]
  BY <1>1, <1>2 DEF PriorAttempts
<1> QED
  BY <1>1, <1>2, <1>3

LEMMA WatchedTask ==
  ASSUME WatchTyped, AtWatched, watch # "idle"
  PROVE  watched \in Task /\ watched # None
BY WatchdogAssumption, ConstantsAssumption DEF WatchTyped, AtWatched

\* A step that writes to the row and the note of the watched task, if any, and
\* counts nothing: the other tasks are as they were.
LEMMA OthersCounted ==
  ASSUME WatchTyped, NEW t \in Task, Counted(t), t # watched,
         status'[t] = status[t], note'[t] = note[t], attempts'[t] = attempts[t],
         restarts'[t] = restarts[t], watched' # t
  PROVE  Counted(t)'
BY DEF Counted, LeftAlone, Unreset, Abandoned

\* What is watched is counted in memory.
LEMMA WatchedCounted ==
  ASSUME WatchTyped, AtWatched, watch # "idle", Counted(watched), status[watched] # "deleted"
  PROVE  restarts[watched] <= attempts[watched]
BY DEF Counted, LeftAlone

LEMMA ObserveKeeps == ASSUME WatchInv, NEW t \in Task, Observe(t) PROVE WatchInv'
<1>1. /\ watch = "idle" /\ Watched(t) /\ watched' = t /\ watch' \in {"restart", "force"}
      /\ UNCHANGED <<vars, attempts, note, restarts>>
      /\ Typed /\ WatchTyped /\ AtWatched /\ \A u \in Task : Counted(u)
  BY DEF Observe, WatchInv
<1>2. UNCHANGED <<status, pc, arg>> /\ Typed'
  BY <1>1 DEF vars, dbVars, memVars, dictVars, execVars, workVars, threadVars, Typed,
     DbTyped, DictsTyped, RestTyped, ExecTyped, ThreadsTyped
<1>3. WatchTyped'
  BY <1>1 DEF WatchTyped, NoNote, Abandoned, Failed
<1>4. AtWatched'
  <2>1. t \in Recent /\ t # None
    BY <1>1, ConstantsAssumption DEF Watched
  <2> QED
    BY <1>1, <1>2, <2>1 DEF AtWatched
<1>5. ASSUME NEW u \in Task PROVE Counted(u)'
  <2>1. watched = None /\ u # None
    BY <1>1, ConstantsAssumption DEF AtWatched
  <2>2. ~Unreset(u)
    BY <2>1 DEF Unreset
  <2>3. CASE u # t
    BY <1>1, <1>2, <2>1, <2>3, OthersCounted
  <2>4. CASE u = t
    <3>1. status[u] # "deleted" /\ ~LeftAlone(u)
      BY <1>1, <2>4, NoteSays DEF Watched, Silent, LeftAlone
    <3> QED
      BY <1>1, <1>2, <2>2, <3>1 DEF Counted
  <2> QED
    BY <2>3, <2>4
<1> QED
  BY <1>2, <1>3, <1>4, <1>5 DEF WatchInv

\* The count goes up in memory when a restart is counted.
LEMMA AttemptCounts ==
  ASSUME WatchTyped, AtWatched, watch # "idle", \A t \in Task : Counted(t),
         status[watched] # "deleted", NextAttempt(watched)
  PROVE  /\ attempts' \in [Task -> 0..MaxAttempts] /\ restarts' \in [Task -> Nat]
         /\ attempts'[watched] > 0 /\ restarts'[watched] <= attempts'[watched]
         /\ \A t \in Task : t # watched => attempts'[t] = attempts[t] /\ restarts'[t] = restarts[t]
<1>1. /\ watched \in Task /\ PriorAttempts(watched) \in Nat
      /\ PriorAttempts(watched) >= attempts[watched] /\ restarts[watched] \in Nat
      /\ attempts[watched] \in Nat /\ MaxAttempts \in Nat
      /\ restarts[watched] <= attempts[watched] /\ PriorAttempts(watched) < MaxAttempts
  BY WatchedTask, NoteSays, WatchedCounted, WatchdogAssumption DEF NextAttempt
<1> DEFINE n == PriorAttempts(watched) + 1
<1>2. n \in 0..MaxAttempts /\ n > 0 /\ restarts[watched] + 1 <= n /\ restarts[watched] + 1 \in Nat
  BY <1>1
<1>3. /\ attempts' = [attempts EXCEPT ![watched] = n]
      /\ restarts' = [restarts EXCEPT ![watched] = restarts[watched] + 1]
      /\ attempts \in [Task -> 0..MaxAttempts] /\ restarts \in [Task -> Nat]
  BY DEF NextAttempt, WatchTyped
<1> HIDE DEF n
<1>4. attempts' \in [Task -> 0..MaxAttempts] /\ restarts' \in [Task -> Nat]
  BY <1>2, <1>3
<1>5. attempts'[watched] = n /\ restarts'[watched] = restarts[watched] + 1
  BY <1>1, <1>3
<1>6. \A t \in Task : t # watched => attempts'[t] = attempts[t] /\ restarts'[t] = restarts[t]
  BY <1>3
<1> QED
  BY <1>2, <1>4, <1>5, <1>6

LEMMA ForceRestartKeeps == ASSUME WatchInv, ForceRestart PROVE WatchInv'
<1>1. /\ watch = "force" /\ pc[Watchdog] = "idle" /\ status[watched] # "deleted"
      /\ NextAttempt(watched) /\ FireEvent(watched) /\ Enter(Watchdog, watched, "join")
      /\ watch' = "forcing"
      /\ UNCHANGED <<dbVars, handle, stopEvent, workerId, tokenHeld, queue, sheetStart,
                     execVars, cancelAck, watched, note>>
      /\ Typed /\ WatchTyped /\ AtWatched /\ \A u \in Task : Counted(u)
  BY DEF ForceRestart, WatchInv, Idle, TellThread
<1>2. watched \in Task /\ watched # None /\ Watchdog \in Thread
  BY <1>1, WatchedTask, WatchdogThread
<1>3. Typed'
  <2>1. DbTyped' /\ RestTyped' /\ ExecTyped'
    BY <1>1 DEF Typed, DbTyped, RestTyped, ExecTyped, dbVars, execVars, workVars
  <2>2. DictsTyped'
    BY <1>1, <1>2 DEF Typed, DictsTyped, FireEvent, Exec, Slot
  <2>3. ThreadsTyped'
    BY <1>1, <1>2, EnterTyped DEF Typed, Pc, RestartPc
  <2> QED
    BY <2>1, <2>2, <2>3 DEF Typed
<1>4. /\ attempts' \in [Task -> 0..MaxAttempts] /\ restarts' \in [Task -> Nat]
      /\ attempts'[watched] > 0 /\ restarts'[watched] <= attempts'[watched]
      /\ \A t \in Task : t # watched => attempts'[t] = attempts[t] /\ restarts'[t] = restarts[t]
  BY <1>1, AttemptCounts
<1>5. WatchTyped'
  BY <1>1, <1>4 DEF WatchTyped, NoNote, Abandoned, Failed
<1>6. pc'[Watchdog] = "join" /\ arg'[Watchdog] = watched
  BY <1>1, <1>2 DEF Enter, Goto, Typed, ThreadsTyped
<1>7. AtWatched'
  BY <1>1, <1>2, <1>4, <1>6 DEF AtWatched
<1>8. ASSUME NEW u \in Task PROVE Counted(u)'
  <2>1. CASE u # watched
    BY <1>1, <1>4, <2>1, OthersCounted DEF dbVars
  <2>2. CASE u = watched
    <3>1. watched' = watched /\ status' = status
      BY <1>1 DEF dbVars
    <3>2. Unreset(u)'
      BY <1>1, <1>6, <2>2, <3>1 DEF Unreset
    <3>3. restarts'[u] <= MaxAttempts /\ restarts'[u] <= attempts'[u]
      BY <1>4, <2>2, WatchdogAssumption
    <3>4. u \in Recent
      BY <1>1, <2>2 DEF AtWatched
    <3> QED
      BY <3>2, <3>3, <3>4 DEF Counted
  <2> QED
    BY <2>1, <2>2
<1> QED
  BY <1>3, <1>5, <1>7, <1>8 DEF WatchInv

LEMMA CallRestartKeeps == ASSUME WatchInv, CallRestart PROVE WatchInv'
<1>1. /\ watch = "restart" /\ pc[Watchdog] = "idle" /\ status[watched] # "deleted"
      /\ NextAttempt(watched) /\ watch' = "restarting"
      /\ Enter(Watchdog, watched, "snapshot") \/ UNCHANGED threadVars
      /\ UNCHANGED <<dbVars, memVars, execVars, cancelAck, watched, note>>
      /\ Typed /\ WatchTyped /\ AtWatched /\ \A u \in Task : Counted(u)
  BY DEF CallRestart, WatchInv, Idle
<1>2. watched \in Task /\ watched # None /\ Watchdog \in Thread
  BY <1>1, WatchedTask, WatchdogThread
<1>3. Typed'
  <2>1. DbTyped' /\ RestTyped' /\ ExecTyped' /\ DictsTyped'
    BY <1>1 DEF Typed, DbTyped, RestTyped, ExecTyped, DictsTyped, dbVars, memVars, dictVars,
       execVars, workVars
  <2>2. ThreadsTyped'
    BY <1>1, <1>2, EnterTyped DEF Typed, Pc, RestartPc, threadVars, ThreadsTyped
  <2> QED
    BY <2>1, <2>2 DEF Typed
<1>4. /\ attempts' \in [Task -> 0..MaxAttempts] /\ restarts' \in [Task -> Nat]
      /\ attempts'[watched] > 0 /\ restarts'[watched] <= attempts'[watched]
      /\ \A t \in Task : t # watched => attempts'[t] = attempts[t] /\ restarts'[t] = restarts[t]
  BY <1>1, AttemptCounts
<1>5. WatchTyped'
  BY <1>1, <1>4 DEF WatchTyped, NoNote, Abandoned, Failed
<1>6. pc'[Watchdog] \in {"idle", "snapshot"} /\ (pc'[Watchdog] # "idle" => arg'[Watchdog] = watched)
  BY <1>1, <1>2 DEF Enter, Goto, Typed, ThreadsTyped, threadVars
<1>7. AtWatched'
  BY <1>1, <1>2, <1>4, <1>6 DEF AtWatched, Stopping
<1>8. ASSUME NEW u \in Task PROVE Counted(u)'
  <2>1. CASE u # watched
    BY <1>1, <1>4, <2>1, OthersCounted DEF dbVars
  <2>2. CASE u = watched
    <3>1. watched' = watched /\ status' = status
      BY <1>1 DEF dbVars
    <3>2. Unreset(u)'
      BY <1>1, <1>6, <2>2, <3>1 DEF Unreset, Stopping
    <3>3. restarts'[u] <= MaxAttempts /\ restarts'[u] <= attempts'[u]
      BY <1>4, <2>2, WatchdogAssumption
    <3>4. u \in Recent
      BY <1>1, <2>2 DEF AtWatched
    <3> QED
      BY <3>2, <3>3, <3>4 DEF Counted
  <2> QED
    BY <2>1, <2>2
<1> QED
  BY <1>3, <1>5, <1>7, <1>8 DEF WatchInv

\* The watchdog writes to the row and the note of its task, and leaves the counts.
\* Nothing counts beyond memory, but a task that is gone or was given up.
LEMMA WatchedKeeps ==
  ASSUME WatchInv, NEW w \in Task, w = watched,
         UNCHANGED <<attempts, restarts>>, StaysDeleted, watched' \in {w, None},
         \A t \in Task : t # w => status'[t] = status[t] /\ note'[t] = note[t],
         status'[w] = "completed" =>
           status[w] = "completed" /\ (Unreset(w) => Unreset(w)')
  PROVE  \A t \in Task : Counted(t)'
<1>1. WatchTyped /\ AtWatched /\ \A t \in Task : Counted(t)
  BY DEF WatchInv
<1>2. ASSUME NEW t \in Task, t # w PROVE Counted(t)'
  <2>1. watched' # t
    BY <1>2, ConstantsAssumption
  <2> QED
    BY <1>1, <1>2, <2>1, OthersCounted
<1>3. Counted(w) /\ ~LeftAlone(w)
  BY <1>1 DEF LeftAlone
<1>4. Counted(w)'
  BY <1>3 DEF Counted, StaysDeleted
<1> QED
  BY <1>2, <1>4

LEMMA AbandonKeeps == ASSUME WatchInv, Abandon PROVE WatchInv'
<1>1. /\ watch \in {"force", "restart"} /\ pc[Watchdog] = "idle"
      /\ WriteStatus(watched, "error")
      /\ queued' = [queued EXCEPT ![watched] = FALSE]
      /\ WriteNote(watched, Abandoned)
      /\ IF status[watched] = "deleted" THEN UNCHANGED attempts ELSE ForgetAttempts(watched)
      /\ watch' = "idle" /\ watched' = None
      /\ UNCHANGED <<lockOf, memVars, execVars, threadVars, cancelAck, restarts>>
      /\ Typed /\ WatchTyped /\ AtWatched /\ \A t \in Task : Counted(t)
  BY DEF Abandon, Idle, Back, WatchInv
<1>2. watched \in Task /\ status \in [Task -> Status] /\ attempts \in [Task -> 0..MaxAttempts]
  BY <1>1, WatchedTask DEF Typed, DbTyped, WatchTyped
<1>3. PICK w \in Task : w = watched
  BY <1>2
<1>4. /\ status' = [status EXCEPT ![w] = IF status[w] = "deleted" THEN status[w] ELSE "error"]
      /\ note' = [note EXCEPT ![w] = IF status[w] = "deleted" THEN note[w] ELSE Abandoned]
      /\ attempts' = IF status[w] = "deleted" THEN attempts ELSE [attempts EXCEPT ![w] = 0]
  BY <1>1, <1>3 DEF WriteStatus, WriteNote, ForgetAttempts
<1>5. Typed'
  <2>1. status' \in [Task -> Status]
    BY <1>2, <1>4 DEF Status
  <2>2. DbTyped'
    BY <1>1, <2>1 DEF Typed, DbTyped
  <2> QED
    BY <1>1, <2>2 DEF Typed, RestTyped, ExecTyped, DictsTyped, ThreadsTyped, memVars, dictVars,
       execVars, workVars, threadVars
<1>6. WatchTyped'
  <2> DEFINE Notes == {NoNote, Abandoned} \cup {Failed(n) : n \in 1..MaxAttempts}
  <2>1. Abandoned \in Notes /\ note \in [Task -> Notes]
    BY <1>1 DEF WatchTyped
  <2> HIDE DEF Notes
  <2>2. note' \in [Task -> Notes]
    BY <1>4, <2>1
  <2>3. attempts' \in [Task -> 0..MaxAttempts]
    BY <1>2, <1>4, WatchdogAssumption
  <2> QED
    BY <1>1, <2>2, <2>3 DEF WatchTyped, Notes, NoNote, Abandoned, Failed
<1>7. AtWatched'
  BY <1>1 DEF AtWatched, threadVars
<1>8. ASSUME NEW t \in Task PROVE Counted(t)'
  <2>1. watched' = None /\ t # None
    BY <1>1, ConstantsAssumption
  <2>2. CASE t # w
    <3>1. status'[t] = status[t] /\ note'[t] = note[t] /\ attempts'[t] = attempts[t]
          /\ restarts'[t] = restarts[t]
      BY <1>1, <1>2, <1>4, <2>2 DEF WatchTyped
    <3> QED
      BY <1>1, <1>3, <2>1, <2>2, <3>1, OthersCounted
  <2>3. CASE t = w
    <3>1. note \in [Task -> {NoNote, Abandoned} \cup {Failed(n) : n \in 1..MaxAttempts}]
      BY <1>1 DEF WatchTyped
    <3>2. status'[w] = IF status[w] = "deleted" THEN status[w] ELSE "error"
      BY <1>2, <1>3, <1>4
    <3>3. note'[w] = IF status[w] = "deleted" THEN note[w] ELSE Abandoned
      BY <1>3, <1>4, <3>1
    <3>4. status'[w] # "completed" /\ (status'[w] = "deleted" \/ LeftAlone(w)')
      BY <2>1, <2>3, <3>2, <3>3 DEF LeftAlone, Abandoned
    <3>5. restarts' = restarts /\ Counted(w)
      BY <1>1, <1>3
    <3> QED
      BY <2>3, <3>4, <3>5 DEF Counted
  <2> QED
    BY <2>2, <2>3
<1> QED
  BY <1>5, <1>6, <1>7, <1>8 DEF WatchInv

LEMMA DetachKeeps == ASSUME WatchInv, Detach PROVE WatchInv'
<1>1. /\ watch = "forcing" /\ Step(Watchdog, "join", "reset")
      /\ handle' = [handle EXCEPT ![watched] = 0]
      /\ stopEvent' = [stopEvent EXCEPT ![watched] = 0]
      /\ ReachableFired(fired)
      /\ UNCHANGED execVars
      /\ UNCHANGED <<dbVars, workerId, tokenHeld, queue, sheetStart, cancelAck, watchVars>>
      /\ Typed /\ WatchTyped /\ AtWatched /\ \A t \in Task : Counted(t)
  BY DEF Detach, WatchInv
<1>2. PICK w \in Task : w = watched
  BY <1>1, WatchedTask
<1>3. UNCHANGED <<watch, watched, attempts, note, restarts>> /\ UNCHANGED <<status, queued, lockOf>>
  BY <1>1 DEF watchVars, dbVars
<1>4. Typed'
  <2>1. DbTyped' /\ RestTyped' /\ ExecTyped'
    BY <1>1, <1>3 DEF Typed, DbTyped, RestTyped, ExecTyped, execVars, workVars
  <2>2. DictsTyped'
    <3>1. fired' \subseteq fired
      BY <1>1 DEF ReachableFired
    <3>2. 0 \in 0..MaxExec
      BY ConstantsAssumption
    <3> QED
      BY <1>1, <3>1, <3>2 DEF Typed, DictsTyped
  <2>3. ThreadsTyped'
    BY <1>1, WatchdogThread, StepTyped DEF Typed, Pc, RestartPc, Returned
  <2> QED
    BY <2>1, <2>2, <2>3 DEF Typed
<1>5. WatchTyped'
  BY <1>1, <1>3 DEF WatchTyped, NoNote, Abandoned, Failed
<1>6. pc'[Watchdog] = "reset" /\ arg' = arg /\ pc[Watchdog] = "join"
  BY <1>1, WatchdogThread DEF Step, Goto, Typed, ThreadsTyped
<1>7. AtWatched'
  BY <1>1, <1>3, <1>6 DEF AtWatched, Returned
<1>8. Unreset(w)'
  BY <1>1, <1>2, <1>3, <1>6 DEF Unreset
<1>9. \A t \in Task : Counted(t)'
  BY <1>1, <1>2, <1>3, <1>8, WatchedKeeps DEF StaysDeleted
<1> QED
  BY <1>4, <1>5, <1>7, <1>9 DEF WatchInv

LEMMA PrepareKeeps == ASSUME WatchInv, Prepare PROVE WatchInv'
<1>1. /\ watch = "forcing" /\ pc[Watchdog] = "reset"
      /\ UNCHANGED <<dictVars, queue, sheetStart, execVars, cancelAck, attempts, restarts>>
      /\ Typed /\ WatchTyped /\ AtWatched /\ \A t \in Task : Counted(t)
  BY DEF Prepare, WatchInv
<1>2. PICK w \in Task : w = watched
  BY <1>1, WatchedTask
<1>3. DictsTyped' /\ ExecTyped'
  BY <1>1 DEF Typed, DictsTyped, ExecTyped, dictVars, execVars, workVars
<1>4. CASE status[watched] = "deleted"
  <2>1. /\ Return(Watchdog, "idle") /\ watch' = "idle" /\ watched' = None
        /\ UNCHANGED <<dbVars, tokenHeld, note>>
    BY <1>4 DEF Prepare, Back
  <2>2. DbTyped' /\ RestTyped'
    BY <1>1, <2>1 DEF Typed, DbTyped, RestTyped, dbVars
  <2>3. ThreadsTyped' /\ pc'[Watchdog] = "idle"
    BY <1>1, <2>1, WatchdogThread, ReturnTyped DEF Typed, Return, Goto, ThreadsTyped, Returned
  <2>4. WatchTyped'
    BY <1>1, <2>1 DEF WatchTyped, NoNote, Abandoned, Failed
  <2>5. AtWatched'
    BY <2>1, <2>3 DEF AtWatched
  <2>6. \A t \in Task : Counted(t)'
    BY <1>1, <1>2, <1>4, <2>1, WatchedKeeps DEF StaysDeleted, dbVars
  <2> QED
    BY <1>3, <2>2, <2>3, <2>4, <2>5, <2>6 DEF Typed, WatchInv
<1>5. CASE status[watched] # "deleted"
  <2>1. /\ Step(Watchdog, "reset", "check") /\ ReleaseSheets(Sheet, watched)
        /\ tokenHeld' = tokenHeld \ {watched}
        /\ status' = [status EXCEPT ![watched] = "pending"]
        /\ ClearQueueMark(watched)
        /\ note' = [note EXCEPT ![watched] = NoNote]
        /\ UNCHANGED <<watch, watched>>
    BY <1>5 DEF Prepare
  <2>2. DbTyped'
    BY <1>1, <2>1 DEF Typed, DbTyped, ReleaseSheets, ClearQueueMark, Status
  <2>3. RestTyped'
    BY <1>1, <2>1 DEF Typed, RestTyped
  <2>4. ThreadsTyped' /\ pc'[Watchdog] = "check" /\ arg' = arg
    BY <1>1, <2>1, WatchdogThread, StepTyped DEF Typed, Pc, StartPc, RestartPc, Returned, Step, Goto,
       ThreadsTyped
  <2>5. WatchTyped'
    <3> DEFINE Notes == {NoNote, Abandoned} \cup {Failed(n) : n \in 1..MaxAttempts}
    <3>1. NoNote \in Notes /\ note \in [Task -> Notes]
      BY <1>1 DEF WatchTyped
    <3> HIDE DEF Notes
    <3>2. note' \in [Task -> Notes]
      BY <2>1, <3>1
    <3> QED
      BY <1>1, <2>1, <3>2 DEF WatchTyped, Notes, NoNote, Abandoned, Failed
  <2>6. AtWatched'
    BY <1>1, <2>1, <2>4 DEF AtWatched, StartPc, Returned
  <2>7. status'[w] = "pending" /\ \A t \in Task : t # w => status'[t] = status[t] /\ note'[t] = note[t]
    BY <1>1, <1>2, <2>1 DEF Typed, DbTyped, WatchTyped
  <2>8. StaysDeleted
    BY <1>2, <1>5, <2>7 DEF StaysDeleted
  <2>9. \A t \in Task : Counted(t)'
    BY <1>1, <1>2, <2>1, <2>7, <2>8, WatchedKeeps
  <2> QED
    BY <1>3, <2>2, <2>3, <2>4, <2>5, <2>6, <2>9 DEF Typed, WatchInv
<1> QED
  BY <1>4, <1>5

LEMMA RestartTaskKeeps == ASSUME WatchInv, RestartTask PROVE WatchInv'
<1>1. /\ watch = "restarting" /\ OperationStep(Watchdog)
      /\ note' = [note EXCEPT ![watched] = IF pc'[Watchdog] = "check" THEN NoNote ELSE @]
      /\ UNCHANGED <<watch, watched, attempts, restarts>>
      /\ Typed /\ WatchTyped /\ AtWatched /\ \A t \in Task : Counted(t)
  BY DEF RestartTask, OperationStep, WatchInv
<1>2. PICK w \in Task : w = watched
  BY <1>1, WatchedTask
<1>3. Typed' /\ StaysDeleted
  BY <1>1, WatchdogThread, CallerTyped, CallerKeepsDeleted
<1>4. /\ pc[Watchdog] \in Stopping
      /\ \/ pc'[Watchdog] = "idle"
         \/ pc'[Watchdog] \in Stopping \cup {"check"} /\ arg'[Watchdog] = arg[Watchdog]
  <2>1. pc \in [Thread -> Pc] /\ arg \in [Thread -> Task \cup {None}] /\ Watchdog \in Thread
        /\ Watchdog \notin Caller
    BY <1>1, WatchdogThread DEF Typed, ThreadsTyped
  <2>2. pc[Watchdog] \in Stopping \cup StartPc \cup Returned \cup {"idle"}
    BY <1>1 DEF AtWatched
  <2>3. CASE CancelWrite(Watchdog)
    BY <2>1, <2>2, <2>3 DEF CancelWrite, CancelPc, Stopping, StartPc, Returned, Goto
  <2>4. CASE RestartStops(Watchdog)
    BY <2>1, <2>4 DEF RestartStops, CancelRead, Enter, Goto, Stopping
  <2>5. CASE RestartNothingToStop(Watchdog) \/ RestartJoin(Watchdog) \/ RestartReset(Watchdog)
    BY <2>1, <2>5 DEF RestartNothingToStop, RestartJoin, RestartReset, Step, Return, Goto, Stopping
  <2> QED
    BY <2>3, <2>4, <2>5 DEF RestartTask
<1>5. arg[Watchdog] = watched
  BY <1>1, <1>4 DEF AtWatched, Stopping, Returned
<1>6. AtWatched'
  BY <1>1, <1>4 DEF AtWatched, Stopping, StartPc, Returned
<1>7. WatchTyped'
  <2> DEFINE Notes == {NoNote, Abandoned} \cup {Failed(n) : n \in 1..MaxAttempts}
  <2>1. NoNote \in Notes /\ note \in [Task -> Notes]
    BY <1>1 DEF WatchTyped
  <2> HIDE DEF Notes
  <2>2. note' \in [Task -> Notes]
    BY <1>1, <2>1
  <2> QED
    BY <1>1, <2>2 DEF WatchTyped, Notes, NoNote, Abandoned, Failed
<1>8. /\ \A t \in Task : t # w => status'[t] = status[t]
      /\ status'[w] = "completed" => status[w] = "completed" /\ pc'[Watchdog] # "check"
  <2>1. status \in [Task -> Status] /\ pc \in [Thread -> Pc] /\ Watchdog \in Thread
    BY <1>1, WatchdogThread DEF Typed, DbTyped, ThreadsTyped
  <2>2. CASE CancelWrite(Watchdog)
    BY <1>2, <1>5, <2>1, <2>2 DEF CancelWrite
  <2>3. CASE RestartReset(Watchdog)
    BY <1>2, <1>5, <2>1, <2>3 DEF RestartReset, Goto, Return
  <2>4. CASE RestartStops(Watchdog) \/ RestartNothingToStop(Watchdog) \/ RestartJoin(Watchdog)
    BY <2>1, <2>4 DEF RestartStops, RestartNothingToStop, RestartJoin, CancelRead, Enter, Step,
       Return, Goto, dbVars
  <2> QED
    BY <2>2, <2>3, <2>4 DEF RestartTask
<1>9. \A t \in Task : t # w => note'[t] = note[t]
  BY <1>1, <1>2 DEF WatchTyped
<1>10. status'[w] = "completed" => status[w] = "completed" /\ (Unreset(w) => Unreset(w)')
  BY <1>1, <1>4, <1>8 DEF Unreset, Stopping
<1>11. \A t \in Task : Counted(t)'
  BY <1>1, <1>2, <1>3, <1>8, <1>9, <1>10, WatchedKeeps
<1> QED
  BY <1>3, <1>6, <1>7, <1>11 DEF WatchInv

\* What follows start_task or restart_task: the thread is idle again.
LEMMA DoneTyped ==
  ASSUME ThreadsTyped, Done
  PROVE  ThreadsTyped' /\ pc'[Watchdog] = "idle" /\ arg' = arg
BY WatchdogThread DEF ThreadsTyped, Done, Goto, Pc

LEMMA PublishKeeps == ASSUME WatchInv, Publish PROVE WatchInv'
<1>1. /\ watch \in {"forcing", "restarting"} /\ pc[Watchdog] = "started"
      /\ status' = [status EXCEPT ![watched] = IF status[watched] = "pending" THEN "running"
                                                                              ELSE status[watched]]
      /\ Done /\ watch' = "idle" /\ watched' = None
      /\ UNCHANGED <<queued, lockOf, memVars, execVars, cancelAck, attempts, note, restarts>>
      /\ Typed /\ WatchTyped /\ AtWatched /\ \A t \in Task : Counted(t)
  BY DEF Publish, Back, WatchInv
<1>2. PICK w \in Task : w = watched
  BY <1>1, WatchedTask
<1>3. /\ \A t \in Task : t # w => status'[t] = status[t]
      /\ status'[w] = IF status[w] = "pending" THEN "running" ELSE status[w]
      /\ status' \in [Task -> Status]
  BY <1>1, <1>2 DEF Typed, DbTyped, Status
<1>4. ThreadsTyped' /\ pc'[Watchdog] = "idle" /\ arg' = arg
  BY <1>1, DoneTyped DEF Typed
<1>5. Typed'
  BY <1>1, <1>3, <1>4 DEF Typed, DbTyped, RestTyped, ExecTyped, DictsTyped, memVars, dictVars,
     execVars, workVars
<1>6. WatchTyped' /\ AtWatched'
  BY <1>1, <1>4 DEF WatchTyped, AtWatched, NoNote, Abandoned, Failed
<1>7. StaysDeleted /\ ~Unreset(w)
  BY <1>1, <1>2, <1>3 DEF StaysDeleted, Unreset, Stopping
<1>8. \A t \in Task : Counted(t)'
  BY <1>1, <1>2, <1>3, <1>7, WatchedKeeps
<1> QED
  BY <1>5, <1>6, <1>8 DEF WatchInv

LEMMA LeaveQueuedKeeps == ASSUME WatchInv, LeaveQueued PROVE WatchInv'
<1>1. /\ watch \in {"forcing", "restarting"} /\ pc[Watchdog] = "queued"
      /\ Done /\ watch' = "idle" /\ watched' = None
      /\ UNCHANGED <<dbVars, memVars, execVars, cancelAck, attempts, note, restarts>>
      /\ Typed /\ WatchTyped /\ AtWatched /\ \A t \in Task : Counted(t)
  BY DEF LeaveQueued, Back, WatchInv
<1>2. PICK w \in Task : w = watched
  BY <1>1, WatchedTask
<1>3. ThreadsTyped' /\ pc'[Watchdog] = "idle" /\ arg' = arg
  BY <1>1, DoneTyped DEF Typed
<1>4. Typed'
  BY <1>1, <1>3 DEF Typed, DbTyped, RestTyped, ExecTyped, DictsTyped, dbVars, memVars, dictVars,
     execVars, workVars
<1>5. WatchTyped' /\ AtWatched'
  BY <1>1, <1>3 DEF WatchTyped, AtWatched, NoNote, Abandoned, Failed
<1>6. ~Unreset(w)
  BY <1>1 DEF Unreset, Stopping
<1>7. status' = status /\ StaysDeleted
  BY <1>1 DEF dbVars, StaysDeleted
<1>8. \A t \in Task : Counted(t)'
  BY <1>1, <1>2, <1>6, <1>7, WatchedKeeps
<1> QED
  BY <1>4, <1>5, <1>8 DEF WatchInv

LEMMA RecordFailureKeeps == ASSUME WatchInv, RecordFailure PROVE WatchInv'
<1>1. /\ watch \in {"forcing", "restarting"}
      /\ WriteStatus(watched, IF watch = "forcing" THEN "cancelled" ELSE "error")
      /\ queued' = [queued EXCEPT ![watched] = FALSE]
      /\ WriteNote(watched, Failed(attempts[watched]))
      /\ Done /\ watch' = "idle" /\ watched' = None
      /\ UNCHANGED <<lockOf, memVars, execVars, cancelAck, attempts, restarts>>
      /\ Typed /\ WatchTyped /\ AtWatched /\ \A t \in Task : Counted(t)
  BY DEF RecordFailure, Back, WatchInv
<1>2. PICK w \in Task : w = watched
  BY <1>1, WatchedTask
<1>3. PICK s \in {"cancelled", "error"} :
        status' = [status EXCEPT ![w] = IF status[w] = "deleted" THEN status[w] ELSE s]
  BY <1>1, <1>2 DEF WriteStatus
<1>4. /\ \A t \in Task : t # w => status'[t] = status[t]
      /\ status'[w] = IF status[w] = "deleted" THEN "deleted" ELSE s
      /\ status' \in [Task -> Status]
  BY <1>1, <1>3 DEF Typed, DbTyped, Status
<1>5. ThreadsTyped' /\ pc'[Watchdog] = "idle" /\ arg' = arg
  BY <1>1, DoneTyped DEF Typed
<1>6. Typed'
  <2>1. DbTyped'
    BY <1>1, <1>4 DEF Typed, DbTyped
  <2> QED
    BY <1>1, <1>5, <2>1 DEF Typed, RestTyped, ExecTyped, DictsTyped, memVars, dictVars, execVars,
       workVars
<1>7. WatchTyped' /\ \A t \in Task : t # w => note'[t] = note[t]
  <2> DEFINE Notes == {NoNote, Abandoned} \cup {Failed(n) : n \in 1..MaxAttempts}
  <2>1. attempts[w] \in 1..MaxAttempts
    BY <1>1, <1>2, WatchdogAssumption DEF AtWatched, WatchTyped
  <2>2. Failed(attempts[w]) \in Notes /\ note \in [Task -> Notes]
    BY <1>1, <2>1 DEF WatchTyped
  <2>3. note' = [note EXCEPT ![w] = IF status[w] = "deleted" THEN note[w] ELSE Failed(attempts[w])]
    BY <1>1, <1>2 DEF WriteNote
  <2> HIDE DEF Notes
  <2>4. note' \in [Task -> Notes] /\ \A t \in Task : t # w => note'[t] = note[t]
    BY <2>2, <2>3
  <2> QED
    BY <1>1, <2>4 DEF WatchTyped, Notes, NoNote, Abandoned, Failed
<1>8. AtWatched'
  BY <1>1, <1>5 DEF AtWatched
<1>9. StaysDeleted
  BY <1>4 DEF StaysDeleted
<1>10. \A t \in Task : Counted(t)'
  BY <1>1, <1>2, <1>4, <1>7, <1>9, WatchedKeeps
<1> QED
  BY <1>6, <1>7, <1>8, <1>10 DEF WatchInv

\* What is forgotten at the end of a round is the count of tasks that are over.
LEMMA PruneKeeps == ASSUME WatchInv, Prune PROVE WatchInv'
<1>1. /\ watch = "idle"
      /\ attempts' = [t \in Task |-> IF OutOfWatch(t) THEN 0 ELSE attempts[t]]
      /\ UNCHANGED <<vars, watch, watched, note, restarts>>
      /\ Typed /\ WatchTyped /\ AtWatched /\ \A t \in Task : Counted(t)
  BY DEF Prune, WatchInv
<1>2. UNCHANGED <<status, pc, arg>> /\ Typed'
  BY <1>1 DEF vars, dbVars, memVars, dictVars, execVars, workVars, threadVars, Typed,
     DbTyped, DictsTyped, RestTyped, ExecTyped, ThreadsTyped
<1>3. WatchTyped'
  <2>1. attempts' \in [Task -> 0..MaxAttempts]
    BY <1>1, WatchdogAssumption DEF WatchTyped
  <2> QED
    BY <1>1, <2>1 DEF WatchTyped, NoNote, Abandoned, Failed
<1>4. AtWatched'
  BY <1>1, <1>2 DEF AtWatched
<1>5. ASSUME NEW t \in Task PROVE Counted(t)'
  <2>1. ~Unreset(t) /\ Counted(t)
    BY <1>1 DEF Unreset
  <2>2. attempts'[t] = IF OutOfWatch(t) THEN 0 ELSE attempts[t]
    BY <1>1
  <2>3. LeftAlone(t) => LeftAlone(t)'
    BY <1>1, <1>2 DEF LeftAlone, Abandoned
  <2>4. restarts'[t] = restarts[t] /\ status'[t] = status[t] /\ restarts[t] \in Nat
    BY <1>1, <1>2 DEF WatchTyped
  <2>5. restarts'[t] <= attempts'[t] \/ status'[t] = "deleted" \/ LeftAlone(t)'
    BY <2>1, <2>2, <2>3, <2>4 DEF Counted, OutOfWatch
  <2>6. status[t] = "completed" => restarts[t] = 0
    BY <2>1 DEF Counted
  <2> QED
    BY <2>1, <2>4, <2>5, <2>6 DEF Counted
<1> QED
  BY <1>2, <1>3, <1>4, <1>5 DEF WatchInv

-----------------------------------------------------------------------------
(* The theorems. *)

LEMMA WatchInitial == WInit => WatchInv
<1> SUFFICES ASSUME WInit PROVE WatchInv
  OBVIOUS
<1>1. Typed
  BY InitTyped DEF WInit
<1>2. WatchTyped
  BY WatchdogAssumption DEF WInit, WatchTyped
<1>3. AtWatched
  BY WatchdogThread DEF WInit, Init, AtWatched
<1>4. \A t \in Task : Counted(t)
  BY WatchdogAssumption DEF WInit, Counted
<1> QED
  BY <1>1, <1>2, <1>3, <1>4 DEF WatchInv

LEMMA WatchStep == ASSUME WatchInv, [WNext]_wvars PROVE WatchInv'
<1>1. CASE RuntimeStep
  BY <1>1, RuntimeKeeps
<1>2. ASSUME NEW t \in Task, Observe(t) PROVE WatchInv'
  BY <1>2, ObserveKeeps
<1>3. CASE WatchdogStep
  BY <1>3, AbandonKeeps, ForceRestartKeeps, DetachKeeps, PrepareKeeps, CallRestartKeeps,
     RestartTaskKeeps, PublishKeeps, LeaveQueuedKeeps, RecordFailureKeeps, WatchdogStarts
     DEF WatchdogStep
<1>4. CASE Prune
  BY <1>4, PruneKeeps
<1>5. CASE UNCHANGED wvars
  <2>1. UNCHANGED <<vars, watchVars>>
    BY <1>5 DEF wvars
  <2>2. UNCHANGED <<status, pc, arg>> /\ Typed'
    BY <2>1 DEF WatchInv, vars, dbVars, memVars, dictVars, execVars, workVars, threadVars, Typed,
       DbTyped, DictsTyped, RestTyped, ExecTyped, ThreadsTyped
  <2>3. UNCHANGED <<watch, watched, attempts, note, restarts>>
    BY <2>1 DEF watchVars
  <2>4. WatchTyped' /\ AtWatched'
    BY <2>2, <2>3 DEF WatchInv, WatchTyped, AtWatched, NoNote, Abandoned, Failed
  <2>5. \A t \in Task : Counted(t)'
    BY <2>2, <2>3 DEF WatchInv, Counted, LeftAlone, Unreset, Abandoned
  <2> QED
    BY <2>2, <2>4, <2>5 DEF WatchInv
<1> QED
  BY <1>1, <1>2, <1>3, <1>4, <1>5 DEF WNext

LEMMA WatchInvariant == WSpec => []WatchInv
<1>1. WInit => WatchInv
  BY WatchInitial
<1>2. WatchInv /\ [WNext]_wvars => WatchInv'
  BY WatchStep
<1> QED
  BY <1>1, <1>2, PTL DEF WSpec

\* The watchdog over the runtime: every variable keeps its type, whatever hangs and
\* whoever starts what at the same time.
THEOREM WatchdogTypes == WSpec => []WatchdogTypeOK
<1>1. WatchInv => WatchdogTypeOK
  BY TypedIsTypeOK DEF WatchInv, WatchTyped, WatchdogTypeOK
<1> QED
  BY <1>1, WatchInvariant, PTL

\* For every number of tasks, threads and attempts: the watchdog restarts a task at
\* most MaxAttempts times before somebody else takes care of it or it comes to its
\* end (task_watchdog.py, _next_restart_attempt and _abandon_task).
THEOREM RestartsAreBounded == WSpec => []RestartsBounded
<1>1. WatchInv => RestartsBounded
  BY DEF WatchInv, Counted, RestartsBounded
<1> QED
  BY <1>1, WatchInvariant, PTL

-----------------------------------------------------------------------------
(* Two executions at a time. The second inductive invariant says, for every  *)
(* task whose row is there, what its executions and the thread that starts   *)
(* it rely on. The execution that running_tasks names is the current one:    *)
(* it holds the locks, and only it settles the task, as long as no hung      *)
(* thread comes back at the moment that LateWake is about. An execution that *)
(* was replaced while it works had its stop event set, or never had it.      *)

Live(t) == status[t] # "deleted"

\* A pool thread runs it and it has not left the dictionaries.
Running == {"begun", "working", "ended", "finalizing", "closing", "releasing", "cleanup"}
\* It acts for its task, by the check of ActiveGeneration it has passed.
Settling == {"finalizing", "releasing", "cleanup"}

CurrentHolds(t) ==
  \A n \in Slot : handle[t] = n /\ exec[<<t, n>>] \in Unreleased => SheetsOf[t] \subseteq Held(t)

SettlerIsCurrent(t) ==
  \A n \in Slot : exec[<<t, n>>] \in Settling => handle[t] = n

\* Once it runs, the current execution is the last of its task: _active_worker_ids
\* names its thread, and no older one waits for a thread that would name itself.
CurrentIsWorker(t) ==
  \A n \in Slot :
    handle[t] = n /\ exec[<<t, n>>] \in Running =>
      workerId[t] = n /\ \A i \in 1..Len(queue) : queue[i][1] # t

CurrentStays(t) ==
  \A n \in Slot : exec[<<t, n>>] \in {"relay", "relaying"} => handle[t] # n

\* Handle and stop event of an execution come and go together.
CurrentHasEvent(t) ==
  \A n \in Slot : exec[<<t, n>>] \in Handled => (handle[t] = n <=> stopEvent[t] = n)

ReplacedEnds(t) ==
  \A n \in Slot :
    exec[<<t, n>>] = "working" /\ handle[t] # n => Told(<<t, n>>) \/ Misled(<<t, n>>)

\* What waits in the pool is there once, and only the last of a task is current.
LastIsCurrent(t) ==
  /\ \A i \in 1..Len(queue) : queue[i][1] = t => exec[queue[i]] = "queued"
  /\ \A i, j \in 1..Len(queue) :
       i < j /\ queue[i][1] = t /\ queue[j][1] = t => queue[i] # queue[j] /\ handle[t] # queue[i][2]

ExecutionsFit(t) ==
  /\ CurrentHolds(t) /\ SettlerIsCurrent(t) /\ CurrentIsWorker(t) /\ CurrentStays(t)
  /\ CurrentHasEvent(t) /\ ReplacedEnds(t) /\ LastIsCurrent(t)

\* What a thread inside start_task or restart_task relies on: its locks, that no
\* execution is current, the execution it brings with handle and event. While the
\* watchdog waits for a hung thread, the stop event of the task is set.
StarterFits(th) ==
  LET t == arg[th] IN
  /\ pc[th] \in Reserving => SheetsOf[t] \subseteq Held(t)
  /\ pc[th] \in Alone => \A n \in Slot : handle[t] = n => exec[<<t, n>>] \notin Handled
  /\ pc[th] = "register" => exec[<<t, slot[th]>>] = "admitted"
  /\ pc[th] = "enqueue" => exec[<<t, slot[th]>>] = "registered" /\ handle[t] = slot[th]
  /\ pc[th] \in {"register", "enqueue"} => stopEvent[t] = slot[th]
  /\ th = Watchdog /\ watch = "forcing" /\ pc[th] = "join" /\ stopEvent[t] # 0 =>
       <<t, stopEvent[t]>> \in fired

Claims(th) == pc[th] \in Alone \cup {"join"} /\ Live(arg[th]) => StarterFits(th)

OverlapInv ==
  /\ OneStarter
  /\ PopsDeleted
  /\ \A t \in Task : Live(t) => ExecutionsFit(t)
  /\ \A th \in Thread : Claims(th)

-----------------------------------------------------------------------------
(* What steps do to a task. *)

\* What is left of the queue of the pool is in the order it was in, for this task.
QueueKept(t) ==
  \E d \in Nat : \A i \in 1..Len(queue') :
    queue'[i][1] = t => i + d \in 1..Len(queue) /\ queue'[i] = queue[i + d]

\* An event of the task that something refers to stays set.
EventsStay(t) ==
  \A n \in Slot :
    /\ <<t, n>> \in fired
    /\ stopEvent'[t] = n \/ \E m \in Slot : execEvent'[<<t, m>>] = n
    => <<t, n>> \in fired'

\* The step does not concern the task, but that others may give up their locks.
Apart(t) ==
  /\ handle'[t] = handle[t] /\ stopEvent'[t] = stopEvent[t] /\ workerId'[t] = workerId[t]
  /\ \A n \in Slot : /\ exec'[<<t, n>>] = exec[<<t, n>>]
                     /\ execEvent'[<<t, n>>] = execEvent[<<t, n>>]
  /\ Held(t) \subseteq Held(t)'
  /\ EventsStay(t)

\* An execution goes on: nothing becomes handled, current or queued by it.
GoesOn(t, n) ==
  LET x == <<t, n>> IN
  /\ exec'[x] \in Unreleased => exec[x] \in Unreleased
  /\ exec'[x] \in Handled => exec[x] \in Handled
  /\ exec'[x] \in Running /\ handle[t] = n => exec[x] \in Running /\ workerId'[t] = workerId[t]
  /\ exec'[x] \in Settling => exec[x] \in Settling \/ handle[t] = n
  /\ exec'[x] \in {"relay", "relaying"} => exec[x] \in {"relay", "relaying"}
  /\ exec'[x] = "working" => \/ exec[x] = "working" /\ execEvent'[x] = execEvent[x]
                             \/ handle[t] = n \/ execEvent'[x] # n
  /\ exec[x] = "queued" => exec'[x] = "queued"

\* The current execution remains the current one, ...
Moves(t) ==
  /\ handle'[t] = handle[t]
  /\ \/ stopEvent'[t] = stopEvent[t]
     \/ \A n \in Slot : exec'[<<t, n>>] \in Handled => handle[t] # n /\ stopEvent'[t] # n
  /\ \/ Held(t) \subseteq Held(t)'
     \/ \A n \in Slot : handle[t] = n => exec'[<<t, n>>] \notin Unreleased
  /\ EventsStay(t)
  /\ \A n \in Slot : GoesOn(t, n)
  /\ QueueKept(t)

\* ... or there is none any more.
Drops(t) ==
  /\ handle'[t] = 0
  /\ \A n \in Slot :
       /\ exec'[<<t, n>>] \notin Settling
       /\ exec'[<<t, n>>] \in Handled => stopEvent'[t] # n
       /\ exec'[<<t, n>>] = "working" => Told(<<t, n>>)' \/ Misled(<<t, n>>)'
       /\ exec[<<t, n>>] = "queued" => exec'[<<t, n>>] = "queued"
  /\ QueueKept(t)

LEMMA SameQueue == ASSUME NEW t, queue' = queue, queue \in Seq(Exec) PROVE QueueKept(t)
<1>1. \A i \in 1..Len(queue') : i + 0 \in 1..Len(queue) /\ queue'[i] = queue[i + 0]
  OBVIOUS
<1>2. 0 \in Nat
  OBVIOUS
<1> QED
  BY <1>1, <1>2 DEF QueueKept

LEMMA ApartMoves == ASSUME NEW t \in Task, Apart(t), QueueKept(t) PROVE Moves(t)
BY DEF Apart, Moves, GoesOn

LEMMA QueueFits ==
  ASSUME Typed, Typed', NEW t \in Task, LastIsCurrent(t), QueueKept(t),
         handle'[t] \in {handle[t], 0},
         \A n \in Slot : exec[<<t, n>>] = "queued" => exec'[<<t, n>>] = "queued"
  PROVE  LastIsCurrent(t)'
<1>1. PICK d \in Nat : \A i \in 1..Len(queue') :
        queue'[i][1] = t => i + d \in 1..Len(queue) /\ queue'[i] = queue[i + d]
  BY DEF QueueKept
<1>2. queue \in Seq(Exec) /\ queue' \in Seq(Exec)
  BY DEF Typed, RestTyped
<1>3. ASSUME NEW i \in 1..Len(queue'), queue'[i][1] = t PROVE exec'[queue'[i]] = "queued"
  <2>1. i + d \in 1..Len(queue) /\ queue'[i] = queue[i + d] /\ queue'[i] \in Exec
    BY <1>1, <1>2, <1>3
  <2>2. exec[queue[i + d]] = "queued"
    BY <1>3, <2>1 DEF LastIsCurrent
  <2>3. PICK n \in Slot : queue'[i] = <<t, n>>
    BY <1>3, <2>1 DEF Exec
  <2> QED
    BY <2>1, <2>2, <2>3
<1>4. ASSUME NEW i \in 1..Len(queue'), NEW j \in 1..Len(queue'), i < j,
             queue'[i][1] = t, queue'[j][1] = t
      PROVE  queue'[i] # queue'[j] /\ handle'[t] # queue'[i][2]
  <2>1. /\ i + d \in 1..Len(queue) /\ queue'[i] = queue[i + d] /\ queue'[i] \in Exec
        /\ j + d \in 1..Len(queue) /\ queue'[j] = queue[j + d] /\ i + d < j + d
    BY <1>1, <1>2, <1>4
  <2>2. queue[i + d] # queue[j + d] /\ handle[t] # queue[i + d][2]
    BY <1>4, <2>1 DEF LastIsCurrent
  <2>3. queue'[i][2] # 0
    BY <2>1 DEF Exec, Slot
  <2> QED
    BY <2>1, <2>2, <2>3
<1> QED
  BY <1>3, <1>4 DEF LastIsCurrent

LEMMA MovesFit ==
  ASSUME Typed, Typed', NEW t \in Task, ExecutionsFit(t), Moves(t)
  PROVE  ExecutionsFit(t)'
<1>1. CurrentHolds(t)'
  BY DEF ExecutionsFit, CurrentHolds, Moves, GoesOn
<1>2. SettlerIsCurrent(t)' /\ CurrentStays(t)'
  BY DEF ExecutionsFit, SettlerIsCurrent, CurrentStays, Moves, GoesOn
<1>3. CurrentIsWorker(t)'
  <2> SUFFICES ASSUME NEW n \in Slot, handle'[t] = n, exec'[<<t, n>>] \in Running
               PROVE  workerId'[t] = n /\ \A i \in 1..Len(queue') : queue'[i][1] # t
    BY DEF CurrentIsWorker
  <2>1. handle[t] = n /\ exec[<<t, n>>] \in Running /\ workerId'[t] = workerId[t]
    BY DEF Moves, GoesOn
  <2>2. workerId[t] = n /\ \A i \in 1..Len(queue) : queue[i][1] # t
    BY <2>1 DEF ExecutionsFit, CurrentIsWorker
  <2> QED
    BY <2>1, <2>2 DEF Moves, QueueKept
<1>4. CurrentHasEvent(t)'
  BY DEF ExecutionsFit, CurrentHasEvent, Moves, GoesOn
<1>5. ReplacedEnds(t)'
  <2> SUFFICES ASSUME NEW n \in Slot, exec'[<<t, n>>] = "working", handle'[t] # n
               PROVE  Told(<<t, n>>)' \/ Misled(<<t, n>>)'
    BY DEF ReplacedEnds
  <2>1. handle[t] # n
    BY DEF Moves
  <2>2. CASE execEvent'[<<t, n>>] # n
    BY <2>2 DEF Misled
  <2>3. CASE exec[<<t, n>>] = "working" /\ execEvent'[<<t, n>>] = execEvent[<<t, n>>]
    <3>1. Told(<<t, n>>) \/ Misled(<<t, n>>)
      BY <2>1, <2>3 DEF ExecutionsFit, ReplacedEnds
    <3>2. <<t, n>> \in Exec /\ execEvent[<<t, n>>] \in 0..MaxExec /\ MaxExec \in Nat
      BY ConstantsAssumption DEF Exec, Typed, ExecTyped
    <3>3. execEvent[<<t, n>>] # 0 => execEvent[<<t, n>>] \in Slot
      BY <3>2 DEF Slot
    <3>4. EventsStay(t)
      BY DEF Moves
    <3> QED
      BY <2>3, <3>1, <3>3, <3>4 DEF Told, Misled, EventsStay
  <2> QED
    BY <2>1, <2>2, <2>3 DEF Moves, GoesOn
<1>6. LastIsCurrent(t)'
  BY QueueFits DEF ExecutionsFit, Moves, GoesOn
<1> QED
  BY <1>1, <1>2, <1>3, <1>4, <1>5, <1>6 DEF ExecutionsFit

LEMMA DropsFit ==
  ASSUME Typed, Typed', NEW t \in Task, ExecutionsFit(t), Drops(t)
  PROVE  ExecutionsFit(t)'
<1>1. handle'[t] = 0 /\ \A n \in Slot : n # 0
  BY DEF Drops, Slot
<1>2. CurrentHolds(t)' /\ SettlerIsCurrent(t)' /\ CurrentStays(t)' /\ CurrentIsWorker(t)'
  BY <1>1 DEF CurrentHolds, SettlerIsCurrent, CurrentStays, CurrentIsWorker, Drops
<1>3. CurrentHasEvent(t)'
  BY <1>1 DEF CurrentHasEvent, Drops
<1>4. ReplacedEnds(t)'
  BY DEF ReplacedEnds, Drops
<1>5. LastIsCurrent(t)'
  BY QueueFits DEF ExecutionsFit, Drops
<1> QED
  BY <1>2, <1>3, <1>4, <1>5 DEF ExecutionsFit

-----------------------------------------------------------------------------
(* What steps do to the threads inside start_task and restart_task. *)

\* Nobody enters a task that somebody else starts, or pops one that is there.
Entry(th) ==
  /\ Starting(th)' => (Starting(th) /\ arg'[th] = arg[th]) \/ MayStart(arg'[th])
  /\ pc'[th] = "popHandle" => \/ pc[th] = "popHandle" /\ arg'[th] = arg[th]
                              \/ status'[arg'[th]] = "deleted"

\* A thread that starts a task has nothing to fear from the step: it concerns no
\* task past the check of the handle, or leaves it what its starter relies on.
Calm(t) ==
  /\ \/ \A th \in Thread : pc[th] \in Alone => arg[th] # t
     \/ /\ handle'[t] = handle[t] /\ stopEvent'[t] = stopEvent[t] /\ Held(t) \subseteq Held(t)'
        /\ \A n \in Slot :
             /\ exec'[<<t, n>>] \in Handled => exec[<<t, n>>] \in Handled
             /\ exec[<<t, n>>] \in {"admitted", "registered"} =>
                  exec'[<<t, n>>] = exec[<<t, n>>]
  /\ stopEvent'[t] \in {stopEvent[t], 0}
  /\ EventsStay(t)

LEMMA ApartIsCalm == ASSUME NEW t \in Task, Apart(t) PROVE Calm(t)
BY DEF Apart, Calm

LEMMA EntryKeeps ==
  ASSUME SerialStarts, Typed, OneStarter, PopsDeleted, NEW th \in Thread, OthersStay(th),
         Entry(th), StaysDeleted
  PROVE  OneStarter' /\ PopsDeleted'
<1>1. OneStarter'
  BY DEF OneStarter, OthersStay, Entry, Starting, MayStart
<1>2. PopsDeleted'
  BY DEF PopsDeleted, OthersStay, Entry, StaysDeleted, Typed, ThreadsTyped, Returned
<1> QED
  BY <1>1, <1>2

\* A thread that does not move keeps what it relies on.
LEMMA ClaimsStay ==
  ASSUME Typed, Typed', StaysDeleted, NEW th \in Thread, Claims(th),
         pc'[th] = pc[th] /\ arg'[th] = arg[th] /\ slot'[th] = slot[th],
         th = Watchdog => watch' = watch,
         \A t \in Task : Starting(th) /\ arg[th] = t /\ Live(t)' => Calm(t)
  PROVE  Claims(th)'
<1> SUFFICES ASSUME pc'[th] \in Alone \cup {"join"}, Live(arg[th])'
             PROVE  StarterFits(th)'
  BY DEF Claims
<1>1. arg[th] \in Task /\ Starting(th)
  BY DEF Typed, ThreadsTyped, Alone, StartPc, RestartPc, Returned, Starting
<1>2. PICK t \in Task : t = arg[th]
  BY <1>1
<1>3. Live(t) /\ Live(t)'
  BY <1>2 DEF Live, StaysDeleted
<1>4. StarterFits(th)
  BY <1>2, <1>3 DEF Claims
<1>5. Calm(t)
  BY <1>1, <1>2, <1>3
<1>6. slot[th] \in Slot \/ pc[th] \notin {"register", "enqueue"}
  BY DEF Typed, ThreadsTyped
<1>7. stopEvent[t] # 0 => stopEvent[t] \in Slot
  BY ConstantsAssumption DEF Typed, DictsTyped, Slot
<1>8. /\ th = Watchdog /\ watch' = "forcing" /\ pc[th] = "join" /\ stopEvent'[t] # 0 =>
         <<t, stopEvent'[t]>> \in fired'
  BY <1>2, <1>4, <1>5, <1>7 DEF StarterFits, Calm, EventsStay
<1>9. CASE pc[th] \notin Alone
  BY <1>2, <1>8, <1>9 DEF StarterFits, Alone, StartPc, Reserving
<1>10. CASE pc[th] \in Alone
  <2>1. /\ handle'[t] = handle[t] /\ stopEvent'[t] = stopEvent[t] /\ Held(t) \subseteq Held(t)'
        /\ \A n \in Slot :
             /\ exec'[<<t, n>>] \in Handled => exec[<<t, n>>] \in Handled
             /\ exec[<<t, n>>] \in {"admitted", "registered"} =>
                  exec'[<<t, n>>] = exec[<<t, n>>]
    BY <1>2, <1>5, <1>10 DEF Calm
  <2> QED
    BY <1>2, <1>4, <1>6, <1>8, <2>1 DEF StarterFits
<1> QED
  BY <1>9, <1>10

\* Where the thread goes when it returns, and when it goes on.
LEMMA ReturnEnters ==
  ASSUME ThreadsTyped, NEW th \in Thread, NEW result \in Returned \cup {"idle"}, Return(th, result)
  PROVE  /\ OthersStay(th) /\ Entry(th) /\ pc'[th] \in Returned \cup {"idle"}
BY DEF ThreadsTyped, Return, Goto, OthersStay, Entry, Starting, StartPc, RestartPc, Returned

LEMMA StepEnters ==
  ASSUME ThreadsTyped, NEW th \in Thread, NEW from \in StartPc \cup RestartPc,
         NEW to \in StartPc \cup RestartPc, Step(th, from, to)
  PROVE  /\ OthersStay(th) /\ Entry(th)
         /\ pc[th] = from /\ pc'[th] = to /\ arg'[th] = arg[th] /\ slot'[th] = slot[th]
BY DEF ThreadsTyped, Step, Goto, OthersStay, Entry, Starting, StartPc, RestartPc

LEMMA EnterEnters ==
  ASSUME ThreadsTyped, NEW th \in Thread, NEW t \in Task, NEW to, Enter(th, t, to),
         MayStart(t) \/ to \in {"cancelPending", "cancelRunning", "popHandle"},
         to = "popHandle" => status'[t] = "deleted"
  PROVE  OthersStay(th) /\ Entry(th) /\ pc'[th] = to /\ arg'[th] = t /\ slot'[th] = slot[th]
BY DEF ThreadsTyped, Enter, Goto, OthersStay, Entry, Starting, StartPc, RestartPc

\* A step is accounted for: of one thread, about one task.
LEMMA StepFits ==
  ASSUME SerialStarts, Typed, Typed', OverlapInv, StaysDeleted, NEW a \in Thread,
         OthersStay(a), Entry(a), a = Watchdog \/ watch' = watch, NEW u,
         \A t \in Task \ {u} : Apart(t) /\ QueueKept(t),
         u \in Task /\ Live(u)' => ExecutionsFit(u)' /\ (Calm(u) \/ (Starting(a) /\ arg[a] = u)),
         Claims(a)'
  PROVE  OverlapInv'
<1>1. OneStarter' /\ PopsDeleted'
  BY EntryKeeps DEF OverlapInv
<1>2. ASSUME NEW t \in Task, Live(t)' PROVE ExecutionsFit(t)'
  <2>1. Live(t)
    BY <1>2 DEF Live, StaysDeleted
  <2>2. CASE t # u
    BY <2>1, <2>2, ApartMoves, MovesFit DEF OverlapInv
  <2> QED
    BY <1>2, <2>2
<1>3. ASSUME NEW th \in Thread, th # a PROVE Claims(th)'
  <2>1. /\ pc'[th] = pc[th] /\ arg'[th] = arg[th] /\ slot'[th] = slot[th]
        /\ th = Watchdog => watch' = watch
    BY <1>3 DEF OthersStay
  <2>2. \A t \in Task : Starting(th) /\ arg[th] = t /\ Live(t)' => Calm(t)
    BY <1>3, ApartIsCalm DEF OverlapInv, OneStarter
  <2> QED
    BY <2>1, <2>2, ClaimsStay DEF OverlapInv
<1> QED
  BY <1>1, <1>2, <1>3 DEF OverlapInv

\* A step of an execution that moves no thread inside an operation.
LEMMA StillFits ==
  ASSUME SerialStarts, Typed, Typed', OverlapInv, StaysDeleted, UNCHANGED <<pc, arg, slot>>,
         watch' = watch, NEW u,
         \A t \in Task \ {u} : Apart(t) /\ QueueKept(t),
         u \in Task /\ Live(u)' => ExecutionsFit(u)' /\ Calm(u)
  PROVE  OverlapInv'
<1>1. Claims(Watchdog)'
  <2>1. \A t \in Task : Live(t)' => Calm(t)
    BY ApartIsCalm
  <2> QED
    BY <2>1, ClaimsStay, WatchdogThread DEF OverlapInv
<1>2. OthersStay(Watchdog) /\ Entry(Watchdog) /\ Watchdog \in Thread
  BY WatchdogThread DEF OthersStay, Entry, Starting
<1> QED
  BY <1>1, <1>2, StepFits

LEMMA ReachableStay == ASSUME NEW t \in Task, NEW E, fired \subseteq E, ReachableFired(E) PROVE EventsStay(t)
BY DEF ReachableFired, EventsStay

\* Nothing that executions are about changes, but locks that are taken, and events set.
LEMMA QuietApart ==
  ASSUME Typed, UNCHANGED <<handle, stopEvent, workerId, exec, execEvent, queue>>,
         fired \subseteq fired', NEW t \in Task, Held(t) \subseteq Held(t)'
  PROVE  Apart(t) /\ QueueKept(t)
<1>1. queue' = queue /\ queue \in Seq(Exec)
  BY DEF Typed, RestTyped
<1>2. QueueKept(t)
  BY <1>1, SameQueue
<1> QED
  BY <1>2 DEF Apart, EventsStay

LEMMA SameHeld == ASSUME lockOf' = lockOf PROVE \A t : Held(t)' = Held(t)
BY DEF Held

\* Locks are given up for one task only.
LEMMA ReleaseHeld ==
  ASSUME NEW S, NEW u, ReleaseSheets(S, u), NEW t, t # u
  PROVE  Held(t) \subseteq Held(t)'
BY DEF ReleaseSheets, Held

-----------------------------------------------------------------------------
(* The steps of start_task. *)

LEMMA StartPlace ==
  ASSUME Typed, NEW th \in Thread, StartStep(th)
  PROVE  pc[th] \in StartPc /\ Starting(th) /\ arg[th] \in Task /\ ThreadsTyped
<1>1. pc[th] \in StartPc
  BY DEF StartStep, StartPc, Step, CheckHandle, ReadTask, QueueForSheet, AcquireSheets,
     ValidateFails, MarkRunning, MarkRunningTooLate, TakeToken, TokenFails, RejectForQuota,
     Admit, Register, Enqueue, SubmitFails, Rollback
<1> QED
  BY <1>1 DEF Starting, Typed, ThreadsTyped, StartPc, Returned

LEMMA StartEnters ==
  ASSUME Typed, NEW th \in Thread, StartStep(th)
  PROVE  OthersStay(th) /\ Entry(th)
<1>0. ThreadsTyped /\ arg[th] \in Task /\ Starting(th)
  BY StartPlace
<1>1. CASE CheckHandle(th)
  <2>1. CASE HandleAlive(arg[th])
    BY <1>0, <1>1, <2>1, ReturnEnters DEF CheckHandle, Returned
  <2>2. CASE ~HandleAlive(arg[th])
    <3>1. Step(th, "check", "read")
      BY <1>1, <2>2 DEF CheckHandle, Step
    <3> QED
      BY <1>0, <3>1, StepEnters DEF StartPc
  <2> QED
    BY <2>1, <2>2
<1>2. CASE ReadTask(th)
  <2>1. CASE status[arg[th]] = "pending"
    <3>1. Step(th, "read", "lock")
      BY <1>2, <2>1 DEF ReadTask, Step
    <3> QED
      BY <1>0, <3>1, StepEnters DEF StartPc
  <2>2. CASE status[arg[th]] # "pending"
    BY <1>0, <1>2, <2>2, ReturnEnters DEF ReadTask, Returned
  <2> QED
    BY <2>1, <2>2
<1>3. CASE QueueForSheet(th) \/ MarkRunningTooLate(th) \/ Enqueue(th) \/ Rollback(th)
  BY <1>0, <1>3, ReturnEnters DEF QueueForSheet, MarkRunningTooLate, Enqueue, Rollback, Returned
<1>4. CASE AcquireSheets(th) \/ ValidateFails(th) \/ MarkRunning(th) \/ TakeToken(th)
           \/ TokenFails(th) \/ RejectForQuota(th) \/ Register(th) \/ SubmitFails(th)
  BY <1>0, <1>4, StepEnters DEF AcquireSheets, ValidateFails, MarkRunning, TakeToken,
     TokenFails, RejectForQuota, Register, SubmitFails, StartPc
<1>5. CASE Admit(th)
  <2>1. /\ \A ti \in Thread \ {th} : pc'[ti] = pc[ti] /\ arg'[ti] = arg[ti] /\ slot'[ti] = slot[ti]
        /\ pc'[th] = "register" /\ arg'[th] = arg[th]
    BY <1>0, <1>5 DEF Admit, Goto, ThreadsTyped
  <2> QED
    BY <1>0, <2>1 DEF OthersStay, Entry
<1> QED
  BY <1>1, <1>2, <1>3, <1>4, <1>5 DEF StartStep

\* No other task is concerned: locks are taken only where nobody holds them.
LEMMA StartApart ==
  ASSUME Typed, NEW th \in Thread, StartStep(th), NEW t \in Task \ {arg[th]}
  PROVE  Apart(t) /\ QueueKept(t)
<1>0. arg[th] \in Task /\ DictsTyped /\ ExecTyped /\ queue \in Seq(Exec)
  BY StartPlace DEF Typed, RestTyped
<1>1. CASE ReadTask(th) \/ QueueForSheet(th) \/ ValidateFails(th) \/ MarkRunning(th)
           \/ TakeToken(th) \/ TokenFails(th) \/ RejectForQuota(th)
  <2>1. UNCHANGED <<lockOf, handle, stopEvent, workerId, fired, exec, execEvent, queue>>
    BY <1>1 DEF ReadTask, QueueForSheet, ValidateFails, MarkRunning, TakeToken, TokenFails,
       RejectForQuota, dbVars, memVars, dictVars, execVars, workVars
  <2> QED
    BY <2>1, QuietApart, SameHeld
<1>2. CASE AcquireSheets(th)
  <2>1. UNCHANGED <<handle, stopEvent, workerId, fired, exec, execEvent, queue>>
    BY <1>2 DEF AcquireSheets, dictVars, execVars, workVars
  <2>2. /\ \A s \in SheetsOf[arg[th]] : lockOf[s] \in {None, arg[th]}
        /\ \A s \in Sheet \ SheetsOf[arg[th]] : lockOf'[s] = lockOf[s]
        /\ None \notin Task
    BY <1>2, ConstantsAssumption DEF AcquireSheets, AcquireAll, Conflict
  <2>3. Held(t) \subseteq Held(t)'
    BY <2>2 DEF Held
  <2> QED
    BY <2>1, <2>3, QuietApart
<1>3. CASE MarkRunningTooLate(th) \/ Rollback(th)
  <2>1. UNCHANGED <<handle, stopEvent, workerId, fired, exec, execEvent, queue>>
    BY <1>3 DEF MarkRunningTooLate, Rollback, dictVars, execVars, workVars
  <2>2. Held(t) \subseteq Held(t)'
    BY <1>3, ReleaseHeld DEF MarkRunningTooLate, Rollback, RollbackReservation
  <2> QED
    BY <2>1, <2>2, QuietApart
<1>4. CASE CheckHandle(th)
  <2>1. handle'[t] = handle[t]
    BY <1>0, <1>4 DEF CheckHandle, DictsTyped
  <2>2. UNCHANGED <<lockOf, stopEvent, workerId, fired, exec, execEvent, queue>>
    BY <1>4 DEF CheckHandle, dbVars, execVars, workVars
  <2> QED
    BY <1>0, <2>1, <2>2, SameQueue, SameHeld DEF Apart, EventsStay
<1>5. CASE Admit(th) \/ Register(th) \/ SubmitFails(th)
  <2>1. UNCHANGED <<lockOf, workerId, execEvent, queue>>
    BY <1>5 DEF Admit, Register, SubmitFails, dbVars, workVars
  <2>2. handle'[t] = handle[t] /\ stopEvent'[t] = stopEvent[t]
    BY <1>0, <1>5 DEF Admit, Register, SubmitFails, DictsTyped
  <2>3. \A n \in Slot : exec'[<<t, n>>] = exec[<<t, n>>]
    BY <1>0, <1>5 DEF Admit, Register, SubmitFails, ExecTyped, Exec
  <2>4. EventsStay(t)
    BY <1>5, ReachableStay DEF Admit, Register, SubmitFails, EventsStay
  <2> QED
    BY <1>0, <2>1, <2>2, <2>3, <2>4, SameQueue, SameHeld DEF Apart
<1>6. CASE Enqueue(th)
  <2>1. UNCHANGED <<lockOf, handle, stopEvent, workerId, fired, execEvent>>
    BY <1>6 DEF Enqueue, dbVars, dictVars, workVars
  <2>2. \A n \in Slot : exec'[<<t, n>>] = exec[<<t, n>>]
    BY <1>0, <1>6 DEF Enqueue, ExecTyped, Exec
  <2>3. QueueKept(t)
    <3>1. queue' = Append(queue, <<arg[th], slot[th]>>)
      BY <1>6 DEF Enqueue
    <3>2. ASSUME NEW i \in 1..Len(queue'), queue'[i][1] = t
          PROVE  i + 0 \in 1..Len(queue) /\ queue'[i] = queue[i + 0]
      BY <1>0, <3>1, <3>2
    <3>3. 0 \in Nat
      OBVIOUS
    <3> QED
      BY <3>2, <3>3 DEF QueueKept
  <2> QED
    BY <2>1, <2>2, <2>3, SameHeld DEF Apart, EventsStay
<1> QED
  BY <1>1, <1>2, <1>3, <1>4, <1>5, <1>6 DEF StartStep

\* A thread that has returned claims nothing.
LEMMA NoClaims == ASSUME NEW th, pc'[th] \notin Alone \cup {"join"} PROVE Claims(th)'
BY DEF Claims

\* Nobody executes a task past the check of its handle: none is handled and current.
LEMMA AloneHas ==
  ASSUME NEW th \in Thread, Claims(th), pc[th] \in Alone, Live(arg[th])
  PROVE  /\ StarterFits(th)
         /\ \A n \in Slot : handle[arg[th]] = n => exec[<<arg[th], n>>] \notin Handled
BY DEF Claims, StarterFits

\* A dead handle is not the one of an execution that runs or waits.
LEMMA DeadCurrent ==
  ASSUME Typed, NEW t \in Task, ~HandleAlive(t)
  PROVE  \A n \in Slot : handle[t] = n => exec[<<t, n>>] \notin AliveExec
BY DEF HandleAlive, Slot

LEMMA HandledIsAlive == Handled \subseteq AliveExec
BY DEF Handled, Unreleased, AliveExec, ExecPc

LEMMA CheckFits ==
  ASSUME Typed, Typed', NEW th \in Thread, NEW u \in Task, u = arg[th], ExecutionsFit(u),
         CheckHandle(th)
  PROVE  ExecutionsFit(u)' /\ Claims(th)'
<1>0. ThreadsTyped /\ queue \in Seq(Exec)
  BY DEF Typed, RestTyped
<1>1. /\ pc[th] = "check"
      /\ UNCHANGED <<lockOf, stopEvent, workerId, fired, exec, execEvent, queue>>
  BY DEF CheckHandle, dbVars, execVars, workVars
<1>2. CASE HandleAlive(u)
  <2>1. Return(th, "rejected") /\ handle' = handle
    BY <1>2 DEF CheckHandle
  <2>2. Moves(u)
    BY <1>1, <2>1, QuietApart, SameHeld, ApartMoves
  <2>3. pc'[th] \in Returned \cup {"idle"}
    BY <1>0, <2>1, ReturnEnters DEF Returned
  <2> QED
    BY <2>2, <2>3, MovesFit, NoClaims DEF Returned, Alone, StartPc
<1>3. CASE ~HandleAlive(u)
  <2>1. handle' = [handle EXCEPT ![u] = 0] /\ pc' = [pc EXCEPT ![th] = "read"] /\ arg' = arg
    BY <1>3 DEF CheckHandle, Goto
  <2>2. handle'[u] = 0 /\ pc'[th] = "read"
    BY <1>0, <2>1 DEF Typed, DictsTyped, ThreadsTyped
  <2>3. \A n \in Slot : handle[u] = n => exec[<<u, n>>] \notin Handled
    BY <1>3, DeadCurrent, HandledIsAlive
  <2>4. Drops(u)
    <3> SUFFICES ASSUME NEW n \in Slot
                 PROVE  /\ exec[<<u, n>>] \notin Settling
                        /\ exec[<<u, n>>] \in Handled => stopEvent[u] # n
                        /\ exec[<<u, n>>] = "working" => Told(<<u, n>>)' \/ Misled(<<u, n>>)'
      BY <1>0, <1>1, <2>2, SameQueue DEF Drops
    <3>1. exec[<<u, n>>] \notin Settling
      BY <2>3 DEF ExecutionsFit, SettlerIsCurrent, Settling, Handled, Unreleased
    <3>2. exec[<<u, n>>] \in Handled => stopEvent[u] # n
      BY <2>3 DEF ExecutionsFit, CurrentHasEvent
    <3>3. exec[<<u, n>>] = "working" => Told(<<u, n>>) \/ Misled(<<u, n>>)
      BY <2>3 DEF ExecutionsFit, ReplacedEnds, Handled, Unreleased
    <3> QED
      BY <1>1, <3>1, <3>2, <3>3 DEF Told, Misled
  <2>5. StarterFits(th)'
    BY <2>1, <2>2 DEF StarterFits, Reserving, Slot
  <2> QED
    BY <2>4, <2>5, DropsFit DEF Claims
<1> QED
  BY <1>2, <1>3

\* Steps inside start_task that touch neither locks nor executions.
LEMMA QuietStartFits ==
  ASSUME Typed, Typed', NEW th \in Thread, NEW u \in Task, u = arg[th], ExecutionsFit(u),
         Live(u), Claims(th),
         \/ ReadTask(th) \/ QueueForSheet(th) \/ ValidateFails(th) \/ MarkRunning(th)
         \/ TakeToken(th) \/ TokenFails(th) \/ RejectForQuota(th)
  PROVE  ExecutionsFit(u)' /\ Claims(th)'
<1>0. ThreadsTyped
  BY DEF Typed
<1>1. UNCHANGED <<lockOf, handle, stopEvent, workerId, fired, exec, execEvent, queue>>
  BY DEF ReadTask, QueueForSheet, ValidateFails, MarkRunning, TakeToken, TokenFails,
     RejectForQuota, dbVars, memVars, dictVars, execVars, workVars
<1>2. ExecutionsFit(u)'
  BY <1>1, QuietApart, SameHeld, ApartMoves, MovesFit
<1>3. \/ pc'[th] \in Returned \cup {"idle"}
      \/ /\ arg'[th] = arg[th] /\ pc[th] \in Alone /\ pc'[th] \notin {"register", "enqueue", "join"}
         /\ pc'[th] \in Reserving => pc[th] \in Reserving
  <2>1. CASE ReadTask(th) \/ QueueForSheet(th)
    <3>1. \/ Return(th, "rejected") \/ Return(th, "queued") \/ Step(th, "read", "lock")
      BY <2>1 DEF ReadTask, QueueForSheet, Step
    <3>2. Step(th, "read", "lock") =>
            pc[th] = "read" /\ pc'[th] = "lock" /\ arg'[th] = arg[th]
      BY <1>0, StepEnters DEF StartPc
    <3> QED
      BY <1>0, <3>1, <3>2, ReturnEnters DEF Returned, Alone, StartPc, Reserving
  <2>2. CASE ValidateFails(th) \/ MarkRunning(th) \/ TakeToken(th) \/ TokenFails(th)
             \/ RejectForQuota(th)
    <3>1. PICK from \in Reserving, to \in Reserving \ {"register", "enqueue"} : Step(th, from, to)
      BY <2>2 DEF ValidateFails, MarkRunning, TakeToken, TokenFails, RejectForQuota, Reserving
    <3>2. Reserving \subseteq StartPc \ {"check"}
      BY DEF Reserving, StartPc
    <3>3. pc[th] = from /\ pc'[th] = to /\ arg'[th] = arg[th]
      BY <1>0, <3>1, <3>2, StepEnters
    <3> QED
      BY <3>1, <3>2, <3>3 DEF Alone, Reserving
  <2> QED
    BY <2>1, <2>2
<1>4. CASE pc'[th] \in Returned \cup {"idle"}
  BY <1>2, <1>4, NoClaims DEF Returned, Alone, StartPc
<1>5. CASE /\ arg'[th] = arg[th] /\ pc[th] \in Alone /\ pc'[th] \notin {"register", "enqueue", "join"}
           /\ pc'[th] \in Reserving => pc[th] \in Reserving
  <2>1. StarterFits(th)
    BY <1>5, AloneHas
  <2>2. StarterFits(th)'
    BY <1>1, <1>5, <2>1, SameHeld DEF StarterFits
  <2> QED
    BY <1>2, <2>2 DEF Claims
<1> QED
  BY <1>3, <1>4, <1>5

LEMMA AcquireFits ==
  ASSUME Typed, Typed', NEW th \in Thread, NEW u \in Task, u = arg[th], ExecutionsFit(u),
         Live(u), Claims(th), AcquireSheets(th)
  PROVE  ExecutionsFit(u)' /\ Claims(th)'
<1>1. UNCHANGED <<handle, stopEvent, workerId, fired, exec, execEvent, queue>>
  BY DEF AcquireSheets, dictVars, execVars, workVars
<1>2. /\ \A s \in SheetsOf[u] : lockOf'[s] = u
      /\ \A s \in Sheet \ SheetsOf[u] : lockOf'[s] = lockOf[s]
      /\ SheetsOf[u] \subseteq Sheet
  BY ConstantsAssumption DEF AcquireSheets, AcquireAll
<1>3. Held(u) \subseteq Held(u)' /\ SheetsOf[u] \subseteq Held(u)'
  BY <1>2 DEF Held
<1>4. ExecutionsFit(u)'
  BY <1>1, <1>3, QuietApart, ApartMoves, MovesFit
<1>5. pc[th] = "lock" /\ pc'[th] = "mark" /\ arg'[th] = arg[th]
  BY StepEnters DEF AcquireSheets, Typed, StartPc
<1>6. StarterFits(th)
  BY <1>5, AloneHas DEF Alone, StartPc
<1>7. StarterFits(th)'
  BY <1>1, <1>3, <1>5, <1>6 DEF StarterFits, Reserving, Alone, StartPc
<1> QED
  BY <1>4, <1>7 DEF Claims

\* Locks are given up while no execution is current.
LEMMA GiveUpFits ==
  ASSUME Typed, Typed', NEW th \in Thread, NEW u \in Task, u = arg[th], ExecutionsFit(u),
         Live(u), Claims(th), pc[th] \in Alone,
         UNCHANGED <<handle, stopEvent, workerId, fired, exec, execEvent, queue>>
  PROVE  ExecutionsFit(u)'
<1>1. \A n \in Slot : handle[u] = n => exec[<<u, n>>] \notin Unreleased
  BY AloneHas DEF Handled
<1>2. QueueKept(u)
  BY SameQueue DEF Typed, RestTyped
<1>3. Moves(u)
  BY <1>1, <1>2 DEF Moves, GoesOn, EventsStay
<1> QED
  BY <1>3, MovesFit

LEMMA RollbackFits ==
  ASSUME Typed, Typed', NEW th \in Thread, NEW u \in Task, u = arg[th], ExecutionsFit(u),
         Live(u), Claims(th), MarkRunningTooLate(th) \/ Rollback(th)
  PROVE  ExecutionsFit(u)' /\ Claims(th)'
<1>1. /\ UNCHANGED <<handle, stopEvent, workerId, fired, exec, execEvent, queue>>
      /\ Return(th, "rejected") /\ pc[th] \in Alone
  BY DEF MarkRunningTooLate, Rollback, dictVars, execVars, workVars, Alone, StartPc
<1>2. ExecutionsFit(u)'
  BY <1>1, GiveUpFits
<1>3. pc'[th] \in Returned \cup {"idle"}
  BY <1>1, ReturnEnters DEF Typed, Returned
<1> QED
  BY <1>2, <1>3, NoClaims DEF Returned, Alone, StartPc

LEMMA AdmitFits ==
  ASSUME Typed, Typed', NEW th \in Thread, NEW u \in Task, u = arg[th], ExecutionsFit(u),
         Live(u), Claims(th), Admit(th)
  PROVE  ExecutionsFit(u)' /\ Claims(th)'
<1>0. ThreadsTyped /\ DictsTyped /\ ExecTyped /\ queue \in Seq(Exec)
  BY DEF Typed, RestTyped
<1>1. PICK m \in Slot :
        /\ exec[<<u, m>>] = "none"
        /\ exec' = [exec EXCEPT ![<<u, m>>] = "admitted"]
        /\ slot' = [slot EXCEPT ![th] = m]
        /\ stopEvent' = [stopEvent EXCEPT ![u] = m]
        /\ UNCHANGED execEvent
        /\ ReachableFired(fired)
  BY DEF Admit, FreeSlots
<1>2. /\ pc[th] = "admit" /\ pc' = [pc EXCEPT ![th] = "register"]
      /\ UNCHANGED <<lockOf, handle, workerId, queue, arg>>
  BY DEF Admit, Goto, dbVars
<1>3. /\ pc'[th] = "register" /\ arg'[th] = u /\ slot'[th] = m /\ stopEvent'[u] = m
      /\ exec'[<<u, m>>] = "admitted"
      /\ \A n \in Slot : n # m => exec'[<<u, n>>] = exec[<<u, n>>]
  BY <1>0, <1>1, <1>2 DEF ThreadsTyped, DictsTyped, ExecTyped, Exec
<1>4. StarterFits(th) /\ \A n \in Slot : handle[u] = n => exec[<<u, n>>] \notin Handled
  BY <1>2, AloneHas DEF Alone, StartPc
<1>5. \A n \in Slot : handle[u] = n => exec'[<<u, n>>] \notin Handled
  BY <1>3, <1>4 DEF Handled, Unreleased
<1>6. ExecutionsFit(u)'
  <2>1. \A n \in Slot : exec'[<<u, n>>] \in Handled => handle[u] # n /\ stopEvent'[u] # n
    BY <1>3, <1>5 DEF Handled, Unreleased
  <2>2. EventsStay(u)
    BY <1>1, ReachableStay
  <2>3. QueueKept(u) /\ Held(u)' = Held(u)
    BY <1>0, <1>2, SameQueue, SameHeld
  <2>4. ASSUME NEW n \in Slot PROVE GoesOn(u, n)
    <3>1. CASE n = m
      BY <1>1, <1>3, <3>1 DEF GoesOn, Unreleased, Handled, Running, Settling
    <3>2. CASE n # m
      BY <1>1, <1>2, <1>3, <3>2 DEF GoesOn
    <3> QED
      BY <3>1, <3>2
  <2>5. Moves(u)
    BY <1>2, <2>1, <2>2, <2>3, <2>4 DEF Moves
  <2> QED
    BY <2>5, MovesFit
<1>7. StarterFits(th)'
  <2>1. SheetsOf[u] \subseteq Held(u)'
    BY <1>2, <1>4, SameHeld DEF StarterFits, Reserving
  <2> QED
    BY <1>2, <1>3, <1>5, <2>1 DEF StarterFits
<1> QED
  BY <1>6, <1>7 DEF Claims

LEMMA RegisterFits ==
  ASSUME Typed, Typed', NEW th \in Thread, NEW u \in Task, u = arg[th], ExecutionsFit(u),
         Live(u), Claims(th), Register(th)
  PROVE  ExecutionsFit(u)' /\ Claims(th)'
<1>0. ThreadsTyped /\ DictsTyped /\ ExecTyped /\ queue \in Seq(Exec)
  BY DEF Typed, RestTyped
<1>1. /\ pc[th] = "register" /\ pc'[th] = "enqueue" /\ arg'[th] = arg[th] /\ slot'[th] = slot[th]
      /\ slot[th] \in Slot
  BY <1>0, StepEnters DEF Register, StartPc, ThreadsTyped
<1>2. PICK m \in Slot : m = slot[th]
  BY <1>1
<1>3. /\ handle' = [handle EXCEPT ![u] = m] /\ exec' = [exec EXCEPT ![<<u, m>>] = "registered"]
      /\ UNCHANGED <<lockOf, stopEvent, fired, workerId, queue, execEvent>>
  BY <1>2 DEF Register, dbVars, workVars
<1>4. /\ handle'[u] = m /\ exec'[<<u, m>>] = "registered"
      /\ \A n \in Slot : n # m => exec'[<<u, n>>] = exec[<<u, n>>]
  BY <1>0, <1>3 DEF DictsTyped, ExecTyped, Exec
<1>5. StarterFits(th) /\ \A n \in Slot : handle[u] = n => exec[<<u, n>>] \notin Handled
  BY <1>1, AloneHas DEF Alone, StartPc
<1>6. exec[<<u, m>>] = "admitted" /\ stopEvent[u] = m /\ SheetsOf[u] \subseteq Held(u)
  BY <1>1, <1>2, <1>5 DEF StarterFits, Reserving
<1>7. CurrentHolds(u)' /\ CurrentIsWorker(u)' /\ CurrentStays(u)'
  BY <1>3, <1>4, <1>5 DEF CurrentHolds, CurrentIsWorker, CurrentStays, ExecutionsFit, Running,
     Unreleased
<1>8. SettlerIsCurrent(u)'
  BY <1>4, <1>5 DEF SettlerIsCurrent, ExecutionsFit, Settling, Handled, Unreleased
<1>9. CurrentHasEvent(u)'
  BY <1>3, <1>4, <1>5, <1>6 DEF CurrentHasEvent, ExecutionsFit, Handled, Unreleased
<1>10. ReplacedEnds(u)'
  BY <1>3, <1>4, <1>5 DEF ReplacedEnds, ExecutionsFit, Told, Misled, Handled, Unreleased
<1>11. LastIsCurrent(u)'
  <2>1. ASSUME NEW i \in 1..Len(queue), queue[i][1] = u
        PROVE  exec'[queue[i]] = "queued" /\ queue[i][2] # m
    <3>1. exec[queue[i]] = "queued" /\ queue[i] \in Exec
      BY <1>0, <2>1 DEF ExecutionsFit, LastIsCurrent
    <3>2. PICK n \in Slot : queue[i] = <<u, n>>
      BY <2>1, <3>1 DEF Exec
    <3>3. n # m
      BY <1>6, <3>1, <3>2
    <3> QED
      BY <1>4, <3>1, <3>2, <3>3
  <2> QED
    BY <1>3, <1>4, <2>1 DEF LastIsCurrent, ExecutionsFit
<1>12. StarterFits(th)'
  <2>1. SheetsOf[u] \subseteq Held(u)'
    BY <1>3, <1>6, SameHeld
  <2> QED
    BY <1>1, <1>2, <1>3, <1>4, <1>6, <2>1 DEF StarterFits, Handled, Unreleased
<1> QED
  BY <1>7, <1>8, <1>9, <1>10, <1>11, <1>12 DEF ExecutionsFit, Claims

LEMMA EnqueueFits ==
  ASSUME Typed, Typed', NEW th \in Thread, NEW u \in Task, u = arg[th], ExecutionsFit(u),
         Live(u), Claims(th), Enqueue(th)
  PROVE  ExecutionsFit(u)' /\ Claims(th)'
<1>0. ThreadsTyped /\ DictsTyped /\ ExecTyped /\ queue \in Seq(Exec)
  BY DEF Typed, RestTyped
<1>1. pc[th] = "enqueue" /\ Return(th, "started") /\ slot[th] \in Slot
  BY <1>0 DEF Enqueue, ThreadsTyped
<1>2. PICK m \in Slot : m = slot[th]
  BY <1>1
<1>3. /\ exec' = [exec EXCEPT ![<<u, m>>] = "queued"] /\ queue' = Append(queue, <<u, m>>)
      /\ UNCHANGED <<lockOf, handle, stopEvent, fired, workerId, execEvent>>
  BY <1>2 DEF Enqueue, dbVars, dictVars, workVars
<1>4. /\ exec'[<<u, m>>] = "queued"
      /\ \A n \in Slot : n # m => exec'[<<u, n>>] = exec[<<u, n>>]
  BY <1>0, <1>3 DEF ExecTyped, Exec
<1>5. StarterFits(th) /\ \A n \in Slot : handle[u] = n => exec[<<u, n>>] \notin Handled
  BY <1>1, AloneHas DEF Alone, StartPc
<1>6. /\ exec[<<u, m>>] = "registered" /\ handle[u] = m /\ stopEvent[u] = m
      /\ SheetsOf[u] \subseteq Held(u)
  BY <1>1, <1>2, <1>5 DEF StarterFits, Reserving
<1>7. CurrentHolds(u)' /\ CurrentIsWorker(u)' /\ CurrentStays(u)'
  <2>1. SheetsOf[u] \subseteq Held(u)'
    BY <1>3, <1>6, SameHeld
  <2> QED
    BY <1>3, <1>4, <1>6, <2>1 DEF CurrentHolds, CurrentIsWorker, CurrentStays, ExecutionsFit,
       Running
<1>8. SettlerIsCurrent(u)' /\ CurrentHasEvent(u)'
  BY <1>3, <1>4, <1>6 DEF SettlerIsCurrent, CurrentHasEvent, ExecutionsFit, Settling
<1>9. ReplacedEnds(u)'
  BY <1>3, <1>4 DEF ReplacedEnds, ExecutionsFit, Told, Misled
<1>10. LastIsCurrent(u)'
  <2>1. ASSUME NEW i \in 1..Len(queue), queue[i][1] = u
        PROVE  /\ exec'[queue[i]] = "queued" /\ queue[i] # <<u, m>> /\ queue[i][2] # m
    <3>1. exec[queue[i]] = "queued" /\ queue[i] \in Exec
      BY <1>0, <2>1 DEF ExecutionsFit, LastIsCurrent
    <3>2. PICK n \in Slot : queue[i] = <<u, n>>
      BY <2>1, <3>1 DEF Exec
    <3>3. n # m
      BY <1>6, <3>1, <3>2
    <3> QED
      BY <1>4, <3>1, <3>2, <3>3
  <2>2. /\ Len(queue') = Len(queue) + 1 /\ queue'[Len(queue')] = <<u, m>> /\ Len(queue) \in Nat
        /\ \A i \in 1..Len(queue) : queue'[i] = queue[i]
    BY <1>0, <1>3
  <2>3. ASSUME NEW i \in 1..Len(queue'), queue'[i][1] = u PROVE exec'[queue'[i]] = "queued"
    BY <1>4, <2>1, <2>2, <2>3
  <2>4. ASSUME NEW i \in 1..Len(queue'), NEW j \in 1..Len(queue'), i < j,
               queue'[i][1] = u, queue'[j][1] = u
        PROVE  queue'[i] # queue'[j] /\ handle'[u] # queue'[i][2]
    <3>1. i \in 1..Len(queue) /\ queue'[i] = queue[i]
      BY <2>2, <2>4
    <3>2. handle'[u] # queue'[i][2]
      BY <1>3, <1>6, <2>1, <2>4, <3>1
    <3>3. CASE j = Len(queue')
      BY <2>1, <2>2, <2>4, <3>1, <3>2, <3>3
    <3>4. CASE j # Len(queue')
      <4>1. j \in 1..Len(queue) /\ queue'[j] = queue[j]
        BY <2>2, <3>4
      <4> QED
        BY <2>4, <3>1, <3>2, <4>1 DEF ExecutionsFit, LastIsCurrent
    <3> QED
      BY <3>3, <3>4
  <2> QED
    BY <2>3, <2>4 DEF LastIsCurrent
<1>11. pc'[th] \in Returned \cup {"idle"}
  BY <1>0, <1>1, ReturnEnters DEF Returned
<1> QED
  BY <1>7, <1>8, <1>9, <1>10, <1>11, NoClaims DEF ExecutionsFit, Returned, Alone, StartPc

LEMMA SubmitFailsFits ==
  ASSUME Typed, Typed', NEW th \in Thread, NEW u \in Task, u = arg[th], ExecutionsFit(u),
         Live(u), Claims(th), SubmitFails(th)
  PROVE  ExecutionsFit(u)' /\ Claims(th)'
<1>0. ThreadsTyped /\ DictsTyped /\ ExecTyped /\ queue \in Seq(Exec)
  BY DEF Typed, RestTyped
<1>1. pc[th] = "enqueue" /\ pc'[th] = "rollbackRunning" /\ arg'[th] = arg[th] /\ slot[th] \in Slot
  BY <1>0, StepEnters DEF SubmitFails, StartPc, ThreadsTyped
<1>2. PICK m \in Slot : m = slot[th]
  BY <1>1
<1>3. /\ exec' = [exec EXCEPT ![<<u, m>>] = "none"]
      /\ handle' = [handle EXCEPT ![u] = 0] /\ stopEvent' = [stopEvent EXCEPT ![u] = 0]
      /\ ReachableFired(fired)
      /\ UNCHANGED <<lockOf, workerId, queue, execEvent>>
  BY <1>2 DEF SubmitFails, dbVars
<1>4. /\ handle'[u] = 0 /\ stopEvent'[u] = 0 /\ exec'[<<u, m>>] = "none"
      /\ \A n \in Slot : n # m => exec'[<<u, n>>] = exec[<<u, n>>]
  BY <1>0, <1>3 DEF DictsTyped, ExecTyped, Exec
<1>5. StarterFits(th) /\ \A n \in Slot : handle[u] = n => exec[<<u, n>>] \notin Handled
  BY <1>1, AloneHas DEF Alone, StartPc
<1>6. exec[<<u, m>>] = "registered" /\ SheetsOf[u] \subseteq Held(u)
  BY <1>1, <1>2, <1>5 DEF StarterFits, Reserving
<1>7. Drops(u)
  <2>1. QueueKept(u) /\ EventsStay(u)
    BY <1>0, <1>3, SameQueue, ReachableStay
  <2> SUFFICES ASSUME NEW n \in Slot
               PROVE  /\ exec'[<<u, n>>] \notin Settling
                      /\ exec'[<<u, n>>] = "working" => Told(<<u, n>>)' \/ Misled(<<u, n>>)'
                      /\ exec[<<u, n>>] = "queued" => exec'[<<u, n>>] = "queued"
    BY <1>4, <2>1 DEF Drops, Slot
  <2>2. CASE n = m
    BY <1>4, <1>6, <2>2 DEF Settling
  <2>3. CASE n # m
    <3>1. exec'[<<u, n>>] = exec[<<u, n>>] /\ execEvent'[<<u, n>>] = execEvent[<<u, n>>]
      BY <1>3, <1>4, <2>3
    <3>2. exec[<<u, n>>] \notin Settling
      BY <1>5 DEF ExecutionsFit, SettlerIsCurrent, Settling, Handled, Unreleased
    <3>3. exec[<<u, n>>] = "working" => Told(<<u, n>>) \/ Misled(<<u, n>>)
      BY <1>5 DEF ExecutionsFit, ReplacedEnds, Handled, Unreleased
    <3>4. execEvent[<<u, n>>] # 0 => execEvent[<<u, n>>] \in Slot
      BY <1>0, ConstantsAssumption DEF ExecTyped, Slot, Exec
    <3> QED
      BY <2>1, <3>1, <3>2, <3>3, <3>4 DEF Told, Misled, EventsStay
  <2> QED
    BY <2>2, <2>3
<1>8. StarterFits(th)'
  <2>1. SheetsOf[u] \subseteq Held(u)'
    BY <1>3, <1>6, SameHeld
  <2> QED
    BY <1>1, <1>4, <2>1 DEF StarterFits, Slot
<1> QED
  BY <1>7, <1>8, DropsFit DEF Claims

\* A thread inside start_task keeps to its task.
LEMMA StartLeaves ==
  ASSUME Typed, NEW th \in Thread, StartStep(th)
  PROVE  arg'[th] = arg[th] \/ pc'[th] \in Returned \cup {"idle"}
<1>1. pc \in [Thread -> Pc]
  BY DEF Typed, ThreadsTyped
<1> QED
  BY <1>1 DEF StartStep, CheckHandle, ReadTask, QueueForSheet, AcquireSheets, ValidateFails,
     MarkRunning, MarkRunningTooLate, TakeToken, TokenFails, RejectForQuota, Admit, Register,
     Enqueue, SubmitFails, Rollback, Step, Goto, Return, Returned

\* All of start_task.
LEMMA StartFits ==
  ASSUME SerialStarts, Typed, OverlapInv, NEW th \in Thread, StartStep(th),
         th = Watchdog \/ watch' = watch
  PROVE  OverlapInv'
<1>0. Typed' /\ StaysDeleted
  BY StartTyped, StartKeepsDeleted
<1>1. PICK u \in Task : u = arg[th]
  BY StartPlace
<1>2. Starting(th) /\ OthersStay(th) /\ Entry(th)
  BY StartPlace, StartEnters
<1>3. \A t \in Task \ {u} : Apart(t) /\ QueueKept(t)
  BY <1>1, StartApart
<1>4. CASE Live(u)
  <2>1. ExecutionsFit(u) /\ Claims(th)
    BY <1>4 DEF OverlapInv
  <2>2. ExecutionsFit(u)' /\ Claims(th)'
    BY <1>0, <1>1, <1>4, <2>1, CheckFits, QuietStartFits, AcquireFits, RollbackFits, AdmitFits,
       RegisterFits, EnqueueFits, SubmitFailsFits DEF StartStep
  <2> QED
    BY <1>0, <1>1, <1>2, <1>3, <2>2, StepFits
<1>5. CASE ~Live(u)
  <2>1. ~Live(u)'
    BY <1>0, <1>5 DEF Live, StaysDeleted
  <2>2. Claims(th)'
    <3>1. arg'[th] = u \/ pc'[th] \in Returned \cup {"idle"}
      BY <1>1, StartLeaves
    <3> QED
      BY <2>1, <3>1 DEF Claims, Alone, StartPc, Returned
  <2> QED
    BY <1>0, <1>1, <1>2, <1>3, <2>1, <2>2, StepFits
<1> QED
  BY <1>4, <1>5

-----------------------------------------------------------------------------
(* The steps of an execution. *)

LEMMA ExecutionNames ==
  ASSUME NEW x \in Exec
  PROVE  x[1] \in Task /\ x[2] \in Slot /\ x[2] # 0 /\ x = <<x[1], x[2]>> /\ x \in Thread
BY DEF Exec, Slot, Thread

LEMMA ExecutionApart ==
  ASSUME Typed, NEW x \in Exec, ExecutionStep(x), NEW t \in Task \ {x[1]}
  PROVE  Apart(t) /\ QueueKept(t)
<1>0. /\ x[1] \in Task /\ x = <<x[1], x[2]>> /\ x[2] \in Slot
      /\ DictsTyped /\ ExecTyped /\ queue \in Seq(Exec)
  BY ExecutionNames DEF Typed, RestTyped
<1>1. queue' = queue
  BY DEF ExecutionStep, TaskMissing, MarkTaskRunning, FinishWork, ReadVerdict, WriteVerdict,
     CloseReplaced, CloseActive, ReleaseResources, Cleanup, RelayNobody, RelayNext, RelayEnd,
     memVars
<1>2. handle'[t] = handle[t] /\ stopEvent'[t] = stopEvent[t]
  BY <1>0 DEF ExecutionStep, TaskMissing, MarkTaskRunning, FinishWork, ReadVerdict, WriteVerdict,
     CloseReplaced, CloseActive, ReleaseResources, Cleanup, RelayNobody, RelayNext, RelayEnd,
     memVars, dictVars, DictsTyped
<1>3. workerId'[t] = workerId[t]
  BY <1>0 DEF ExecutionStep, TaskMissing, MarkTaskRunning, FinishWork, ReadVerdict, WriteVerdict,
     CloseReplaced, CloseActive, ReleaseResources, Cleanup, RelayNobody, RelayNext, RelayEnd,
     memVars, dictVars, DictsTyped, ForgetWorker
<1>4. \A n \in Slot : exec'[<<t, n>>] = exec[<<t, n>>]
  BY <1>0 DEF ExecutionStep, TaskMissing, MarkTaskRunning, FinishWork, ReadVerdict, WriteVerdict,
     CloseReplaced, CloseActive, ReleaseResources, Cleanup, RelayNobody, RelayNext, RelayEnd,
     ExecStep, Exit, ExecTyped, Exec
<1>5. \A n \in Slot : execEvent'[<<t, n>>] = execEvent[<<t, n>>]
  BY <1>0 DEF ExecutionStep, TaskMissing, MarkTaskRunning, FinishWork, ReadVerdict, WriteVerdict,
     CloseReplaced, CloseActive, ReleaseResources, Cleanup, RelayNobody, RelayNext, RelayEnd,
     workVars, Exit, ExecTyped, Exec
<1>6. Held(t) \subseteq Held(t)'
  <2>1. CASE ReleaseResources(x)
    BY <2>1, ReleaseHeld DEF ReleaseResources
  <2>2. CASE ~ReleaseResources(x)
    <3>1. lockOf' = lockOf
      BY <2>2 DEF ExecutionStep, TaskMissing, MarkTaskRunning, FinishWork, ReadVerdict,
         WriteVerdict, CloseReplaced, CloseActive, Cleanup, RelayNobody, RelayNext, RelayEnd, dbVars
    <3> QED
      BY <3>1, SameHeld
  <2> QED
    BY <2>1, <2>2
<1>7. EventsStay(t)
  <2>1. fired' = fired \/ ReachableFired(fired)
    BY DEF ExecutionStep, TaskMissing, MarkTaskRunning, FinishWork, ReadVerdict, WriteVerdict,
       CloseReplaced, CloseActive, ReleaseResources, Cleanup, RelayNobody, RelayNext, RelayEnd,
       memVars, dictVars
  <2> QED
    BY <2>1, ReachableStay DEF EventsStay
<1> QED
  BY <1>0, <1>1, <1>2, <1>3, <1>4, <1>5, <1>6, <1>7, SameQueue DEF Apart

\* The thread that comes back is the current one, or finds that it is not.
LEMMA ActiveIsCurrent ==
  ASSUME ~LateWake, Typed, NEW x \in Exec, Wakes(x), ActiveGeneration(x), ExecutionsFit(x[1])
  PROVE  handle[x[1]] = x[2]
<1>1. PICK u \in Task, m \in Slot : x = <<u, m>> /\ u = x[1] /\ m = x[2]
  BY ExecutionNames
<1>2. handle[u] # 0 /\ exec[<<u, handle[u]>>] \in AliveExec /\ workerId[u] \in {0, m}
  BY <1>1 DEF ActiveGeneration, HandleAlive
<1>3. handle[u] \in Slot
  BY <1>2, ConstantsAssumption DEF Typed, DictsTyped, Slot
<1>4. PICK n \in Slot : n = handle[u]
  BY <1>3
<1> SUFFICES ASSUME n # m PROVE FALSE
  BY <1>1, <1>4
<1>5. exec[<<u, n>>] \notin {"registered", "queued"}
  BY <1>1, <1>2, <1>4 DEF Wakes, Replacing
<1>6. exec[<<u, n>>] \notin {"relay", "relaying"}
  BY <1>1, <1>4 DEF ExecutionsFit, CurrentStays
<1>7. exec[<<u, n>>] \in Running
  BY <1>2, <1>4, <1>5, <1>6 DEF AliveExec, ExecPc, Running
<1>8. workerId[u] = n /\ n # 0
  BY <1>1, <1>4, <1>7 DEF ExecutionsFit, CurrentIsWorker, Slot
<1> QED
  BY <1>2, <1>8

\* An execution goes on without giving anything up for its task.
LEMMA GoingOnFits ==
  ASSUME Typed, Typed', NEW u \in Task, NEW m \in Slot, ExecutionsFit(u),
         UNCHANGED <<lockOf, handle, stopEvent, queue>>, EventsStay(u),
         \A n \in Slot : n # m => /\ exec'[<<u, n>>] = exec[<<u, n>>]
                                  /\ execEvent'[<<u, n>>] = execEvent[<<u, n>>],
         workerId'[u] = workerId[u] \/ workerId[u] = m,
         GoesOn(u, m), exec[<<u, m>>] \notin {"admitted", "registered"}
  PROVE  ExecutionsFit(u)' /\ Calm(u)
<1>1. QueueKept(u) /\ Held(u)' = Held(u)
  BY SameQueue, SameHeld DEF Typed, RestTyped
<1>2. ASSUME NEW n \in Slot, n # m PROVE GoesOn(u, n)
  <2>1. handle[u] = n /\ exec[<<u, n>>] \in Running => workerId[u] = n
    BY DEF ExecutionsFit, CurrentIsWorker
  <2> QED
    BY <1>2, <2>1 DEF GoesOn
<1>3. Moves(u)
  BY <1>1, <1>2 DEF Moves
<1>4. Calm(u)
  BY <1>1, <1>2 DEF Calm, GoesOn
<1> QED
  BY <1>3, <1>4, MovesFit

\* Between its begin and its release an execution goes on.
LEMMA MoverFits ==
  ASSUME ~LateWake, Typed, Typed', NEW x \in Exec, NEW u \in Task, u = x[1], ExecutionsFit(u),
         Live(u), ExecutionStep(x), Wakes(x), ~ReleaseResources(x), ~Cleanup(x)
  PROVE  ExecutionsFit(u)' /\ Calm(u)
<1>1. PICK m \in Slot : x = <<u, m>>
  BY ExecutionNames
<1>2. ExecTyped /\ DictsTyped /\ ~TaskMissing(x)
  BY DEF Typed, TaskMissing, Live
<1>3. UNCHANGED <<lockOf, handle, stopEvent, queue>>
  BY <1>2 DEF ExecutionStep, MarkTaskRunning, FinishWork, ReadVerdict, WriteVerdict,
     CloseReplaced, CloseActive, RelayNobody, RelayNext, RelayEnd, dbVars, memVars, dictVars
<1>4. EventsStay(u)
  <2>1. fired' = fired \/ ReachableFired(fired)
    BY <1>2 DEF ExecutionStep, MarkTaskRunning, FinishWork, ReadVerdict, WriteVerdict,
       CloseReplaced, CloseActive, RelayNobody, RelayNext, RelayEnd, memVars, dictVars
  <2> QED
    BY <2>1, ReachableStay DEF EventsStay
<1>5. \A n \in Slot : n # m => /\ exec'[<<u, n>>] = exec[<<u, n>>]
                               /\ execEvent'[<<u, n>>] = execEvent[<<u, n>>]
  <2>1. \E to \in ExecPc : exec' = [exec EXCEPT ![x] = to]
    BY <1>2 DEF ExecutionStep, MarkTaskRunning, FinishWork, ReadVerdict, WriteVerdict,
       CloseReplaced, CloseActive, RelayNobody, RelayNext, RelayEnd, ExecStep, Exit, ExecPc
  <2>2. execEvent' = execEvent \/ \E e : execEvent' = [execEvent EXCEPT ![x] = e]
    BY <1>2 DEF ExecutionStep, MarkTaskRunning, FinishWork, ReadVerdict, WriteVerdict,
       CloseReplaced, CloseActive, RelayNobody, RelayNext, RelayEnd, workVars, Exit
  <2> QED
    BY <1>1, <1>2, <2>1, <2>2 DEF ExecTyped, Exec
<1>6. /\ workerId'[u] = workerId[u] \/ workerId[u] = m
      /\ exec'[x] = "none" \/ workerId' = workerId
  <2>1. CASE CloseReplaced(x) \/ RelayNobody(x) \/ RelayEnd(x)
    BY <1>1, <1>2, <2>1 DEF CloseReplaced, RelayNobody, RelayEnd, ForgetWorker, Exit, DictsTyped,
       ExecTyped
  <2>2. CASE ~(CloseReplaced(x) \/ RelayNobody(x) \/ RelayEnd(x))
    BY <1>2, <2>2 DEF ExecutionStep, MarkTaskRunning, FinishWork, ReadVerdict, WriteVerdict,
       CloseActive, RelayNext, memVars, dictVars
  <2> QED
    BY <2>1, <2>2
<1>7. exec[x] \in AliveExec \ {"queued"} /\ exec \in [Exec -> ExecPc]
  BY <1>2 DEF ExecutionStep, MarkTaskRunning, FinishWork, ReadVerdict, WriteVerdict,
     CloseReplaced, CloseActive, RelayNobody, RelayNext, RelayEnd, ExecStep, AliveExec, ExecPc,
     ExecTyped
<1>8. GoesOn(u, m)
  <2>1. CASE MarkTaskRunning(x)
    <3>1. exec[x] = "begun" /\ exec'[x] = "working" /\ workerId' = workerId
          /\ execEvent'[x] = stopEvent[u]
      BY <1>2, <1>6, <2>1 DEF MarkTaskRunning, ExecStep, ExecTyped
    <3>2. handle[u] = m \/ stopEvent[u] # m
      BY <1>1, <3>1 DEF ExecutionsFit, CurrentHasEvent, Handled, Unreleased
    <3> QED
      BY <1>1, <3>1, <3>2 DEF GoesOn, Unreleased, Handled, Running, Settling
  <2>2. CASE FinishWork(x) \/ WriteVerdict(x) \/ RelayNext(x)
    <3>1. \/ exec[x] = "working" /\ exec'[x] = "ended"
          \/ exec[x] = "finalizing" /\ exec'[x] = "closing"
          \/ exec[x] = "relay" /\ exec'[x] = "relaying"
      BY <1>7, <2>2 DEF FinishWork, WriteVerdict, RelayNext, ExecStep
    <3> QED
      BY <1>1, <1>6, <3>1 DEF GoesOn, Unreleased, Handled, Running, Settling
  <2>3. CASE CloseReplaced(x) \/ RelayNobody(x) \/ RelayEnd(x)
    <3>1. exec'[x] = "none" /\ exec[x] # "queued"
      BY <1>7, <2>3 DEF CloseReplaced, RelayNobody, RelayEnd, Exit
    <3> QED
      BY <1>1, <3>1 DEF GoesOn, Unreleased, Handled, Running, Settling
  <2>4. CASE ReadVerdict(x) \/ CloseActive(x)
    <3>1. \/ exec[x] = "ended" /\ exec'[x] = "closing"
          \/ exec[x] = "ended" /\ exec'[x] = "finalizing" /\ ActiveGeneration(x)
          \/ exec[x] = "closing" /\ exec'[x] = "releasing" /\ ActiveGeneration(x)
      BY <1>7, <2>4 DEF ReadVerdict, CloseActive, ExecStep
    <3>2. ActiveGeneration(x) => handle[u] = m
      BY <1>1, ActiveIsCurrent
    <3> QED
      BY <1>1, <1>6, <3>1, <3>2 DEF GoesOn, Unreleased, Handled, Running, Settling
  <2> QED
    BY <1>2, <2>1, <2>2, <2>3, <2>4 DEF ExecutionStep
<1>9. exec[<<u, m>>] \notin {"admitted", "registered"}
  BY <1>1, <1>7 DEF AliveExec
<1> QED
  BY <1>3, <1>4, <1>5, <1>6, <1>8, <1>9, GoingOnFits

\* Nobody is past the check of the handle of a task that a current execution settles.
LEMMA NobodyAtHandle ==
  ASSUME OverlapInv, NEW u \in Task, Live(u), NEW m \in Slot, exec[<<u, m>>] \in Settling
  PROVE  handle[u] = m /\ \A th \in Thread : pc[th] \in Alone => arg[th] # u
<1>1. handle[u] = m
  BY DEF OverlapInv, ExecutionsFit, SettlerIsCurrent
<1>2. exec[<<u, m>>] \in Handled
  BY DEF Settling, Handled, Unreleased
<1> QED
  BY <1>1, <1>2, AloneHas DEF OverlapInv

LEMMA ReleaseFits ==
  ASSUME Typed, Typed', OverlapInv, NEW x \in Exec, NEW u \in Task, u = x[1], Live(u),
         ReleaseResources(x)
  PROVE  ExecutionsFit(u)' /\ Calm(u)
<1>1. PICK m \in Slot : x = <<u, m>>
  BY ExecutionNames
<1>2. ExecTyped /\ queue \in Seq(Exec) /\ ExecutionsFit(u)
  BY DEF Typed, RestTyped, OverlapInv
<1>3. /\ exec[x] = "releasing" /\ exec' = [exec EXCEPT ![x] = "cleanup"]
      /\ UNCHANGED <<handle, stopEvent, workerId, fired, queue, execEvent>>
  BY DEF ReleaseResources, ExecStep, dictVars
<1>4. exec'[x] = "cleanup" /\ \A n \in Slot : n # m => exec'[<<u, n>>] = exec[<<u, n>>]
  BY <1>1, <1>2, <1>3 DEF ExecTyped, Exec
<1>5. handle[u] = m /\ \A th \in Thread : pc[th] \in Alone => arg[th] # u
  BY <1>1, <1>3, NobodyAtHandle DEF Settling
<1>6. Moves(u)
  <2>1. ASSUME NEW n \in Slot PROVE GoesOn(u, n)
    <3>1. CASE n = m
      BY <1>1, <1>3, <1>4, <1>5, <3>1 DEF GoesOn, Unreleased, Handled, Running, Settling
    <3>2. CASE n # m
      BY <1>3, <1>4, <3>2 DEF GoesOn
    <3> QED
      BY <3>1, <3>2
  <2>2. \A n \in Slot : handle[u] = n => exec'[<<u, n>>] \notin Unreleased
    BY <1>1, <1>4, <1>5 DEF Unreleased
  <2> QED
    BY <1>2, <1>3, <2>1, <2>2, SameQueue DEF Moves, EventsStay
<1>7. Calm(u)
  BY <1>3, <1>5 DEF Calm, EventsStay
<1> QED
  BY <1>2, <1>6, <1>7, MovesFit

LEMMA CleanupFits ==
  ASSUME Typed, Typed', OverlapInv, NEW x \in Exec, NEW u \in Task, u = x[1], Live(u),
         Cleanup(x)
  PROVE  ExecutionsFit(u)' /\ Calm(u)
<1>1. PICK m \in Slot : x = <<u, m>>
  BY ExecutionNames
<1>2. ExecTyped /\ DictsTyped /\ queue \in Seq(Exec) /\ ExecutionsFit(u)
  BY DEF Typed, RestTyped, OverlapInv
<1>3. /\ exec[x] = "cleanup" /\ exec' = [exec EXCEPT ![x] = "relay"]
      /\ handle' = [handle EXCEPT ![u] = 0] /\ stopEvent' = [stopEvent EXCEPT ![u] = 0]
      /\ ReachableFired(fired)
      /\ UNCHANGED <<lockOf, queue, execEvent>>
  BY DEF Cleanup, ExecStep, dbVars
<1>4. /\ handle'[u] = 0 /\ stopEvent'[u] = 0 /\ exec'[x] = "relay"
      /\ \A n \in Slot : n # m => exec'[<<u, n>>] = exec[<<u, n>>]
  BY <1>1, <1>2, <1>3 DEF DictsTyped, ExecTyped, Exec
<1>5. handle[u] = m /\ \A th \in Thread : pc[th] \in Alone => arg[th] # u
  BY <1>1, <1>3, NobodyAtHandle DEF Settling
<1>6. QueueKept(u) /\ EventsStay(u)
  BY <1>2, <1>3, SameQueue, ReachableStay
<1>7. Drops(u)
  <2> SUFFICES ASSUME NEW n \in Slot
               PROVE  /\ exec'[<<u, n>>] \notin Settling
                      /\ exec'[<<u, n>>] = "working" => Told(<<u, n>>)' \/ Misled(<<u, n>>)'
                      /\ exec[<<u, n>>] = "queued" => exec'[<<u, n>>] = "queued"
    BY <1>4, <1>6 DEF Drops, Slot
  <2>1. CASE n = m
    BY <1>1, <1>3, <1>4, <2>1 DEF Settling
  <2>2. CASE n # m
    <3>1. exec'[<<u, n>>] = exec[<<u, n>>] /\ execEvent'[<<u, n>>] = execEvent[<<u, n>>]
      BY <1>3, <1>4, <2>2
    <3>2. exec[<<u, n>>] \notin Settling
      BY <1>2, <1>5, <2>2 DEF ExecutionsFit, SettlerIsCurrent
    <3>3. exec[<<u, n>>] = "working" => Told(<<u, n>>) \/ Misled(<<u, n>>)
      BY <1>2, <1>5, <2>2 DEF ExecutionsFit, ReplacedEnds
    <3>4. execEvent[<<u, n>>] # 0 => execEvent[<<u, n>>] \in Slot
      BY <1>2, ConstantsAssumption DEF ExecTyped, Slot, Exec
    <3> QED
      BY <1>6, <3>1, <3>2, <3>3, <3>4 DEF Told, Misled, EventsStay
  <2> QED
    BY <2>1, <2>2
<1>8. Calm(u)
  BY <1>4, <1>5, <1>6 DEF Calm
<1> QED
  BY <1>2, <1>7, <1>8, DropsFit

\* All of an execution.
LEMMA ExecutionFits ==
  ASSUME SerialStarts, ~LateWake, Typed, OverlapInv, NEW x \in Exec, Wakes(x), ExecutionStep(x),
         watch' = watch
  PROVE  OverlapInv'
<1>0. Typed' /\ StaysDeleted
  BY ExecutionTyped, ExecutionKeepsDeleted
<1>1. PICK u \in Task : u = x[1]
  BY ExecutionNames
<1>2. \A t \in Task \ {u} : Apart(t) /\ QueueKept(t)
  BY <1>1, ExecutionApart
<1>3. Live(u)' => ExecutionsFit(u)' /\ Calm(u)
  <2> SUFFICES ASSUME Live(u)' PROVE ExecutionsFit(u)' /\ Calm(u)
    OBVIOUS
  <2>1. Live(u) /\ ExecutionsFit(u)
    BY <1>0 DEF Live, StaysDeleted, OverlapInv
  <2> QED
    BY <1>0, <1>1, <2>1, MoverFits, ReleaseFits, CleanupFits
<1>4. CASE RelayNext(x) \/ RelayEnd(x)
  <2>1. x \in Thread /\ OthersStay(x) /\ Entry(x) /\ pc'[x] \in {"check", "idle"}
    <3>1. x \in Thread /\ ThreadsTyped
      BY ExecutionNames DEF Typed
    <3>2. CASE RelayNext(x)
      BY <3>1, <3>2, EnterEnters DEF RelayNext, Waiting
    <3>3. CASE RelayEnd(x)
      BY <3>1, <3>3 DEF RelayEnd, Goto, OthersStay, Entry, Starting, StartPc, RestartPc,
         ThreadsTyped
    <3> QED
      BY <1>4, <3>1, <3>2, <3>3
  <2>2. Claims(x)'
    BY <2>1, NoClaims DEF Alone, StartPc
  <2> QED
    BY <1>0, <1>2, <1>3, <2>1, <2>2, StepFits
<1>5. CASE ~(RelayNext(x) \/ RelayEnd(x))
  <2>1. UNCHANGED <<pc, arg, slot>>
    BY <1>5 DEF ExecutionStep, TaskMissing, MarkTaskRunning, FinishWork, ReadVerdict,
       WriteVerdict, CloseReplaced, CloseActive, ReleaseResources, Cleanup, RelayNobody, threadVars
  <2> QED
    BY <1>0, <1>2, <1>3, <2>1, StillFits
<1> QED
  BY <1>4, <1>5

-----------------------------------------------------------------------------
(* A pool thread takes the next execution. *)

\* Any older execution of the task that was current has left the queue: the one that
\* begins is the last of its task, or it is not the current one.
LEMMA BeginFits ==
  ASSUME SerialStarts, Typed, OverlapInv, Begin, watch' = watch
  PROVE  OverlapInv'
<1>0. Typed' /\ ExecTyped /\ DictsTyped /\ queue \in Seq(Exec) /\ queue # <<>>
  BY BeginTyped DEF Typed, RestTyped, Begin
<1>1. PICK x \in Exec : x = Head(queue) /\ x = queue[1]
  BY <1>0
<1>2. /\ queue' = Tail(queue) /\ Len(queue') = Len(queue) - 1 /\ Len(queue) \in Nat
      /\ \A i \in 1..Len(queue') : i + 1 \in 2..Len(queue) /\ queue'[i] = queue[i + 1]
  BY <1>0 DEF Begin
<1>3. /\ exec[x] = "queued" /\ exec' = [exec EXCEPT ![x] = "begun"]
      /\ workerId' = [workerId EXCEPT ![x[1]] = x[2]]
      /\ UNCHANGED <<status, lockOf, handle, stopEvent, fired, execEvent, pc, arg, slot>>
  BY <1>1 DEF Begin, ExecStep, dbVars, workVars, threadVars
<1>4. PICK u \in Task, m \in Slot : x = <<u, m>>
  BY DEF Exec
<1>5. /\ exec'[<<u, m>>] = "begun" /\ exec[<<u, m>>] = "queued" /\ workerId'[u] = m
      /\ \A n \in Slot : n # m => exec'[<<u, n>>] = exec[<<u, n>>]
      /\ \A y \in Exec : y # x => exec'[y] = exec[y]
  BY <1>0, <1>3, <1>4 DEF ExecTyped, DictsTyped, Exec
<1>6. StaysDeleted
  BY <1>3 DEF StaysDeleted
<1>7. ASSUME NEW t \in Task \ {u} PROVE Apart(t) /\ QueueKept(t)
  <2>1. workerId'[t] = workerId[t] /\ \A n \in Slot : exec'[<<t, n>>] = exec[<<t, n>>]
    BY <1>0, <1>3, <1>4 DEF ExecTyped, DictsTyped, Exec
  <2>2. QueueKept(t)
    <3>1. \A i \in 1..Len(queue') : i + 1 \in 1..Len(queue) /\ queue'[i] = queue[i + 1]
      BY <1>2
    <3>2. 1 \in Nat
      OBVIOUS
    <3> QED
      BY <3>1, <3>2 DEF QueueKept
  <2> QED
    BY <1>3, <2>1, <2>2, SameHeld DEF Apart, EventsStay
<1>8. ASSUME Live(u) PROVE ExecutionsFit(u)'
  <2>0. ExecutionsFit(u)
    BY <1>8 DEF OverlapInv
  <2>1. \A n \in Slot : /\ exec'[<<u, n>>] \in Unreleased <=> exec[<<u, n>>] \in Unreleased
                        /\ exec'[<<u, n>>] \in Handled <=> exec[<<u, n>>] \in Handled
                        /\ exec'[<<u, n>>] \in Settling <=> exec[<<u, n>>] \in Settling
                        /\ exec'[<<u, n>>] = "working" <=> exec[<<u, n>>] = "working"
                        /\ exec'[<<u, n>>] \in {"relay", "relaying"} =>
                             exec[<<u, n>>] \in {"relay", "relaying"}
    BY <1>5 DEF Handled, Unreleased, Settling
  <2>2. CurrentHolds(u)' /\ SettlerIsCurrent(u)' /\ CurrentStays(u)' /\ CurrentHasEvent(u)'
    BY <1>3, <2>0, <2>1, SameHeld DEF ExecutionsFit, CurrentHolds, SettlerIsCurrent, CurrentStays,
       CurrentHasEvent
  <2>3. ReplacedEnds(u)'
    BY <1>3, <2>0, <2>1 DEF ExecutionsFit, ReplacedEnds, Told, Misled
  <2>4. CurrentIsWorker(u)'
    <3> SUFFICES ASSUME NEW n \in Slot, handle[u] = n, exec'[<<u, n>>] \in Running
                 PROVE  workerId'[u] = n /\ \A i \in 1..Len(queue') : queue'[i][1] # u
      BY <1>3 DEF CurrentIsWorker
    <3>1. n = m
      <4> SUFFICES ASSUME n # m PROVE FALSE
        OBVIOUS
      <4>1. exec[<<u, n>>] \in Running
        BY <1>5
      <4>2. \A i \in 1..Len(queue) : queue[i][1] # u
        BY <2>0, <4>1 DEF ExecutionsFit, CurrentIsWorker
      <4>3. 1 \in 1..Len(queue) /\ queue[1][1] = u
        BY <1>0, <1>1, <1>4
      <4> QED
        BY <4>2, <4>3
    <3>2. ASSUME NEW i \in 1..Len(queue'), queue'[i][1] = u PROVE FALSE
      <4>1. /\ 1 \in 1..Len(queue) /\ i + 1 \in 1..Len(queue) /\ 1 < i + 1
            /\ queue[1][1] = u /\ queue[i + 1][1] = u /\ queue[1][2] = m
        BY <1>0, <1>1, <1>2, <1>4, <3>2
      <4>2. handle[u] # queue[1][2]
        BY <2>0, <4>1 DEF ExecutionsFit, LastIsCurrent
      <4> QED
        BY <3>1, <4>1, <4>2
    <3> QED
      BY <1>5, <3>1, <3>2
  <2>5. LastIsCurrent(u)'
    <3>1. \A i, j \in 1..Len(queue) :
            i < j /\ queue[i][1] = u /\ queue[j][1] = u =>
              queue[i] # queue[j] /\ handle[u] # queue[i][2]
      BY <2>0 DEF ExecutionsFit, LastIsCurrent
    <3>2. \A i \in 1..Len(queue) : queue[i][1] = u => exec[queue[i]] = "queued"
      BY <2>0 DEF ExecutionsFit, LastIsCurrent
    <3>3. ASSUME NEW i \in 1..Len(queue'), queue'[i][1] = u PROVE exec'[queue'[i]] = "queued"
      <4>1. /\ 1 \in 1..Len(queue) /\ i + 1 \in 1..Len(queue) /\ 1 < i + 1
            /\ queue[1][1] = u /\ queue[i + 1][1] = u /\ queue[i + 1] \in Exec
            /\ queue'[i] = queue[i + 1]
        BY <1>0, <1>1, <1>2, <1>4, <3>3
      <4>2. queue[i + 1] # x
        BY <1>1, <3>1, <4>1
      <4> QED
        BY <1>5, <3>2, <4>1, <4>2
    <3>4. ASSUME NEW i \in 1..Len(queue'), NEW j \in 1..Len(queue'), i < j,
                 queue'[i][1] = u, queue'[j][1] = u
          PROVE  queue'[i] # queue'[j] /\ handle'[u] # queue'[i][2]
      <4>1. /\ i + 1 \in 1..Len(queue) /\ j + 1 \in 1..Len(queue) /\ i + 1 < j + 1
            /\ queue'[i] = queue[i + 1] /\ queue'[j] = queue[j + 1]
        BY <1>2, <3>4
      <4> QED
        BY <1>3, <3>1, <3>4, <4>1
    <3> QED
      BY <3>3, <3>4 DEF LastIsCurrent
  <2> QED
    BY <2>2, <2>3, <2>4, <2>5 DEF ExecutionsFit
<1>9. Calm(u)
  <2>1. \A n \in Slot : /\ exec'[<<u, n>>] \in Handled => exec[<<u, n>>] \in Handled
                        /\ exec[<<u, n>>] \in {"admitted", "registered"} =>
                             exec'[<<u, n>>] = exec[<<u, n>>]
    BY <1>5 DEF Handled, Unreleased
  <2> QED
    BY <1>3, <2>1, SameHeld DEF Calm, EventsStay
<1> QED
  BY <1>0, <1>3, <1>6, <1>7, <1>8, <1>9, StillFits DEF Live

-----------------------------------------------------------------------------
(* The operations of callers, and those of the watchdog in restart_task. *)

\* What restart_task does before it waits, what cancel_task does, and what a request
\* does before start_task: no execution is concerned.
LEMMA QuietCallerFits ==
  ASSUME SerialStarts, Typed, Typed', OverlapInv, StaysDeleted, NEW th \in Thread,
         ~(th = Watchdog /\ watch = "forcing"), watch' = watch,
         \/ RequestCreate(th) \/ RequestCancel(th) \/ RequestRestart(th) \/ CancelWrite(th)
         \/ RestartStops(th) \/ RestartNothingToStop(th)
  PROVE  OverlapInv'
<1>0. ThreadsTyped
  BY DEF Typed
<1>1. /\ UNCHANGED <<lockOf, handle, stopEvent, workerId, exec, execEvent, queue>>
      /\ fired \subseteq fired'
  BY DEF RequestCreate, RequestCancel, RequestRestart, CancelWrite, RestartStops, CancelRead,
     RestartNothingToStop, FireEvent, dbVars, memVars, dictVars, execVars, workVars
<1>2. \A t \in Task : Apart(t) /\ QueueKept(t)
  BY <1>1, QuietApart, SameHeld
<1>3. OthersStay(th) /\ Entry(th) /\ pc'[th] \notin Alone
  <2>1. CASE RequestCreate(th) \/ RequestRestart(th)
    <3>1. PICK t \in Task, to \in {"check", "snapshot"} : MayStart(t) /\ Enter(th, t, to)
      BY <2>1 DEF RequestCreate, RequestRestart
    <3> QED
      BY <1>0, <3>1, EnterEnters DEF Alone, StartPc
  <2>2. CASE RequestCancel(th)
    <3>1. PICK t \in Task, to \in {"cancelPending", "cancelRunning"} : Enter(th, t, to)
      BY <2>2 DEF RequestCancel, CancelRead
    <3> QED
      BY <1>0, <3>1, EnterEnters DEF Alone, StartPc
  <2>3. CASE RestartStops(th)
    <3>1. PICK to \in {"stopPending", "stopRunning"} :
            /\ pc[th] = "snapshot" /\ pc' = [pc EXCEPT ![th] = to]
            /\ arg' = [arg EXCEPT ![th] = arg[th]] /\ slot' = slot
      BY <2>3 DEF RestartStops, CancelRead, Enter, Goto
    <3> QED
      BY <1>0, <3>1 DEF ThreadsTyped, OthersStay, Entry, Starting, RestartPc, Alone, StartPc
  <2>4. CASE RestartNothingToStop(th)
    BY <1>0, <2>4, StepEnters DEF RestartNothingToStop, RestartPc, Alone, StartPc
  <2>5. CASE CancelWrite(th)
    <3>1. CASE pc[th] \in {"stopPending", "stopRunning"}
      <4>1. pc' = [pc EXCEPT ![th] = "join"] /\ UNCHANGED <<arg, slot>>
        BY <2>5, <3>1 DEF CancelWrite, Goto
      <4> QED
        BY <1>0, <3>1, <4>1 DEF ThreadsTyped, OthersStay, Entry, Starting, RestartPc, Alone,
           StartPc
    <3>2. CASE pc[th] \notin {"stopPending", "stopRunning"}
      <4>1. Return(th, "idle")
        BY <2>5, <3>2 DEF CancelWrite
      <4> QED
        BY <1>0, <4>1, ReturnEnters DEF Alone, StartPc, Returned
    <3> QED
      BY <3>1, <3>2
  <2> QED
    BY <2>1, <2>2, <2>3, <2>4, <2>5
<1>4. Claims(th)'
  <2> SUFFICES ASSUME pc'[th] = "join" PROVE StarterFits(th)'
    BY <1>3 DEF Claims
  <2> QED
    BY <1>3 DEF StarterFits, Alone, Reserving, StartPc
<1>5. None \notin Task
  BY ConstantsAssumption
<1> QED
  BY <1>2, <1>3, <1>4, <1>5, StepFits

\* restart_task waits and takes the stop event away from a task whose thread has ended.
LEMMA JoinFits ==
  ASSUME SerialStarts, Typed, Typed', OverlapInv, StaysDeleted, NEW th \in Thread,
         watch' = watch, RestartJoin(th)
  PROVE  OverlapInv'
<1>0. ThreadsTyped /\ DictsTyped /\ queue \in Seq(Exec)
  BY DEF Typed, RestTyped
<1>1. /\ pc[th] = "join" /\ ReachableFired(fired)
      /\ UNCHANGED <<status, lockOf, handle, workerId, exec, execEvent, queue>>
  BY DEF RestartJoin, dbVars, execVars, workVars
<1>2. arg[th] \in Task /\ Starting(th)
  BY <1>0, <1>1 DEF ThreadsTyped, Starting, RestartPc, StartPc, Returned
<1>3. PICK u \in Task : u = arg[th]
  BY <1>2
<1>4. \A t \in Task : EventsStay(t) /\ QueueKept(t) /\ Held(t)' = Held(t)
  BY <1>0, <1>1, ReachableStay, SameQueue, SameHeld
<1>5. CASE HandleAlive(u)
  <2>1. Return(th, "idle") /\ stopEvent' = stopEvent
    BY <1>3, <1>5 DEF RestartJoin
  <2>2. \A t \in Task : Apart(t)
    BY <1>1, <1>4, <2>1 DEF Apart
  <2>3. OthersStay(th) /\ Entry(th) /\ Claims(th)'
    BY <1>0, <2>1, ReturnEnters, NoClaims DEF Alone, StartPc, Returned
  <2> QED
    BY <1>4, <2>2, <2>3, StepFits, ConstantsAssumption
<1>6. CASE ~HandleAlive(u)
  <2>1. stopEvent' = [stopEvent EXCEPT ![u] = 0] /\ Step(th, "join", "reset")
    BY <1>3, <1>6 DEF RestartJoin, Step
  <2>2. OthersStay(th) /\ Entry(th) /\ pc'[th] = "reset" /\ arg'[th] = u
    BY <1>0, <1>3, <2>1, StepEnters DEF RestartPc
  <2>3. \A t \in Task \ {u} : Apart(t)
    BY <1>0, <1>1, <1>4, <2>1 DEF Apart, DictsTyped
  <2>4. \A n \in Slot : handle[u] = n => exec[<<u, n>>] \notin Handled
    BY <1>6, DeadCurrent, HandledIsAlive
  <2>5. Moves(u)
    <3>1. stopEvent'[u] = 0
      BY <1>0, <2>1 DEF DictsTyped
    <3>2. \A n \in Slot : exec'[<<u, n>>] \in Handled => handle[u] # n /\ stopEvent'[u] # n
      BY <1>1, <2>4, <3>1 DEF Slot
    <3> QED
      BY <1>1, <1>4, <3>2 DEF Moves, GoesOn
  <2>6. Live(u)' => ExecutionsFit(u)'
    BY <1>1, <2>5, MovesFit DEF Live, OverlapInv
  <2>7. Claims(th)'
    BY <1>1, <2>2, <2>4 DEF Claims, StarterFits, Reserving
  <2> QED
    BY <1>2, <1>3, <1>4, <2>2, <2>3, <2>6, <2>7, StepFits
<1> QED
  BY <1>5, <1>6

\* The task is reset: its locks may go, since no execution is the current one.
LEMMA ResetFits ==
  ASSUME SerialStarts, Typed, Typed', OverlapInv, StaysDeleted, NEW th \in Thread,
         th = Watchdog \/ watch' = watch,
         pc[th] = "reset", OthersStay(th), Entry(th),
         pc'[th] \in {"check", "idle"} \cup Returned,
         lockOf' = lockOf \/ ReleaseSheets(Sheet, arg[th]),
         UNCHANGED <<handle, stopEvent, workerId, fired, exec, execEvent, queue>>
  PROVE  OverlapInv'
<1>1. arg[th] \in Task /\ Starting(th)
  BY DEF Typed, ThreadsTyped, Starting, RestartPc, StartPc, Returned
<1>2. PICK u \in Task : u = arg[th]
  BY <1>1
<1>3. \A t \in Task \ {u} : Apart(t) /\ QueueKept(t)
  <2>1. \A t \in Task \ {u} : Held(t) \subseteq Held(t)'
    BY <1>2, SameHeld, ReleaseHeld
  <2> QED
    BY <2>1, QuietApart
<1>4. Live(u)' => ExecutionsFit(u)'
  <2>1. Live(u)' => Live(u) /\ ExecutionsFit(u) /\ Claims(th)
    BY DEF Live, StaysDeleted, OverlapInv
  <2> QED
    BY <1>2, <2>1, GiveUpFits DEF Alone
<1>5. Claims(th)'
  BY NoClaims DEF Alone, StartPc, Returned
<1> QED
  BY <1>1, <1>2, <1>3, <1>4, <1>5, StepFits

\* The row of the task goes: nothing is said of it any more.
LEMMA DeleteFits ==
  ASSUME SerialStarts, Typed, Typed', OverlapInv, StaysDeleted, NEW th \in Thread,
         watch' = watch, RequestDelete(th) \/ DeletePop(th)
  PROVE  OverlapInv'
<1>0. ThreadsTyped /\ DictsTyped /\ DbTyped /\ queue \in Seq(Exec)
  BY DEF Typed, RestTyped
<1>1. CASE RequestDelete(th)
  <2>1. PICK u \in Task : /\ status' = [status EXCEPT ![u] = "deleted"]
                          /\ ReleaseSheets(Sheet, u) /\ Enter(th, u, "popHandle")
    BY <1>1 DEF RequestDelete
  <2>2. UNCHANGED <<handle, stopEvent, workerId, fired, exec, execEvent, queue>>
    BY <1>1 DEF RequestDelete, dictVars, execVars, workVars
  <2>3. \A t \in Task \ {u} : Apart(t) /\ QueueKept(t)
    BY <2>1, <2>2, QuietApart, ReleaseHeld
  <2>4. status'[u] = "deleted"
    BY <1>0, <2>1 DEF DbTyped
  <2>5. OthersStay(th) /\ Entry(th) /\ pc'[th] = "popHandle"
    BY <1>0, <2>1, <2>4, EnterEnters
  <2>6. Claims(th)'
    BY <2>5, NoClaims DEF Alone, StartPc
  <2> QED
    BY <2>3, <2>4, <2>5, <2>6, StepFits DEF Live
<1>2. CASE DeletePop(th)
  <2>1. /\ pc[th] = "popHandle" /\ Return(th, "idle")
        /\ handle' = [handle EXCEPT ![arg[th]] = 0]
        /\ stopEvent' = [stopEvent EXCEPT ![arg[th]] = 0]
        /\ UNCHANGED <<status, lockOf, workerId, exec, execEvent, queue>>
        /\ ReachableFired(fired \cup {<<arg[th], n>> : n \in {stopEvent[arg[th]]} \ {0}})
    BY <1>2 DEF DeletePop, dbVars, execVars, workVars
  <2>2. PICK u \in Task : u = arg[th]
    BY <1>0, <2>1 DEF ThreadsTyped, Returned
  <2>3. ~Live(u)'
    BY <2>1, <2>2 DEF Live, OverlapInv, PopsDeleted
  <2>4. ASSUME NEW t \in Task \ {u} PROVE Apart(t) /\ QueueKept(t)
    <3>1. handle'[t] = handle[t] /\ stopEvent'[t] = stopEvent[t]
      BY <1>0, <2>1, <2>2 DEF DictsTyped
    <3>2. EventsStay(t)
      BY <2>1, ReachableStay
    <3> QED
      BY <1>0, <2>1, <3>1, <3>2, SameQueue, SameHeld DEF Apart
  <2>5. OthersStay(th) /\ Entry(th) /\ Claims(th)'
    BY <1>0, <2>1, ReturnEnters, NoClaims DEF Alone, StartPc, Returned
  <2> QED
    BY <2>3, <2>4, <2>5, StepFits
<1> QED
  BY <1>1, <1>2

LEMMA CallerFits ==
  ASSUME SerialStarts, Typed, OverlapInv, NEW th \in Thread,
         ~(th = Watchdog /\ watch = "forcing"), watch' = watch,
         Request(th) \/ OperationStep(th)
  PROVE  OverlapInv'
<1>0. Typed' /\ StaysDeleted /\ ThreadsTyped
  BY CallerTyped, CallerKeepsDeleted DEF Typed
<1>1. CASE RestartReset(th)
  <2>1. /\ pc[th] = "reset" /\ (lockOf' = lockOf \/ ReleaseSheets(Sheet, arg[th]))
        /\ UNCHANGED <<handle, stopEvent, workerId, fired, exec, execEvent, queue>>
        /\ Return(th, "idle") \/ Step(th, "reset", "check")
    BY <1>1 DEF RestartReset, Step, dictVars, execVars, workVars
  <2>2. OthersStay(th) /\ Entry(th) /\ pc'[th] \in {"check", "idle"} \cup Returned
    BY <1>0, <2>1, ReturnEnters, StepEnters DEF RestartPc, StartPc
  <2> QED
    BY <1>0, <2>1, <2>2, ResetFits
<1> QED
  BY <1>0, <1>1, QuietCallerFits, JoinFits, DeleteFits DEF Request, OperationStep

-----------------------------------------------------------------------------
(* The steps of the watchdog. *)

\* The watchdog between its rounds, or done with a task: no task is concerned.
LEMMA WatchdogRests ==
  ASSUME SerialStarts, Typed, Typed', OverlapInv, StaysDeleted, OthersStay(Watchdog),
         pc'[Watchdog] = "idle",
         UNCHANGED <<lockOf, handle, stopEvent, workerId, fired, exec, execEvent, queue>>
  PROVE  OverlapInv'
<1>1. Entry(Watchdog) /\ Claims(Watchdog)'
  BY NoClaims DEF Entry, Starting, Alone, StartPc, RestartPc
<1>2. \A t \in Task : Apart(t) /\ QueueKept(t)
  BY QuietApart, SameHeld
<1>3. None \notin Task
  BY ConstantsAssumption
<1> QED
  BY <1>1, <1>2, <1>3, WatchdogThread, StepFits

LEMMA RoundFits ==
  ASSUME SerialStarts, WatchInv, WatchInv', OverlapInv,
         \/ \E t \in Task : Observe(t)
         \/ Abandon \/ Publish \/ LeaveQueued \/ RecordFailure \/ Prune
  PROVE  OverlapInv'
<1>1. Typed /\ Typed' /\ AtWatched /\ WatchTyped /\ ThreadsTyped
  BY DEF WatchInv, Typed
<1>2. UNCHANGED <<lockOf, handle, stopEvent, workerId, fired, exec, execEvent, queue>>
  BY DEF Observe, Abandon, Publish, LeaveQueued, RecordFailure, Prune, vars, dbVars, memVars,
     dictVars, execVars, workVars
<1>3. OthersStay(Watchdog) /\ pc'[Watchdog] = "idle"
  <2>1. CASE (\E t \in Task : Observe(t)) \/ Abandon \/ Prune
    <3>1. UNCHANGED <<pc, arg, slot>> /\ pc[Watchdog] = "idle"
      BY <1>1, <2>1 DEF Observe, Abandon, Prune, Idle, AtWatched, vars, threadVars
    <3> QED
      BY <3>1 DEF OthersStay
  <2>2. CASE Publish \/ LeaveQueued \/ RecordFailure
    BY <1>1, <2>2, WatchdogThread DEF Publish, LeaveQueued, RecordFailure, Done, Goto, ThreadsTyped,
       OthersStay
  <2> QED
    BY <2>1, <2>2
<1>4. StaysDeleted
  <2>1. CASE Abandon \/ RecordFailure
    <3>1. watched \in Task
      BY <1>1, <2>1, WatchedTask DEF Abandon, RecordFailure
    <3>2. \E s : WriteStatus(watched, s)
      BY <2>1 DEF Abandon, RecordFailure
    <3> QED
      BY <1>1, <3>1, <3>2 DEF WriteStatus, StaysDeleted, Typed, DbTyped
  <2>2. CASE Publish
    <3>1. watched \in Task
      BY <1>1, <2>2, WatchedTask DEF Publish
    <3> QED
      BY <1>1, <2>2, <3>1 DEF Publish, StaysDeleted, Typed, DbTyped
  <2>3. CASE (\E t \in Task : Observe(t)) \/ Prune \/ LeaveQueued
    BY <2>3 DEF Observe, Prune, LeaveQueued, vars, dbVars, StaysDeleted
  <2> QED
    BY <2>1, <2>2, <2>3
<1> QED
  BY <1>1, <1>2, <1>3, <1>4, WatchdogRests

\* The stop event is set before the watchdog waits.
LEMMA ForceRestartFits ==
  ASSUME SerialStarts, WatchInv, WatchInv', OverlapInv, ForceRestart
  PROVE  OverlapInv'
<1>1. /\ Typed /\ Typed' /\ ThreadsTyped /\ WatchTyped /\ AtWatched
      /\ MayStart(watched) /\ FireEvent(watched) /\ Enter(Watchdog, watched, "join")
      /\ UNCHANGED <<status, lockOf, handle, stopEvent, workerId, exec, execEvent, queue>>
      /\ watch = "force"
  BY DEF ForceRestart, WatchInv, Typed, TellThread, dbVars, execVars, workVars
<1>2. PICK u \in Task : u = watched
  BY <1>1, WatchedTask
<1>3. OthersStay(Watchdog) /\ Entry(Watchdog) /\ pc'[Watchdog] = "join" /\ arg'[Watchdog] = u
  BY <1>1, <1>2, EnterEnters, WatchdogThread
<1>4. \A t \in Task : Apart(t) /\ QueueKept(t)
  BY <1>1, QuietApart, SameHeld DEF FireEvent
<1>5. Claims(Watchdog)'
  <2>1. stopEvent[u] # 0 => <<u, stopEvent[u]>> \in fired'
    BY <1>1, <1>2 DEF FireEvent
  <2> QED
    BY <1>1, <1>3, <2>1 DEF Claims, StarterFits, Alone, Reserving, StartPc
<1>6. StaysDeleted /\ None \notin Task
  BY <1>1, ConstantsAssumption DEF StaysDeleted
<1> QED
  BY <1>1, <1>3, <1>4, <1>5, <1>6, StepFits, WatchdogThread

\* The hung thread is detached: no execution is current any more, and the one that
\* was has been told to stop.
LEMMA DetachFits ==
  ASSUME SerialStarts, ~LateWake, WatchInv, WatchInv', OverlapInv, Detach
  PROVE  OverlapInv'
<1>1. /\ Typed /\ Typed' /\ ThreadsTyped /\ DictsTyped /\ ExecTyped /\ queue \in Seq(Exec)
      /\ WatchTyped /\ AtWatched /\ watch = "forcing" /\ watch' = watch
      /\ Step(Watchdog, "join", "reset") /\ Hangs(watched) /\ ReachableFired(fired)
      /\ handle' = [handle EXCEPT ![watched] = 0]
      /\ stopEvent' = [stopEvent EXCEPT ![watched] = 0]
      /\ UNCHANGED <<status, lockOf, workerId, exec, execEvent, queue>>
  BY DEF Detach, WatchInv, Typed, RestTyped, dbVars, execVars, workVars, watchVars
<1>2. PICK u \in Task : u = watched
  BY <1>1, WatchedTask
<1>3. /\ OthersStay(Watchdog) /\ Entry(Watchdog)
      /\ pc[Watchdog] = "join" /\ pc'[Watchdog] = "reset" /\ arg'[Watchdog] = arg[Watchdog]
  BY <1>1, StepEnters, WatchdogThread DEF RestartPc
<1>4. arg[Watchdog] = u /\ Starting(Watchdog)
  BY <1>1, <1>2, <1>3 DEF AtWatched, Starting, RestartPc, Returned
<1>5. handle'[u] = 0 /\ stopEvent'[u] = 0 /\ \A n \in Slot : n # 0
  BY <1>1, <1>2 DEF DictsTyped, Slot
<1>6. \A t \in Task : EventsStay(t) /\ QueueKept(t) /\ Held(t)' = Held(t)
  BY <1>1, ReachableStay, SameQueue, SameHeld
<1>7. \A t \in Task \ {u} : Apart(t)
  BY <1>1, <1>2, <1>6 DEF Apart, DictsTyped
<1>8. ASSUME Live(u)' PROVE ExecutionsFit(u)'
  <2>1. Live(u) /\ ExecutionsFit(u) /\ Claims(Watchdog)
    BY <1>1, <1>8, WatchdogThread DEF Live, OverlapInv
  <2>2. stopEvent[u] # 0 => <<u, stopEvent[u]>> \in fired
    BY <1>1, <1>3, <1>4, <2>1 DEF Claims, StarterFits
  <2>3. Drops(u)
    <3> SUFFICES ASSUME NEW n \in Slot
                 PROVE  /\ exec[<<u, n>>] \notin Settling
                        /\ exec[<<u, n>>] = "working" => Told(<<u, n>>)' \/ Misled(<<u, n>>)'
      BY <1>1, <1>5, <1>6 DEF Drops
    <3>1. exec[<<u, n>>] \notin Settling
      BY <1>1, <1>2 DEF Hangs, Settling
    <3>2. ASSUME exec[<<u, n>>] = "working" PROVE Told(<<u, n>>)' \/ Misled(<<u, n>>)'
      <4>1. CASE execEvent[<<u, n>>] # n
        BY <1>1, <4>1 DEF Misled
      <4>2. CASE execEvent[<<u, n>>] = n /\ handle[u] # n
        <5>1. Told(<<u, n>>)
          BY <2>1, <3>2, <4>2 DEF ExecutionsFit, ReplacedEnds, Misled
        <5> QED
          BY <1>1, <1>6, <4>2, <5>1 DEF Told, EventsStay
      <4>3. CASE execEvent[<<u, n>>] = n /\ handle[u] = n
        <5>1. stopEvent[u] = n
          BY <2>1, <3>2, <4>3 DEF ExecutionsFit, CurrentHasEvent, Handled, Unreleased
        <5>2. <<u, n>> \in fired
          BY <1>5, <2>2, <5>1
        <5>3. <<u, n>> \in fired'
          BY <1>1, <1>6, <4>3, <5>2 DEF EventsStay
        <5> QED
          BY <1>1, <1>5, <4>3, <5>3 DEF Told
      <4> QED
        BY <4>1, <4>2, <4>3
    <3> QED
      BY <3>1, <3>2
  <2> QED
    BY <1>1, <2>1, <2>3, DropsFit
<1>9. Claims(Watchdog)'
  BY <1>3, <1>4, <1>5 DEF Claims, StarterFits, Reserving
<1>10. StaysDeleted
  BY <1>1 DEF StaysDeleted
<1> QED
  BY <1>1, <1>3, <1>4, <1>6, <1>7, <1>8, <1>9, <1>10, StepFits, WatchdogThread

LEMMA PrepareFits ==
  ASSUME SerialStarts, WatchInv, WatchInv', OverlapInv, Prepare
  PROVE  OverlapInv'
<1>1. /\ Typed /\ Typed' /\ ThreadsTyped /\ DbTyped /\ WatchTyped /\ AtWatched
      /\ watch = "forcing" /\ pc[Watchdog] = "reset"
      /\ UNCHANGED <<handle, stopEvent, workerId, fired, exec, execEvent, queue>>
  BY DEF Prepare, WatchInv, Typed, dictVars, execVars, workVars
<1>2. watched \in Task /\ arg[Watchdog] = watched
  BY <1>1, WatchedTask DEF AtWatched, Returned
<1>3. CASE status[watched] = "deleted"
  <2>1. Return(Watchdog, "idle") /\ status' = status /\ lockOf' = lockOf
    BY <1>3 DEF Prepare, dbVars
  <2>2. /\ OthersStay(Watchdog) /\ Entry(Watchdog) /\ pc'[Watchdog] \in {"check", "idle"} \cup Returned
    BY <1>1, <2>1, ReturnEnters, WatchdogThread
  <2> QED
    BY <1>1, <2>1, <2>2, ResetFits, WatchdogThread DEF StaysDeleted
<1>4. CASE status[watched] # "deleted"
  <2>1. /\ Step(Watchdog, "reset", "check") /\ ReleaseSheets(Sheet, watched)
        /\ status' = [status EXCEPT ![watched] = "pending"]
    BY <1>4 DEF Prepare
  <2>2. OthersStay(Watchdog) /\ Entry(Watchdog) /\ pc'[Watchdog] \in {"check", "idle"} \cup Returned
    BY <1>1, <2>1, StepEnters, WatchdogThread DEF RestartPc, StartPc
  <2>3. StaysDeleted
    BY <1>1, <1>2, <1>4, <2>1 DEF StaysDeleted, DbTyped
  <2> QED
    BY <1>1, <1>2, <2>1, <2>2, <2>3, ResetFits, WatchdogThread
<1> QED
  BY <1>3, <1>4

LEMMA CallRestartFits ==
  ASSUME SerialStarts, WatchInv, WatchInv', OverlapInv, CallRestart
  PROVE  OverlapInv'
<1>1. /\ Typed /\ Typed' /\ ThreadsTyped /\ WatchTyped /\ AtWatched /\ watch = "restart"
      /\ MayStart(watched) /\ pc[Watchdog] = "idle"
      /\ UNCHANGED <<status, lockOf, handle, stopEvent, workerId, fired, exec, execEvent, queue>>
  BY DEF CallRestart, WatchInv, Typed, Idle, dbVars, memVars, dictVars, execVars, workVars
<1>2. StaysDeleted
  BY <1>1 DEF StaysDeleted
<1>3. CASE CanRestart(watched)
  <2>1. watched \in Task /\ Enter(Watchdog, watched, "snapshot")
    BY <1>1, <1>3, WatchedTask DEF CallRestart
  <2>2. OthersStay(Watchdog) /\ Entry(Watchdog) /\ pc'[Watchdog] = "snapshot"
    BY <1>1, <2>1, EnterEnters, WatchdogThread
  <2>3. Claims(Watchdog)'
    BY <2>2, NoClaims DEF Alone, StartPc
  <2>4. (\A t \in Task : Apart(t) /\ QueueKept(t)) /\ None \notin Task
    BY <1>1, QuietApart, SameHeld, ConstantsAssumption
  <2> QED
    BY <1>1, <1>2, <2>2, <2>3, <2>4, StepFits, WatchdogThread
<1>4. CASE ~CanRestart(watched)
  <2>1. UNCHANGED <<pc, arg, slot>>
    BY <1>4 DEF CallRestart, threadVars
  <2> QED
    BY <1>1, <1>2, <2>1, WatchdogRests DEF OthersStay
<1> QED
  BY <1>3, <1>4

\* All of the watchdog.
LEMMA WatchdogFits ==
  ASSUME SerialStarts, ~LateWake, WatchInv, WatchInv', OverlapInv, WatchdogStep
  PROVE  OverlapInv'
<1>1. CASE RestartTask
  <2>1. OperationStep(Watchdog) /\ watch = "restarting" /\ watch' = watch
    BY <1>1 DEF RestartTask, OperationStep
  <2> QED
    BY <2>1, CallerFits, WatchdogThread DEF WatchInv
<1>2. CASE StartStep(Watchdog) /\ Meanwhile
  BY <1>2, StartFits, WatchdogThread DEF WatchInv
<1> QED
  BY <1>1, <1>2, RoundFits, ForceRestartFits, DetachFits, PrepareFits, CallRestartFits
     DEF WatchdogStep

-----------------------------------------------------------------------------
(* The theorems about two executions at a time. *)

LEMMA OverlapInitial == WInit => OverlapInv
<1> SUFFICES ASSUME WInit PROVE OverlapInv
  OBVIOUS
<1>1. /\ pc = [th \in Thread |-> "idle"] /\ exec = [x \in Exec |-> "none"]
      /\ queue = <<>> /\ handle = [t \in Task |-> 0] /\ stopEvent = [t \in Task |-> 0]
  BY DEF WInit, Init
<1>2. OneStarter /\ PopsDeleted /\ \A th \in Thread : Claims(th)
  BY <1>1 DEF OneStarter, PopsDeleted, Claims, Starting, Alone, StartPc, RestartPc
<1>3. ASSUME NEW t \in Task PROVE ExecutionsFit(t)
  <2>1. \A n \in Slot : exec[<<t, n>>] = "none"
    BY <1>1 DEF Exec
  <2>2. /\ CurrentHolds(t) /\ SettlerIsCurrent(t) /\ CurrentIsWorker(t) /\ CurrentStays(t)
        /\ CurrentHasEvent(t) /\ ReplacedEnds(t)
    BY <2>1 DEF CurrentHolds, SettlerIsCurrent, CurrentIsWorker, CurrentStays, CurrentHasEvent,
       ReplacedEnds, Unreleased, Handled, Settling, Running
  <2>3. LastIsCurrent(t)
    <3>1. Len(queue) = 0
      BY <1>1
    <3> QED
      BY <3>1 DEF LastIsCurrent
  <2> QED
    BY <2>2, <2>3 DEF ExecutionsFit
<1> QED
  BY <1>2, <1>3 DEF OverlapInv

LEMMA OverlapStays ==
  ASSUME OverlapInv, UNCHANGED <<vars, watchVars>>
  PROVE  OverlapInv'
<1>1. /\ UNCHANGED <<status, lockOf, handle, stopEvent, fired, workerId, queue, exec, execEvent>>
      /\ UNCHANGED <<pc, arg, slot, watch>>
  BY DEF vars, watchVars, dbVars, memVars, dictVars, execVars, workVars, threadVars
<1>2. OneStarter' /\ PopsDeleted'
  BY <1>1 DEF OverlapInv, OneStarter, PopsDeleted, Starting
<1>3. ASSUME NEW t \in Task, Live(t)' PROVE ExecutionsFit(t)'
  <2>1. ExecutionsFit(t)
    BY <1>1, <1>3 DEF OverlapInv, Live
  <2> QED
    BY <1>1, <2>1 DEF ExecutionsFit, CurrentHolds, SettlerIsCurrent, CurrentIsWorker, CurrentStays,
       CurrentHasEvent, ReplacedEnds, LastIsCurrent, Told, Misled, Held
<1>4. ASSUME NEW th \in Thread PROVE Claims(th)'
  BY <1>1 DEF OverlapInv, Claims, StarterFits, Live, Held
<1> QED
  BY <1>2, <1>3, <1>4 DEF OverlapInv

LEMMA OverlapStep ==
  ASSUME SerialStarts, ~LateWake, WatchInv, OverlapInv, [WNext]_wvars
  PROVE  OverlapInv'
<1>1. WatchInv' /\ Typed /\ Typed'
  BY WatchStep DEF WatchInv
<1>2. CASE RuntimeStep
  <2>1. Meanwhile /\ watch' = watch
    BY <1>2 DEF RuntimeStep, PoolStep, CallerStep, Meanwhile
  <2>2. CASE Begin
    BY <1>1, <2>1, <2>2, BeginFits
  <2>3. ASSUME NEW x \in Exec, PoolStep(x) PROVE OverlapInv'
    <3>1. x \in Thread
      BY ExecutionNames
    <3> QED
      BY <1>1, <2>1, <2>3, <3>1, ExecutionFits, StartFits DEF PoolStep
  <2>4. ASSUME NEW c \in Caller, CallerStep(c) \/ Request(c) PROVE OverlapInv'
    <3>1. c \in Thread /\ c # Watchdog
      BY WatchdogThread DEF Thread
    <3> QED
      BY <1>1, <2>1, <2>4, <3>1, CallerFits, StartFits DEF CallerStep
  <2> QED
    BY <1>2, <2>2, <2>3, <2>4 DEF RuntimeStep
<1>3. CASE (\E t \in Task : Observe(t)) \/ Prune
  BY <1>1, <1>3, RoundFits
<1>4. CASE WatchdogStep
  BY <1>1, <1>4, WatchdogFits
<1>5. CASE UNCHANGED wvars
  BY <1>5, OverlapStays DEF wvars
<1> QED
  BY <1>2, <1>3, <1>4, <1>5 DEF WNext

LEMMA OverlapInvariant ==
  ASSUME SerialStarts, ~LateWake
  PROVE  WSpec => [](WatchInv /\ OverlapInv)
<1>1. WInit => WatchInv /\ OverlapInv
  BY WatchInitial, OverlapInitial
<1>2. WatchInv /\ OverlapInv /\ [WNext]_wvars => (WatchInv /\ OverlapInv)'
  BY WatchStep, OverlapStep
<1> QED
  BY <1>1, <1>2, PTL DEF WSpec

\* When two executions work on one sheet, because one of them hung and was detached
\* (task_watchdog.py, _restart_task_with_reason; runtime.py, force_detach_running_task),
\* one of them has been told to stop, or works with an event that is not its own: for any tasks,
\* sheets, threads and requests, as long as starts of one task do not overlap and no
\* thread comes back in the moments LateWake is about.
THEOREM OverlapEnds == ASSUME SerialStarts, ~LateWake PROVE WSpec => []OverlapIsEnding
<1>1. ASSUME OverlapInv PROVE OverlapIsEnding
  <2> SUFFICES ASSUME NEW x \in Exec, NEW y \in Exec, x # y,
                      exec[x] = "working", Live(x[1]), exec[y] = "working", Live(y[1]),
                      ~Told(x), ~Told(y), ~Misled(x), ~Misled(y),
                      SheetsOf[x[1]] \cap SheetsOf[y[1]] # {}
               PROVE  FALSE
    BY DEF OverlapIsEnding, Live
  <2>1. ASSUME NEW z \in Exec, exec[z] = "working", Live(z[1]), ~Told(z), ~Misled(z)
        PROVE  handle[z[1]] = z[2] /\ SheetsOf[z[1]] \subseteq Held(z[1])
    <3>1. PICK t \in Task, n \in Slot : z = <<t, n>>
      BY DEF Exec
    <3>2. ExecutionsFit(t)
      BY <1>1, <2>1, <3>1 DEF OverlapInv
    <3>3. handle[t] = n
      BY <2>1, <3>1, <3>2 DEF ExecutionsFit, ReplacedEnds
    <3>4. SheetsOf[t] \subseteq Held(t)
      BY <2>1, <3>1, <3>2, <3>3 DEF ExecutionsFit, CurrentHolds, Unreleased
    <3> QED
      BY <3>1, <3>3, <3>4
  <2>2. x[1] = y[1]
    BY <2>1 DEF Held
  <2>3. x[2] = y[2]
    BY <2>1, <2>2
  <2> QED
    BY <2>2, <2>3 DEF Exec
<1>2. OverlapInv => OverlapIsEnding
  BY <1>1
<1> QED
  BY <1>2, OverlapInvariant, PTL

\* "An old thread that wakes when its network call returns must not overwrite the
\* status of the task any more, or release what the new generation occupies"
\* (runtime.py, _is_active_generation): an execution that settles a task or gives its
\* resources up is the one that running_tasks names, and none starts the task anew.
OnlyCurrentSettles ==
  \A x \in Exec :
    exec[x] \in Settling /\ Live(x[1]) =>
      /\ handle[x[1]] = x[2]
      /\ \A th \in Thread : pc[th] \in Alone => arg[th] # x[1]

\* The sentence holds of every task whose row is there, for any tasks, threads and
\* requests, if no thread comes back in the moments LateWake is about; with LateWake
\* a run shows that it does not.
THEOREM SettlersAreCurrent ==
  ASSUME SerialStarts, ~LateWake
  PROVE  WSpec => []OnlyCurrentSettles
<1>1. ASSUME OverlapInv PROVE OnlyCurrentSettles
  <2> SUFFICES ASSUME NEW x \in Exec, exec[x] \in Settling, Live(x[1])
               PROVE  /\ handle[x[1]] = x[2]
                      /\ \A th \in Thread : pc[th] \in Alone => arg[th] # x[1]
    BY DEF OnlyCurrentSettles
  <2>1. PICK t \in Task, n \in Slot : x = <<t, n>>
    BY DEF Exec
  <2> QED
    BY <1>1, <2>1, NobodyAtHandle
<1>2. OverlapInv => OnlyCurrentSettles
  BY <1>1
<1> QED
  BY <1>2, OverlapInvariant, PTL
=============================================================================
