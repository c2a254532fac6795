------------------------- MODULE TaskRuntimeProofs -------------------------
(***************************************************************************)
(* Proofs about TaskRuntime, all but the types as long as a task is not    *)
(* started twice at the same time (SerialStarts).                          *)
(*                                                                         *)
(* First part: the types, and the sheet execution locks.                   *)
(*                                                                         *)
(* Second part: nothing a task occupies is left behind. A lock, an entry   *)
(* in the token occupancy and a running row belong to a task that is being *)
(* started or executed, and a task that waits for a sheet is not executed. *)
(*                                                                         *)
(* Third part: TaskRuntime implements SheetMutex. Every step of a thread   *)
(* takes, keeps or gives up sheets the way the abstract specification      *)
(* allows, or leaves them alone.                                           *)
(***************************************************************************)
EXTENDS TaskRuntime, TLAPS

-----------------------------------------------------------------------------
(* The inductive invariant. *)

\* The type invariant by groups of variables. A thread inside an operation has
\* a task, and a slot once it has a stop event.
DbTyped ==
  /\ status \in [Task -> Status]
  /\ queued \in [Task -> BOOLEAN]
  /\ lockOf \in [Sheet -> Task \cup {None}]

DictsTyped ==
  /\ handle \in [Task -> 0..MaxExec]
  /\ stopEvent \in [Task -> 0..MaxExec]
  /\ workerId \in [Task -> 0..MaxExec]
  /\ fired \subseteq Exec

RestTyped ==
  /\ tokenHeld \subseteq Task
  /\ queue \in Seq(Exec)
  /\ sheetStart \in Thread \cup {None}
  /\ cancelAck \subseteq Task

ExecTyped ==
  /\ exec \in [Exec -> ExecPc]
  /\ execEvent \in [Exec -> 0..MaxExec]
  /\ outcome \in [Exec -> Outcome]
  /\ finished \in [Exec -> SUBSET Sheet]
  /\ \A x \in Exec : exec[x] \in {"ended", "finalizing"} => outcome[x] # "none"

ThreadsTyped ==
  /\ pc \in [Thread -> Pc]
  /\ arg \in [Thread -> Task \cup {None}]
  /\ slot \in [Thread -> 0..MaxExec]
  /\ \A th \in Thread :
       /\ pc[th] \notin {"idle"} \cup Returned => arg[th] \in Task
       /\ pc[th] \in {"register", "enqueue"} => slot[th] \in Slot

Typed == DbTyped /\ DictsTyped /\ RestTyped /\ ExecTyped /\ ThreadsTyped

\* The assumption, as a state predicate.
OneStarter ==
  \A th, ti \in Thread :
    Starting(th) /\ Starting(ti) /\ arg[th] = arg[ti] => th = ti

\* Only a deleted task loses its handle from outside.
PopsDeleted ==
  \A th \in Thread : pc[th] = "popHandle" => status[arg[th]] = "deleted"

\* start_task has the locks from the moment it took them.
StarterHoldsLocks ==
  \A th \in Thread :
    pc[th] \in Reserving /\ status[arg[th]] # "deleted" =>
      SheetsOf[arg[th]] \subseteq Held(arg[th])

\* The handle that goes to the pool is the registered one.
EnqueuesHandle ==
  \A th \in Thread :
    pc[th] = "enqueue" /\ status[arg[th]] # "deleted" =>
      handle[arg[th]] = slot[th]

\* From here on a start or a restart counts on being alone with its task.
Alone == (StartPc \ {"check"}) \cup {"reset"}

\* Past the check of the handle there is no execution of the task.
StartsAlone ==
  \A th \in Thread :
    pc[th] \in Alone /\ status[arg[th]] # "deleted" =>
      \A n \in Slot : exec[<<arg[th], n>>] \notin Handled

\* An execution is the registered one until it leaves the dictionaries ...
HandledIsCurrent ==
  \A t \in Task, n \in Slot :
    exec[<<t, n>>] \in Handled /\ status[t] # "deleted" => handle[t] = n

\* ... and its task has all its locks until it gives them up.
ExecutionHoldsLocks ==
  \A t \in Task, n \in Slot :
    exec[<<t, n>>] \in Unreleased /\ status[t] # "deleted" =>
      SheetsOf[t] \subseteq Held(t)

LockInv ==
  /\ OneStarter
  /\ PopsDeleted
  /\ StarterHoldsLocks
  /\ EnqueuesHandle
  /\ StartsAlone
  /\ HandledIsCurrent
  /\ ExecutionHoldsLocks

IInv == Typed /\ LockInv

-----------------------------------------------------------------------------
(* Types. *)

\* The groups together are the type invariant.
LEMMA TypedIsTypeOK == Typed => TypeOK
BY DEF Typed, DbTyped, DictsTyped, RestTyped, ExecTyped, ThreadsTyped, TypeOK

\* The initial state has the types.
LEMMA InitTyped == Init => Typed
BY ConstantsAssumption DEF Init, Typed, DbTyped, DictsTyped, RestTyped, ExecTyped,
   ThreadsTyped, Status, ExecPc, Outcome, Pc, Slot, Exec, Thread

\* A step of a thread inside an operation keeps task and slot.
LEMMA StepTyped ==
  ASSUME ThreadsTyped, NEW th \in Thread, NEW from \in Pc \ ({"idle"} \cup Returned),
         NEW to \in Pc \ {"register"}, to = "enqueue" => from = "register",
         Step(th, from, to)
  PROVE  ThreadsTyped'
BY DEF ThreadsTyped, Step, Goto

\* A thread that enters an operation brings its task.
LEMMA EnterTyped ==
  ASSUME ThreadsTyped, NEW th \in Thread, NEW t \in Task,
         NEW to \in Pc \ {"register", "enqueue"}, Enter(th, t, to)
  PROVE  ThreadsTyped'
BY DEF ThreadsTyped, Enter, Goto

\* A thread that returns drops task and slot.
LEMMA ReturnTyped ==
  ASSUME ThreadsTyped, NEW th \in Thread, NEW result \in Returned \cup {"idle"},
         Return(th, result)
  PROVE  ThreadsTyped'
BY ConstantsAssumption DEF ThreadsTyped, Return, Goto, Pc, Returned

\* Every step of start_task keeps the types.
LEMMA StartTyped ==
  ASSUME Typed, NEW th \in Thread, StartStep(th)
  PROVE  Typed'
<1> USE ConstantsAssumption DEF Typed
<1>1. CASE CheckHandle(th)
  <2>0. arg[th] \in Task
    BY <1>1 DEF CheckHandle, ThreadsTyped, Returned
  <2>1. DbTyped'
    BY <1>1, <2>0 DEF CheckHandle, DbTyped, dbVars, execVars, workVars
  <2>2. DictsTyped'
    BY <1>1, <2>0 DEF CheckHandle, DictsTyped, dbVars, execVars, workVars
  <2>3. RestTyped'
    BY <1>1, <2>0 DEF CheckHandle, RestTyped, dbVars, execVars, workVars
  <2>4. ExecTyped'
    BY <1>1, <2>0 DEF CheckHandle, ExecTyped, dbVars, execVars, workVars
  <2>5. ThreadsTyped'
    <3>1. CASE HandleAlive(arg[th])
      BY <1>1, <3>1, ReturnTyped DEF CheckHandle, Returned
    <3>2. CASE ~HandleAlive(arg[th])
      <4>1. Step(th, "check", "read")
        BY <1>1, <3>2 DEF CheckHandle, Step
      <4> QED BY <4>1, StepTyped DEF Pc, StartPc, Returned
    <3> QED BY <3>1, <3>2
  <2> QED BY <2>1, <2>2, <2>3, <2>4, <2>5
<1>2. CASE ReadTask(th)
  <2>1. DbTyped' /\ DictsTyped' /\ RestTyped' /\ ExecTyped'
    BY <1>2 DEF ReadTask, DbTyped, DictsTyped, RestTyped, ExecTyped, dbVars,
       memVars, execVars, dictVars, workVars
  <2>2. ThreadsTyped'
    <3>1. CASE status[arg[th]] = "pending"
      <4>1. Step(th, "read", "lock")
        BY <1>2, <3>1 DEF ReadTask, Step
      <4> QED BY <4>1, StepTyped DEF Pc, StartPc, Returned
    <3>2. CASE status[arg[th]] # "pending"
      BY <1>2, <3>2, ReturnTyped DEF ReadTask, Returned
    <3> QED BY <3>1, <3>2
  <2> QED BY <2>1, <2>2
<1>3. CASE QueueForSheet(th)
  <2>1. DbTyped' /\ DictsTyped' /\ RestTyped' /\ ExecTyped'
    BY <1>3 DEF QueueForSheet, DbTyped, DictsTyped, RestTyped, ExecTyped,
       memVars, execVars, dictVars, workVars
  <2>2. ThreadsTyped'
    BY <1>3, ReturnTyped DEF QueueForSheet, Returned
  <2> QED BY <2>1, <2>2
<1>4. CASE AcquireSheets(th)
  <2>0. arg[th] \in Task
    BY <1>4 DEF AcquireSheets, Step, ThreadsTyped, Returned
  <2>1. DbTyped' /\ DictsTyped' /\ RestTyped' /\ ExecTyped'
    BY <1>4, <2>0 DEF AcquireSheets, AcquireAll, DbTyped, DictsTyped,
       RestTyped, ExecTyped, dictVars, execVars, workVars
  <2>2. ThreadsTyped'
    BY <1>4, StepTyped DEF AcquireSheets, Pc, StartPc, RestartPc, Returned
  <2> QED BY <2>1, <2>2
<1>5. CASE ValidateFails(th)
  <2>1. DbTyped' /\ DictsTyped' /\ RestTyped' /\ ExecTyped'
    BY <1>5 DEF ValidateFails, SheetStartAfter, DbTyped, DictsTyped, RestTyped,
       ExecTyped, dbVars, dictVars, execVars, workVars
  <2>2. ThreadsTyped'
    BY <1>5, StepTyped DEF ValidateFails, Pc, StartPc, RestartPc, Returned
  <2> QED BY <2>1, <2>2
<1>6. CASE MarkRunning(th)
  <2>1. DbTyped' /\ DictsTyped' /\ RestTyped' /\ ExecTyped'
    BY <1>6 DEF MarkRunning, ClearQueueMark, SheetStartAfter, Status, DbTyped,
       DictsTyped, RestTyped, ExecTyped, dictVars, execVars, workVars
  <2>2. ThreadsTyped'
    BY <1>6, StepTyped DEF MarkRunning, Pc, StartPc, RestartPc, Returned
  <2> QED BY <2>1, <2>2
<1>7. CASE MarkRunningTooLate(th)
  <2>1. DbTyped' /\ DictsTyped' /\ RestTyped' /\ ExecTyped'
    BY <1>7 DEF MarkRunningTooLate, RollbackReservation, ReleaseSheets,
       SheetStartAfter, DbTyped, DictsTyped, RestTyped, ExecTyped, dictVars,
       execVars, workVars
  <2>2. ThreadsTyped'
    BY <1>7, ReturnTyped DEF MarkRunningTooLate, Returned
  <2> QED BY <2>1, <2>2
<1>8. CASE TakeToken(th)
  <2>0. arg[th] \in Task
    BY <1>8 DEF TakeToken, Step, ThreadsTyped, Returned
  <2>1. DbTyped' /\ DictsTyped' /\ RestTyped' /\ ExecTyped'
    BY <1>8, <2>0 DEF TakeToken, DbTyped, DictsTyped, RestTyped, ExecTyped,
       dbVars, dictVars, execVars, workVars
  <2>2. ThreadsTyped'
    BY <1>8, StepTyped DEF TakeToken, Pc, StartPc, RestartPc, Returned
  <2> QED BY <2>1, <2>2
<1>9. CASE TokenFails(th)
  <2>1. DbTyped' /\ DictsTyped' /\ RestTyped' /\ ExecTyped'
    BY <1>9 DEF TokenFails, DbTyped, DictsTyped, RestTyped, ExecTyped, dbVars,
       memVars, execVars, dictVars, workVars
  <2>2. ThreadsTyped'
    BY <1>9, StepTyped DEF TokenFails, Pc, StartPc, RestartPc, Returned
  <2> QED BY <2>1, <2>2
<1>10. CASE RejectForQuota(th)
  <2>1. DbTyped' /\ DictsTyped' /\ RestTyped' /\ ExecTyped'
    BY <1>10 DEF RejectForQuota, DbTyped, DictsTyped, RestTyped, ExecTyped,
       dbVars, memVars, execVars, dictVars, workVars
  <2>2. ThreadsTyped'
    BY <1>10, StepTyped DEF RejectForQuota, Pc, StartPc, RestartPc, Returned
  <2> QED BY <2>1, <2>2
<1>11. CASE Admit(th)
  <2>0. arg[th] \in Task
    BY <1>11 DEF Admit, ThreadsTyped, Returned
  <2>1. DbTyped'
    BY <1>11, <2>0 DEF Admit, ReachableFired, FreeSlots, ExecPc, Slot, Exec,
       DbTyped, dbVars
  <2>2. DictsTyped'
    BY <1>11, <2>0 DEF Admit, ReachableFired, FreeSlots, ExecPc, Slot, Exec,
       DictsTyped, dbVars
  <2>3. RestTyped'
    BY <1>11, <2>0 DEF Admit, ReachableFired, FreeSlots, ExecPc, Slot, Exec,
       RestTyped, dbVars
  <2>4. ExecTyped'
    BY <1>11, <2>0 DEF Admit, ReachableFired, FreeSlots, ExecPc, Slot, Exec,
       ExecTyped, dbVars
  <2>5. ThreadsTyped'
    BY <1>11, <2>0 DEF Admit, FreeSlots, Goto, ThreadsTyped, Slot, Pc, StartPc, Returned
  <2> QED BY <2>1, <2>2, <2>3, <2>4, <2>5
<1>12. CASE Register(th)
  <2>0. arg[th] \in Task /\ slot[th] \in Slot
    BY <1>12 DEF Register, Step, ThreadsTyped, Returned
  <2>1. DbTyped'
    BY <1>12, <2>0 DEF Register, ExecPc, Slot, Exec, DbTyped, dbVars, workVars
  <2>2. DictsTyped'
    BY <1>12, <2>0 DEF Register, ExecPc, Slot, Exec, DictsTyped, dbVars,
       workVars
  <2>3. RestTyped'
    BY <1>12, <2>0 DEF Register, ExecPc, Slot, Exec, RestTyped, dbVars,
       workVars
  <2>4. ExecTyped'
    BY <1>12, <2>0 DEF Register, ExecPc, Slot, Exec, ExecTyped, dbVars,
       workVars
  <2>5. ThreadsTyped'
    BY <1>12, StepTyped DEF Register, Pc, StartPc, RestartPc, Returned
  <2> QED BY <2>1, <2>2, <2>3, <2>4, <2>5
<1>13. CASE Enqueue(th)
  <2>0. arg[th] \in Task /\ slot[th] \in Slot
    BY <1>13 DEF Enqueue, ThreadsTyped, Returned
  <2>1. DbTyped'
    BY <1>13 DEF Enqueue, DbTyped, dbVars
  <2>2. DictsTyped'
    BY <1>13 DEF Enqueue, DictsTyped, dictVars
  <2>3. <<arg[th], slot[th]>> \in Exec
    BY <2>0 DEF Exec
  <2>4. RestTyped'
    BY <1>13, <2>3 DEF Enqueue, RestTyped
  <2>5. ExecTyped'
    BY <1>13, <2>3 DEF Enqueue, ExecPc, ExecTyped, workVars
  <2>6. ThreadsTyped'
    BY <1>13, ReturnTyped DEF Enqueue, Returned
  <2> QED BY <2>1, <2>2, <2>4, <2>5, <2>6
<1>14. CASE SubmitFails(th)
  <2>0. arg[th] \in Task /\ slot[th] \in Slot
    BY <1>14 DEF SubmitFails, Step, ThreadsTyped, Returned
  <2>1. DbTyped'
    BY <1>14, <2>0 DEF SubmitFails, ReachableFired, ExecPc, Exec, DbTyped,
       dbVars
  <2>2. DictsTyped'
    BY <1>14, <2>0 DEF SubmitFails, ReachableFired, ExecPc, Exec, DictsTyped,
       dbVars
  <2>3. RestTyped'
    BY <1>14, <2>0 DEF SubmitFails, ReachableFired, ExecPc, Exec, RestTyped,
       dbVars
  <2>4. ExecTyped'
    BY <1>14, <2>0 DEF SubmitFails, ReachableFired, ExecPc, Exec, ExecTyped,
       dbVars
  <2>5. ThreadsTyped'
    BY <1>14, StepTyped DEF SubmitFails, Pc, StartPc, RestartPc, Returned
  <2> QED BY <2>1, <2>2, <2>3, <2>4, <2>5
<1>15. CASE Rollback(th)
  <2>1. DbTyped'
    BY <1>15 DEF Rollback, RollbackReservation, ReleaseSheets, RevertRunning,
       Status, DbTyped, dictVars, execVars, workVars
  <2>2. DictsTyped'
    BY <1>15 DEF Rollback, RollbackReservation, ReleaseSheets, RevertRunning,
       Status, DictsTyped, dictVars, execVars, workVars
  <2>3. RestTyped'
    BY <1>15 DEF Rollback, RollbackReservation, ReleaseSheets, RevertRunning,
       Status, RestTyped, dictVars, execVars, workVars
  <2>4. ExecTyped'
    BY <1>15 DEF Rollback, RollbackReservation, ReleaseSheets, RevertRunning,
       Status, ExecTyped, dictVars, execVars, workVars
  <2>5. ThreadsTyped'
    BY <1>15, ReturnTyped DEF Rollback, Returned
  <2> QED BY <2>1, <2>2, <2>3, <2>4, <2>5
<1> QED
  BY <1>1, <1>2, <1>3, <1>4, <1>5, <1>6, <1>7, <1>8, <1>9, <1>10, <1>11, <1>12,
     <1>13, <1>14, <1>15 DEF StartStep

\* Every step of an execution keeps the types.
LEMMA ExecutionTyped ==
  ASSUME Typed, NEW x \in Exec, ExecutionStep(x)
  PROVE  Typed'
<1> USE ConstantsAssumption DEF Typed
<1>0. x[1] \in Task /\ x[2] \in Slot /\ x[2] \in 1..MaxExec /\ x \in Thread
  BY DEF Exec, Slot, Thread
<1>1. CASE TaskMissing(x)
  <2>1. DbTyped' /\ DictsTyped' /\ RestTyped' /\ ExecTyped'
    BY <1>1, <1>0 DEF TaskMissing, ExecStep, ExecPc, DbTyped, DictsTyped,
       RestTyped, ExecTyped, dbVars, memVars, workVars, threadVars, dictVars
  <2>2. ThreadsTyped'
    BY <1>1 DEF TaskMissing, ThreadsTyped, threadVars
  <2> QED BY <2>1, <2>2
<1>2. CASE MarkTaskRunning(x)
  <2>1. DbTyped' /\ DictsTyped' /\ RestTyped' /\ ExecTyped'
    BY <1>2, <1>0 DEF MarkTaskRunning, ExecStep, ExecPc, Status, DbTyped,
       DictsTyped, RestTyped, ExecTyped, memVars, threadVars, dictVars
  <2>2. ThreadsTyped'
    BY <1>2 DEF MarkTaskRunning, ThreadsTyped, threadVars
  <2> QED BY <2>1, <2>2
<1>3. CASE FinishWork(x)
  <2>1. DbTyped'
    BY <1>3, <1>0 DEF FinishWork, ReachableFired, ExecStep, ExecPc, Outcome,
       DbTyped, dbVars, threadVars
  <2>2. DictsTyped'
    BY <1>3, <1>0 DEF FinishWork, ReachableFired, ExecStep, ExecPc, Outcome,
       DictsTyped, dbVars, threadVars
  <2>3. RestTyped'
    BY <1>3, <1>0 DEF FinishWork, ReachableFired, ExecStep, ExecPc, Outcome,
       RestTyped, dbVars, threadVars
  <2>4. ExecTyped'
    BY <1>3, <1>0 DEF FinishWork, ReachableFired, ExecStep, ExecPc, Outcome,
       ExecTyped, dbVars, threadVars
  <2>5. ThreadsTyped'
    BY <1>3 DEF FinishWork, ThreadsTyped, threadVars
  <2> QED BY <2>1, <2>2, <2>3, <2>4, <2>5
<1>4. CASE ReadVerdict(x)
  <2>1. DbTyped'
    BY <1>4, <1>0 DEF ReadVerdict, ExecStep, Verdict, ExecPc, Outcome, DbTyped,
       dbVars, memVars, threadVars, dictVars
  <2>2. DictsTyped'
    BY <1>4, <1>0 DEF ReadVerdict, ExecStep, Verdict, ExecPc, Outcome,
       DictsTyped, dbVars, memVars, threadVars, dictVars
  <2>3. RestTyped'
    BY <1>4, <1>0 DEF ReadVerdict, ExecStep, Verdict, ExecPc, Outcome,
       RestTyped, dbVars, memVars, threadVars, dictVars
  <2>4. ExecTyped'
    BY <1>4, <1>0 DEF ReadVerdict, ExecStep, Verdict, ExecPc, Outcome,
       ExecTyped, dbVars, memVars, threadVars, dictVars
  <2>5. ThreadsTyped'
    BY <1>4 DEF ReadVerdict, ThreadsTyped, threadVars
  <2> QED BY <2>1, <2>2, <2>3, <2>4, <2>5
<1>5. CASE WriteVerdict(x)
  <2>0. outcome[x] \in {"completed", "cancelled", "error", "exception"}
    BY <1>5, <1>0 DEF WriteVerdict, ExecStep, ExecTyped, Outcome
  <2>1. DbTyped'
    BY <1>5, <2>0, <1>0 DEF WriteVerdict, ExecStep, ExecPc, Outcome, Status,
       DbTyped, memVars, threadVars, dictVars
  <2>2. DictsTyped'
    BY <1>5, <2>0, <1>0 DEF WriteVerdict, ExecStep, ExecPc, Outcome, Status,
       DictsTyped, memVars, threadVars, dictVars
  <2>3. RestTyped'
    BY <1>5, <2>0, <1>0 DEF WriteVerdict, ExecStep, ExecPc, Outcome, Status,
       RestTyped, memVars, threadVars, dictVars
  <2>4. ExecTyped'
    BY <1>5, <2>0, <1>0 DEF WriteVerdict, ExecStep, ExecPc, Outcome, Status,
       ExecTyped, memVars, threadVars, dictVars
  <2>5. ThreadsTyped'
    BY <1>5 DEF WriteVerdict, ThreadsTyped, threadVars
  <2> QED BY <2>1, <2>2, <2>3, <2>4, <2>5
<1>6. CASE CloseReplaced(x)
  <2>1. DbTyped'
    BY <1>6, <1>0 DEF CloseReplaced, Exit, ForgetWorker, ExecPc, Outcome,
       DbTyped, dbVars, threadVars
  <2>2. DictsTyped'
    BY <1>6, <1>0 DEF CloseReplaced, Exit, ForgetWorker, ExecPc, Outcome,
       DictsTyped, dbVars, threadVars
  <2>3. RestTyped'
    BY <1>6, <1>0 DEF CloseReplaced, Exit, ForgetWorker, ExecPc, Outcome,
       RestTyped, dbVars, threadVars
  <2>4. ExecTyped'
    BY <1>6, <1>0 DEF CloseReplaced, Exit, ForgetWorker, ExecPc, Outcome,
       ExecTyped, dbVars, threadVars
  <2>5. ThreadsTyped'
    BY <1>6 DEF CloseReplaced, ThreadsTyped, threadVars
  <2> QED BY <2>1, <2>2, <2>3, <2>4, <2>5
<1>7. CASE CloseActive(x)
  <2>1. DbTyped' /\ DictsTyped' /\ RestTyped' /\ ExecTyped'
    BY <1>7, <1>0 DEF CloseActive, ExecStep, ExecPc, Outcome, DbTyped,
       DictsTyped, RestTyped, ExecTyped, dbVars, memVars, workVars, threadVars,
       dictVars
  <2>2. ThreadsTyped'
    BY <1>7 DEF CloseActive, ThreadsTyped, threadVars
  <2> QED BY <2>1, <2>2
<1>8. CASE ReleaseResources(x)
  <2>1. DbTyped' /\ DictsTyped' /\ RestTyped' /\ ExecTyped'
    BY <1>8, <1>0 DEF ReleaseResources, ReleaseSheets, ExecStep, HandOver,
       Held, ExecPc, Outcome, DbTyped, DictsTyped, RestTyped, ExecTyped,
       dictVars, threadVars
  <2>2. ThreadsTyped'
    BY <1>8 DEF ReleaseResources, ThreadsTyped, threadVars
  <2> QED BY <2>1, <2>2
<1>9. CASE Cleanup(x)
  <2>1. DbTyped'
    BY <1>9, <1>0 DEF Cleanup, ReachableFired, ExecStep, ForgetWorker, ExecPc,
       Outcome, DbTyped, dbVars, threadVars
  <2>2. DictsTyped'
    BY <1>9, <1>0 DEF Cleanup, ReachableFired, ExecStep, ForgetWorker, ExecPc,
       Outcome, DictsTyped, dbVars, threadVars
  <2>3. RestTyped'
    BY <1>9, <1>0 DEF Cleanup, ReachableFired, ExecStep, ForgetWorker, ExecPc,
       Outcome, RestTyped, dbVars, threadVars
  <2>4. ExecTyped'
    BY <1>9, <1>0 DEF Cleanup, ReachableFired, ExecStep, ForgetWorker, ExecPc,
       Outcome, ExecTyped, dbVars, threadVars
  <2>5. ThreadsTyped'
    BY <1>9 DEF Cleanup, ThreadsTyped, threadVars
  <2> QED BY <2>1, <2>2, <2>3, <2>4, <2>5
<1>10. CASE RelayNobody(x)
  <2>1. DbTyped'
    BY <1>10, <1>0 DEF RelayNobody, Exit, ForgetWorker, ExecPc, Outcome,
       DbTyped, dbVars, threadVars
  <2>2. DictsTyped'
    BY <1>10, <1>0 DEF RelayNobody, Exit, ForgetWorker, ExecPc, Outcome,
       DictsTyped, dbVars, threadVars
  <2>3. RestTyped'
    BY <1>10, <1>0 DEF RelayNobody, Exit, ForgetWorker, ExecPc, Outcome,
       RestTyped, dbVars, threadVars
  <2>4. ExecTyped'
    BY <1>10, <1>0 DEF RelayNobody, Exit, ForgetWorker, ExecPc, Outcome,
       ExecTyped, dbVars, threadVars
  <2>5. ThreadsTyped'
    BY <1>10 DEF RelayNobody, ThreadsTyped, threadVars
  <2> QED BY <2>1, <2>2, <2>3, <2>4, <2>5
<1>11. CASE RelayNext(x)
  <2>1. DbTyped'
    BY <1>11, <1>0 DEF RelayNext, ExecStep, ExecPc, Outcome, DbTyped, dbVars,
       dictVars, workVars
  <2>2. DictsTyped'
    BY <1>11, <1>0 DEF RelayNext, ExecStep, ExecPc, Outcome, DictsTyped,
       dbVars, dictVars, workVars
  <2>3. RestTyped'
    BY <1>11, <1>0 DEF RelayNext, ExecStep, ExecPc, Outcome, RestTyped, dbVars,
       dictVars, workVars
  <2>4. ExecTyped'
    BY <1>11, <1>0 DEF RelayNext, ExecStep, ExecPc, Outcome, ExecTyped, dbVars,
       dictVars, workVars
  <2>5. ThreadsTyped'
    BY <1>11, <1>0, EnterTyped DEF RelayNext, Waiting, Pc, StartPc
  <2> QED BY <2>1, <2>2, <2>3, <2>4, <2>5
<1>12. CASE RelayEnd(x)
  <2>1. DbTyped'
    BY <1>12 DEF RelayEnd, DbTyped, dbVars
  <2>2. DictsTyped'
    BY <1>12, <1>0 DEF RelayEnd, ForgetWorker, DictsTyped
  <2>3. RestTyped'
    BY <1>12 DEF RelayEnd, RestTyped
  <2>4. ExecTyped'
    BY <1>12, <1>0 DEF RelayEnd, Exit, ExecPc, Outcome, ExecTyped
  <2>5. ThreadsTyped'
    BY <1>12, <1>0 DEF RelayEnd, Goto, ThreadsTyped, Pc
  <2> QED BY <2>1, <2>2, <2>3, <2>4, <2>5
<1> QED
  BY <1>1, <1>2, <1>3, <1>4, <1>5, <1>6, <1>7, <1>8, <1>9, <1>10, <1>11, <1>12
     DEF ExecutionStep

\* A pool thread that takes an execution keeps the types.
LEMMA BeginTyped ==
  ASSUME Typed, Begin
  PROVE  Typed'
<1> USE ConstantsAssumption DEF Typed
<1>0. /\ queue # <<>>
      /\ Head(queue) \in Exec /\ Tail(queue) \in Seq(Exec)
      /\ Head(queue)[1] \in Task /\ Head(queue)[2] \in 0..MaxExec
  BY DEF Begin, RestTyped, Exec, Slot
<1>1. DbTyped' /\ RestTyped' /\ ThreadsTyped'
  BY <1>0 DEF Begin, DbTyped, RestTyped, ThreadsTyped, dbVars, threadVars
<1>2. DictsTyped' /\ ExecTyped'
  BY <1>0 DEF Begin, ExecStep, ExecPc, DictsTyped, ExecTyped, workVars
<1> QED BY <1>1, <1>2

\* Every request, and every later step of one, keeps the types.
LEMMA CallerTyped ==
  ASSUME Typed, NEW c \in Thread, Request(c) \/ OperationStep(c)
  PROVE  Typed'
<1> USE ConstantsAssumption DEF Typed
<1>0. c \in Thread
  OBVIOUS
<1>1. CASE RequestCreate(c)
  <2>1. DbTyped' /\ DictsTyped' /\ RestTyped' /\ ExecTyped'
    BY <1>1, <1>0 DEF RequestCreate, Status, DbTyped, DictsTyped, RestTyped,
       ExecTyped, memVars, execVars, dictVars, workVars
  <2>2. ThreadsTyped'
    BY <1>1, <1>0, EnterTyped DEF RequestCreate, Pc, StartPc, RestartPc, CancelPc
  <2> QED BY <2>1, <2>2
<1>2. CASE RequestCancel(c)
  <2>1. DbTyped'
    BY <1>2, <1>0 DEF RequestCancel, CancelRead, FireEvent, Exec, Slot,
       DbTyped, dbVars, execVars, workVars
  <2>2. DictsTyped'
    BY <1>2, <1>0 DEF RequestCancel, CancelRead, FireEvent, Exec, Slot,
       DictsTyped, dbVars, execVars, workVars
  <2>3. RestTyped'
    BY <1>2, <1>0 DEF RequestCancel, CancelRead, FireEvent, Exec, Slot,
       RestTyped, dbVars, execVars, workVars
  <2>4. ExecTyped'
    BY <1>2, <1>0 DEF RequestCancel, CancelRead, FireEvent, Exec, Slot,
       ExecTyped, dbVars, execVars, workVars
  <2>5. ThreadsTyped'
    BY <1>2, <1>0, EnterTyped DEF RequestCancel, CancelRead, Pc, StartPc, RestartPc, CancelPc
  <2> QED BY <2>1, <2>2, <2>3, <2>4, <2>5
<1>3. CASE RequestRestart(c)
  <2>1. DbTyped' /\ DictsTyped' /\ RestTyped' /\ ExecTyped'
    BY <1>3, <1>0 DEF RequestRestart, DbTyped, DictsTyped, RestTyped,
       ExecTyped, dbVars, memVars, execVars, dictVars, workVars
  <2>2. ThreadsTyped'
    BY <1>3, <1>0, EnterTyped DEF RequestRestart, Pc, StartPc, RestartPc, CancelPc
  <2> QED BY <2>1, <2>2
<1>4. CASE RequestDelete(c)
  <2>1. DbTyped'
    BY <1>4, <1>0 DEF RequestDelete, ReleaseSheets, Status, DbTyped, dictVars,
       execVars, workVars
  <2>2. DictsTyped'
    BY <1>4, <1>0 DEF RequestDelete, ReleaseSheets, Status, DictsTyped,
       dictVars, execVars, workVars
  <2>3. RestTyped'
    BY <1>4, <1>0 DEF RequestDelete, ReleaseSheets, Status, RestTyped,
       dictVars, execVars, workVars
  <2>4. ExecTyped'
    BY <1>4, <1>0 DEF RequestDelete, ReleaseSheets, Status, ExecTyped,
       dictVars, execVars, workVars
  <2>5. ThreadsTyped'
    BY <1>4, <1>0, EnterTyped DEF RequestDelete, Pc, StartPc, RestartPc, CancelPc
  <2> QED BY <2>1, <2>2, <2>3, <2>4, <2>5
<1>5. CASE CancelWrite(c)
  <2>0. arg[c] \in Task
    BY <1>5, <1>0 DEF CancelWrite, CancelPc, ThreadsTyped, Returned
  <2>1. DbTyped'
    BY <1>5, <2>0, <1>0 DEF CancelWrite, Status, DbTyped, dictVars, execVars,
       workVars
  <2>2. DictsTyped'
    BY <1>5, <2>0, <1>0 DEF CancelWrite, Status, DictsTyped, dictVars,
       execVars, workVars
  <2>3. RestTyped'
    BY <1>5, <2>0, <1>0 DEF CancelWrite, Status, RestTyped, dictVars, execVars,
       workVars
  <2>4. ExecTyped'
    BY <1>5, <2>0, <1>0 DEF CancelWrite, Status, ExecTyped, dictVars, execVars,
       workVars
  <2>5. ThreadsTyped'
    <3>1. CASE pc[c] \in {"stopPending", "stopRunning"}
      BY <1>5, <1>0, <3>1, <2>0 DEF CancelWrite, Goto, ThreadsTyped, Pc, RestartPc
    <3>2. CASE pc[c] \notin {"stopPending", "stopRunning"}
      BY <1>5, <1>0, <3>2, ReturnTyped DEF CancelWrite
    <3> QED BY <3>1, <3>2
  <2> QED BY <2>1, <2>2, <2>3, <2>4, <2>5
<1>6. CASE RestartStops(c)
  <2>0. arg[c] \in Task
    BY <1>6, <1>0 DEF RestartStops, ThreadsTyped, Returned
  <2>1. DbTyped'
    BY <1>6, <2>0, <1>0 DEF RestartStops, CancelRead, FireEvent, Exec, Slot,
       DbTyped, dbVars, execVars, workVars
  <2>2. DictsTyped'
    BY <1>6, <2>0, <1>0 DEF RestartStops, CancelRead, FireEvent, Exec, Slot,
       DictsTyped, dbVars, execVars, workVars
  <2>3. RestTyped'
    BY <1>6, <2>0, <1>0 DEF RestartStops, CancelRead, FireEvent, Exec, Slot,
       RestTyped, dbVars, execVars, workVars
  <2>4. ExecTyped'
    BY <1>6, <2>0, <1>0 DEF RestartStops, CancelRead, FireEvent, Exec, Slot,
       ExecTyped, dbVars, execVars, workVars
  <2>5. ThreadsTyped'
    BY <1>6, <2>0, <1>0, EnterTyped DEF RestartStops, CancelRead, Pc, StartPc,
       RestartPc, CancelPc
  <2> QED BY <2>1, <2>2, <2>3, <2>4, <2>5
<1>7. CASE RestartNothingToStop(c)
  <2>1. DbTyped' /\ DictsTyped' /\ RestTyped' /\ ExecTyped'
    BY <1>7, <1>0 DEF RestartNothingToStop, DbTyped, DictsTyped, RestTyped,
       ExecTyped, dbVars, memVars, execVars, dictVars, workVars
  <2>2. ThreadsTyped'
    BY <1>7, <1>0, StepTyped DEF RestartNothingToStop, Pc, RestartPc, Returned
  <2> QED BY <2>1, <2>2
<1>8. CASE RestartJoin(c)
  <2>0. arg[c] \in Task
    BY <1>8, <1>0 DEF RestartJoin, ThreadsTyped, Returned
  <2>1. DbTyped'
    BY <1>8, <2>0, <1>0 DEF RestartJoin, ReachableFired, DbTyped, dbVars,
       execVars, workVars
  <2>2. DictsTyped'
    BY <1>8, <2>0, <1>0 DEF RestartJoin, ReachableFired, DictsTyped, dbVars,
       execVars, workVars
  <2>3. RestTyped'
    BY <1>8, <2>0, <1>0 DEF RestartJoin, ReachableFired, RestTyped, dbVars,
       execVars, workVars
  <2>4. ExecTyped'
    BY <1>8, <2>0, <1>0 DEF RestartJoin, ReachableFired, ExecTyped, dbVars,
       execVars, workVars
  <2>5. ThreadsTyped'
    <3>1. CASE HandleAlive(arg[c])
      BY <1>8, <1>0, <3>1, ReturnTyped DEF RestartJoin
    <3>2. CASE ~HandleAlive(arg[c])
      <4>1. Step(c, "join", "reset")
        BY <1>8, <3>2 DEF RestartJoin, Step
      <4> QED BY <1>0, <4>1, StepTyped DEF Pc, RestartPc, Returned
    <3> QED BY <3>1, <3>2
  <2> QED BY <2>1, <2>2, <2>3, <2>4, <2>5
<1>9. CASE RestartReset(c)
  <2>0. arg[c] \in Task
    BY <1>9, <1>0 DEF RestartReset, ThreadsTyped, Returned
  <2>1. DbTyped'
    <3>1. lockOf' \in [Sheet -> Task \cup {None}]
      BY <1>9 DEF RestartReset, ReleaseSheets, DbTyped
    <3>2. status' \in [Task -> Status] /\ queued' \in [Task -> BOOLEAN]
      BY <1>9 DEF RestartReset, ClearQueueMark, Status, DbTyped
    <3> QED BY <3>1, <3>2 DEF DbTyped
  <2>2. DictsTyped'
    BY <1>9, <2>0, <1>0 DEF RestartReset, ReleaseSheets, ClearQueueMark,
       Status, DictsTyped, dictVars, execVars, workVars
  <2>3. RestTyped'
    BY <1>9, <2>0, <1>0 DEF RestartReset, ReleaseSheets, ClearQueueMark,
       Status, RestTyped, dictVars, execVars, workVars
  <2>4. ExecTyped'
    BY <1>9, <2>0, <1>0 DEF RestartReset, ReleaseSheets, ClearQueueMark,
       Status, ExecTyped, dictVars, execVars, workVars
  <2>5. ThreadsTyped'
    <3>1. CASE status[arg[c]] = "deleted"
      BY <1>9, <1>0, <3>1, ReturnTyped DEF RestartReset
    <3>2. CASE status[arg[c]] # "deleted"
      <4>1. Step(c, "reset", "check")
        BY <1>9, <3>2 DEF RestartReset, Step
      <4> QED BY <1>0, <4>1, StepTyped DEF Pc, StartPc, RestartPc, Returned
    <3> QED BY <3>1, <3>2
  <2> QED BY <2>1, <2>2, <2>3, <2>4, <2>5
<1>10. CASE DeletePop(c)
  <2>0. arg[c] \in Task
    BY <1>10, <1>0 DEF DeletePop, ThreadsTyped, Returned
  <2>1. DbTyped'
    BY <1>10, <2>0, <1>0 DEF DeletePop, ReachableFired, Exec, Slot, DbTyped,
       dbVars, execVars, workVars
  <2>2. DictsTyped'
    BY <1>10, <2>0, <1>0 DEF DeletePop, ReachableFired, Exec, Slot, DictsTyped,
       dbVars, execVars, workVars
  <2>3. RestTyped'
    BY <1>10, <2>0, <1>0 DEF DeletePop, ReachableFired, Exec, Slot, RestTyped,
       dbVars, execVars, workVars
  <2>4. ExecTyped'
    BY <1>10, <2>0, <1>0 DEF DeletePop, ReachableFired, Exec, Slot, ExecTyped,
       dbVars, execVars, workVars
  <2>5. ThreadsTyped'
    BY <1>10, <1>0, ReturnTyped DEF DeletePop, Returned
  <2> QED BY <2>1, <2>2, <2>3, <2>4, <2>5
<1> QED
  BY <1>1, <1>2, <1>3, <1>4, <1>5, <1>6, <1>7, <1>8, <1>9, <1>10
     DEF Request, OperationStep

-----------------------------------------------------------------------------
(* The sheet execution locks. *)

\* The initial state has nothing to lock.
LEMMA InitLocks == Init => LockInv
BY DEF Init, LockInv, OneStarter, Starting, StartPc, RestartPc, PopsDeleted,
   StarterHoldsLocks, Reserving, EnqueuesHandle, StartsAlone, Alone,
   HandledIsCurrent, ExecutionHoldsLocks, Handled, Unreleased, Exec

\* Most steps do not concern the locks: no lock or handle changes, no row goes,
\* no execution comes, ...
Untouched ==
  /\ UNCHANGED <<lockOf, handle>>
  /\ \A t \in Task : status'[t] = "deleted" <=> status[t] = "deleted"
  /\ \A x \in Exec : /\ exec'[x] \in Handled => exec[x] \in Handled
                     /\ exec'[x] \in Unreleased => exec[x] \in Unreleased

\* ... the other threads stay where they are, ...
OthersStay(th) ==
  \A ti \in Thread \ {th} :
    pc'[ti] = pc[ti] /\ arg'[ti] = arg[ti] /\ slot'[ti] = slot[ti]

\* ... and the thread that moves gains nothing by it.
GainsNothing(th) ==
  /\ Starting(th)' => \/ Starting(th) /\ arg'[th] = arg[th]
                      \/ MayStart(arg'[th])
  /\ pc'[th] = "popHandle" => pc[th] = "popHandle" /\ arg'[th] = arg[th]
  /\ pc'[th] \in Reserving => pc[th] \in Reserving /\ arg'[th] = arg[th]
  /\ pc'[th] = "enqueue" =>
       pc[th] = "enqueue" /\ arg'[th] = arg[th] /\ slot'[th] = slot[th]
  /\ pc'[th] \in Alone =>
       /\ arg'[th] = arg[th]
       /\ \/ pc[th] \in Alone
          \/ status[arg[th]] = "deleted"
          \/ \A n \in Slot : exec[<<arg[th], n>>] \notin Handled

\* A step by which a thread gains nothing leaves one starter to a task.
LEMMA OneStarterKept ==
  ASSUME SerialStarts, OneStarter, NEW th \in Thread, OthersStay(th), GainsNothing(th)
  PROVE  OneStarter'
BY DEF OneStarter, OthersStay, GainsNothing, Starting, MayStart

\* A step that touches no lock and gains nothing keeps the invariant.
LEMMA QuietStep ==
  ASSUME SerialStarts, Typed, LockInv, NEW th \in Thread,
         Untouched, OthersStay(th), GainsNothing(th), ThreadsTyped'
  PROVE  LockInv'
<1>1. OneStarter'
  BY OneStarterKept DEF LockInv
<1>2. PopsDeleted' /\ EnqueuesHandle'
  BY DEF LockInv, PopsDeleted, EnqueuesHandle, Untouched, OthersStay, GainsNothing,
     ThreadsTyped, Returned
<1>3. StarterHoldsLocks'
  BY DEF LockInv, StarterHoldsLocks, Untouched, OthersStay, GainsNothing, Held,
     ThreadsTyped, Returned, Reserving
<1>4. StartsAlone'
  BY DEF LockInv, StartsAlone, Untouched, OthersStay, GainsNothing, ThreadsTyped,
     Returned, Alone, StartPc, Exec
<1>5. HandledIsCurrent' /\ ExecutionHoldsLocks'
  BY DEF LockInv, HandledIsCurrent, ExecutionHoldsLocks, Untouched, Held, Exec
<1> QED BY <1>1, <1>2, <1>3, <1>4, <1>5 DEF LockInv

\* A handle that is dead, or missing, means that nothing executes the task.
LEMMA DeadHandle ==
  ASSUME Typed, LockInv, NEW t \in Task, ~HandleAlive(t), status[t] # "deleted"
  PROVE  \A n \in Slot : exec[<<t, n>>] \notin Handled
BY DEF HandleAlive, LockInv, HandledIsCurrent, Handled, Unreleased, AliveExec, ExecPc,
   Slot

\* Where a thread goes when it returns, and when it goes on.
LEMMA ReturnGains ==
  ASSUME ThreadsTyped, NEW th \in Thread, NEW result \in Returned \cup {"idle"},
         Return(th, result)
  PROVE  /\ OthersStay(th)
         /\ GainsNothing(th)
         /\ pc'[th] \in Returned \cup {"idle"}
BY DEF ThreadsTyped, Return, Goto, OthersStay, GainsNothing, Starting, StartPc,
   RestartPc, Returned, Reserving, Alone

\* A step inside start_task or restart_task, other than a take of the locks.
LEMMA StepGains ==
  ASSUME ThreadsTyped, NEW th \in Thread,
         NEW from \in StartPc \cup RestartPc, NEW to \in StartPc \cup RestartPc,
         Step(th, from, to), to # "enqueue",
         to \in Reserving => from \in Reserving, to \in Alone => from \in Alone
  PROVE  OthersStay(th) /\ GainsNothing(th)
BY DEF ThreadsTyped, Step, Goto, OthersStay, GainsNothing, Starting, StartPc, RestartPc

\* Entering an operation: the start of a task is assumed to be alone.
LEMMA EnterGains ==
  ASSUME ThreadsTyped, NEW th \in Thread, NEW t \in Task,
         NEW to \in {"check", "snapshot"} \cup CancelPc, Enter(th, t, to),
         to \in {"cancelPending", "cancelRunning"} \/ MayStart(t)
  PROVE  OthersStay(th) /\ GainsNothing(th)
BY DEF ThreadsTyped, Enter, Goto, OthersStay, GainsNothing, Starting, StartPc, RestartPc,
   CancelPc, Reserving, Alone

\* start_task and restart_task give the task's locks up while nobody else is
\* on the task.
LEMMA GiveUpLocks ==
  ASSUME SerialStarts, Typed, LockInv, NEW th \in Thread,
         pc[th] \in Alone, arg[th] \in Task, OthersStay(th), ThreadsTyped',
         pc'[th] \in Returned \cup {"idle", "check"},
         pc'[th] = "check" => arg'[th] = arg[th],
         \A u \in Task \ {arg[th]} : Held(u) \subseteq Held(u)',
         \A t \in Task : status'[t] = "deleted" <=> status[t] = "deleted",
         UNCHANGED <<handle, exec>>
  PROVE  LockInv'
<1>1. \A ti \in Thread \ {th} : Starting(ti) => arg[ti] # arg[th]
  BY DEF LockInv, OneStarter, Starting, RestartPc, Alone
<1>2. GainsNothing(th)
  BY DEF GainsNothing, Starting, StartPc, RestartPc, Returned, Reserving, Alone
<1>3. OneStarter'
  BY <1>2, OneStarterKept DEF LockInv
<1>4. PopsDeleted' /\ EnqueuesHandle'
  BY <1>2 DEF LockInv, PopsDeleted, EnqueuesHandle, OthersStay, GainsNothing, ThreadsTyped,
     Returned
<1>5. StarterHoldsLocks'
  <2> SUFFICES ASSUME NEW ti \in Thread, (pc[ti] \in Reserving)',
                      (status[arg[ti]] # "deleted")'
               PROVE  (SheetsOf[arg[ti]] \subseteq Held(arg[ti]))'
    BY DEF StarterHoldsLocks
  <2>1. ti # th
    BY <1>2 DEF GainsNothing, Reserving, Returned
  <2>2. pc[ti] \in Reserving /\ arg'[ti] = arg[ti] /\ arg[ti] \in Task
    BY <2>1 DEF OthersStay, Typed, ThreadsTyped, Reserving, Returned
  <2>3. arg[ti] # arg[th] /\ SheetsOf[arg[ti]] \subseteq Held(arg[ti])
    BY <1>1, <2>1, <2>2 DEF Starting, StartPc, Reserving, LockInv, StarterHoldsLocks
  <2> QED BY <2>2, <2>3
<1>6. StartsAlone'
  BY <1>2 DEF LockInv, StartsAlone, OthersStay, GainsNothing, ThreadsTyped, Returned, Alone,
     StartPc
<1>7. HandledIsCurrent'
  BY DEF LockInv, HandledIsCurrent
<1>8. ExecutionHoldsLocks'
  <2> SUFFICES ASSUME NEW t \in Task, NEW n \in Slot, exec[<<t, n>>] \in Unreleased,
                      status[t] # "deleted"
               PROVE  (SheetsOf[t] \subseteq Held(t))'
    BY DEF ExecutionHoldsLocks
  <2>1. t # arg[th]
    BY DEF LockInv, StartsAlone, Handled
  <2> QED BY <2>1 DEF LockInv, ExecutionHoldsLocks
<1> QED BY <1>3, <1>4, <1>5, <1>6, <1>7, <1>8 DEF LockInv

\* start_task: eight of its steps do not concern the locks, the others are where
\* they are taken, handed to the execution, or given up.
LEMMA StartKeepsLocks ==
  ASSUME SerialStarts, IInv, NEW th \in Thread, StartStep(th)
  PROVE  LockInv'
<1> USE DEF IInv
<1>0. /\ Typed' /\ ThreadsTyped /\ ThreadsTyped'
      /\ pc[th] \in StartPc /\ Starting(th) /\ arg[th] \in Task
  <2>1. Typed'
    BY StartTyped
  <2>2. pc[th] \in StartPc
    BY DEF StartStep, StartPc, Step, CheckHandle, ReadTask, QueueForSheet, AcquireSheets,
       ValidateFails, MarkRunning, MarkRunningTooLate, TakeToken, TokenFails,
       RejectForQuota, Admit, Register, Enqueue, SubmitFails, Rollback
  <2> QED BY <2>1, <2>2 DEF Starting, Typed, ThreadsTyped, StartPc, Returned
<1>1. \A ti \in Thread \ {th} : Starting(ti) => arg[ti] # arg[th]
  BY <1>0 DEF LockInv, OneStarter
<1>2. CASE CheckHandle(th)
  <2>1. CASE HandleAlive(arg[th])
    <3>1. Untouched
      BY <1>2, <2>1 DEF CheckHandle, Untouched, dbVars, execVars
    <3>2. OthersStay(th) /\ GainsNothing(th)
      BY <1>0, <1>2, <2>1, ReturnGains DEF CheckHandle, Returned
    <3> QED BY <1>0, <3>1, <3>2, QuietStep
  <2>2. CASE ~HandleAlive(arg[th])
    <3>1. /\ pc[th] = "check" /\ pc' = [pc EXCEPT ![th] = "read"]
          /\ handle' = [handle EXCEPT ![arg[th]] = 0]
          /\ UNCHANGED <<arg, slot, status, lockOf, exec>>
      BY <1>2, <2>2 DEF CheckHandle, Goto, dbVars, execVars
    <3>2. status[arg[th]] # "deleted" =>
            \A n \in Slot : exec[<<arg[th], n>>] \notin Handled
      BY <1>0, <2>2, DeadHandle
    <3>3. OneStarter' /\ PopsDeleted' /\ StarterHoldsLocks' /\ ExecutionHoldsLocks'
      BY <1>0, <3>1 DEF LockInv, OneStarter, Starting, StartPc, PopsDeleted,
         StarterHoldsLocks, Reserving, ExecutionHoldsLocks, Held, Typed, ThreadsTyped
    <3>4. EnqueuesHandle'
      BY <1>0, <1>1, <3>1 DEF LockInv, EnqueuesHandle, Typed, ThreadsTyped,
         DictsTyped, Starting, StartPc, Returned
    <3>5. StartsAlone'
      BY <1>0, <3>1, <3>2 DEF LockInv, StartsAlone, Typed, ThreadsTyped
    <3>6. HandledIsCurrent'
      BY <1>0, <3>1, <3>2 DEF LockInv, HandledIsCurrent, Typed, DictsTyped
    <3> QED BY <3>3, <3>4, <3>5, <3>6 DEF LockInv
  <2> QED BY <2>1, <2>2
<1>3. CASE ReadTask(th)
  <2>1. Untouched
    BY <1>3 DEF ReadTask, Untouched, dbVars, memVars, dictVars, execVars
  <2>2. CASE status[arg[th]] = "pending"
    <3>1. Step(th, "read", "lock")
      BY <1>3, <2>2 DEF ReadTask, Step
    <3>2. OthersStay(th) /\ GainsNothing(th)
      BY <1>0, <3>1, StepGains DEF StartPc, Reserving, Alone
    <3> QED BY <1>0, <2>1, <3>2, QuietStep
  <2>3. CASE status[arg[th]] # "pending"
    <3>1. OthersStay(th) /\ GainsNothing(th)
      BY <1>0, <1>3, <2>3, ReturnGains DEF ReadTask, Returned
    <3> QED BY <1>0, <2>1, <3>1, QuietStep
  <2> QED BY <2>2, <2>3
<1>4. CASE QueueForSheet(th)
  <2>1. Untouched
    BY <1>4 DEF QueueForSheet, Untouched, memVars, dictVars, execVars
  <2>2. OthersStay(th) /\ GainsNothing(th)
    BY <1>0, <1>4, ReturnGains DEF QueueForSheet, Returned
  <2> QED BY <1>0, <2>1, <2>2, QuietStep
<1>5. CASE AcquireSheets(th)
  \* Locks of other tasks stay: none of the sheets was held by another one.
  <2>1. /\ pc[th] = "lock" /\ pc' = [pc EXCEPT ![th] = "mark"]
        /\ UNCHANGED <<arg, slot, status, handle, exec>>
    BY <1>5 DEF AcquireSheets, Step, Goto, dictVars, execVars
  <2>0. /\ \A s \in SheetsOf[arg[th]] : lockOf[s] \in {None, arg[th]} /\ lockOf'[s] = arg[th]
        /\ \A s \in Sheet \ SheetsOf[arg[th]] : lockOf'[s] = lockOf[s]
        /\ SheetsOf[arg[th]] \subseteq Sheet /\ None \notin Task
    BY <1>0, <1>5, ConstantsAssumption DEF AcquireSheets, AcquireAll, Conflict
  <2>2. \A u \in Task : Held(u) \subseteq Held(u)'
    BY <1>0, <2>0 DEF Held
  <2>3. SheetsOf[arg[th]] \subseteq Held(arg[th])'
    BY <1>0, <2>0, <2>1 DEF Held
  <2>4. OneStarter' /\ PopsDeleted' /\ EnqueuesHandle'
    BY <1>0, <2>1 DEF LockInv, OneStarter, Starting, StartPc, PopsDeleted,
       EnqueuesHandle, ThreadsTyped
  <2>5. StarterHoldsLocks'
    BY <1>0, <2>1, <2>2, <2>3 DEF LockInv, StarterHoldsLocks, Reserving, ThreadsTyped,
       Returned
  <2>6. StartsAlone' /\ HandledIsCurrent'
    BY <1>0, <2>1 DEF LockInv, StartsAlone, Alone, StartPc, HandledIsCurrent, ThreadsTyped
  <2>7. ExecutionHoldsLocks'
    BY <2>1, <2>2 DEF LockInv, ExecutionHoldsLocks
  <2> QED BY <2>4, <2>5, <2>6, <2>7 DEF LockInv
<1>6. CASE ValidateFails(th)
  <2>1. Untouched
    BY <1>6 DEF ValidateFails, Untouched, dbVars, dictVars, execVars
  <2>2. OthersStay(th) /\ GainsNothing(th)
    BY <1>0, <1>6, StepGains DEF ValidateFails, StartPc, Reserving, Alone
  <2> QED BY <1>0, <2>1, <2>2, QuietStep
<1>7. CASE MarkRunning(th)
  <2>1. Untouched
    BY <1>0, <1>7 DEF MarkRunning, Untouched, dictVars, execVars, Typed, DbTyped
  <2>2. OthersStay(th) /\ GainsNothing(th)
    BY <1>0, <1>7, StepGains DEF MarkRunning, StartPc, Reserving, Alone
  <2> QED BY <1>0, <2>1, <2>2, QuietStep
<1>8. CASE MarkRunningTooLate(th)
  <2>1. \A u \in Task \ {arg[th]} : Held(u) \subseteq Held(u)'
    BY <1>8 DEF MarkRunningTooLate, RollbackReservation, ReleaseSheets, Held
  <2>2. OthersStay(th) /\ pc'[th] \in Returned \cup {"idle"}
    BY <1>0, <1>8, ReturnGains DEF MarkRunningTooLate, Returned
  <2>3. /\ pc[th] \in Alone /\ UNCHANGED <<status, handle, exec>>
        /\ \A t \in Task : status'[t] = "deleted" <=> status[t] = "deleted"
    BY <1>8 DEF MarkRunningTooLate, Alone, StartPc, dictVars, execVars
  <2>4. pc'[th] \in Returned \cup {"idle", "check"} /\ pc'[th] # "check"
    BY <2>2 DEF Returned
  <2> QED BY <1>0, <2>1, <2>2, <2>3, <2>4, GiveUpLocks
<1>9. CASE TakeToken(th)
  <2>1. Untouched
    BY <1>9 DEF TakeToken, Untouched, dbVars, dictVars, execVars
  <2>2. OthersStay(th) /\ GainsNothing(th)
    BY <1>0, <1>9, StepGains DEF TakeToken, StartPc, Reserving, Alone
  <2> QED BY <1>0, <2>1, <2>2, QuietStep
<1>10. CASE TokenFails(th) \/ RejectForQuota(th)
  <2>1. Untouched
    BY <1>10 DEF TokenFails, RejectForQuota, Untouched, dbVars, memVars, dictVars, execVars
  <2>2. OthersStay(th) /\ GainsNothing(th)
    BY <1>0, <1>10, StepGains DEF TokenFails, RejectForQuota, StartPc, Reserving, Alone
  <2> QED BY <1>0, <2>1, <2>2, QuietStep
<1>11. CASE Admit(th)
  <2>1. Untouched
    BY <1>0, <1>11 DEF Admit, Untouched, dbVars, Handled, Unreleased, Typed, ExecTyped
  <2>2. OthersStay(th) /\ GainsNothing(th)
    BY <1>0, <1>11 DEF Admit, Goto, OthersStay, GainsNothing, ThreadsTyped, StartPc,
       Reserving, Alone
  <2> QED BY <1>0, <2>1, <2>2, QuietStep
<1>12. CASE Register(th)
  <2>1. /\ pc[th] = "register" /\ pc' = [pc EXCEPT ![th] = "enqueue"]
        /\ handle' = [handle EXCEPT ![arg[th]] = slot[th]]
        /\ exec' = [exec EXCEPT ![<<arg[th], slot[th]>>] = "registered"]
        /\ UNCHANGED <<arg, slot, status, lockOf>>
    BY <1>12 DEF Register, Step, Goto, dbVars
  <2>2. status[arg[th]] # "deleted" =>
          \A n \in Slot : exec[<<arg[th], n>>] \notin Handled
    BY <2>1 DEF LockInv, StartsAlone, Alone, StartPc
  <2>3. \A t \in Task, n \in Slot :
          /\ exec'[<<t, n>>] \in Handled => exec[<<t, n>>] \in Handled
          /\ exec'[<<t, n>>] \in Unreleased => exec[<<t, n>>] \in Unreleased
    BY <2>1 DEF Typed, ExecTyped, Exec, Handled, Unreleased
  <2>4. OneStarter' /\ PopsDeleted' /\ StarterHoldsLocks'
    BY <1>0, <2>1 DEF LockInv, OneStarter, Starting, StartPc, PopsDeleted,
       StarterHoldsLocks, Reserving, Held, ThreadsTyped
  <2>5. EnqueuesHandle'
    BY <1>0, <1>1, <2>1 DEF LockInv, EnqueuesHandle, Starting, StartPc, Typed,
       DictsTyped, ThreadsTyped, Returned
  <2>6. StartsAlone'
    BY <1>0, <2>1, <2>3 DEF LockInv, StartsAlone, Alone, StartPc, ThreadsTyped, Returned
  <2>7. HandledIsCurrent'
    BY <1>0, <2>1, <2>2, <2>3 DEF LockInv, HandledIsCurrent, Typed, DictsTyped
  <2>8. ExecutionHoldsLocks'
    BY <2>1, <2>3 DEF LockInv, ExecutionHoldsLocks, Held
  <2> QED BY <2>4, <2>5, <2>6, <2>7, <2>8 DEF LockInv
<1>13. CASE Enqueue(th)
  \* The execution takes over the handle and the locks of its starter.
  <2>1. /\ pc[th] = "enqueue" /\ slot[th] \in Slot
        /\ exec' = [exec EXCEPT ![<<arg[th], slot[th]>>] = "queued"]
        /\ UNCHANGED <<status, lockOf, handle>>
    BY <1>0, <1>13 DEF Enqueue, ThreadsTyped, Returned, dbVars, dictVars
  <2>2. OthersStay(th) /\ GainsNothing(th) /\ pc'[th] \in Returned \cup {"idle"}
    BY <1>0, <1>13, ReturnGains DEF Enqueue, Returned
  <2>3. status[arg[th]] # "deleted" =>
          handle[arg[th]] = slot[th] /\ SheetsOf[arg[th]] \subseteq Held(arg[th])
    BY <2>1 DEF LockInv, EnqueuesHandle, StarterHoldsLocks, Reserving
  <2>4. \A t \in Task, n \in Slot :
          /\ t # arg[th] \/ n # slot[th] => exec'[<<t, n>>] = exec[<<t, n>>]
    BY <2>1 DEF Typed, ExecTyped, Exec
  <2>5. OneStarter'
    BY <2>2, OneStarterKept DEF LockInv
  <2>6. PopsDeleted' /\ EnqueuesHandle'
    BY <1>0, <2>1, <2>2 DEF LockInv, PopsDeleted, EnqueuesHandle, OthersStay, ThreadsTyped,
       Returned
  <2>7. StarterHoldsLocks'
    BY <1>0, <2>1, <2>2 DEF LockInv, StarterHoldsLocks, Reserving, OthersStay, Held,
       ThreadsTyped, Returned
  <2>8. StartsAlone'
    <3> SUFFICES ASSUME NEW ti \in Thread, (pc[ti] \in Alone)',
                        (status[arg[ti]] # "deleted")', NEW n \in Slot
                 PROVE  (exec[<<arg[ti], n>>] \notin Handled)'
      BY DEF StartsAlone
    <3>1. ti # th
      BY <2>2 DEF Alone, StartPc, Returned
    <3>2. pc[ti] \in Alone /\ arg'[ti] = arg[ti] /\ arg[ti] \in Task
      BY <1>0, <3>1, <2>2 DEF OthersStay, ThreadsTyped, Alone, StartPc, Returned
    <3>3. arg[ti] # arg[th]
      BY <1>1, <3>1, <3>2 DEF Starting, Alone, RestartPc
    <3> QED BY <2>1, <2>4, <3>2, <3>3 DEF LockInv, StartsAlone
  <2>9. HandledIsCurrent' /\ ExecutionHoldsLocks'
    BY <2>1, <2>3, <2>4 DEF LockInv, HandledIsCurrent, ExecutionHoldsLocks, Held
  <2> QED BY <2>5, <2>6, <2>7, <2>8, <2>9 DEF LockInv
<1>14. CASE SubmitFails(th)
  <2>1. /\ pc[th] = "enqueue" /\ pc' = [pc EXCEPT ![th] = "rollbackRunning"]
        /\ handle' = [handle EXCEPT ![arg[th]] = 0]
        /\ exec' = [exec EXCEPT ![<<arg[th], slot[th]>>] = "none"]
        /\ UNCHANGED <<arg, slot, status, lockOf>>
    BY <1>14 DEF SubmitFails, Step, Goto, dbVars
  <2>2. status[arg[th]] # "deleted" =>
          \A n \in Slot : exec[<<arg[th], n>>] \notin Handled
    BY <2>1 DEF LockInv, StartsAlone, Alone, StartPc
  <2>3. \A t \in Task, n \in Slot :
          /\ exec'[<<t, n>>] \in Handled => exec[<<t, n>>] \in Handled
          /\ exec'[<<t, n>>] \in Unreleased => exec[<<t, n>>] \in Unreleased
    BY <2>1 DEF Typed, ExecTyped, Exec, Handled, Unreleased
  <2>4. OneStarter' /\ PopsDeleted' /\ StarterHoldsLocks'
    BY <1>0, <2>1 DEF LockInv, OneStarter, Starting, StartPc, PopsDeleted,
       StarterHoldsLocks, Reserving, Held, ThreadsTyped
  <2>5. EnqueuesHandle'
    BY <1>0, <1>1, <2>1 DEF LockInv, EnqueuesHandle, Starting, StartPc, Typed,
       DictsTyped, ThreadsTyped, Returned
  <2>6. StartsAlone'
    BY <1>0, <2>1, <2>3 DEF LockInv, StartsAlone, Alone, StartPc, ThreadsTyped, Returned
  <2>7. HandledIsCurrent'
    BY <1>0, <2>1, <2>2, <2>3 DEF LockInv, HandledIsCurrent, Typed, DictsTyped
  <2>8. ExecutionHoldsLocks'
    BY <2>1, <2>3 DEF LockInv, ExecutionHoldsLocks, Held
  <2> QED BY <2>4, <2>5, <2>6, <2>7, <2>8 DEF LockInv
<1>15. CASE Rollback(th)
  <2>1. \A u \in Task \ {arg[th]} : Held(u) \subseteq Held(u)'
    BY <1>15 DEF Rollback, RollbackReservation, ReleaseSheets, Held
  <2>2. OthersStay(th) /\ pc'[th] \in Returned \cup {"idle"}
    BY <1>0, <1>15, ReturnGains DEF Rollback, Returned
  <2>3. /\ pc[th] \in Alone /\ UNCHANGED <<handle, exec>>
        /\ \A t \in Task : status'[t] = "deleted" <=> status[t] = "deleted"
    BY <1>0, <1>15 DEF Rollback, RevertRunning, Alone, StartPc, dictVars, execVars, Typed,
       DbTyped
  <2>4. pc'[th] \in Returned \cup {"idle", "check"} /\ pc'[th] # "check"
    BY <2>2 DEF Returned
  <2> QED BY <1>0, <2>1, <2>2, <2>3, <2>4, GiveUpLocks
<1> QED
  BY <1>2, <1>3, <1>4, <1>5, <1>6, <1>7, <1>8, <1>9, <1>10, <1>11, <1>12, <1>13, <1>14,
     <1>15 DEF StartStep

\* A step of an execution moves no thread inside an operation.
LEMMA StandsStill ==
  ASSUME NEW th \in Thread, UNCHANGED threadVars
  PROVE  OthersStay(th) /\ GainsNothing(th)
BY DEF threadVars, OthersStay, GainsNothing, Starting, Reserving, Alone, StartPc

\* An execution: it gives its locks up, and then its handle, while it is the
\* only one of its task; its other steps do not concern the locks.
LEMMA ExecutionKeepsLocks ==
  ASSUME SerialStarts, IInv, NEW x \in Exec, ExecutionStep(x)
  PROVE  LockInv'
<1> USE DEF IInv
<1>0. /\ Typed' /\ ThreadsTyped /\ ThreadsTyped' /\ ExecTyped
      /\ x \in Thread /\ x[1] \in Task /\ x[2] \in Slot /\ x = <<x[1], x[2]>>
  BY ExecutionTyped DEF Typed, Thread, Exec
<1>1. CASE \/ TaskMissing(x) \/ MarkTaskRunning(x) \/ FinishWork(x) \/ ReadVerdict(x)
           \/ WriteVerdict(x) \/ CloseReplaced(x) \/ CloseActive(x) \/ RelayNobody(x)
  <2>1. UNCHANGED threadVars
    BY <1>1 DEF TaskMissing, MarkTaskRunning, FinishWork, ReadVerdict, WriteVerdict,
       CloseReplaced, CloseActive, RelayNobody
  <2>2. UNCHANGED <<lockOf, handle>>
    BY <1>1 DEF TaskMissing, MarkTaskRunning, FinishWork, ReadVerdict, WriteVerdict,
       CloseReplaced, CloseActive, RelayNobody, dbVars, memVars, dictVars
  <2>3. \A y \in Exec : /\ exec'[y] \in Handled => exec[y] \in Handled
                        /\ exec'[y] \in Unreleased => exec[y] \in Unreleased
    BY <1>0, <1>1 DEF TaskMissing, MarkTaskRunning, FinishWork, ReadVerdict, WriteVerdict,
       CloseReplaced, CloseActive, RelayNobody, ExecStep, Exit, ExecTyped, Handled,
       Unreleased
  <2>4. \A t \in Task : status'[t] = "deleted" <=> status[t] = "deleted"
    <3>1. CASE WriteVerdict(x)
      BY <1>0, <3>1 DEF WriteVerdict, Typed, DbTyped, ExecTyped, Outcome
    <3>2. CASE MarkTaskRunning(x)
      BY <1>0, <3>2 DEF MarkTaskRunning, Typed, DbTyped
    <3> QED
      BY <1>1, <3>1, <3>2 DEF TaskMissing, FinishWork, ReadVerdict, CloseReplaced,
         CloseActive, RelayNobody, dbVars
  <2>5. Untouched
    BY <2>2, <2>3, <2>4 DEF Untouched
  <2>6. OthersStay(x) /\ GainsNothing(x)
    BY <1>0, <2>1, StandsStill
  <2> QED BY <1>0, <2>5, <2>6, QuietStep
<1>2. CASE ReleaseResources(x)
  <2>1. /\ exec[x] = "releasing" /\ exec' = [exec EXCEPT ![x] = "cleanup"]
        /\ UNCHANGED <<status, handle, pc, arg, slot>>
    BY <1>2 DEF ReleaseResources, ExecStep, dictVars, threadVars
  <2>2. \A t \in Task \ {x[1]} : Held(t) \subseteq Held(t)'
    BY <1>2 DEF ReleaseResources, ReleaseSheets, Held
  <2>3. \A n \in Slot : status[x[1]] # "deleted" /\ n # x[2] =>
          exec[<<x[1], n>>] \notin Handled
    BY <1>0, <2>1 DEF LockInv, HandledIsCurrent, Handled, Unreleased
  <2>4. \A th \in Thread : status[x[1]] # "deleted" /\ pc[th] \in Alone => arg[th] # x[1]
    BY <1>0, <2>1 DEF LockInv, StartsAlone, Handled, Unreleased
  <2>5. \A y \in Exec : /\ exec'[y] \in Handled => exec[y] \in Handled
                        /\ exec'[y] \in Unreleased => exec[y] \in Unreleased /\ y # x
    BY <1>0, <2>1 DEF ExecTyped, Handled, Unreleased
  <2>6. OneStarter' /\ PopsDeleted' /\ EnqueuesHandle' /\ StartsAlone' /\ HandledIsCurrent'
    BY <1>0, <2>1, <2>5 DEF LockInv, OneStarter, Starting, PopsDeleted, EnqueuesHandle,
       StartsAlone, HandledIsCurrent, ThreadsTyped, Alone, StartPc, Returned, Exec
  <2>7. StarterHoldsLocks'
    BY <1>0, <2>1, <2>2, <2>4 DEF LockInv, StarterHoldsLocks, ThreadsTyped, Reserving,
       Alone, StartPc, Returned
  <2>8. ExecutionHoldsLocks'
    <3> SUFFICES ASSUME NEW t \in Task, NEW n \in Slot, (exec[<<t, n>>] \in Unreleased)',
                        (status[t] # "deleted")'
                 PROVE  (SheetsOf[t] \subseteq Held(t))'
      BY DEF ExecutionHoldsLocks
    <3>1. exec[<<t, n>>] \in Unreleased /\ <<t, n>> # x /\ status[t] # "deleted"
      BY <2>1, <2>5 DEF Exec
    <3>2. t # x[1]
      BY <1>0, <2>3, <3>1 DEF Handled
    <3> QED BY <2>2, <3>1, <3>2 DEF LockInv, ExecutionHoldsLocks
  <2> QED BY <2>6, <2>7, <2>8 DEF LockInv
<1>3. CASE Cleanup(x)
  <2>1. /\ exec[x] = "cleanup" /\ exec' = [exec EXCEPT ![x] = "relay"]
        /\ handle' = [handle EXCEPT ![x[1]] = 0]
        /\ UNCHANGED <<status, lockOf, pc, arg, slot>>
    BY <1>3 DEF Cleanup, ExecStep, dbVars, threadVars
  <2>2. \A n \in Slot : status[x[1]] # "deleted" /\ n # x[2] =>
          exec[<<x[1], n>>] \notin Handled
    BY <1>0, <2>1 DEF LockInv, HandledIsCurrent, Handled
  <2>3. \A th \in Thread : status[x[1]] # "deleted" /\ pc[th] \in Alone => arg[th] # x[1]
    BY <1>0, <2>1 DEF LockInv, StartsAlone, Handled
  <2>4. \A y \in Exec : /\ exec'[y] \in Handled => exec[y] \in Handled /\ y # x
                        /\ exec'[y] \in Unreleased => exec[y] \in Unreleased
    BY <1>0, <2>1 DEF ExecTyped, Handled, Unreleased
  <2>5. OneStarter' /\ PopsDeleted' /\ StarterHoldsLocks' /\ StartsAlone'
    BY <1>0, <2>1, <2>4 DEF LockInv, OneStarter, Starting, PopsDeleted, StarterHoldsLocks,
       Held, StartsAlone, ThreadsTyped, Alone, StartPc, Returned, Exec
  <2>6. EnqueuesHandle'
    BY <1>0, <2>1, <2>3 DEF LockInv, EnqueuesHandle, ThreadsTyped, Typed, DictsTyped,
       Alone, StartPc, Returned
  <2>7. HandledIsCurrent'
    <3> SUFFICES ASSUME NEW t \in Task, NEW n \in Slot, (exec[<<t, n>>] \in Handled)',
                        (status[t] # "deleted")'
                 PROVE  (handle[t] = n)'
      BY DEF HandledIsCurrent
    <3>1. exec[<<t, n>>] \in Handled /\ <<t, n>> # x /\ status[t] # "deleted"
      BY <2>1, <2>4 DEF Exec
    <3>2. t # x[1]
      BY <1>0, <2>2, <3>1
    <3> QED BY <2>1, <3>1, <3>2 DEF LockInv, HandledIsCurrent, Typed, DictsTyped
  <2>8. ExecutionHoldsLocks'
    BY <2>1, <2>4 DEF LockInv, ExecutionHoldsLocks, Held, Exec
  <2> QED BY <2>5, <2>6, <2>7, <2>8 DEF LockInv
<1>4. CASE RelayNext(x)
  <2>1. Untouched
    BY <1>0, <1>4 DEF RelayNext, ExecStep, Untouched, dbVars, dictVars, ExecTyped, Handled,
       Unreleased
  <2>2. OthersStay(x) /\ GainsNothing(x)
    BY <1>0, <1>4, EnterGains DEF RelayNext, Waiting
  <2> QED BY <1>0, <2>1, <2>2, QuietStep
<1>5. CASE RelayEnd(x)
  <2>1. Untouched
    BY <1>0, <1>5 DEF RelayEnd, Exit, Untouched, dbVars, ExecTyped, Handled, Unreleased
  <2>2. OthersStay(x) /\ GainsNothing(x)
    BY <1>0, <1>5 DEF RelayEnd, Goto, OthersStay, GainsNothing, ThreadsTyped, Starting,
       StartPc, RestartPc, Reserving, Alone
  <2> QED BY <1>0, <2>1, <2>2, QuietStep
<1> QED BY <1>1, <1>2, <1>3, <1>4, <1>5 DEF ExecutionStep

\* The pool thread that takes an execution takes no lock and no handle.
LEMMA BeginKeepsLocks ==
  ASSUME SerialStarts, IInv, Begin
  PROVE  LockInv'
<1> DEFINE x == Head(queue)
<1>0. /\ Typed' /\ ThreadsTyped' /\ ExecTyped
      /\ x \in Exec /\ x \in Thread
  BY BeginTyped DEF Begin, IInv, Typed, RestTyped, Thread
<1>1. Untouched
  BY <1>0 DEF Begin, ExecStep, Untouched, dbVars, ExecTyped, Handled, Unreleased
<1>2. OthersStay(x) /\ GainsNothing(x)
  BY <1>0, StandsStill DEF Begin
<1> QED BY <1>0, <1>1, <1>2, QuietStep DEF IInv

\* A request: it enters start_task or restart_task alone, gives up the locks of
\* a task that nobody executes, or deletes the task.
LEMMA CallerKeepsLocks ==
  ASSUME SerialStarts, IInv, NEW c \in Caller, Request(c) \/ OperationStep(c)
  PROVE  LockInv'
<1> USE DEF IInv
<1>0. Typed' /\ ThreadsTyped /\ ThreadsTyped' /\ c \in Thread
  BY CallerTyped DEF Typed, Thread
<1>1. CASE RequestCreate(c) \/ RequestRestart(c)
  <2>1. Untouched
    BY <1>0, <1>1 DEF RequestCreate, RequestRestart, Untouched, dbVars, memVars, dictVars,
       execVars, Typed, DbTyped
  <2>2. OthersStay(c) /\ GainsNothing(c)
    BY <1>0, <1>1, EnterGains DEF RequestCreate, RequestRestart
  <2> QED BY <1>0, <2>1, <2>2, QuietStep
<1>2. CASE RequestCancel(c)
  <2>1. Untouched
    BY <1>2 DEF RequestCancel, Untouched, dbVars, execVars
  <2>2. OthersStay(c) /\ GainsNothing(c)
    BY <1>0, <1>2, EnterGains DEF RequestCancel, CancelRead, CancelPc
  <2> QED BY <1>0, <2>1, <2>2, QuietStep
<1>3. CASE RequestDelete(c)
  <2>1. PICK t \in Task : /\ status' = [status EXCEPT ![t] = "deleted"]
                          /\ ReleaseSheets(Sheet, t)
                          /\ Enter(c, t, "popHandle")
                          /\ UNCHANGED <<handle, exec>>
    BY <1>3 DEF RequestDelete, dictVars, execVars
  <2>2. /\ OthersStay(c) /\ pc'[c] = "popHandle" /\ arg'[c] = t /\ status'[t] = "deleted"
        /\ \A u \in Task : status'[u] # "deleted" => status[u] # "deleted" /\ u # t
    BY <1>0, <2>1 DEF Enter, Goto, OthersStay, ThreadsTyped, Typed, DbTyped
  <2>3. \A u \in Task \ {t} : Held(u) \subseteq Held(u)'
    BY <2>1 DEF ReleaseSheets, Held
  <2>4. OneStarter'
    BY <1>0, <2>2 DEF LockInv, OneStarter, OthersStay, Starting, StartPc, RestartPc
  <2>5. PopsDeleted'
    BY <1>0, <2>1, <2>2 DEF LockInv, PopsDeleted, OthersStay, ThreadsTyped, Typed, DbTyped,
       Returned
  <2>6. StarterHoldsLocks'
    BY <1>0, <2>2, <2>3 DEF LockInv, StarterHoldsLocks, OthersStay, ThreadsTyped,
       Reserving, Returned
  <2>7. EnqueuesHandle' /\ StartsAlone'
    BY <1>0, <2>1, <2>2 DEF LockInv, EnqueuesHandle, StartsAlone, OthersStay, ThreadsTyped,
       Alone, StartPc, Returned
  <2>8. HandledIsCurrent' /\ ExecutionHoldsLocks'
    BY <2>1, <2>2, <2>3 DEF LockInv, HandledIsCurrent, ExecutionHoldsLocks
  <2> QED BY <2>4, <2>5, <2>6, <2>7, <2>8 DEF LockInv
<1>4. CASE CancelWrite(c)
  <2>1. Untouched
    BY <1>0, <1>4 DEF CancelWrite, Untouched, dictVars, execVars, Typed, DbTyped
  <2>2. CASE pc[c] \in {"stopPending", "stopRunning"}
    <3>1. OthersStay(c) /\ GainsNothing(c)
      BY <1>0, <1>4, <2>2 DEF CancelWrite, Goto, OthersStay, GainsNothing, ThreadsTyped,
         Starting, StartPc, RestartPc, Reserving, Alone
    <3> QED BY <1>0, <2>1, <3>1, QuietStep
  <2>3. CASE pc[c] \notin {"stopPending", "stopRunning"}
    <3>1. OthersStay(c) /\ GainsNothing(c)
      BY <1>0, <1>4, <2>3, ReturnGains DEF CancelWrite
    <3> QED BY <1>0, <2>1, <3>1, QuietStep
  <2> QED BY <2>2, <2>3
<1>5. CASE RestartStops(c)
  <2>1. Untouched
    BY <1>5 DEF RestartStops, Untouched, dbVars, execVars
  <2>2. OthersStay(c) /\ GainsNothing(c)
    BY <1>0, <1>5 DEF RestartStops, CancelRead, Enter, Goto, OthersStay, GainsNothing,
       ThreadsTyped, Starting, StartPc, RestartPc, Reserving, Alone
  <2> QED BY <1>0, <2>1, <2>2, QuietStep
<1>6. CASE RestartNothingToStop(c)
  <2>1. Untouched
    BY <1>6 DEF RestartNothingToStop, Untouched, dbVars, memVars, dictVars, execVars
  <2>2. OthersStay(c) /\ GainsNothing(c)
    BY <1>0, <1>6, StepGains DEF RestartNothingToStop, RestartPc, StartPc, Reserving, Alone
  <2> QED BY <1>0, <2>1, <2>2, QuietStep
<1>7. CASE RestartJoin(c)
  <2>1. Untouched
    BY <1>7 DEF RestartJoin, Untouched, dbVars, execVars
  <2>2. CASE HandleAlive(arg[c])
    <3>1. OthersStay(c) /\ GainsNothing(c)
      BY <1>0, <1>7, <2>2, ReturnGains DEF RestartJoin
    <3> QED BY <1>0, <2>1, <3>1, QuietStep
  <2>3. CASE ~HandleAlive(arg[c])
    \* Nobody executes the task any more.
    <3>1. /\ pc[c] = "join" /\ pc' = [pc EXCEPT ![c] = "reset"] /\ UNCHANGED <<arg, slot>>
      BY <1>7, <2>3 DEF RestartJoin, Goto
    <3>2. arg[c] \in Task
      BY <1>0, <3>1 DEF ThreadsTyped, Returned
    <3>3. status[arg[c]] = "deleted" \/ \A n \in Slot : exec[<<arg[c], n>>] \notin Handled
      BY <2>3, <3>2, DeadHandle
    <3>4. OthersStay(c) /\ GainsNothing(c)
      BY <1>0, <3>1, <3>3 DEF OthersStay, GainsNothing, ThreadsTyped, Starting, StartPc,
         RestartPc, Reserving, Alone
    <3> QED BY <1>0, <2>1, <3>4, QuietStep
  <2> QED BY <2>2, <2>3
<1>8. CASE RestartReset(c)
  <2>1. /\ pc[c] = "reset" /\ pc[c] \in Alone /\ arg[c] \in Task
        /\ UNCHANGED <<handle, exec>>
    BY <1>0, <1>8 DEF RestartReset, Alone, dictVars, execVars, ThreadsTyped, Returned
  <2>2. \A u \in Task \ {arg[c]} : Held(u) \subseteq Held(u)'
    BY <1>8 DEF RestartReset, ReleaseSheets, Held
  <2>3. \A t \in Task : status'[t] = "deleted" <=> status[t] = "deleted"
    BY <1>8, <2>1 DEF RestartReset, Typed, DbTyped
  <2>4. /\ OthersStay(c)
        /\ pc'[c] \in Returned \cup {"idle", "check"}
        /\ pc'[c] = "check" => arg'[c] = arg[c]
    <3>1. CASE status[arg[c]] = "deleted"
      BY <1>0, <1>8, <3>1, ReturnGains DEF RestartReset, Returned
    <3>2. CASE status[arg[c]] # "deleted"
      BY <1>0, <1>8, <3>2 DEF RestartReset, Goto, OthersStay, ThreadsTyped
    <3> QED BY <3>1, <3>2
  <2> QED BY <1>0, <2>1, <2>2, <2>3, <2>4, GiveUpLocks
<1>9. CASE DeletePop(c)
  <2>1. /\ pc[c] = "popHandle" /\ arg[c] \in Task
        /\ handle' = [handle EXCEPT ![arg[c]] = 0]
        /\ UNCHANGED <<status, lockOf, exec>>
    BY <1>0, <1>9 DEF DeletePop, dbVars, execVars, ThreadsTyped, Returned
  <2>2. status[arg[c]] = "deleted"
    BY <1>0, <2>1 DEF LockInv, PopsDeleted
  <2>3. OthersStay(c) /\ GainsNothing(c) /\ pc'[c] \in Returned \cup {"idle"}
    BY <1>0, <1>9, ReturnGains DEF DeletePop
  <2>4. OneStarter'
    BY <1>0, <2>3, OneStarterKept DEF LockInv
  <2>5. PopsDeleted' /\ StarterHoldsLocks'
    BY <1>0, <2>1, <2>3 DEF LockInv, PopsDeleted, StarterHoldsLocks, OthersStay, Held,
       ThreadsTyped, Reserving, Returned
  <2>6. EnqueuesHandle'
    BY <1>0, <2>1, <2>2, <2>3 DEF LockInv, EnqueuesHandle, OthersStay, ThreadsTyped,
       Typed, DictsTyped, Returned
  <2>7. StartsAlone'
    BY <1>0, <2>1, <2>3 DEF LockInv, StartsAlone, OthersStay, ThreadsTyped, Alone, StartPc,
       Returned
  <2>8. HandledIsCurrent' /\ ExecutionHoldsLocks'
    BY <2>1, <2>2 DEF LockInv, HandledIsCurrent, ExecutionHoldsLocks, Held, Typed,
       DictsTyped
  <2> QED BY <2>4, <2>5, <2>6, <2>7, <2>8 DEF LockInv
<1> QED
  BY <1>1, <1>2, <1>3, <1>4, <1>5, <1>6, <1>7, <1>8, <1>9 DEF Request, OperationStep

\* A stuttering step changes nothing.
LEMMA StutterKeeps ==
  ASSUME IInv, UNCHANGED vars
  PROVE  IInv'
BY DEF vars, dbVars, memVars, dictVars, execVars, workVars, threadVars, IInv, Typed,
   DbTyped, DictsTyped, RestTyped, ExecTyped, ThreadsTyped, LockInv, OneStarter, Starting,
   PopsDeleted, StarterHoldsLocks, Held, EnqueuesHandle, StartsAlone, HandledIsCurrent,
   ExecutionHoldsLocks

-----------------------------------------------------------------------------
(* The theorems. *)

\* Every step keeps the types.
LEMMA NextTyped ==
  ASSUME Typed, [Next]_vars
  PROVE  Typed'
<1>1. CASE Begin
  BY <1>1, BeginTyped
<1>2. ASSUME NEW x \in Exec, ExecutionStep(x) PROVE Typed'
  BY <1>2, ExecutionTyped
<1>3. ASSUME NEW th \in Thread, StartStep(th) PROVE Typed'
  BY <1>3, StartTyped
<1>4. ASSUME NEW c \in Caller, Request(c) \/ OperationStep(c) PROVE Typed'
  BY <1>4, CallerTyped DEF Thread
<1>5. CASE UNCHANGED vars
  BY <1>5 DEF vars, dbVars, memVars, dictVars, execVars, workVars, threadVars, Typed,
     DbTyped, DictsTyped, RestTyped, ExecTyped, ThreadsTyped
<1> QED BY <1>1, <1>2, <1>3, <1>4, <1>5 DEF Next

\* Every variable keeps its type, whether or not tasks are started twice.
THEOREM TypeCorrect == Spec => []TypeOK
<1>1. Init => Typed
  BY InitTyped
<1>2. Typed /\ [Next]_vars => Typed'
  BY NextTyped
<1>3. Typed => TypeOK
  BY TypedIsTypeOK
<1> QED BY <1>1, <1>2, <1>3, PTL DEF Spec

\* Every step keeps the inductive invariant.
LEMMA NextKeepsLocks ==
  ASSUME SerialStarts, IInv, [Next]_vars
  PROVE  IInv'
<1>1. Typed'
  BY NextTyped DEF IInv
<1>2. CASE Begin
  BY <1>1, <1>2, BeginKeepsLocks DEF IInv
<1>3. ASSUME NEW x \in Exec, ExecutionStep(x) PROVE IInv'
  BY <1>1, <1>3, ExecutionKeepsLocks DEF IInv
<1>4. ASSUME NEW th \in Thread, StartStep(th) PROVE IInv'
  BY <1>1, <1>4, StartKeepsLocks DEF IInv
<1>5. ASSUME NEW c \in Caller, Request(c) \/ OperationStep(c) PROVE IInv'
  BY <1>1, <1>5, CallerKeepsLocks DEF IInv
<1>6. CASE UNCHANGED vars
  BY <1>6, StutterKeeps
<1> QED BY <1>2, <1>3, <1>4, <1>5, <1>6 DEF Next

\* What an unreleased execution has, a working one has.
LEMMA WorkingHolds == IInv => WorkingHoldsLocks
BY DEF IInv, LockInv, WorkingHoldsLocks, HandledIsCurrent, ExecutionHoldsLocks, Handled,
   Unreleased, Exec

\* A sheet has one holder, and a task one handle.
LEMMA HoldsExcludes == WorkingHoldsLocks => SheetExclusive
BY DEF WorkingHoldsLocks, SheetExclusive, Held, Exec

\* The inductive invariant holds throughout.
LEMMA Invariant == ASSUME SerialStarts PROVE Spec => []IInv
<1>1. Init => IInv
  BY InitTyped, InitLocks DEF IInv
<1>2. IInv /\ [Next]_vars => IInv'
  BY NextKeepsLocks
<1> QED BY <1>1, <1>2, PTL DEF Spec

\* An execution that works has every sheet of its task locked and is the one
\* that running_tasks names, whatever is cancelled, restarted, deleted or fails
\* meanwhile: as long as no task is started by two threads at the same time.
THEOREM WorkIsLocked == ASSUME SerialStarts PROVE Spec => []WorkingHoldsLocks
BY Invariant, WorkingHolds, PTL

\* Then no two executions ever work on one sheet, or for one task.
THEOREM SheetsAreExclusive == ASSUME SerialStarts PROVE Spec => []SheetExclusive
BY Invariant, WorkingHolds, HoldsExcludes, PTL

-----------------------------------------------------------------------------
(* The account of what is occupied, task by task. *)

Present(t)  == status[t] # "deleted"
Occupied(t) == Reserves(t) \/ Executes(t)
Holds(t)    == status[t] = "running" \/ t \in tokenHeld \/ \E s \in Sheet : lockOf[s] = t

\* Only a start_task that is before the row's update still has to give up what
\* it took, if the task is deleted meanwhile.
Undone == {"mark", "rollback"}

\* From the row's update on the task does not wait for a sheet.
Marked == {"token", "admit", "register", "enqueue"}

StartingAt(t, P) == \E th \in Thread : pc[th] \in P /\ arg[th] = t
ExecutingAt(t, P) == \E n \in Slot : exec[<<t, n>>] \in P

\* What a task holds, it was started for.
LocksOwnSheets(t) == \A s \in Sheet : lockOf[s] = t => s \in SheetsOf[t]
HoldsAccounted(t) == Present(t) /\ Holds(t) => Occupied(t)
DeletedHolds(t) ==
  ~Present(t) /\ (\E s \in Sheet : lockOf[s] = t) => StartingAt(t, Undone)

\* An execution that has begun is the one its thread registered for, so that
\* its end knows itself for the active one ...
BusyIsWorker(t) ==
  \A n \in Slot : exec[<<t, n>>] \in Handled \ {"queued"} /\ Present(t) => workerId[t] = n

\* ... and it has written its verdict before it gives the resources up.
VerdictWritten(t) ==
  StartingAt(t, Undone) \/ ExecutingAt(t, {"closing", "releasing"}) => status[t] # "running"

Accounted(t) ==
  /\ LocksOwnSheets(t)
  /\ HoldsAccounted(t)
  /\ DeletedHolds(t)
  /\ BusyIsWorker(t)
  /\ VerdictWritten(t)

AInv == \A t \in Task : Accounted(t)

\* Whoever starts a task has taken its mark off before it executes.
MarkInv ==
  \A t \in Task : queued[t] => Present(t) /\ ~StartingAt(t, Marked) /\ ~Executes(t)

\* A worker is inside start_task only while it relays, and a start_task that has
\* a number for its execution is the only one that uses it.
Placed ==
  /\ \A x \in Exec : exec[x] # "relaying" => pc[x] = "idle"
  /\ \A th \in Thread :
       /\ pc[th] = "register" => exec[<<arg[th], slot[th]>>] = "admitted"
       /\ pc[th] = "enqueue" => exec[<<arg[th], slot[th]>>] = "registered"

-----------------------------------------------------------------------------
(* Steps that leave a task's account as it is. *)

HoldsNoMore(t) ==
  /\ Present(t)' <=> Present(t)
  /\ status'[t] = "running" => status[t] = "running"
  /\ t \in tokenHeld' => t \in tokenHeld
  /\ \A s \in Sheet : lockOf'[s] = t => lockOf[s] = t

StartsOn(t) ==
  /\ StartingAt(t, Reserving) => StartingAt(t, Reserving)'
  /\ StartingAt(t, Undone) <=> StartingAt(t, Undone)'
  /\ StartingAt(t, Marked)' => StartingAt(t, Marked)

ExecutesOn(t) ==
  /\ Executes(t) <=> Executes(t)'
  /\ ExecutingAt(t, {"closing", "releasing"})' => ExecutingAt(t, {"closing", "releasing"})
  /\ \A n \in Slot :
       exec'[<<t, n>>] \in Handled \ {"queued"} =>
         exec[<<t, n>>] \in Handled \ {"queued"} /\ workerId'[t] = workerId[t]

\* A task that holds no more than before stays accounted.
LEMMA Kept ==
  ASSUME NEW t \in Task, Accounted(t), HoldsNoMore(t), StartsOn(t),
         Present(t) => ExecutesOn(t)
  PROVE  Accounted(t)'
<1> USE DEF Accounted, HoldsNoMore, StartsOn
<1>1. LocksOwnSheets(t)' /\ DeletedHolds(t)'
  BY DEF LocksOwnSheets, DeletedHolds
<1>2. HoldsAccounted(t)'
  <2>1. Reserves(t) <=> StartingAt(t, Reserving)
    BY DEF Reserves, StartingAt
  <2>2. Reserves(t)' <=> StartingAt(t, Reserving)'
    BY DEF Reserves, StartingAt
  <2> QED BY <2>1, <2>2 DEF HoldsAccounted, Holds, Occupied, ExecutesOn
<1>3. BusyIsWorker(t)'
  BY DEF BusyIsWorker, ExecutesOn
<1>4. VerdictWritten(t)'
  BY DEF VerdictWritten, ExecutesOn, Present
<1> QED BY <1>1, <1>2, <1>3, <1>4

\* A step of a thread on another task.
LEMMA StartsElsewhere ==
  ASSUME NEW th \in Thread, OthersStay(th), NEW t \in Task,
         ~(pc[th] \in Reserving /\ arg[th] = t),
         ~(pc'[th] \in Reserving /\ arg'[th] = t)
  PROVE  StartsOn(t)
BY DEF StartsOn, StartingAt, Undone, Marked, Reserving, OthersStay

\* What a thread that starts a task does is all that is done to start it.
LEMMA StartsHere ==
  ASSUME OneStarter, NEW th \in Thread, Starting(th), OthersStay(th),
         NEW t \in Task, arg[th] = t, NEW P \in SUBSET StartPc
  PROVE  /\ StartingAt(t, P) <=> pc[th] \in P
         /\ StartingAt(t, P)' <=> pc'[th] \in P /\ arg'[th] = t
BY DEF OneStarter, Starting, OthersStay, StartingAt

\* Nothing of the task changes.
SameRows(t) ==
  /\ status'[t] = status[t]
  /\ t \in tokenHeld' <=> t \in tokenHeld
  /\ \A s \in Sheet : lockOf'[s] = t <=> lockOf[s] = t

SameExecs(t) ==
  /\ workerId'[t] = workerId[t]
  /\ \A n \in Slot : exec'[<<t, n>>] = exec[<<t, n>>]

LEMMA SameIsKept ==
  ASSUME NEW t \in Task, Accounted(t), SameRows(t), SameExecs(t), StartsOn(t)
  PROVE  Accounted(t)'
BY Kept DEF SameRows, SameExecs, HoldsNoMore, ExecutesOn, Executes, ExecutingAt, Present

\* Only steps on a task disturb it.
LEMMA OneTask ==
  ASSUME AInv, NEW t \in Task, Accounted(t)',
         \A u \in Task \ {t} : SameRows(u) /\ SameExecs(u) /\ StartsOn(u)
  PROVE  AInv'
<1>1. ASSUME NEW u \in Task PROVE Accounted(u)'
  <2>1. CASE u = t
    BY <2>1
  <2>2. CASE u # t
    BY <2>2, SameIsKept DEF AInv
  <2> QED BY <2>1, <2>2
<1> QED BY <1>1 DEF AInv

-----------------------------------------------------------------------------
(* start_task. *)

\* A step of start_task moves one thread, on its task.
LEMMA StartMoves ==
  ASSUME IInv, NEW th \in Thread, StartStep(th)
  PROVE  /\ OthersStay(th)
         /\ pc[th] \in StartPc /\ Starting(th) /\ arg[th] \in Task
         /\ pc'[th] \in StartPc => arg'[th] = arg[th]
<1>1. pc[th] \in StartPc
  BY DEF StartStep, StartPc, Step, CheckHandle, ReadTask, QueueForSheet, AcquireSheets,
     ValidateFails, MarkRunning, MarkRunningTooLate, TakeToken, TokenFails,
     RejectForQuota, Admit, Register, Enqueue, SubmitFails, Rollback
<1>2. \/ pc' = [pc EXCEPT ![th] = pc'[th]] /\ UNCHANGED arg
         /\ \A ti \in Thread \ {th} : slot'[ti] = slot[ti]
      \/ \E result \in Returned : Return(th, result)
  BY DEF StartStep, Step, Goto, Returned, CheckHandle, ReadTask, QueueForSheet,
     AcquireSheets, ValidateFails, MarkRunning, MarkRunningTooLate, TakeToken, TokenFails,
     RejectForQuota, Admit, Register, Enqueue, SubmitFails, Rollback, IInv, Typed,
     ThreadsTyped
<1>3. CASE \E result \in Returned : Return(th, result)
  BY <1>1, <1>3, ReturnGains DEF IInv, Typed, ThreadsTyped, Starting, StartPc, Returned
<1>4. CASE pc' = [pc EXCEPT ![th] = pc'[th]] /\ UNCHANGED arg
           /\ \A ti \in Thread \ {th} : slot'[ti] = slot[ti]
  BY <1>1, <1>4 DEF OthersStay, IInv, Typed, ThreadsTyped, Starting, StartPc, Returned
<1> QED BY <1>2, <1>3, <1>4

LEMMA StartAccounts ==
  ASSUME SerialStarts, IInv, AInv, NEW th \in Thread, StartStep(th)
  PROVE  AInv'
<1>0. PICK t \in Task : arg[th] = t
  BY StartMoves
<1>1. /\ OthersStay(th) /\ pc[th] \in StartPc /\ Starting(th)
      /\ pc'[th] \in StartPc => arg'[th] = t
      /\ Typed /\ DbTyped /\ ExecTyped /\ ThreadsTyped /\ OneStarter /\ Accounted(t)
  BY <1>0, StartMoves DEF IInv, Typed, LockInv, AInv
<1>2. \A u \in Task \ {t} : StartsOn(u)
  BY <1>0, <1>1, StartsElsewhere DEF Reserving, StartPc
<1>3. /\ StartingAt(t, Reserving) <=> pc[th] \in Reserving
      /\ StartingAt(t, Reserving)' <=> pc'[th] \in Reserving
      /\ StartingAt(t, Undone) <=> pc[th] \in Undone
      /\ StartingAt(t, Undone)' <=> pc'[th] \in Undone
      /\ StartingAt(t, Marked) <=> pc[th] \in Marked
      /\ StartingAt(t, Marked)' <=> pc'[th] \in Marked
  <2>1. Reserving \in SUBSET StartPc /\ Undone \in SUBSET StartPc /\ Marked \in SUBSET StartPc
    BY DEF Reserving, Undone, Marked, StartPc
  <2> QED BY <1>0, <1>1, <2>1, StartsHere
<1>4. pc[th] \in Alone /\ Present(t) => \A n \in Slot : exec[<<t, n>>] \notin Handled
  BY <1>0 DEF IInv, LockInv, StartsAlone, Present
<1>5. pc[th] \in Alone /\ Present(t) =>
        ~Executes(t) /\ ~ExecutingAt(t, {"closing", "releasing"})
  BY <1>4 DEF Executes, ExecutingAt, Handled, Unreleased
<1>6. /\ StartingAt(t, Reserving) <=> Reserves(t)
      /\ StartingAt(t, Reserving)' <=> Reserves(t)'
  BY DEF Reserves, StartingAt
\* The thread moves on, and nothing else changes.
<1>7. CASE CheckHandle(th) \/ ReadTask(th) \/ QueueForSheet(th) \/ ValidateFails(th)
           \/ TokenFails(th) \/ RejectForQuota(th)
  <2>1. \A u \in Task : SameRows(u) /\ SameExecs(u)
    BY <1>7 DEF CheckHandle, ReadTask, QueueForSheet, ValidateFails, TokenFails,
       RejectForQuota, SameRows, SameExecs, dbVars, memVars, dictVars, execVars
  <2>2. StartsOn(t)
    <3>1. \/ pc[th] \in {"check", "read", "lock"} /\ pc'[th] \notin Reserving
          \/ pc[th] = "mark" /\ pc'[th] = "rollback"
          \/ pc[th] \in {"token", "admit"} /\ pc'[th] = "rollbackRunning"
      BY <1>1, <1>7 DEF CheckHandle, ReadTask, QueueForSheet, ValidateFails, TokenFails,
         RejectForQuota, Step, Goto, Return, ThreadsTyped, Reserving
    <3> QED BY <1>3, <3>1 DEF StartsOn, Reserving, Undone, Marked
  <2> QED BY <1>1, <1>2, <2>1, <2>2, SameIsKept DEF AInv
<1>9. CASE AcquireSheets(th)
  <2>1. /\ pc[th] = "lock" /\ pc'[th] = "mark"
        /\ \A s \in Sheet : lockOf'[s] = IF s \in SheetsOf[t] THEN t ELSE lockOf[s]
        /\ \A s \in SheetsOf[t] \cap Sheet : lockOf[s] \in {None, t}
        /\ UNCHANGED <<status, tokenHeld, workerId, exec>>
    BY <1>0, <1>1, <1>9 DEF AcquireSheets, AcquireAll, Conflict, Step, Goto, ThreadsTyped,
       dictVars, execVars
  <2>2. \A u \in Task \ {t} : SameRows(u) /\ SameExecs(u)
    BY <2>1, ConstantsAssumption DEF SameRows, SameExecs
  <2>3. Accounted(t)'
    <3>1. StartingAt(t, Reserving)' /\ StartingAt(t, Undone)' /\ ~StartingAt(t, Marked)'
      BY <1>3, <2>1 DEF Reserving, Undone, Marked
    <3>2. ~StartingAt(t, Reserving) /\ status[t] # "running"
      <4>1. ~StartingAt(t, Reserving) /\ pc[th] \in Alone
        BY <1>3, <2>1 DEF Reserving, Alone, StartPc
      <4> QED BY <1>1, <1>5, <1>6, <4>1
              DEF Accounted, HoldsAccounted, Holds, Occupied, Present
    <3>3. LocksOwnSheets(t)' /\ BusyIsWorker(t)'
      BY <1>1, <2>1 DEF Accounted, LocksOwnSheets, BusyIsWorker, Present
    <3>4. HoldsAccounted(t)' /\ DeletedHolds(t)'
      BY <1>1, <1>6, <2>1, <3>1 DEF Accounted, HoldsAccounted, Occupied, DeletedHolds, Present
    <3>5. VerdictWritten(t)'
      BY <2>1, <3>2 DEF VerdictWritten
    <3> QED BY <3>3, <3>4, <3>5 DEF Accounted
  <2> QED BY <1>2, <2>2, <2>3, OneTask
<1>10. CASE MarkRunning(th)
  <2>1. /\ pc[th] = "mark" /\ pc'[th] = "token" /\ status[t] = "pending"
        /\ status' = [status EXCEPT ![t] = "running"]
        /\ UNCHANGED <<lockOf, tokenHeld, workerId, exec>>
    BY <1>0, <1>1, <1>10 DEF MarkRunning, Step, Goto, ThreadsTyped, dictVars,
       execVars
  <2>2. \A u \in Task \ {t} : SameRows(u) /\ SameExecs(u)
    BY <1>1, <2>1 DEF SameRows, SameExecs, DbTyped
  <2>3. Accounted(t)'
    <3>1. StartingAt(t, Reserving)' /\ ~StartingAt(t, Undone)'
      BY <1>3, <2>1 DEF Reserving, Undone
    <3>2. Present(t) /\ Present(t)' /\ pc[th] \in Alone
      BY <1>1, <2>1 DEF DbTyped, Present, Alone, StartPc
    <3>3. ~ExecutingAt(t, {"closing", "releasing"})'
      BY <1>5, <2>1, <3>2 DEF ExecutingAt
    <3>4. LocksOwnSheets(t)' /\ BusyIsWorker(t)'
      BY <1>1, <2>1, <3>2 DEF Accounted, LocksOwnSheets, BusyIsWorker
    <3>5. HoldsAccounted(t)' /\ DeletedHolds(t)' /\ VerdictWritten(t)'
      BY <1>6, <3>1, <3>2, <3>3 DEF HoldsAccounted, Occupied, DeletedHolds, VerdictWritten
    <3> QED BY <3>4, <3>5 DEF Accounted
  <2> QED BY <1>2, <2>2, <2>3, OneTask
\* The two ways to give everything back.
<1>11. CASE MarkRunningTooLate(th) \/ Rollback(th)
  <2>1. /\ pc[th] \in {"mark", "rollback", "rollbackRunning"} /\ pc'[th] \in {"idle", "rejected"}
        /\ tokenHeld' = tokenHeld \ {t} /\ ReleaseSheets(SheetsOf[t], t)
        /\ \A u \in Task \ {t} : status'[u] = status[u]
        /\ status'[t] = status[t] \/ (status[t] = "running" /\ status'[t] = "pending")
        /\ pc[th] = "rollbackRunning" => status'[t] # "running"
        /\ UNCHANGED <<workerId, exec>>
    <3>1. CASE MarkRunningTooLate(th)
      BY <1>0, <1>1, <3>1 DEF MarkRunningTooLate, RollbackReservation, Return, Goto,
         ThreadsTyped, DbTyped, dictVars, execVars
    <3>2. CASE Rollback(th)
      <4>1. /\ pc[th] \in {"rollback", "rollbackRunning"} /\ pc'[th] \in {"idle", "rejected"}
            /\ RollbackReservation(t) /\ UNCHANGED <<workerId, exec>>
        BY <1>0, <1>1, <3>2 DEF Rollback, Return, Goto, ThreadsTyped, dictVars, execVars
      <4>2. CASE pc[th] = "rollbackRunning"
        BY <1>0, <1>1, <3>2, <4>1, <4>2 DEF Rollback, RollbackReservation, RevertRunning,
           DbTyped
      <4>3. CASE pc[th] = "rollback"
        BY <1>0, <1>1, <3>2, <4>1, <4>3 DEF Rollback, RollbackReservation, DbTyped
      <4> QED BY <4>1, <4>2, <4>3
    <3> QED BY <1>11, <3>1, <3>2
  <2>2. \A u \in Task \ {t} : SameRows(u) /\ SameExecs(u)
    BY <1>1, <2>1, ConstantsAssumption DEF SameRows, SameExecs, ReleaseSheets, DbTyped
  <2>3. Accounted(t)'
    <3>1. ~StartingAt(t, Undone)' /\ ~StartingAt(t, Marked)'
      BY <1>3, <2>1 DEF Undone, Marked
    <3>2. status'[t] # "running" /\ (Present(t)' <=> Present(t))
      BY <1>1, <1>3, <2>1 DEF Accounted, VerdictWritten, Undone, Present
    <3>3. \A s \in Sheet : lockOf'[s] # t
      BY <1>1, <2>1, ConstantsAssumption DEF Accounted, LocksOwnSheets, ReleaseSheets
    <3>4. ~Holds(t)'
      BY <2>1, <3>2, <3>3 DEF Holds
    <3>5. LocksOwnSheets(t)' /\ HoldsAccounted(t)' /\ VerdictWritten(t)'
      BY <3>2, <3>3, <3>4 DEF LocksOwnSheets, HoldsAccounted, VerdictWritten
    <3>6. DeletedHolds(t)' /\ BusyIsWorker(t)'
      BY <1>1, <2>1, <3>2, <3>3 DEF Accounted, DeletedHolds, BusyIsWorker
    <3> QED BY <3>5, <3>6 DEF Accounted
  <2> QED BY <1>2, <2>2, <2>3, OneTask
<1>12. CASE TakeToken(th)
  <2>1. /\ pc[th] = "token" /\ pc'[th] = "admit" /\ tokenHeld' = tokenHeld \cup {t}
        /\ UNCHANGED <<status, lockOf, workerId, exec>>
    BY <1>0, <1>1, <1>12 DEF TakeToken, Step, Goto, ThreadsTyped, dbVars, dictVars, execVars
  <2>2. \A u \in Task \ {t} : SameRows(u) /\ SameExecs(u)
    BY <2>1 DEF SameRows, SameExecs
  <2>3. Accounted(t)'
    <3>1. StartingAt(t, Reserving)' /\ ~StartingAt(t, Undone)' /\ ~StartingAt(t, Undone)
          /\ StartingAt(t, Marked)
      BY <1>3, <2>1 DEF Reserving, Undone, Marked
    <3>2. LocksOwnSheets(t)' /\ BusyIsWorker(t)' /\ DeletedHolds(t)'
      BY <1>1, <2>1, <3>1 DEF Accounted, LocksOwnSheets, BusyIsWorker, DeletedHolds, Present
    <3>3. HoldsAccounted(t)'
      BY <1>6, <3>1 DEF HoldsAccounted, Occupied
    <3>4. VerdictWritten(t)'
      BY <1>1, <2>1, <3>1 DEF Accounted, VerdictWritten, ExecutingAt, Executes
    <3> QED BY <3>2, <3>3, <3>4 DEF Accounted
  <2> QED BY <1>2, <2>2, <2>3, OneTask
\* The number of the execution, its handle, and their withdrawal: nothing of
\* the task executes.
<1>13. CASE Admit(th) \/ Register(th) \/ SubmitFails(th)
  <2>1. /\ pc[th] \in {"admit", "register", "enqueue"}
        /\ pc'[th] \in {"register", "enqueue", "rollbackRunning"}
        /\ UNCHANGED <<status, lockOf, tokenHeld, workerId>>
        /\ \E n \in Slot, to \in {"admitted", "registered", "none"} :
             exec' = [exec EXCEPT ![<<t, n>>] = to]
    BY <1>0, <1>1, <1>13 DEF Admit, Register, SubmitFails, FreeSlots, Step, Goto,
       ThreadsTyped, dbVars
  <2>2. \A u \in Task \ {t} : SameRows(u) /\ SameExecs(u)
    BY <1>1, <2>1 DEF SameRows, SameExecs, ExecTyped, Exec
  <2>3. StartsOn(t)
    BY <1>3, <2>1 DEF StartsOn, Reserving, Undone, Marked
  <2>4. Present(t) => ExecutesOn(t)
    <3>1. SUFFICES ASSUME Present(t) PROVE ExecutesOn(t)
      OBVIOUS
    <3>2. \A n \in Slot : exec[<<t, n>>] \notin Handled /\ exec'[<<t, n>>] \notin Handled
      BY <1>1, <1>4, <2>1, <3>1 DEF Alone, StartPc, ExecTyped, Exec, Handled, Unreleased
    <3> QED BY <3>2 DEF ExecutesOn, Executes, ExecutingAt, Handled, Unreleased
  <2>5. HoldsNoMore(t)
    BY <2>1 DEF HoldsNoMore, Present
  <2>6. Accounted(t)'
    BY <1>1, <2>3, <2>4, <2>5, Kept
  <2> QED BY <1>2, <2>2, <2>6, OneTask
<1>14. CASE Enqueue(th)
  <2>1. /\ pc[th] = "enqueue" /\ slot[th] \in Slot
        /\ pc'[th] \in {"idle", "started"}
        /\ exec' = [exec EXCEPT ![<<t, slot[th]>>] = "queued"]
        /\ UNCHANGED <<status, lockOf, tokenHeld, workerId>>
    BY <1>0, <1>1, <1>14 DEF Enqueue, Return, Goto, ThreadsTyped, dbVars, dictVars
  <2>2. \A u \in Task \ {t} : SameRows(u) /\ SameExecs(u)
    BY <1>1, <2>1 DEF SameRows, SameExecs, ExecTyped, Exec
  <2>3. Accounted(t)'
    <3>1. ~StartingAt(t, Undone)' /\ ~StartingAt(t, Undone) /\ StartingAt(t, Marked)
      BY <1>3, <2>1 DEF Undone, Marked
    <3>2. Executes(t)'
      BY <1>1, <2>1 DEF Executes, Unreleased, ExecTyped, Exec
    <3>3. \A n \in Slot : exec'[<<t, n>>] # "queued" => exec'[<<t, n>>] = exec[<<t, n>>]
      BY <1>1, <2>1 DEF ExecTyped, Exec
    <3>4. LocksOwnSheets(t)' /\ DeletedHolds(t)' /\ HoldsAccounted(t)'
      BY <1>1, <2>1, <3>1, <3>2 DEF Accounted, LocksOwnSheets, DeletedHolds, HoldsAccounted,
         Occupied, Present
    <3>5. BusyIsWorker(t)'
      BY <1>1, <2>1, <3>3 DEF Accounted, BusyIsWorker, Present
    <3>6. VerdictWritten(t)'
      BY <1>1, <2>1, <3>1, <3>3 DEF Accounted, VerdictWritten, ExecutingAt
    <3> QED BY <3>4, <3>5, <3>6 DEF Accounted
  <2> QED BY <1>2, <2>2, <2>3, OneTask
<1> QED
  BY <1>7, <1>9, <1>10, <1>11, <1>12, <1>13, <1>14 DEF StartStep

-----------------------------------------------------------------------------
(* Executions. *)

\* An execution of a task that is there is the only one of it ...
LEMMA OnlyExecution ==
  ASSUME IInv, NEW x \in Exec, exec[x] \in Handled, Present(x[1])
  PROVE  /\ \A n \in Slot : exec[<<x[1], n>>] \in Handled => n = x[2]
         /\ \A P \in SUBSET Alone : ~StartingAt(x[1], P)
<1>1. x[1] \in Task /\ x[2] \in Slot /\ x = <<x[1], x[2]>>
  BY DEF Exec
<1>2. \A n \in Slot : exec[<<x[1], n>>] \in Handled => handle[x[1]] = n
  BY <1>1 DEF IInv, LockInv, HandledIsCurrent, Present
<1>3. \A th \in Thread : pc[th] \in Alone => arg[th] # x[1]
  BY <1>1 DEF IInv, LockInv, StartsAlone, Present
<1> QED BY <1>1, <1>2, <1>3 DEF StartingAt

\* ... and, once it has begun, the one that its finally block takes for active.
LEMMA BusyIsActive ==
  ASSUME IInv, AInv, NEW x \in Exec, exec[x] \in Handled \ {"queued"}, Present(x[1])
  PROVE  ActiveGeneration(x)
<1>1. x[1] \in Task /\ x[2] \in Slot /\ x = <<x[1], x[2]>>
  BY DEF Exec
<1>2. handle[x[1]] = x[2] /\ x[2] # 0
  BY <1>1 DEF IInv, LockInv, HandledIsCurrent, Present, Slot
<1>3. workerId[x[1]] = x[2]
  BY <1>1 DEF AInv, Accounted, BusyIsWorker
<1>4. exec[x] \in AliveExec
  BY DEF AliveExec, ExecPc, Handled, Unreleased
<1> QED BY <1>1, <1>2, <1>3, <1>4 DEF ActiveGeneration, HandleAlive

\* Threads that do not move, and a worker that enters or leaves start_task.
LEMMA NobodyStarts ==
  ASSUME UNCHANGED threadVars, NEW t \in Task
  PROVE  StartsOn(t)
BY DEF threadVars, StartsOn, StartingAt

LEMMA RelayStarts ==
  ASSUME ThreadsTyped, Placed, NEW x \in Exec, RelayNext(x) \/ RelayEnd(x), NEW t \in Task
  PROVE  StartsOn(t)
<1>1. x \in Thread /\ OthersStay(x) /\ pc'[x] \in {"check", "idle"}
  BY DEF RelayNext, RelayEnd, Enter, Goto, OthersStay, ThreadsTyped, Thread
<1>2. pc[x] \notin Reserving
  <2>1. CASE RelayEnd(x)
    BY <2>1 DEF RelayEnd, Returned, Reserving
  <2>2. CASE RelayNext(x)
    BY <2>2 DEF RelayNext, ExecStep, Placed, Reserving
  <2> QED BY <2>1, <2>2
<1> QED BY <1>1, <1>2, StartsElsewhere DEF Reserving

\* Every step of an execution: it goes on holding what it holds until it gives
\* all of it up, with its verdict in the row.
LEMMA ExecutionAccounts ==
  ASSUME SerialStarts, IInv, AInv, Placed, NEW x \in Exec, ExecutionStep(x)
  PROVE  AInv'
<1>0. PICK t \in Task, n \in Slot : x = <<t, n>> /\ x[1] = t /\ x[2] = n
  BY DEF Exec
<1>1. Typed /\ DbTyped /\ DictsTyped /\ ExecTyped /\ ThreadsTyped /\ Accounted(t)
  BY DEF IInv, Typed, AInv
<1>2. \A u \in Task : StartsOn(u)
  <2>1. CASE RelayNext(x) \/ RelayEnd(x)
    BY <1>1, <2>1, RelayStarts
  <2>2. CASE ~(RelayNext(x) \/ RelayEnd(x))
    <3>1. UNCHANGED threadVars
      BY <2>2 DEF ExecutionStep, TaskMissing, MarkTaskRunning, FinishWork, ReadVerdict,
         WriteVerdict, CloseReplaced, CloseActive, ReleaseResources, Cleanup, RelayNobody
    <3> QED BY <3>1, NobodyStarts
  <2> QED BY <2>1, <2>2
<1>3. /\ exec' = [exec EXCEPT ![x] = exec'[x]] /\ exec[x] \in BusyExec
      /\ \A m \in Slot \ {n} : exec'[<<t, m>>] = exec[<<t, m>>]
      /\ \A u \in Task \ {t} : SameExecs(u)
  <2>1. exec' = [exec EXCEPT ![x] = exec'[x]] /\ exec[x] \in BusyExec
    BY <1>1 DEF ExecutionStep, TaskMissing, MarkTaskRunning, FinishWork, ReadVerdict,
       WriteVerdict, CloseReplaced, CloseActive, ReleaseResources, Cleanup, RelayNobody,
       RelayNext, RelayEnd, ExecStep, Exit, ExecTyped, BusyExec, AliveExec, ExecPc
  <2>2. \A u \in Task \ {t} : workerId'[u] = workerId[u]
    BY <1>0, <1>1 DEF ExecutionStep, TaskMissing, MarkTaskRunning, FinishWork, ReadVerdict,
       WriteVerdict, CloseReplaced, CloseActive, ReleaseResources, Cleanup, RelayNobody,
       RelayNext, RelayEnd, ForgetWorker, DictsTyped, memVars, dictVars
  <2> QED BY <1>0, <1>1, <2>1, <2>2 DEF SameExecs, ExecTyped, Exec
<1>4. Present(t) /\ exec[x] \in Handled =>
        /\ \A m \in Slot : exec[<<t, m>>] \in Handled => m = n
        /\ \A P \in SUBSET Alone : ~StartingAt(t, P)
  BY <1>0, OnlyExecution
\* The execution goes from one state in which it has its resources to another.
<1>5. CASE FinishWork(x) \/ CloseActive(x) \/ (ReadVerdict(x) /\ exec'[x] = "finalizing")
  <2>1. /\ UNCHANGED <<status, lockOf, tokenHeld, workerId>>
        /\ \/ exec[x] \in {"working", "ended"} /\ exec'[x] \in {"ended", "finalizing"}
           \/ exec[x] = "closing" /\ exec'[x] = "releasing"
    BY <1>1, <1>5 DEF FinishWork, CloseActive, ReadVerdict, ExecStep, ExecTyped, dbVars,
       memVars, dictVars
  <2>2. ExecutesOn(t)
    <3>1. \A m \in Slot : \A P \in {Unreleased, Handled \ {"queued"}, {"closing", "releasing"}} :
            exec'[<<t, m>>] \in P <=> exec[<<t, m>>] \in P
      BY <1>0, <1>3, <2>1 DEF Handled, Unreleased
    <3> QED BY <2>1, <3>1 DEF ExecutesOn, Executes, ExecutingAt
  <2>3. HoldsNoMore(t) /\ \A u \in Task : SameRows(u)
    BY <2>1 DEF HoldsNoMore, SameRows, Present
  <2> QED BY <1>1, <1>2, <1>3, <2>2, <2>3, Kept, OneTask
\* It ends without a verdict only if its task is gone.
<1>6. CASE TaskMissing(x) \/ (ReadVerdict(x) /\ exec'[x] = "closing")
  <2>1. /\ UNCHANGED <<status, lockOf, tokenHeld>> /\ ~Present(t)
    <3>1. CASE TaskMissing(x)
      BY <1>0, <3>1 DEF TaskMissing, Present, dbVars, memVars
    <3>2. CASE ReadVerdict(x) /\ exec'[x] = "closing"
      <4>1. exec[x] = "ended" /\ ~(ActiveGeneration(x) /\ Present(t))
        BY <1>0, <1>1, <3>2 DEF ReadVerdict, ExecStep, Present, ExecTyped
      <4>2. ~Present(t)
        BY <1>0, <4>1, BusyIsActive DEF Handled, Unreleased
      <4> QED BY <3>2, <4>2 DEF ReadVerdict, dbVars, memVars
    <3> QED BY <1>6, <3>1, <3>2
  <2>2. HoldsNoMore(t) /\ \A u \in Task : SameRows(u)
    BY <2>1 DEF HoldsNoMore, SameRows, Present
  <2> QED BY <1>1, <1>2, <1>3, <2>1, <2>2, Kept, OneTask
\* It leaves: what is left of it holds nothing, unless the task is gone.
<1>7. CASE CloseReplaced(x) \/ Cleanup(x) \/ RelayNobody(x) \/ RelayNext(x) \/ RelayEnd(x)
  <2>1. /\ UNCHANGED <<status, lockOf, tokenHeld>>
        /\ exec[x] \in {"closing", "cleanup", "relay", "relaying"}
        /\ exec'[x] \in {"none", "relay", "relaying"}
        /\ workerId'[t] = IF workerId[t] = n THEN workerId'[t] ELSE workerId[t]
    BY <1>0, <1>1, <1>7 DEF CloseReplaced, Cleanup, RelayNobody, RelayNext, RelayEnd, Exit,
       ForgetWorker, ExecStep, ExecTyped, DictsTyped, dbVars, dictVars
  <2>2. Present(t) => exec[x] # "closing"
    BY <1>0, <1>7, BusyIsActive DEF CloseReplaced, Cleanup, RelayNobody, RelayNext, RelayEnd,
       ExecStep, Handled, Unreleased
  <2>3. Present(t) => ExecutesOn(t)
    <3> SUFFICES ASSUME Present(t) PROVE ExecutesOn(t)
      OBVIOUS
    <3>1. \A m \in Slot : \A P \in {Unreleased, {"closing", "releasing"}} :
            exec'[<<t, m>>] \in P <=> exec[<<t, m>>] \in P
      BY <1>0, <1>3, <2>1, <2>2 DEF Unreleased
    <3>2. ASSUME NEW m \in Slot, exec'[<<t, m>>] \in Handled \ {"queued"}
          PROVE  exec[<<t, m>>] \in Handled \ {"queued"} /\ workerId'[t] = workerId[t]
      <4>1. m # n /\ exec'[<<t, m>>] = exec[<<t, m>>]
        BY <1>0, <1>3, <2>1, <3>2 DEF Handled, Unreleased
      <4>2. workerId[t] = m
        BY <1>1, <3>2, <4>1 DEF Accounted, BusyIsWorker
      <4> QED BY <2>1, <3>2, <4>1, <4>2
    <3> QED BY <3>1, <3>2 DEF ExecutesOn, Executes, ExecutingAt
  <2>4. HoldsNoMore(t) /\ \A u \in Task : SameRows(u)
    BY <2>1 DEF HoldsNoMore, SameRows, Present
  <2> QED BY <1>1, <1>2, <1>3, <2>3, <2>4, Kept, OneTask
<1>8. CASE MarkTaskRunning(x)
  <2>1. /\ exec[x] = "begun" /\ exec'[x] = "working"
        /\ Present(t) /\ status' = [status EXCEPT ![t] = "running"]
        /\ UNCHANGED <<lockOf, tokenHeld, workerId>>
    BY <1>0, <1>1, <1>8 DEF MarkTaskRunning, ExecStep, ExecTyped, Present, memVars, dictVars
  <2>2. \A u \in Task \ {t} : SameRows(u)
    BY <1>1, <2>1 DEF SameRows, DbTyped
  <2>3. Accounted(t)'
    <3>1. Executes(t) /\ Executes(t)' /\ Present(t)'
      BY <1>0, <1>1, <2>1 DEF Executes, Unreleased, Present, DbTyped
    <3>2. ~StartingAt(t, Undone)
      BY <1>4, <2>1 DEF Handled, Unreleased, Undone, Alone, StartPc
    <3>3. ~ExecutingAt(t, {"closing", "releasing"})'
      BY <1>0, <1>3, <1>4, <2>1 DEF ExecutingAt, Handled, Unreleased
    <3>4. LocksOwnSheets(t)' /\ HoldsAccounted(t)' /\ DeletedHolds(t)'
      BY <1>1, <2>1, <3>1 DEF Accounted, LocksOwnSheets, HoldsAccounted, Occupied, DeletedHolds
    <3>5. BusyIsWorker(t)'
      BY <1>0, <1>1, <1>3, <2>1 DEF Accounted, BusyIsWorker, Handled, Unreleased
    <3>6. VerdictWritten(t)'
      BY <1>1, <1>2, <2>1, <3>1, <3>2, <3>3 DEF StartsOn, Accounted, VerdictWritten
    <3> QED BY <3>4, <3>5, <3>6 DEF Accounted
  <2> QED BY <1>2, <1>3, <2>2, <2>3, OneTask
<1>9. CASE WriteVerdict(x)
  <2>1. /\ exec[x] = "finalizing" /\ exec'[x] = "closing"
        /\ UNCHANGED <<lockOf, tokenHeld, workerId>>
        /\ \A u \in Task \ {t} : status'[u] = status[u]
    BY <1>0, <1>1, <1>9 DEF WriteVerdict, ExecStep, ExecTyped, DbTyped, memVars, dictVars
  <2>2. status'[t] # "running" /\ (Present(t)' <=> Present(t))
    <3>1. outcome[x] \in Outcome /\ status'[t] = IF status[t] = "deleted" THEN "deleted" ELSE
            IF outcome[x] = "exception" THEN "error" ELSE outcome[x]
      BY <1>0, <1>1, <1>9 DEF WriteVerdict, ExecTyped, DbTyped
    <3> QED BY <3>1 DEF Outcome, Present
  <2>3. \A u \in Task \ {t} : SameRows(u)
    BY <2>1 DEF SameRows
  <2>4. Accounted(t)'
    <3>1. Executes(t) /\ Executes(t)'
      BY <1>0, <2>1 DEF Executes, Unreleased
    <3>2. LocksOwnSheets(t)' /\ HoldsAccounted(t)'
      BY <1>1, <2>1, <3>1 DEF Accounted, LocksOwnSheets, HoldsAccounted, Occupied
    <3>3. DeletedHolds(t)' /\ VerdictWritten(t)'
      BY <1>1, <1>2, <2>1, <2>2, <3>1 DEF StartsOn, Accounted, DeletedHolds, VerdictWritten
    <3>4. BusyIsWorker(t)'
      BY <1>0, <1>1, <1>3, <2>1, <2>2 DEF Accounted, BusyIsWorker, Handled, Unreleased
    <3> QED BY <3>2, <3>3, <3>4 DEF Accounted
  <2> QED BY <1>2, <1>3, <2>3, <2>4, OneTask
<1>10. CASE ReleaseResources(x)
  <2>1. /\ exec[x] = "releasing" /\ exec'[x] = "cleanup"
        /\ tokenHeld' = tokenHeld \ {t} /\ ReleaseSheets(Sheet, t)
        /\ UNCHANGED <<status, workerId>>
    BY <1>0, <1>1, <1>10 DEF ReleaseResources, ExecStep, ExecTyped, dictVars
  <2>2. \A u \in Task \ {t} : SameRows(u)
    BY <1>1, <2>1, ConstantsAssumption DEF SameRows, ReleaseSheets, DbTyped
  <2>3. Accounted(t)'
    <3>1. \A s \in Sheet : lockOf'[s] # t
      BY <2>1, ConstantsAssumption DEF ReleaseSheets
    <3>2. ExecutingAt(t, {"closing", "releasing"}) /\ Executes(t)
      BY <1>0, <2>1 DEF ExecutingAt, Executes, Unreleased
    <3>3. status'[t] # "running"
      BY <1>1, <2>1, <3>2 DEF Accounted, VerdictWritten
    <3>4. LocksOwnSheets(t)' /\ HoldsAccounted(t)' /\ VerdictWritten(t)'
      BY <2>1, <3>1, <3>3 DEF LocksOwnSheets, HoldsAccounted, Holds, VerdictWritten
    <3>5. DeletedHolds(t)'
      BY <1>1, <2>1, <3>1, <3>2 DEF Accounted, DeletedHolds, Present
    <3>6. BusyIsWorker(t)'
      BY <1>0, <1>1, <1>3, <2>1 DEF Accounted, BusyIsWorker, Present, Handled, Unreleased
    <3> QED BY <3>4, <3>5, <3>6 DEF Accounted
  <2> QED BY <1>2, <1>3, <2>2, <2>3, OneTask
<1>11. ReadVerdict(x) => exec'[x] \in {"finalizing", "closing"}
  BY <1>1 DEF ReadVerdict, ExecStep, ExecTyped
<1> QED
  BY <1>5, <1>6, <1>7, <1>8, <1>9, <1>10, <1>11 DEF ExecutionStep

\* The pool thread that takes an execution is its worker from then on.
LEMMA BeginAccounts ==
  ASSUME IInv, AInv, Begin
  PROVE  AInv'
<1> DEFINE x == Head(queue)
<1>1. /\ x \in Exec /\ exec[x] = "queued" /\ exec' = [exec EXCEPT ![x] = "begun"]
      /\ workerId' = [workerId EXCEPT ![x[1]] = x[2]]
      /\ UNCHANGED <<status, lockOf, tokenHeld>> /\ UNCHANGED threadVars
  BY DEF Begin, ExecStep, IInv, Typed, RestTyped, dbVars
<1> HIDE DEF x
<1>2. PICK t \in Task, n \in Slot : x = <<t, n>> /\ x[1] = t /\ x[2] = n
  BY <1>1 DEF Exec
<1>3. ExecTyped /\ DictsTyped /\ Accounted(t)
  BY DEF IInv, Typed, AInv
<1>4. \A u \in Task \ {t} : SameRows(u) /\ SameExecs(u) /\ StartsOn(u)
  BY <1>1, <1>2, <1>3, NobodyStarts DEF SameRows, SameExecs, ExecTyped, DictsTyped, Exec
<1>5. Accounted(t)'
  <2>1. Executes(t) /\ Executes(t)'
    BY <1>1, <1>2, <1>3 DEF Executes, Unreleased, ExecTyped, Exec
  <2>2. StartsOn(t)
    BY <1>1, NobodyStarts
  <2>3. \A m \in Slot \ {n} : exec'[<<t, m>>] = exec[<<t, m>>]
    BY <1>1, <1>2, <1>3 DEF ExecTyped, Exec
  <2>4. LocksOwnSheets(t)' /\ HoldsAccounted(t)' /\ DeletedHolds(t)'
    BY <1>1, <1>3, <2>1, <2>2 DEF Accounted, LocksOwnSheets, HoldsAccounted, Occupied,
       DeletedHolds, Present, StartsOn
  <2>5. VerdictWritten(t)'
    BY <1>1, <1>2, <1>3, <2>2, <2>3 DEF Accounted, VerdictWritten, ExecutingAt, StartsOn,
       ExecTyped
  <2>6. BusyIsWorker(t)'
    <3> SUFFICES ASSUME NEW m \in Slot, (exec[<<t, m>>] \in Handled \ {"queued"})', Present(t)
                 PROVE  (workerId[t] = m)'
      BY <1>1 DEF BusyIsWorker, Present
    <3>1. m = n
      BY <1>1, <1>2, <2>3, OnlyExecution DEF Handled, Unreleased
    <3> QED BY <1>1, <1>2, <1>3, <3>1 DEF DictsTyped
  <2> QED BY <2>4, <2>5, <2>6 DEF Accounted
<1> QED BY <1>4, <1>5, OneTask

-----------------------------------------------------------------------------
(* Requests. *)

LEMMA CallerAccounts ==
  ASSUME SerialStarts, IInv, AInv, NEW c \in Caller, Request(c) \/ OperationStep(c)
  PROVE  AInv'
<1>1. c \in Thread /\ Typed /\ DbTyped /\ ThreadsTyped
  BY DEF Thread, IInv, Typed
<1>2. /\ OthersStay(c)
      /\ pc[c] \notin Reserving
      /\ pc'[c] \notin Reserving
      /\ UNCHANGED <<workerId, exec>>
  <2>1. UNCHANGED <<workerId, exec>>
    BY DEF Request, OperationStep, RequestCreate, RequestCancel, RequestRestart,
       RequestDelete, CancelWrite, RestartStops, RestartNothingToStop, RestartJoin,
       RestartReset, DeletePop, memVars, dictVars, execVars
  <2>2. pc[c] \notin Reserving
    BY DEF Request, OperationStep, RequestCreate, RequestCancel, RequestRestart,
       RequestDelete, CancelWrite, RestartStops, RestartNothingToStop, RestartJoin,
       RestartReset, DeletePop, Step, Reserving, CancelPc
  <2>3. OthersStay(c) /\ pc'[c] \notin Reserving
    BY <1>1 DEF Request, OperationStep, RequestCreate, RequestCancel, RequestRestart,
       RequestDelete, CancelRead, CancelWrite, RestartStops, RestartNothingToStop,
       RestartJoin, RestartReset, DeletePop, Step, Enter, Return, Goto, OthersStay,
       ThreadsTyped, Reserving
  <2> QED BY <2>1, <2>2, <2>3
<1>3. \A u \in Task : StartsOn(u) /\ SameExecs(u) /\ ExecutesOn(u)
  BY <1>1, <1>2, StartsElsewhere DEF SameExecs, ExecutesOn, Executes, ExecutingAt
<1>4. CASE RequestCancel(c) \/ RequestRestart(c) \/ RestartStops(c)
           \/ RestartNothingToStop(c) \/ RestartJoin(c) \/ DeletePop(c)
  <2>1. \A u \in Task : SameRows(u)
    BY <1>4 DEF RequestCancel, RequestRestart, RestartStops, RestartNothingToStop,
       RestartJoin, DeletePop, SameRows, dbVars, memVars
  <2> QED BY <1>3, <2>1, SameIsKept DEF AInv
<1>5. CASE RequestCreate(c)
  <2>1. PICK t \in Task : status[t] = "absent" /\ status' = [status EXCEPT ![t] = "pending"]
    BY <1>5 DEF RequestCreate
  <2>2. UNCHANGED <<lockOf, tokenHeld>>
    BY <1>5 DEF RequestCreate, memVars
  <2>3. HoldsNoMore(t) /\ \A u \in Task \ {t} : SameRows(u)
    BY <1>1, <2>1, <2>2 DEF HoldsNoMore, SameRows, Present, DbTyped
  <2>4. Accounted(t)'
    BY <1>3, <2>3, Kept DEF AInv
  <2> QED BY <1>3, <2>3, <2>4, OneTask
<1>6. CASE CancelWrite(c)
  <2>0. PICK t \in Task : arg[c] = t
    BY <1>1, <1>6 DEF CancelWrite, ThreadsTyped, CancelPc, Returned
  <2>1. /\ status' = [status EXCEPT ![t] = IF @ = "deleted" THEN @ ELSE "cancelled"]
        /\ tokenHeld' \in {tokenHeld, tokenHeld \ {t}}
        /\ UNCHANGED <<lockOf>>
    BY <1>6, <2>0 DEF CancelWrite
  <2>2. HoldsNoMore(t) /\ \A u \in Task \ {t} : SameRows(u)
    BY <1>1, <2>1 DEF HoldsNoMore, SameRows, Present, DbTyped
  <2>3. Accounted(t)'
    BY <1>3, <2>2, Kept DEF AInv
  <2> QED BY <1>3, <2>2, <2>3, OneTask
<1>7. CASE RestartReset(c)
  <2>0. PICK t \in Task : arg[c] = t
    BY <1>1, <1>7 DEF RestartReset, ThreadsTyped, Returned
  <2>1. /\ status' = [status EXCEPT ![t] = IF @ = "deleted" THEN @ ELSE "pending"]
    BY <1>1, <1>7, <2>0 DEF RestartReset, ClearQueueMark, DbTyped
  <2>2. \/ UNCHANGED <<tokenHeld, lockOf>>
        \/ tokenHeld' = tokenHeld \ {t} /\ ReleaseSheets(Sheet, t)
    BY <1>7, <2>0 DEF RestartReset
  <2>3. \A s \in Sheet : /\ lockOf'[s] = t => lockOf[s] = t
                         /\ \A u \in Task \ {t} : lockOf'[s] = u <=> lockOf[s] = u
    BY <2>2, ConstantsAssumption DEF ReleaseSheets
  <2>4. HoldsNoMore(t) /\ \A u \in Task \ {t} : SameRows(u)
    BY <1>1, <2>1, <2>2, <2>3 DEF HoldsNoMore, SameRows, Present, DbTyped
  <2>5. Accounted(t)'
    BY <1>3, <2>4, Kept DEF AInv
  <2> QED BY <1>3, <2>4, <2>5, OneTask
<1>8. CASE RequestDelete(c)
  <2>1. PICK t \in Task : /\ status' = [status EXCEPT ![t] = "deleted"]
                          /\ tokenHeld' \in {tokenHeld, tokenHeld \ {t}}
                          /\ ReleaseSheets(Sheet, t)
    BY <1>8 DEF RequestDelete
  <2>2. \A u \in Task \ {t} : SameRows(u)
    BY <1>1, <2>1, ConstantsAssumption DEF SameRows, ReleaseSheets, DbTyped
  <2>3. ~Present(t)' /\ \A s \in Sheet : lockOf'[s] # t
    BY <1>1, <2>1, ConstantsAssumption DEF Present, ReleaseSheets, DbTyped
  <2>4. Accounted(t)'
    BY <2>3 DEF Accounted, LocksOwnSheets, HoldsAccounted, DeletedHolds, BusyIsWorker,
       VerdictWritten, Present
  <2> QED BY <1>3, <2>2, <2>4, OneTask
<1> QED
  BY <1>4, <1>5, <1>6, <1>7, <1>8 DEF Request, OperationStep

-----------------------------------------------------------------------------
(* Which thread is where. *)

LEMMA StartPlaces ==
  ASSUME SerialStarts, IInv, Placed, NEW th \in Thread, StartStep(th)
  PROVE  Placed'
<1>1. /\ OthersStay(th) /\ pc[th] \in StartPc /\ Starting(th) /\ arg[th] \in Task
      /\ pc'[th] \in StartPc => arg'[th] = arg[th]
      /\ ExecTyped /\ ThreadsTyped /\ ThreadsTyped' /\ OneStarter
  BY StartMoves, StartTyped DEF IInv, Typed, LockInv
<1>2. \A ti \in Thread \ {th} : Starting(ti) => arg[ti] # arg[th]
  BY <1>1 DEF OneStarter
\* The numbers that the step touches are those of the task that is started.
<1>3. \A t \in Task \ {arg[th]}, n \in Slot : exec'[<<t, n>>] = exec[<<t, n>>]
  BY <1>1 DEF StartStep, CheckHandle, ReadTask, QueueForSheet, AcquireSheets, ValidateFails,
     MarkRunning, MarkRunningTooLate, TakeToken, TokenFails, RejectForQuota, Admit,
     FreeSlots, Register, Enqueue, SubmitFails, Rollback, execVars, ExecTyped, Exec
<1>4. \A ti \in Thread \ {th} :
        /\ pc'[ti] = "register" => exec'[<<arg'[ti], slot'[ti]>>] = "admitted"
        /\ pc'[ti] = "enqueue" => exec'[<<arg'[ti], slot'[ti]>>] = "registered"
  BY <1>1, <1>2, <1>3 DEF OthersStay, Placed, ThreadsTyped, Starting, StartPc, Returned
<1>5. CASE UNCHANGED exec /\ pc'[th] \notin {"register", "enqueue"}
  <2>1. \A x \in Exec : exec[x] # "relaying" => x # th
    BY <1>1 DEF Placed, StartPc
  <2> QED BY <1>1, <1>4, <1>5, <2>1 DEF Placed, OthersStay, Thread
<1>6. CASE Admit(th)
  <2>1. PICK n \in Slot : /\ exec[<<arg[th], n>>] = "none"
                          /\ exec' = [exec EXCEPT ![<<arg[th], n>>] = "admitted"]
                          /\ slot' = [slot EXCEPT ![th] = n]
    BY <1>6 DEF Admit, FreeSlots
  <2>2. pc'[th] = "register" /\ slot'[th] = n /\ arg'[th] = arg[th]
    BY <1>1, <1>6, <2>1 DEF Admit, Goto, ThreadsTyped
  <2>3. exec'[<<arg'[th], slot'[th]>>] = "admitted"
    BY <1>1, <2>1, <2>2 DEF ExecTyped, Exec
  <2>4. \A x \in Exec : exec'[x] # "relaying" => exec[x] # "relaying" /\ x # th
    BY <1>1, <2>1 DEF Placed, ExecTyped, StartPc
  <2> QED BY <1>1, <1>4, <2>2, <2>3, <2>4 DEF Placed, OthersStay, Thread
<1>7. CASE Register(th) \/ Enqueue(th) \/ SubmitFails(th)
  <2>1. /\ exec[<<arg[th], slot[th]>>] \in {"admitted", "registered"} /\ slot[th] \in Slot
        /\ \E to \in {"registered", "queued", "none"} :
             /\ exec' = [exec EXCEPT ![<<arg[th], slot[th]>>] = to]
             /\ pc'[th] = "enqueue" => to = "registered" /\ slot'[th] = slot[th]
        /\ pc'[th] # "register"
    BY <1>1, <1>7 DEF Register, Enqueue, SubmitFails, Step, Return, Goto, Placed, ThreadsTyped
  <2>2. pc'[th] = "enqueue" => exec'[<<arg'[th], slot'[th]>>] = "registered"
    BY <1>1, <2>1 DEF ExecTyped, Exec, StartPc
  <2>3. \A x \in Exec : exec'[x] # "relaying" => exec[x] # "relaying" /\ x # th
    BY <1>1, <2>1 DEF Placed, ExecTyped, StartPc
  <2> QED BY <1>1, <1>4, <2>1, <2>2, <2>3 DEF Placed, OthersStay, Thread
<1>8. \/ Admit(th) \/ Register(th) \/ Enqueue(th) \/ SubmitFails(th)
      \/ UNCHANGED exec /\ pc'[th] \notin {"register", "enqueue"}
  BY <1>1 DEF StartStep, CheckHandle, ReadTask, QueueForSheet, AcquireSheets, ValidateFails,
     MarkRunning, MarkRunningTooLate, TakeToken, TokenFails, RejectForQuota, Rollback,
     execVars, Step, Return, Goto, ThreadsTyped
<1> QED BY <1>5, <1>6, <1>7, <1>8

LEMMA ExecutionPlaces ==
  ASSUME IInv, Placed, NEW x \in Exec, ExecutionStep(x)
  PROVE  Placed'
<1>0. ExecTyped /\ ThreadsTyped /\ x \in Thread
  BY DEF IInv, Typed, Thread
<1>1. exec' = [exec EXCEPT ![x] = exec'[x]] /\ exec[x] \in BusyExec
      /\ exec'[x] \notin {"admitted", "registered"}
  BY <1>0 DEF ExecutionStep, TaskMissing, MarkTaskRunning, FinishWork, ReadVerdict,
     WriteVerdict, CloseReplaced, CloseActive, ReleaseResources, Cleanup, RelayNobody,
     RelayNext, RelayEnd, ExecStep, Exit, ExecTyped, BusyExec, AliveExec, ExecPc
<1>2. \A th \in Thread :
        pc[th] \in {"register", "enqueue"} =>
          exec'[<<arg[th], slot[th]>>] = exec[<<arg[th], slot[th]>>]
  BY <1>0, <1>1 DEF Placed, ThreadsTyped, ExecTyped, BusyExec, AliveExec, ExecPc, Exec, Returned
<1>3. CASE RelayNext(x) \/ RelayEnd(x)
  <2>1. /\ OthersStay(x)
        /\ \/ exec'[x] = "relaying" /\ pc'[x] = "check"
           \/ exec'[x] = "none" /\ pc'[x] = "idle"
    BY <1>0, <1>3 DEF RelayNext, RelayEnd, ExecStep, Exit, Enter, Goto, OthersStay,
       ThreadsTyped, ExecTyped
  <2> QED BY <1>0, <1>1, <1>2, <2>1, SMTT(40) DEF Placed, OthersStay, Thread, ExecTyped
<1>4. CASE ~(RelayNext(x) \/ RelayEnd(x))
  <2>1. UNCHANGED <<pc, arg, slot>> /\ exec[x] # "relaying"
    BY <1>4 DEF ExecutionStep, TaskMissing, MarkTaskRunning, FinishWork, ReadVerdict,
       WriteVerdict, CloseReplaced, CloseActive, ReleaseResources, Cleanup, RelayNobody,
       ExecStep, threadVars
  <2> QED BY <1>0, <1>1, <1>2, <2>1 DEF Placed, Thread, ExecTyped
<1> QED BY <1>3, <1>4

LEMMA OthersPlace ==
  ASSUME IInv, Placed,
         \/ Begin \/ UNCHANGED vars
         \/ \E c \in Caller : Request(c) \/ OperationStep(c)
  PROVE  Placed'
<1>0. ExecTyped /\ ThreadsTyped
  BY DEF IInv, Typed
<1>1. CASE Begin
  <2> DEFINE x == Head(queue)
  <2>1. /\ x \in Exec /\ exec[x] = "queued" /\ exec' = [exec EXCEPT ![x] = "begun"]
        /\ UNCHANGED <<pc, arg, slot>>
    BY <1>1 DEF Begin, ExecStep, IInv, Typed, RestTyped, threadVars
  <2> HIDE DEF x
  <2> QED BY <1>0, <2>1 DEF Placed, ExecTyped, ThreadsTyped, Exec, Thread, Returned
<1>2. CASE UNCHANGED vars
  BY <1>2 DEF vars, execVars, threadVars, Placed
<1>3. CASE \E c \in Caller : Request(c) \/ OperationStep(c)
  <2>1. PICK c \in Caller : Request(c) \/ OperationStep(c)
    BY <1>3
  <2>2. c \in Thread /\ c \notin Exec
    BY ConstantsAssumption DEF Thread
  <2>3. UNCHANGED exec
    BY <2>1 DEF Request, OperationStep, RequestCreate, RequestCancel, RequestRestart,
       RequestDelete, CancelWrite, RestartStops, RestartNothingToStop, RestartJoin,
       RestartReset, DeletePop, execVars
  <2>4. OthersStay(c) /\ pc'[c] \notin {"register", "enqueue"}
    BY <1>0, <2>1, <2>2, SMTT(40) DEF Request, OperationStep, RequestCreate, RequestCancel,
       RequestRestart, RequestDelete, CancelRead, CancelWrite, RestartStops,
       RestartNothingToStop, RestartJoin, RestartReset, DeletePop, Step, Enter, Return, Goto,
       OthersStay, ThreadsTyped
  <2> QED BY <2>2, <2>3, <2>4 DEF Placed, OthersStay, Thread
<1> QED BY <1>1, <1>2, <1>3

-----------------------------------------------------------------------------
(* The [SHEET_QUEUED] mark. *)

\* A step after which a marked task was marked before, and executes only if it
\* did or was on its way to.
LEMMA MarkKept ==
  ASSUME NEW t \in Task, MarkInv,
         Present(t) => Present(t)' \/ ~queued'[t],
         queued'[t] => queued[t],
         StartingAt(t, Marked)' => StartingAt(t, Marked) \/ ~queued'[t],
         Executes(t)' => Executes(t) \/ StartingAt(t, Marked)
  PROVE  (queued[t] => Present(t) /\ ~StartingAt(t, Marked) /\ ~Executes(t))'
BY DEF MarkInv

LEMMA StartMarks ==
  ASSUME SerialStarts, IInv, MarkInv, NEW th \in Thread, StartStep(th)
  PROVE  MarkInv'
<1>0. PICK t \in Task : arg[th] = t
  BY StartMoves
<1>1. /\ OthersStay(th) /\ pc[th] \in StartPc /\ Starting(th)
      /\ pc'[th] \in StartPc => arg'[th] = t
      /\ Typed /\ DbTyped /\ ExecTyped /\ ThreadsTyped /\ OneStarter
  BY <1>0, StartMoves DEF IInv, Typed, LockInv
<1>2. /\ StartingAt(t, Marked) <=> pc[th] \in Marked
      /\ StartingAt(t, Marked)' <=> pc'[th] \in Marked
  <2>1. Marked \in SUBSET StartPc
    BY DEF Marked, StartPc
  <2> QED BY <1>0, <1>1, <2>1, StartsHere
<1>3. ASSUME NEW u \in Task \ {t}
      PROVE  (queued[u] => Present(u) /\ ~StartingAt(u, Marked) /\ ~Executes(u))'
  <2>1. StartsOn(u)
    BY <1>0, <1>1, StartsElsewhere DEF Reserving, StartPc
  <2>2. queued'[u] = queued[u] /\ status'[u] = status[u]
    BY <1>0, <1>1 DEF StartStep, CheckHandle, ReadTask, QueueForSheet, AcquireSheets,
       ValidateFails, MarkRunning, MarkRunningTooLate, TakeToken, TokenFails, RejectForQuota,
       Admit, Register, Enqueue, SubmitFails, Rollback, ClearQueueMark, RevertRunning, dbVars,
       DbTyped
  <2>3. \A n \in Slot : exec'[<<u, n>>] = exec[<<u, n>>]
    BY <1>0, <1>1 DEF StartStep, CheckHandle, ReadTask, QueueForSheet, AcquireSheets,
       ValidateFails, MarkRunning, MarkRunningTooLate, TakeToken, TokenFails, RejectForQuota,
       Admit, FreeSlots, Register, Enqueue, SubmitFails, Rollback, execVars, ExecTyped, Exec
  <2> QED BY <2>1, <2>2, <2>3, MarkKept DEF StartsOn, Present, Executes
<1>4. (queued[t] => Present(t) /\ ~StartingAt(t, Marked) /\ ~Executes(t))'
  <2>1. CASE QueueForSheet(th)
    \* Nobody executes a task whose start_task is past the check of its handle.
    <3>1. /\ pc[th] = "lock" /\ pc'[th] \notin Marked
          /\ queued'[t] = Present(t) /\ UNCHANGED <<status, exec>>
      BY <1>0, <1>1, <2>1 DEF QueueForSheet, Return, Goto, ThreadsTyped, Present, DbTyped,
         Marked, execVars
    <3>2. Present(t) => ~Executes(t)
      BY <1>0, <3>1 DEF IInv, LockInv, StartsAlone, Alone, StartPc, Present, Executes, Handled
    <3> QED BY <1>2, <3>1, <3>2 DEF Present, Executes
  <2>2. CASE MarkRunning(th)
    BY <1>0, <1>1, <2>2 DEF MarkRunning, ClearQueueMark, DbTyped
  <2>3. CASE ~QueueForSheet(th) /\ ~MarkRunning(th)
    <3>1. UNCHANGED queued /\ (Present(t)' <=> Present(t))
      BY <1>0, <1>1, <2>3 DEF StartStep, CheckHandle, ReadTask, AcquireSheets, ValidateFails,
         MarkRunningTooLate, TakeToken, TokenFails, RejectForQuota, Admit, Register, Enqueue,
         SubmitFails, Rollback, RevertRunning, dbVars, DbTyped, Present
    <3>2. pc'[th] \in Marked => pc[th] \in Marked
      BY <1>1, <2>3 DEF StartStep, CheckHandle, ReadTask, AcquireSheets, ValidateFails,
         MarkRunningTooLate, TakeToken, TokenFails, RejectForQuota, Admit, Register, Enqueue,
         SubmitFails, Rollback, Step, Return, Goto, ThreadsTyped, Marked
    <3>3. \A n \in Slot :
            exec'[<<t, n>>] \in Unreleased => exec[<<t, n>>] \in Unreleased \/ pc[th] \in Marked
      BY <1>0, <1>1, <2>3 DEF StartStep, CheckHandle, ReadTask, AcquireSheets, ValidateFails,
         MarkRunningTooLate, TakeToken, TokenFails, RejectForQuota, Admit, Register, Enqueue,
         SubmitFails, Rollback, Step, execVars, ExecTyped, Exec, Unreleased, Marked
    <3> QED BY <1>2, <3>1, <3>2, <3>3, MarkKept DEF Executes
  <2> QED BY <2>1, <2>2, <2>3
<1> QED BY <1>3, <1>4 DEF MarkInv

LEMMA ExecutionMarks ==
  ASSUME IInv, Placed, MarkInv, NEW x \in Exec, ExecutionStep(x)
  PROVE  MarkInv'
<1>1. DbTyped /\ ExecTyped /\ ThreadsTyped
  BY DEF IInv, Typed
<1>2. \A u \in Task : StartsOn(u)
  <2>1. CASE RelayNext(x) \/ RelayEnd(x)
    BY <1>1, <2>1, RelayStarts
  <2>2. CASE ~(RelayNext(x) \/ RelayEnd(x))
    <3>1. UNCHANGED threadVars
      BY <2>2 DEF ExecutionStep, TaskMissing, MarkTaskRunning, FinishWork, ReadVerdict,
         WriteVerdict, CloseReplaced, CloseActive, ReleaseResources, Cleanup, RelayNobody
    <3> QED BY <3>1, NobodyStarts
  <2> QED BY <2>1, <2>2
<1>3. \A y \in Exec : exec'[y] \in Unreleased => exec[y] \in Unreleased
  BY <1>1 DEF ExecutionStep, TaskMissing, MarkTaskRunning, FinishWork, ReadVerdict,
     WriteVerdict, CloseReplaced, CloseActive, ReleaseResources, Cleanup, RelayNobody,
     RelayNext, RelayEnd, ExecStep, Exit, ExecTyped, Unreleased
<1>4. \A u \in Task : (queued'[u] => queued[u]) /\ (Present(u)' <=> Present(u))
  <2>1. CASE WriteVerdict(x)
    <3>1. outcome[x] # "deleted" /\ x[1] \in Task
      BY <1>1 DEF ExecTyped, Outcome, Exec
    <3> QED BY <1>1, <2>1, <3>1 DEF WriteVerdict, DbTyped, Present
  <2>2. CASE MarkTaskRunning(x)
    BY <1>1, <2>2 DEF MarkTaskRunning, DbTyped, Present
  <2>3. CASE ~WriteVerdict(x) /\ ~MarkTaskRunning(x)
    BY <2>3 DEF ExecutionStep, TaskMissing, FinishWork, ReadVerdict, CloseReplaced,
       CloseActive, ReleaseResources, Cleanup, RelayNobody, RelayNext, RelayEnd, dbVars, Present
  <2> QED BY <2>1, <2>2, <2>3
<1>5. ASSUME NEW u \in Task
      PROVE  (queued[u] => Present(u) /\ ~StartingAt(u, Marked) /\ ~Executes(u))'
  <2>1. Executes(u)' => Executes(u)
    BY <1>3 DEF Executes, Exec
  <2> QED BY <1>2, <1>4, <2>1, MarkKept DEF StartsOn
<1> QED BY <1>5 DEF MarkInv

LEMMA OthersMark ==
  ASSUME IInv, MarkInv,
         \/ Begin \/ UNCHANGED vars
         \/ \E c \in Caller : Request(c) \/ OperationStep(c)
  PROVE  MarkInv'
<1>1. DbTyped /\ ExecTyped /\ ThreadsTyped
  BY DEF IInv, Typed
<1>2. CASE Begin
  <2>1. /\ UNCHANGED <<status, queued>> /\ UNCHANGED threadVars
        /\ \A y \in Exec : exec'[y] \in Unreleased => exec[y] \in Unreleased
    BY <1>1, <1>2 DEF Begin, ExecStep, dbVars, ExecTyped, Unreleased
  <2>2. ASSUME NEW u \in Task
        PROVE  (queued[u] => Present(u) /\ ~StartingAt(u, Marked) /\ ~Executes(u))'
    BY <2>1, NobodyStarts, MarkKept DEF StartsOn, Present, Executes, Exec
  <2> QED BY <2>2 DEF MarkInv
<1>3. CASE UNCHANGED vars
  BY <1>3 DEF vars, dbVars, execVars, threadVars, MarkInv, Present, StartingAt, Executes
<1>4. ASSUME NEW c \in Caller, Request(c) \/ OperationStep(c) PROVE MarkInv'
  <2>1. UNCHANGED exec
    BY <1>4 DEF Request, OperationStep, RequestCreate, RequestCancel, RequestRestart,
       RequestDelete, CancelWrite, RestartStops, RestartNothingToStop, RestartJoin,
       RestartReset, DeletePop, execVars
  <2>2. OthersStay(c) /\ pc'[c] \notin Marked
    BY <1>1, <1>4, SMTT(40) DEF Request, OperationStep, RequestCreate, RequestCancel,
       RequestRestart, RequestDelete, CancelRead, CancelWrite, RestartStops,
       RestartNothingToStop, RestartJoin, RestartReset, DeletePop, Step, Enter, Return, Goto,
       OthersStay, ThreadsTyped, Marked, Thread
  <2>3. \A u \in Task : (queued'[u] => queued[u]) /\ (Present(u) => Present(u)' \/ ~queued'[u])
    BY <1>1, <1>4 DEF Request, OperationStep, RequestCreate, RequestCancel, RequestRestart,
       RequestDelete, CancelWrite, RestartStops, RestartNothingToStop, RestartJoin,
       RestartReset, DeletePop, ClearQueueMark, dbVars, DbTyped, Present
  <2>4. ASSUME NEW u \in Task
        PROVE  (queued[u] => Present(u) /\ ~StartingAt(u, Marked) /\ ~Executes(u))'
    <3>1. StartingAt(u, Marked)' => StartingAt(u, Marked)
      BY <2>2 DEF StartingAt, OthersStay
    <3> QED BY <2>1, <2>3, <3>1, MarkKept DEF Executes
  <2> QED BY <2>4 DEF MarkInv
<1> QED BY <1>2, <1>3, <1>4

-----------------------------------------------------------------------------
(* The theorems. *)

\* What a task holds is accounted for.
HeldInv == IInv /\ AInv /\ Placed

FullInv == HeldInv /\ MarkInv

\* Initially no task holds anything.
LEMMA InitAccounts == Init => AInv /\ Placed /\ MarkInv
BY ConstantsAssumption DEF Init, AInv, Accounted, LocksOwnSheets, HoldsAccounted, Holds,
   DeletedHolds, BusyIsWorker, VerdictWritten, StartingAt, ExecutingAt, Executes, Undone,
   Marked, Handled, Unreleased, Present, Placed, MarkInv, Exec, Thread

\* Every step keeps the account of every task, ...
LEMMA NextAccounts ==
  ASSUME SerialStarts, HeldInv, [Next]_vars
  PROVE  HeldInv'
<1> USE DEF HeldInv
<1>1. IInv'
  BY NextKeepsLocks
<1>2. AInv'
  <2>1. CASE UNCHANGED vars
    BY <2>1, SameIsKept DEF AInv, vars, dbVars, memVars, dictVars, execVars, threadVars,
       SameRows, SameExecs, StartsOn, StartingAt
  <2> QED BY <2>1, StartAccounts, ExecutionAccounts, BeginAccounts, CallerAccounts DEF Next
<1>3. Placed'
  BY StartPlaces, ExecutionPlaces, OthersPlace DEF Next
<1> QED BY <1>1, <1>2, <1>3

\* ... and what its mark says.
LEMMA NextMarks ==
  ASSUME SerialStarts, FullInv, [Next]_vars
  PROVE  FullInv'
BY NextAccounts, StartMarks, ExecutionMarks, OthersMark DEF FullInv, HeldInv, Next

LEMMA FullInvariant == ASSUME SerialStarts PROVE Spec => []FullInv
<1>1. Init => FullInv
  BY InitTyped, InitLocks, InitAccounts DEF FullInv, HeldInv, IInv
<1>2. FullInv /\ [Next]_vars => FullInv'
  BY NextMarks
<1> QED BY <1>1, <1>2, PTL DEF Spec

\* What an accounted task holds has someone who gives it up.
LEMMA AccountedHolds ==
  ASSUME HeldInv
  PROVE  NoLockLeak /\ TokenAccounted /\ RunningHasThread
<1>1. \A t \in Task : Accounted(t)
  BY DEF HeldInv, AInv
<1>2. ASSUME NEW s \in Sheet, lockOf[s] # None
      PROVE  Reserves(lockOf[s]) \/ Executes(lockOf[s])
  <2>1. lockOf[s] \in Task
    BY <1>2 DEF HeldInv, IInv, Typed, DbTyped
  <2>2. PICK t \in Task : lockOf[s] = t
    BY <2>1
  <2>3. CASE Present(t)
    BY <1>1, <2>2, <2>3 DEF Accounted, HoldsAccounted, Holds, Occupied
  <2>4. CASE ~Present(t)
    BY <1>1, <2>2, <2>4 DEF Accounted, DeletedHolds, StartingAt, Undone, Reserves, Reserving
  <2> QED BY <2>2, <2>3, <2>4
<1>3. TokenAccounted /\ RunningHasThread
  BY <1>1 DEF HeldInv, IInv, Typed, RestTyped, TokenAccounted, RunningHasThread, Accounted,
     HoldsAccounted, Holds, Occupied, Present
<1> QED BY <1>2, <1>3 DEF NoLockLeak

\* Every sheet execution lock belongs to a task that is being started or that
\* is executed, whatever fails in start_task and whatever is cancelled,
\* restarted or deleted meanwhile: someone is left who will release it.
THEOREM LocksNeverLeak == ASSUME SerialStarts PROVE Spec => []NoLockLeak
BY FullInvariant, AccountedHolds, PTL DEF FullInv

\* So does every entry in the token occupancy of a task that is not deleted.
THEOREM TokensNeverLeak == ASSUME SerialStarts PROVE Spec => []TokenAccounted
BY FullInvariant, AccountedHolds, PTL DEF FullInv

\* A row that says running is being started or executed by a thread.
THEOREM RunningIsAlive == ASSUME SerialStarts PROVE Spec => []RunningHasThread
BY FullInvariant, AccountedHolds, PTL DEF FullInv

\* A task that is marked as waiting for a sheet is not being executed.
THEOREM QueuedIsIdle == ASSUME SerialStarts PROVE Spec => []QueuedNotExecuting
<1>1. FullInv => QueuedNotExecuting
  BY DEF FullInv, MarkInv, QueuedNotExecuting
<1> QED BY <1>1, FullInvariant, PTL

-----------------------------------------------------------------------------
(* TaskRuntime implements SheetMutex. *)

MutexStep == [Mutex!MutexNext]_<<lockOf, AtWork>>

\* A step that no sheet, no work and no deletion depends on.
SameWork ==
  /\ \A t \in Task : (status'[t] = "deleted") <=> (status[t] = "deleted")
  /\ \A x \in Exec : (exec'[x] = "working") <=> (exec[x] = "working")

\* It leaves the tasks at work as they are.
LEMMA SameWorkers == ASSUME SameWork PROVE UNCHANGED AtWork
BY DEF SameWork, AtWork, Exec

\* Initially no sheet is held and nobody works.
LEMMA InitMaps == Init => Mutex!MutexInit
BY DEF Init, AtWork, Exec, Mutex!MutexInit

\* To give up some of one's sheets, or none, without being at work.
LEMMA GivingUpMaps ==
  ASSUME IInv, NEW t \in Task, t \notin AtWork, NEW S, ReleaseSheets(S, t),
         UNCHANGED AtWork
  PROVE  MutexStep
<1> DEFINE R == {s \in Sheet : s \in S /\ lockOf[s] = t}
<1>1. R \in SUBSET {s \in Sheet : lockOf[s] = t} /\ \A s \in R : lockOf[s] = t
  OBVIOUS
<1>2. lockOf' = [s \in Sheet |-> IF s \in R THEN None ELSE lockOf[s]]
  BY DEF ReleaseSheets
<1>3. Mutex!Release(t, R)
  BY <1>1, <1>2 DEF Mutex!Release
<1> QED BY <1>1, <1>3 DEF MutexStep, Mutex!MutexNext

\* A task that is being started, or one of whose executions is registered but
\* not at work, is not at work.
LEMMA StarterIdle ==
  ASSUME IInv, NEW th \in Thread, arg[th] \in Task, pc[th] \in Alone
  PROVE  /\ arg[th] \notin AtWork
         /\ status[arg[th]] # "deleted" =>
              \A n \in Slot : exec[<<arg[th], n>>] \notin Handled
BY DEF IInv, LockInv, StartsAlone, AtWork, Handled, Unreleased

LEMMA OtherSlotsIdle ==
  ASSUME IInv, NEW x \in Exec, exec[x] \in Handled, status[x[1]] # "deleted"
  PROVE  \A n \in Slot : exec[<<x[1], n>>] = "working" => n = x[2]
<1>1. x[1] \in Task /\ x[2] \in Slot /\ x = <<x[1], x[2]>>
  BY DEF Exec
<1>2. handle[x[1]] = x[2]
  BY <1>1 DEF IInv, LockInv, HandledIsCurrent
<1> QED BY <1>1, <1>2 DEF IInv, LockInv, HandledIsCurrent, Handled, Unreleased

-----------------------------------------------------------------------------
\* start_task acquires, gives up, or does neither.
LEMMA StartMaps ==
  ASSUME SerialStarts, IInv, NEW th \in Thread, StartStep(th)
  PROVE  MutexStep
<1> DEFINE t == arg[th]
<1>0. t \in Task /\ pc[th] \in StartPc
  BY DEF StartStep, CheckHandle, ReadTask, QueueForSheet, AcquireSheets, ValidateFails,
     MarkRunning, MarkRunningTooLate, TakeToken, TokenFails, RejectForQuota, Admit,
     Register, Enqueue, SubmitFails, Rollback, Step, StartPc, IInv, Typed, ThreadsTyped,
     Returned
<1>1. CASE CheckHandle(th) \/ ReadTask(th) \/ QueueForSheet(th) \/ ValidateFails(th)
           \/ TakeToken(th) \/ TokenFails(th) \/ RejectForQuota(th)
  <2>1. UNCHANGED <<status, lockOf, exec>>
    BY <1>1 DEF CheckHandle, ReadTask, QueueForSheet, ValidateFails, TakeToken, TokenFails,
       RejectForQuota, dbVars, memVars, execVars
  <2> QED BY <2>1 DEF MutexStep, AtWork
<1>2. CASE AcquireSheets(th)
  <2>1. UNCHANGED AtWork
    BY <1>2 DEF AcquireSheets, AtWork, execVars
  <2>2. Mutex!Acquire(t)
    BY <1>2, <2>1 DEF AcquireSheets, Conflict, AcquireAll, Mutex!Acquire
  <2> QED BY <1>0, <2>2 DEF MutexStep, Mutex!MutexNext
<1>3. CASE MarkRunning(th)
  <2>1. SameWork /\ UNCHANGED lockOf
    BY <1>0, <1>3 DEF MarkRunning, SameWork, execVars, IInv, Typed, DbTyped
  <2> QED BY <2>1, SameWorkers DEF MutexStep
<1>4. CASE MarkRunningTooLate(th) \/ Rollback(th)
  <2>1. pc[th] \in Alone /\ ReleaseSheets(SheetsOf[t], t)
    BY <1>4 DEF MarkRunningTooLate, Rollback, RollbackReservation, Alone, StartPc
  <2>2. SameWork
    BY <1>0, <1>4 DEF MarkRunningTooLate, Rollback, RevertRunning, SameWork, execVars, IInv,
       Typed, DbTyped
  <2> QED BY <1>0, <2>1, <2>2, SameWorkers, StarterIdle, GivingUpMaps
<1>5. CASE Admit(th)
  <2>1. UNCHANGED <<status, lockOf>>
    BY <1>5 DEF Admit, dbVars
  <2>2. PICK n \in Slot : exec[<<t, n>>] = "none" /\ exec' = [exec EXCEPT ![<<t, n>>] = "admitted"]
    BY <1>5 DEF Admit, FreeSlots
  <2>3. SameWork
    BY <1>0, <2>1, <2>2 DEF SameWork, IInv, Typed, ExecTyped, Exec
  <2> QED BY <2>1, <2>3, SameWorkers DEF MutexStep
<1>6. CASE Register(th) \/ Enqueue(th) \/ SubmitFails(th)
  \* The execution that is being submitted is not at work, unless the task is
  \* deleted.
  <2>1. /\ UNCHANGED <<status, lockOf>>
        /\ pc[th] \in Alone /\ slot[th] \in Slot
        /\ \E to \in ExecPc \ {"working"} : exec' = [exec EXCEPT ![<<t, slot[th]>>] = to]
    BY <1>6 DEF Register, Enqueue, SubmitFails, Step, dbVars, Alone, StartPc, IInv, Typed,
       ThreadsTyped, ExecPc
  <2>2. status[t] # "deleted" => exec[<<t, slot[th]>>] # "working"
    BY <1>0, <2>1, StarterIdle DEF Handled, Unreleased
  <2>3. UNCHANGED AtWork
    BY <1>0, <2>1, <2>2 DEF AtWork, IInv, Typed, ExecTyped, Exec
  <2> QED BY <2>1, <2>3 DEF MutexStep
<1> QED BY <1>1, <1>2, <1>3, <1>4, <1>5, <1>6 DEF StartStep

\* An execution starts to work on sheets it holds, stops, and gives them up.
LEMMA ExecutionMaps ==
  ASSUME SerialStarts, IInv, NEW x \in Exec, ExecutionStep(x)
  PROVE  MutexStep
<1> DEFINE t == x[1]
<1>0. /\ t \in Task /\ x[2] \in Slot /\ x = <<t, x[2]>>
      /\ exec \in [Exec -> ExecPc] /\ status \in [Task -> Status]
  BY DEF Exec, IInv, Typed, ExecTyped, DbTyped
<1>1. CASE TaskMissing(x) \/ ReadVerdict(x) \/ CloseReplaced(x) \/ CloseActive(x)
           \/ Cleanup(x) \/ RelayNobody(x) \/ RelayNext(x) \/ RelayEnd(x)
  <2>1. /\ UNCHANGED <<status, lockOf>> /\ exec[x] # "working"
        /\ \E to \in ExecPc \ {"working"} : exec' = [exec EXCEPT ![x] = to]
    BY <1>1 DEF TaskMissing, ReadVerdict, CloseReplaced, CloseActive, Cleanup, RelayNobody,
       RelayNext, RelayEnd, Exit, ExecStep, dbVars, ExecPc
  <2>2. SameWork
    BY <1>0, <2>1 DEF SameWork
  <2> QED BY <2>1, <2>2, SameWorkers DEF MutexStep
<1>2. CASE MarkTaskRunning(x)
  <2>1. /\ exec[x] = "begun" /\ exec' = [exec EXCEPT ![x] = "working"]
        /\ status[t] # "deleted" /\ status' = [status EXCEPT ![t] = "running"]
        /\ UNCHANGED lockOf
    BY <1>2 DEF MarkTaskRunning, ExecStep
  <2>2. t \notin AtWork
    BY <1>0, <2>1, OtherSlotsIdle DEF AtWork, Handled, Unreleased
  <2>3. Mutex!Has(t)
    BY <1>0, <2>1 DEF IInv, LockInv, ExecutionHoldsLocks, Unreleased, Held, Mutex!Has
  <2>4. AtWork' = AtWork \cup {t}
    <3>1. \A u \in Task : status'[u] # "deleted" <=> status[u] # "deleted"
      BY <1>0, <2>1
    <3>2. \A u \in Task, n \in Slot :
            exec'[<<u, n>>] = "working" <=> exec[<<u, n>>] = "working" \/ <<u, n>> = x
      BY <1>0, <2>1 DEF Exec
    <3>3. \A u \in Task, n \in Slot : <<u, n>> = x <=> u = t /\ n = x[2]
      BY <1>0
    <3> QED BY <1>0, <2>1, <3>1, <3>2, <3>3, SMTT(40) DEF AtWork
  <2>5. Mutex!Start(t)
    BY <2>1, <2>2, <2>3, <2>4 DEF Mutex!Start
  <2> QED BY <1>0, <2>5 DEF MutexStep, Mutex!MutexNext
<1>3. CASE FinishWork(x)
  <2>1. /\ exec[x] = "working" /\ exec' = [exec EXCEPT ![x] = "ended"]
        /\ UNCHANGED <<status, lockOf>>
    BY <1>3 DEF FinishWork, ExecStep, dbVars
  <2>9. \A u \in Task, n \in Slot :
          exec'[<<u, n>>] = "working" <=> exec[<<u, n>>] = "working" /\ <<u, n>> # x
    BY <1>0, <2>1 DEF Exec
  <2>8. \A u \in Task, n \in Slot : <<u, n>> = x <=> u = t /\ n = x[2]
    BY <1>0
  <2>2. CASE status[t] = "deleted"
    <3>1. UNCHANGED AtWork
      BY <1>0, <2>1, <2>2, <2>9, <2>8 DEF AtWork
    <3> QED BY <2>1, <3>1 DEF MutexStep
  <2>3. CASE status[t] # "deleted"
    <3>1. t \in AtWork
      BY <1>0, <2>1, <2>3 DEF AtWork
    <3>2. AtWork' = AtWork \ {t}
      <4>1. \A n \in Slot : exec'[<<t, n>>] # "working"
        BY <1>0, <2>1, <2>3, <2>9, OtherSlotsIdle DEF Handled, Unreleased
      <4> QED BY <2>1, <2>9, <2>8, <4>1 DEF AtWork
    <3>3. Mutex!Stop(t)
      BY <2>1, <3>1, <3>2 DEF Mutex!Stop
    <3> QED BY <1>0, <3>3 DEF MutexStep, Mutex!MutexNext
  <2> QED BY <2>2, <2>3
<1>4. CASE WriteVerdict(x)
  <2> DEFINE v == IF status[t] = "deleted" THEN "deleted" ELSE
                  IF outcome[x] = "exception" THEN "error" ELSE outcome[x]
  <2>1. /\ exec[x] = "finalizing" /\ exec' = [exec EXCEPT ![x] = "closing"]
        /\ status' = [status EXCEPT ![t] = v]
        /\ UNCHANGED lockOf
    BY <1>4 DEF WriteVerdict, ExecStep
  <2>2. v = "deleted" <=> status[t] = "deleted"
    BY DEF IInv, Typed, ExecTyped, Outcome
  <2>3. SameWork
    <3> HIDE DEF v
    <3> QED BY <1>0, <2>1, <2>2 DEF SameWork
  <2> QED BY <2>1, <2>3, SameWorkers DEF MutexStep
<1>5. CASE ReleaseResources(x)
  <2>1. /\ exec[x] = "releasing" /\ exec' = [exec EXCEPT ![x] = "cleanup"]
        /\ ReleaseSheets(Sheet, t) /\ UNCHANGED status
    BY <1>5 DEF ReleaseResources, ExecStep
  <2>2. SameWork
    BY <1>0, <2>1 DEF SameWork
  <2>3. t \notin AtWork
    BY <1>0, <2>1, OtherSlotsIdle DEF AtWork, Handled, Unreleased
  <2> QED BY <1>0, <2>1, <2>2, <2>3, SameWorkers, GivingUpMaps
<1> QED BY <1>1, <1>2, <1>3, <1>4, <1>5 DEF ExecutionStep

\* Of the requests only a restart from the first step and a deletion give up
\* sheets; the deletion ends what the task does for this specification.
LEMMA CallerMaps ==
  ASSUME SerialStarts, IInv, NEW c \in Caller, Request(c) \/ OperationStep(c)
  PROVE  MutexStep
<1>0. /\ c \in Thread /\ status \in [Task -> Status] /\ lockOf \in [Sheet -> Task \cup {None}]
      /\ pc[c] \in CancelPc \cup {"reset"} => arg[c] \in Task
  BY DEF Thread, IInv, Typed, DbTyped, ThreadsTyped, CancelPc, Returned
<1>1. CASE RequestCancel(c) \/ RequestRestart(c) \/ RestartStops(c)
           \/ RestartNothingToStop(c) \/ RestartJoin(c) \/ DeletePop(c)
  <2>1. UNCHANGED <<status, lockOf, exec>>
    BY <1>1 DEF RequestCancel, RequestRestart, RestartStops, RestartNothingToStop,
       RestartJoin, DeletePop, dbVars, execVars
  <2> QED BY <2>1 DEF MutexStep, AtWork
<1>2. CASE RequestCreate(c) \/ CancelWrite(c)
  <2>1. SameWork /\ UNCHANGED lockOf
    BY <1>0, <1>2 DEF RequestCreate, CancelWrite, SameWork, execVars
  <2> QED BY <2>1, SameWorkers DEF MutexStep
<1>3. CASE RestartReset(c)
  <2>1. pc[c] \in Alone /\ arg[c] \in Task /\ SameWork
    BY <1>0, <1>3 DEF RestartReset, Alone, SameWork, execVars
  <2>2. CASE UNCHANGED lockOf
    BY <2>1, <2>2, SameWorkers DEF MutexStep
  <2>3. CASE ReleaseSheets(Sheet, arg[c])
    BY <1>0, <2>1, <2>3, SameWorkers, StarterIdle, GivingUpMaps
  <2> QED BY <1>3, <2>2, <2>3 DEF RestartReset
<1>4. CASE RequestDelete(c)
  <2>1. PICK t \in Task : /\ status' = [status EXCEPT ![t] = "deleted"]
                          /\ ReleaseSheets(Sheet, t) /\ UNCHANGED exec
    BY <1>4 DEF RequestDelete, execVars
  <2>2. AtWork' = AtWork \ {t}
    BY <1>0, <2>1 DEF AtWork
  <2>3. CASE t \in AtWork
    <3>1. Mutex!Withdraw(t)
      BY <2>1, <2>2, <2>3 DEF ReleaseSheets, Mutex!Withdraw
    <3> QED BY <3>1 DEF MutexStep, Mutex!MutexNext
  <2>4. CASE t \notin AtWork
    BY <2>1, <2>2, <2>4, GivingUpMaps
  <2> QED BY <2>3, <2>4
<1> QED BY <1>1, <1>2, <1>3, <1>4 DEF Request, OperationStep

\* The pool thread that takes an execution has not begun to work.
LEMMA BeginMaps == ASSUME IInv, Begin PROVE MutexStep
<1> DEFINE x == Head(queue)
<1>1. x \in Exec /\ exec[x] = "queued" /\ exec' = [exec EXCEPT ![x] = "begun"]
  BY DEF Begin, ExecStep, IInv, Typed, RestTyped
<1>2. UNCHANGED <<status, lockOf>>
  BY DEF Begin, dbVars
<1>3. SameWork
  BY <1>1, <1>2 DEF SameWork, IInv, Typed, ExecTyped
<1> QED BY <1>2, <1>3, SameWorkers DEF MutexStep

LEMMA NextMaps == ASSUME SerialStarts, IInv, [Next]_vars PROVE MutexStep
<1>1. CASE UNCHANGED vars
  BY <1>1 DEF vars, dbVars, execVars, MutexStep, AtWork
<1> QED BY <1>1, BeginMaps, ExecutionMaps, StartMaps, CallerMaps DEF Next

\* The runtime implements the abstract mutual exclusion for any number of
\* tasks, sheets and threads, whatever fails inside a start: as long as no task
\* is started by two threads at the same time.
THEOREM RuntimeImplementsMutex == ASSUME SerialStarts PROVE Spec => ImplementsSheetMutex
<1>1. Init => Mutex!MutexInit
  BY InitMaps
<1>2. IInv /\ [Next]_vars => [Mutex!MutexNext]_Mutex!mutexVars
  BY NextMaps DEF MutexStep, Mutex!mutexVars
<1> QED BY <1>1, <1>2, Invariant, PTL DEF Spec, ImplementsSheetMutex, Mutex!MutexSpec
=============================================================================
