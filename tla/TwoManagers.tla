---------------------------- MODULE TwoManagers ----------------------------
(***************************************************************************)
(* The web application and the DingTalk service (ding_stream_service) are  *)
(* two processes with a TaskManager each: two sets of dictionaries, thread *)
(* pools and start locks over one database. The web process is the         *)
(* TaskRuntime this module extends; the service is a second one whose only *)
(* requests are the restarts of its chat commands. What they share is the  *)
(* task row, its queue mark and the table of sheet execution locks.        *)
(***************************************************************************)
EXTENDS TaskRuntime

CONSTANT Bot   \* the event loop that handles the chat messages, one at a time

VARIABLES
  svcHandle, svcStopEvent, svcFired, svcWorkerId, svcTokenHeld, svcQueue,
  svcSheetStart, svcExec, svcExecEvent, svcOutcome, svcFinished,
  svcPc, svcArg, svcSlot,
  batch   \* failed tasks a batch restart has read and not yet come to

Service == INSTANCE TaskRuntime WITH
  Caller <- {Bot}, Daemon <- {}, Requests <- [c \in {Bot} |-> {"restart"}],
  handle <- svcHandle, stopEvent <- svcStopEvent, fired <- svcFired,
  workerId <- svcWorkerId, tokenHeld <- svcTokenHeld, queue <- svcQueue,
  sheetStart <- svcSheetStart, exec <- svcExec, execEvent <- svcExecEvent,
  outcome <- svcOutcome, finished <- svcFinished, pc <- svcPc, arg <- svcArg,
  slot <- svcSlot

sharedVars  == <<dbVars, cancelAck>>
webVars     == <<memVars, execVars, threadVars>>
serviceVars == <<svcHandle, svcStopEvent, svcFired, svcWorkerId, svcTokenHeld,
                 svcQueue, svcSheetStart, svcExec, svcExecEvent, svcOutcome,
                 svcFinished, svcPc, svcArg, svcSlot>>
bothVars    == <<sharedVars, webVars, serviceVars, batch>>

InitBoth == Init /\ Service!Init /\ batch = {}

\* "restart task <id>", "<name>" or "number <n>": one task, then restart_task.
\* The check for a running task looks for its handle in this process.
RestartCommand ==
  /\ batch = {}
  /\ Service!RequestRestart(Bot)
  /\ UNCHANGED <<webVars, batch>>

\* "restart failed tasks": the failed tasks are read once, up to the limit, ...
BatchCommand ==
  /\ batch = {}
  /\ svcPc[Bot] = "idle"
  /\ batch' \in SUBSET {t \in Task : status[t] = "error"}
  /\ UNCHANGED <<sharedVars, webVars, serviceVars>>

\* ... and restarted one after the other, whatever became of them meanwhile.
BatchRestart ==
  /\ Service!RequestRestart(Bot)
  /\ svcArg'[Bot] \in batch
  /\ batch' = batch \ {svcArg'[Bot]}
  /\ UNCHANGED webVars

\* A task that is gone or runs in this process is reported, not restarted.
BatchRefused ==
  /\ svcPc[Bot] = "idle"
  /\ \E t \in batch :
       /\ \/ status[t] = "deleted"
          \/ status[t] = "running" /\ Service!HandleAlive(t)
       /\ batch' = batch \ {t}
  /\ UNCHANGED <<sharedVars, webVars, serviceVars>>

\* resume_from_checkpoint is TRUE for every command: locks and token stay.
FromCheckpoint == svcPc[Bot] = "reset" => UNCHANGED <<lockOf, svcTokenHeld>>

ServiceStep ==
  \/ Service!Begin
  \/ \E x \in Exec : Service!ExecutionStep(x)
  \/ \E th \in {Bot} \cup Exec : Service!StartStep(th)
  \/ Service!OperationStep(Bot) /\ FromCheckpoint

NextBoth ==
  \/ Next /\ UNCHANGED <<serviceVars, batch>>
  \/ ServiceStep /\ UNCHANGED <<webVars, batch>>
  \/ RestartCommand \/ BatchCommand \/ BatchRestart \/ BatchRefused

SpecBoth == InitBoth /\ [][NextBoth]_bothVars

-----------------------------------------------------------------------------
AtWorkInService ==
  {t \in Task : status[t] # "deleted" /\ \E n \in Slot : svcExec[<<t, n>>] = "working"}

\* "One spreadsheet is held by one executing task at a time" (
\* sheet_execution_lock_service.py), whichever process executes it.
OneTaskPerSheet ==
  \A t, u \in AtWork \cup AtWorkInService :
    t # u => SheetsOf[t] \cap SheetsOf[u] = {}
=============================================================================
