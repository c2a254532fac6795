---------------------------- MODULE TaskRecovery ----------------------------
(***************************************************************************)
(* The end of the process at any point of the task runtime, and the boot   *)
(* sequence (app/startup.py) that brings the rows it left behind in order  *)
(* before requests are served again.                                       *)
(***************************************************************************)
EXTENDS TaskRuntime

CONSTANTS
  Booter,    \* the thread that runs bootstrap_app
  MaxCrash   \* bound: ends of the process in a run

ASSUME RecoveryAssumption ==
  /\ Booter \in Daemon
  /\ MaxCrash \in Nat

VARIABLES
  phase,     \* index of the stage of bootstrap_app in Stages
  toResume,  \* queued_tasks still to be tried by resume_pending_queued_tasks
  crashes    \* bookkeeping of the model: ends of the process so far

bootVars == <<phase, toResume, crashes>>
rvars    == <<vars, bootVars>>

-----------------------------------------------------------------------------
\* check_and_cleanup_dead_tasks, cleanup_stale_sheet_execution_locks, the two
\* halves of resume_pending_queued_tasks, and the service itself.
StagesLocksFirst == <<"locks", "dead", "scan", "resume", "serving">>

Stages == <<"dead", "locks", "scan", "resume", "serving">>

Stage == Stages[phase]
NextStage == phase' = phase + 1

RecoveryTypeOK ==
  /\ TypeOK
  /\ phase \in 1..Len(Stages)
  /\ toResume \subseteq Task
  /\ crashes \in 0..MaxCrash

RInit ==
  /\ Init
  /\ phase = 1
  /\ toResume = {}
  /\ crashes = 0

\* The process ends: dictionaries, pool and threads are gone, the rows stay.
Crash ==
  /\ crashes < MaxCrash
  /\ crashes' = crashes + 1
  /\ phase' = 1
  /\ toResume' = {}
  /\ handle' = [t \in Task |-> 0]
  /\ stopEvent' = [t \in Task |-> 0]
  /\ fired' = {}
  /\ workerId' = [t \in Task |-> 0]
  /\ tokenHeld' = {}
  /\ queue' = <<>>
  /\ sheetStart' = None
  /\ exec' = [x \in Exec |-> "none"]
  /\ execEvent' = [x \in Exec |-> 0]
  /\ outcome' = [x \in Exec |-> "none"]
  /\ finished' = [x \in Exec |-> {}]
  /\ pc' = [th \in Thread |-> "idle"]
  /\ arg' = [th \in Thread |-> None]
  /\ slot' = [th \in Thread |-> 0]
  /\ UNCHANGED <<dbVars, cancelAck>>

-----------------------------------------------------------------------------
(* Boot. *)

\* check_and_cleanup_dead_tasks: a running row without a thread goes back to
\* pending, without a queue mark. Every row is committed with its log entry.
DeadMarked == {t \in Task : status[t] = "running" /\ queued[t]}

Dead == {t \in Task : status[t] = "running" /\ ~HandleAlive(t)}

ResetDeadTask ==
  /\ Stage = "dead"
  /\ \E t \in Dead :
       /\ status' = [status EXCEPT ![t] = "pending"]
       /\ queued' = [queued EXCEPT ![t] = FALSE]
  /\ UNCHANGED <<lockOf, memVars, execVars, threadVars, cancelAck, bootVars>>

NoDeadTask ==
  /\ Stage = "dead"
  /\ Dead = {}
  /\ NextStage
  /\ UNCHANGED <<vars, toResume, crashes>>

\* cleanup_stale_sheet_execution_locks: the holder does not run, or is gone.
StaleHolderGone(t) == status[t] = "deleted"
StaleHolder(t) == status[t] # "running"

RemoveStaleLocks ==
  /\ Stage = "locks"
  /\ lockOf' = [s \in Sheet |-> IF lockOf[s] # None /\ StaleHolder(lockOf[s])
                                  THEN None ELSE lockOf[s]]
  /\ NextStage
  /\ UNCHANGED <<status, queued, memVars, execVars, threadVars, cancelAck,
                 toResume, crashes>>

\* resume_pending_queued_tasks: the tasks with a mark are listed once, ...
ScanQueued ==
  /\ Stage = "scan"
  /\ toResume' = {t \in Task : status[t] = "pending" /\ queued[t]}
  /\ NextStage
  /\ UNCHANGED <<vars, crashes>>

\* ... and started one after the other, oldest first.
Oldest(t) == t \in toResume /\ \A u \in toResume : Rank[t] <= Rank[u]

ResumeNext ==
  /\ Stage = "resume"
  /\ pc[Booter] = "idle"
  /\ \E t \in Task : Oldest(t) /\ MayStart(t) /\ Enter(Booter, t, "check")
  /\ UNCHANGED <<dbVars, memVars, execVars, cancelAck, bootVars>>

\* A refused task gets its mark again, with the reason of the refusal.
ResumeEnd ==
  /\ Stage = "resume"
  /\ pc[Booter] \in Returned
  /\ \E t \in Task :
       /\ Oldest(t)
       /\ queued' = [queued EXCEPT
            ![t] = IF pc[Booter] = "rejected" THEN status[t] # "deleted" ELSE @]
       /\ toResume' = toResume \ {t}
  /\ Goto(Booter, "idle")
  /\ UNCHANGED <<status, lockOf, memVars, execVars, arg, slot, cancelAck, phase,
                 crashes>>

BootDone ==
  /\ Stage = "resume"
  /\ toResume = {}
  /\ NextStage
  /\ UNCHANGED <<vars, toResume, crashes>>

Boot ==
  \/ ResetDeadTask \/ NoDeadTask \/ RemoveStaleLocks \/ ScanQueued
  \/ ResumeNext \/ ResumeEnd \/ BootDone

-----------------------------------------------------------------------------
\* Workers run as soon as something is started; requests wait for the service.
RuntimeStep ==
  /\ \/ Begin
     \/ \E x \in Exec : ExecutionStep(x)
     \/ \E th \in Thread : StartStep(th)
     \/ \E c \in Caller : Stage = "serving" /\ (Request(c) \/ OperationStep(c))
  /\ UNCHANGED bootVars

RNext == RuntimeStep \/ Boot \/ Crash

RSpec == RInit /\ [][RNext]_rvars

\* As in the runtime, and the boot thread runs. No crash has to happen.
RFairness ==
  /\ WF_rvars(Begin /\ UNCHANGED bootVars)
  /\ \A x \in Exec :
       /\ WF_rvars(ExecutionStep(x) /\ UNCHANGED bootVars)
       /\ SF_rvars((RelayNobody(x) \/ RelayNext(x)) /\ UNCHANGED bootVars)
  /\ \A th \in Thread : WF_rvars(StartStep(th) /\ UNCHANGED bootVars)
  /\ \A c \in Caller : WF_rvars(OperationStep(c) /\ UNCHANGED bootVars)
  /\ WF_rvars(Boot)

FairRSpec == RSpec /\ RFairness

-----------------------------------------------------------------------------
Recovered == Stage \in {"resume", "serving"}

\* Whatever the point at which the process ended: once boot has cleaned up, a
\* lock belongs to a task that is being started or executed. A lock of a dead
\* execution would never be released, since nothing ends that could do it.
LocksRecovered == Recovered => NoLockLeak

\* The same for running rows: none is left that no thread of this process
\* works on.
RunningRecovered == Recovered => RunningHasThread
=============================================================================
