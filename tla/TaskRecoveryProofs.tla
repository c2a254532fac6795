------------------------- MODULE TaskRecoveryProofs -------------------------
(***************************************************************************)
(* Proofs about TaskRecovery: what TaskRuntimeProofs shows of the runtime  *)
(* survives the end of the process at any point, and the boot after it.    *)
(***************************************************************************)
EXTENDS TaskRecovery, TaskRuntimeProofs

-----------------------------------------------------------------------------
(* The inductive invariant. *)

BootTyped ==
  /\ phase \in 1..5
  /\ toResume \subseteq Task
  /\ crashes \in 0..MaxCrash

\* Before the queued tasks are resumed nothing of the runtime moves.
Still ==
  /\ queue = <<>>
  /\ \A x \in Exec : exec[x] = "none"
  /\ \A th \in Thread : pc[th] = "idle"

StillBefore == phase \in 1..3 => Still

RIInv == BootTyped /\ IInv /\ StillBefore

-----------------------------------------------------------------------------
\* The names of the stages.
LEMMA StageNames ==
  ASSUME phase \in 1..5
  PROVE  /\ Stage = "dead" <=> phase = 1
         /\ Stage = "locks" <=> phase = 2
         /\ Stage = "scan" <=> phase = 3
         /\ Stage = "resume" <=> phase = 4
         /\ Stage = "serving" <=> phase = 5
BY DEF Stage, Stages

\* A runtime in which nothing moves satisfies the invariant about the locks,
\* whatever the rows say.
LEMMA StillHolds ==
  ASSUME Still
  PROVE  LockInv
BY DEF Still, LockInv, OneStarter, Starting, StartPc, RestartPc, PopsDeleted,
   StarterHoldsLocks, Reserving, EnqueuesHandle, StartsAlone, Alone, HandledIsCurrent,
   ExecutionHoldsLocks, Handled, Unreleased, Exec

\* Where nothing moves, a step of the runtime needs a request.
LEMMA StillStays ==
  ASSUME Still, Typed
  PROVE  /\ ~Begin
         /\ \A x \in Exec : ~ExecutionStep(x)
         /\ \A th \in Thread : ~StartStep(th)
<1>1. ~Begin
  BY DEF Still, Begin
<1>2. ASSUME NEW x \in Exec PROVE ~ExecutionStep(x)
  BY DEF Still, ExecutionStep, ExecStep, TaskMissing, MarkTaskRunning, FinishWork,
     ReadVerdict, WriteVerdict, CloseReplaced, CloseActive, ReleaseResources, Cleanup,
     RelayNobody, RelayNext, RelayEnd
<1>3. ASSUME NEW th \in Thread PROVE ~StartStep(th)
  BY DEF Still, StartStep, Step, CheckHandle, ReadTask, QueueForSheet, AcquireSheets,
     ValidateFails, MarkRunning, MarkRunningTooLate, TakeToken, TokenFails,
     RejectForQuota, Admit, Register, Enqueue, SubmitFails, Rollback
<1> QED BY <1>1, <1>2, <1>3

\* The process may end at any time.
LEMMA CrashKeeps ==
  ASSUME RIInv, Crash
  PROVE  RIInv'
<1>1. BootTyped'
  BY RecoveryAssumption DEF RIInv, BootTyped, Crash
<1>2. Typed'
  BY ConstantsAssumption DEF RIInv, IInv, Crash, dbVars, Typed, DbTyped, DictsTyped,
     RestTyped, ExecTyped, ThreadsTyped, Returned, Status, ExecPc, Outcome, Pc, Slot,
     Exec, Thread
<1>3. Still'
  BY DEF Crash, Still
<1>4. LockInv'
  BY <1>3, StillHolds, PTL
<1> QED BY <1>1, <1>2, <1>3, <1>4 DEF RIInv, IInv, StillBefore

\* A step of the runtime comes after the clean-up.
LEMMA RuntimePhase ==
  ASSUME RIInv, RuntimeStep
  PROVE  phase \in 4..5
BY StillStays, StageNames DEF RIInv, IInv, StillBefore, RuntimeStep, BootTyped

\* The runtime does what it does without boot.
LEMMA RuntimeKeeps ==
  ASSUME SerialStarts, RIInv, RuntimeStep
  PROVE  RIInv'
<1>1. Next
  BY DEF RuntimeStep, Next
<1>2. IInv'
  BY <1>1, NextKeepsLocks DEF RIInv
<1>3. BootTyped'
  BY DEF RIInv, RuntimeStep, bootVars, BootTyped
<1>4. phase \notin 1..3
  BY RuntimePhase
<1> QED BY <1>2, <1>3, <1>4 DEF RIInv, StillBefore, RuntimeStep, bootVars

\* Boot: it repairs rows while nothing moves, and then starts tasks as any
\* other thread does.
LEMMA BootKeeps ==
  ASSUME SerialStarts, RIInv, Boot
  PROVE  RIInv'
<1> USE DEF RIInv
<1>0. phase \in 1..5 /\ Typed /\ LockInv /\ ThreadsTyped /\ Booter \in Thread
  BY RecoveryAssumption DEF BootTyped, IInv, Typed, Thread
<1>1. CASE ResetDeadTask
  <2>1. BootTyped' /\ phase' = phase /\ phase = 1
    BY <1>0, <1>1, StageNames DEF ResetDeadTask, bootVars, BootTyped
  <2>2. Typed'
    BY <1>0, <1>1 DEF ResetDeadTask, memVars, dictVars, execVars, workVars, threadVars, Typed,
       DbTyped, DictsTyped, RestTyped, ExecTyped, ThreadsTyped, Status
  <2>3. Still'
    BY <1>1, <2>1 DEF ResetDeadTask, memVars, execVars, threadVars, StillBefore, Still
  <2>4. LockInv'
    BY <2>3, StillHolds, PTL
  <2> QED BY <2>1, <2>2, <2>3, <2>4 DEF IInv, StillBefore
<1>2. CASE NoDeadTask \/ ScanQueued \/ BootDone
  <2>1. UNCHANGED vars /\ phase' = phase + 1 /\ phase \in {1, 3, 4}
    BY <1>0, <1>2, StageNames DEF NoDeadTask, ScanQueued, BootDone, NextStage
  <2>2. BootTyped'
    BY <1>2, <2>1 DEF NoDeadTask, ScanQueued, BootDone, BootTyped
  <2>3. IInv'
    BY <2>1, StutterKeeps
  <2>4. phase = 1 => Still'
    BY <2>1 DEF vars, memVars, execVars, threadVars, StillBefore, Still
  <2> QED BY <2>1, <2>2, <2>3, <2>4 DEF StillBefore
<1>3. CASE RemoveStaleLocks
  <2>1. BootTyped' /\ phase = 2
    BY <1>0, <1>3, StageNames DEF RemoveStaleLocks, NextStage, BootTyped
  <2>2. Typed'
    BY <1>0, <1>3 DEF RemoveStaleLocks, memVars, dictVars, execVars, workVars, threadVars,
       Typed, DbTyped, DictsTyped, RestTyped, ExecTyped, ThreadsTyped
  <2>3. Still'
    BY <1>3, <2>1 DEF RemoveStaleLocks, memVars, execVars, threadVars, StillBefore, Still
  <2>4. LockInv'
    BY <2>3, StillHolds, PTL
  <2> QED BY <2>1, <2>2, <2>3, <2>4 DEF IInv, StillBefore
<1>4. CASE ResumeNext
  <2>1. BootTyped' /\ phase' = 4
    BY <1>0, <1>4, StageNames DEF ResumeNext, bootVars, BootTyped
  <2>2. PICK t \in Task : MayStart(t) /\ Enter(Booter, t, "check")
    BY <1>4 DEF ResumeNext
  <2>3. ThreadsTyped'
    BY <1>0, <2>2, EnterTyped DEF Pc, StartPc
  <2>4. Typed'
    BY <1>0, <1>4, <2>3 DEF ResumeNext, dbVars, memVars, dictVars, execVars, workVars, Typed,
       DbTyped, DictsTyped, RestTyped, ExecTyped
  <2>5. Untouched
    BY <1>4 DEF ResumeNext, Untouched, dbVars, memVars, dictVars, execVars
  <2>6. OthersStay(Booter) /\ GainsNothing(Booter)
    BY <1>0, <2>2, EnterGains
  <2>7. LockInv'
    BY <1>0, <2>3, <2>5, <2>6, QuietStep
  <2> QED BY <2>1, <2>4, <2>7 DEF IInv, StillBefore
<1>5. CASE ResumeEnd
  <2>1. BootTyped' /\ phase' = 4
    BY <1>0, <1>5, StageNames DEF ResumeEnd, BootTyped
  <2>2. ThreadsTyped'
    BY <1>0, <1>5 DEF ResumeEnd, Goto, ThreadsTyped, Pc
  <2>3. queued' \in [Task -> BOOLEAN]
    BY <1>0, <1>5 DEF ResumeEnd, Typed, DbTyped
  <2>4. Typed'
    BY <1>0, <1>5, <2>2, <2>3 DEF ResumeEnd, memVars, dictVars, execVars, workVars, Typed,
       DbTyped, DictsTyped, RestTyped, ExecTyped
  <2>5. Untouched
    BY <1>5 DEF ResumeEnd, Untouched, memVars, dictVars, execVars
  <2>6. OthersStay(Booter) /\ GainsNothing(Booter)
    BY <1>0, <1>5 DEF ResumeEnd, Goto, ThreadsTyped, OthersStay, GainsNothing, Starting,
       StartPc, RestartPc, Reserving, Alone
  <2>7. LockInv'
    BY <1>0, <2>2, <2>5, <2>6, QuietStep
  <2> QED BY <2>1, <2>4, <2>7 DEF IInv, StillBefore
<1> QED BY <1>1, <1>2, <1>3, <1>4, <1>5 DEF Boot

-----------------------------------------------------------------------------
(* The theorems. *)

\* Initially, and over every step: crashes included.
LEMMA RInitHolds == RInit => RIInv
BY InitTyped, InitLocks, RecoveryAssumption
   DEF RInit, RIInv, BootTyped, IInv, StillBefore, Still, Init

LEMMA RNextKeeps ==
  ASSUME SerialStarts, RIInv, [RNext]_rvars
  PROVE  RIInv'
<1>1. CASE UNCHANGED rvars
  <2>1. IInv'
    BY <1>1, StutterKeeps DEF rvars, RIInv
  <2>2. BootTyped' /\ StillBefore'
    BY <1>1 DEF rvars, bootVars, vars, memVars, execVars, threadVars, RIInv, BootTyped,
       StillBefore, Still
  <2> QED BY <2>1, <2>2 DEF RIInv
<1> QED BY <1>1, CrashKeeps, RuntimeKeeps, BootKeeps DEF RNext

\* The invariant holds throughout, over any number of crashes.
LEMMA RecoveryInvariant == ASSUME SerialStarts PROVE RSpec => []RIInv
BY RInitHolds, RNextKeeps, PTL DEF RSpec

\* Every variable of the runtime and of boot keeps its type.
THEOREM RecoveryTypeCorrect == ASSUME SerialStarts PROVE RSpec => []RecoveryTypeOK
<1>1. RIInv => RecoveryTypeOK
  BY TypedIsTypeOK DEF RIInv, IInv, BootTyped, RecoveryTypeOK, Stages
<1> QED BY <1>1, RecoveryInvariant, PTL

\* However often the process ends, and whatever it leaves in the rows, two
\* executions never work on one sheet or for one task.
THEOREM RecoveredSheetsAreExclusive ==
  ASSUME SerialStarts PROVE RSpec => []SheetExclusive
<1>1. RIInv => SheetExclusive
  BY WorkingHolds, HoldsExcludes DEF RIInv
<1> QED BY <1>1, RecoveryInvariant, PTL

-----------------------------------------------------------------------------
(* What the clean-up restores. *)

\* A lock is always one that its task's start took. Before the queued tasks are
\* resumed the dictionaries are empty; from the second stage on no row runs,
\* from the third on no sheet is locked; and what is true of the runtime is
\* true again from the moment it moves.
BootInv ==
  /\ \A t \in Task : LocksOwnSheets(t)
  /\ phase \in 1..3 => tokenHeld = {} /\ \A t \in Task : handle[t] = 0
  /\ phase \in 2..3 => \A t \in Task : status[t] # "running"
  /\ phase = 3 => \A s \in Sheet : lockOf[s] = None
  /\ phase \in 4..5 => AInv /\ Placed

RFullInv == RIInv /\ BootInv

\* Where nothing moves and nothing is held, everything is accounted for.
LEMMA CleanHolds ==
  ASSUME Still, tokenHeld = {}, \A t \in Task : status[t] # "running",
         \A s \in Sheet : lockOf[s] = None
  PROVE  AInv /\ Placed
BY ConstantsAssumption DEF Still, AInv, Accounted, LocksOwnSheets, HoldsAccounted, Holds,
   DeletedHolds, BusyIsWorker, VerdictWritten, StartingAt, ExecutingAt, Undone, Handled,
   Unreleased, Placed, Exec, Thread

LEMMA StutterAccounts ==
  ASSUME AInv, Placed, UNCHANGED vars
  PROVE  AInv' /\ Placed'
<1>1. AInv'
  BY SameIsKept DEF AInv, vars, dbVars, memVars, dictVars, execVars, threadVars, SameRows,
     SameExecs, StartsOn, StartingAt
<1>2. Placed'
  BY DEF vars, execVars, threadVars, Placed
<1> QED BY <1>1, <1>2

\* The boot thread enters start_task and leaves it as any other thread does.
LEMMA BooterAccounts ==
  ASSUME RIInv, AInv, Placed, ResumeNext \/ ResumeEnd
  PROVE  AInv' /\ Placed'
<1>1. ThreadsTyped /\ Booter \in Thread /\ Booter \notin Exec
  BY RecoveryAssumption, ConstantsAssumption DEF RIInv, IInv, Typed, Thread
<1>2. /\ pc[Booter] \in {"idle"} \cup Returned
      /\ pc'[Booter] \in {"idle", "check"}
      /\ OthersStay(Booter)
      /\ UNCHANGED <<status, lockOf, tokenHeld, workerId, exec>>
  <2>1. CASE ResumeNext
    BY <1>1, <2>1 DEF ResumeNext, Enter, Goto, OthersStay, ThreadsTyped, dbVars, memVars,
       dictVars, execVars
  <2>2. CASE ResumeEnd
    BY <1>1, <2>2 DEF ResumeEnd, Goto, OthersStay, ThreadsTyped, memVars, dictVars, execVars
  <2> QED BY <2>1, <2>2
<1>3. \A t \in Task : StartsOn(t) /\ SameRows(t) /\ SameExecs(t)
  BY <1>1, <1>2, StartsElsewhere DEF SameRows, SameExecs, Reserving, Returned
<1>4. AInv'
  BY <1>3, SameIsKept DEF AInv
<1>5. Placed'
  BY <1>1, <1>2 DEF Placed, OthersStay, Thread
<1> QED BY <1>4, <1>5

\* Every step of boot, and the end of the process at any point.
LEMMA BootRestores ==
  ASSUME SerialStarts, RFullInv, Boot
  PROVE  BootInv'
<1> USE DEF RFullInv, RIInv
<1>0. phase \in 1..5 /\ Typed /\ DbTyped /\ BootInv
  BY DEF BootTyped, IInv, Typed
<1>1. CASE ResetDeadTask
  <2>1. /\ phase' = 1 /\ phase = 1 /\ UNCHANGED lockOf
        /\ UNCHANGED <<handle, tokenHeld>>
    BY <1>0, <1>1, StageNames DEF ResetDeadTask, bootVars, memVars, dictVars
  <2> QED BY <1>0, <2>1 DEF BootInv, LocksOwnSheets
<1>2. CASE NoDeadTask
  <2>1. phase = 1 /\ phase' = 2 /\ UNCHANGED <<status, lockOf, handle, tokenHeld>>
    BY <1>0, <1>2, StageNames DEF NoDeadTask, NextStage, vars, dbVars, memVars, dictVars
  <2>2. \A t \in Task : status[t] # "running"
    <3>1. \A t \in Task : ~HandleAlive(t)
      BY <1>0, <2>1 DEF HandleAlive, BootInv
    <3>2. Dead = {}
      BY <1>2 DEF NoDeadTask
    <3> QED BY <3>1, <3>2 DEF Dead
  <2> QED BY <1>0, <2>1, <2>2 DEF BootInv, LocksOwnSheets
<1>3. CASE RemoveStaleLocks
  <2>1. /\ phase = 2 /\ phase' = 3 /\ UNCHANGED <<status, handle, tokenHeld>>
        /\ \A s \in Sheet : lockOf'[s] = IF lockOf[s] # None /\ StaleHolder(lockOf[s])
                                          THEN None ELSE lockOf[s]
    BY <1>0, <1>3, StageNames DEF RemoveStaleLocks, NextStage, memVars, dictVars
  <2>2. \A s \in Sheet : lockOf'[s] = None
    BY <1>0, <2>1 DEF BootInv, StaleHolder, DbTyped
  <2>3. \A t \in Task : LocksOwnSheets(t)'
    BY <2>2, ConstantsAssumption DEF LocksOwnSheets
  <2> QED BY <1>0, <2>1, <2>2, <2>3 DEF BootInv
<1>4. CASE ScanQueued \/ BootDone
  <2>1. phase \in {3, 4} /\ phase' = phase + 1 /\ UNCHANGED vars
    BY <1>0, <1>4, StageNames DEF ScanQueued, BootDone, NextStage
  <2>2. AInv /\ Placed
    <3>1. CASE phase = 3
      BY <1>0, <3>1, CleanHolds DEF BootInv, StillBefore
    <3>2. CASE phase = 4
      BY <1>0, <3>2 DEF BootInv
    <3> QED BY <2>1, <3>1, <3>2
  <2>3. AInv' /\ Placed'
    BY <2>1, <2>2, StutterAccounts
  <2> QED BY <2>1, <2>3 DEF BootInv, AInv, Accounted
<1>5. CASE ResumeNext \/ ResumeEnd
  <2>1. phase = 4 /\ phase' = 4
    BY <1>0, <1>5, StageNames DEF ResumeNext, ResumeEnd, bootVars
  <2>2. AInv' /\ Placed'
    BY <1>0, <1>5, <2>1, BooterAccounts DEF BootInv
  <2> QED BY <2>1, <2>2 DEF BootInv, AInv, Accounted
<1> QED BY <1>1, <1>2, <1>3, <1>4, <1>5 DEF Boot

LEMMA OthersRestore ==
  ASSUME SerialStarts, RFullInv, Crash \/ RuntimeStep \/ UNCHANGED rvars
  PROVE  BootInv'
<1>1. CASE Crash
  <2>1. /\ phase' = 1 /\ tokenHeld' = {} /\ UNCHANGED lockOf
        /\ \A t \in Task : handle'[t] = 0
    BY <1>1 DEF Crash, dbVars
  <2> QED BY <2>1 DEF RFullInv, BootInv, LocksOwnSheets
<1>2. CASE RuntimeStep
  <2>1. phase \in 4..5 /\ phase' = phase /\ Next
    BY <1>2, RuntimePhase DEF RFullInv, RuntimeStep, bootVars, Next
  <2>2. HeldInv'
    BY <2>1, NextAccounts DEF RFullInv, RIInv, BootInv, HeldInv
  <2> QED BY <2>1, <2>2 DEF HeldInv, BootInv, AInv, Accounted
<1>3. CASE UNCHANGED rvars
  <2>1. UNCHANGED vars /\ phase' = phase
    BY <1>3 DEF rvars, bootVars
  <2>2. phase \in 4..5 => AInv' /\ Placed'
    BY <2>1, StutterAccounts DEF RFullInv, BootInv
  <2> QED BY <2>1, <2>2 DEF RFullInv, BootInv, LocksOwnSheets, vars, dbVars, memVars, dictVars
<1> QED BY <1>1, <1>2, <1>3

LEMMA RecoveryAccounts == ASSUME SerialStarts PROVE RSpec => []RFullInv
<1>1. RInit => RFullInv
  BY RInitHolds, ConstantsAssumption DEF RInit, Init, RFullInv, BootInv, LocksOwnSheets
<1>2. RFullInv /\ [RNext]_rvars => RFullInv'
  BY RNextKeeps, BootRestores, OthersRestore DEF RFullInv, RNext
<1> QED BY <1>1, <1>2, PTL DEF RSpec

LEMMA RecoveredHolds == RFullInv => LocksRecovered /\ RunningRecovered
<1> SUFFICES ASSUME RFullInv, Recovered PROVE NoLockLeak /\ RunningHasThread
  BY DEF LocksRecovered, RunningRecovered
<1>1. phase \in 4..5
  BY StageNames DEF Recovered, RFullInv, RIInv, BootTyped
<1> QED BY <1>1, AccountedHolds DEF RFullInv, RIInv, BootInv, HeldInv

\* However often and wherever the process ends: once boot has cleaned up, every
\* lock left in the table belongs to a task that someone starts or executes.
THEOREM LocksAreRecovered == ASSUME SerialStarts PROVE RSpec => []LocksRecovered
BY RecoveryAccounts, RecoveredHolds, PTL

\* ... and so does every row that says running.
THEOREM RunningIsRecovered == ASSUME SerialStarts PROVE RSpec => []RunningRecovered
BY RecoveryAccounts, RecoveredHolds, PTL
=============================================================================
