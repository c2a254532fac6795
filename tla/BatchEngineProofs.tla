------------------------- MODULE BatchEngineProofs -------------------------
(***************************************************************************)
(* Proofs about the batch engines, for any plans, spreadsheets, faults and *)
(* numbers of executions.                                                  *)
(*                                                                         *)
(* The first part is about the progress of a task: what the rows, the      *)
(* checkpoint and the loop of the execution have to do with each other.    *)
(* The engines move the checkpoint before or after the row, and resume     *)
(* from the checkpoint or from the rows; the invariant says for each kind  *)
(* which combinations may lack a row.                                      *)
(*                                                                         *)
(* The second part is about results and inputs: what an engine accepts is  *)
(* a difference between what the outputs show and what they showed before, *)
(* and the invariant says at every step which recalculations can make such *)
(* a difference. The third part is about spreadsheets that keep up: a look *)
(* after a refresh is accepted.                                            *)
(***************************************************************************)
EXTENDS BatchEngine, FiniteSetTheorems, WellFoundedInduction, TLAPS

ResumeAfter == {"c3", "c5", "c7", "c1_1"}

Covered == SavedSteps \cup gaps

\* The row of the combination in hand is there already.
RowSaved == pc = "share" \/ (pc = "push" /\ job.engine \in CommitFirst)

\* The checkpoint has passed the combination in hand.
Counted == pc = "save" \/ RowSaved

Where ==
  /\ pc \notin {"idle", "clear", "settle", "next"} => i < Total
  /\ pc # "idle" => status \in {"running", "cancelled"} /\ run \in 1..MaxRuns
  /\ pc \in {"begin", "reuse", "share"} => job.engine \in BeginFirst
  /\ pc \in {"push", "commit"} => job.engine \in PushFirst \cup CommitFirst
  /\ job.engine \in Engines

BeginFirstInv ==
  /\ gaps = {}
  /\ ~cleaned =>
       /\ 1..(step - 1) \subseteq SavedSteps
       /\ \A n \in SavedSteps : 1..n \subseteq SavedSteps
       /\ pc # "idle" => SavedSteps = 1..(IF RowSaved THEN i + 1 ELSE i)

ResumeAfterInv ==
  /\ SavedSteps \subseteq 1..step
  /\ pc # "idle" => step = (IF Counted THEN i + 1 ELSE i)
  /\ pc = "save" => SavedSteps \subseteq 1..i
  /\ ~cleaned => (IF pc = "save" THEN 1..i ELSE 1..step) \subseteq Covered

C4Inv ==
  /\ gaps = {}
  /\ SavedSteps \subseteq 1..step
  /\ pc # "idle" => step \in {i, i + 1}
  /\ pc # "idle" /\ Counted => step = i + 1
  /\ ~cleaned =>
       /\ 1..(step - 1) \subseteq SavedSteps
       /\ pc # "idle" => 1..(IF RowSaved THEN i + 1 ELSE i) \subseteq SavedSteps

\* Rows of a combination that an earlier execution has saved as well.
Repeated == {r \in rows : \E q \in rows : q.step = r.step /\ q.run < r.run}

Single ==
  /\ IsFiniteSet(rows)
  /\ ~cleaned /\ job.engine # "c4" => \A r, q \in rows : r.step = q.step => r = q
  /\ ~cleaned /\ job.engine = "c4" =>
       /\ \A r, q \in rows : r.step = q.step /\ r.run = q.run => r = q
       /\ \A r, q \in Repeated : r.run = q.run => r = q
       /\ pc \notin {"idle", "push"} /\ (\E r \in rows : r.run = run) => SavedSteps \subseteq 1..i

Told ==
  job.engine \in PushFirst =>
    /\ pc \in {"commit", "save"} => <<i + 1, run>> \in pushed
    /\ \A r \in rows : <<r.step, r.run>> \in pushed

Progress ==
  /\ TypeOK
  /\ Where
  /\ job.engine \in BeginFirst => BeginFirstInv
  /\ job.engine \in ResumeAfter => ResumeAfterInv
  /\ job.engine = "c4" => C4Inv
  /\ Single
  /\ Told
  /\ NothingLost
-----------------------------------------------------------------------------
(* Kinds of steps: what a step does to the progress of the task, whatever it *)
(* does to the spreadsheets and the poll loop.                               *)

progress == <<job, status, step, rows, pushed, run, i, gaps, cleaned>>

\* Between the beginning of a combination and its result.
Trying == {"set", "reset", "refresh", "snapshot", "write", "rewrite", "resnapshot", "poll"}
Opening == {"clear", "settle", "next"}

\* The execution goes on, with no effect on the progress.
GoesOn ==
  /\ UNCHANGED progress
  /\ \/ UNCHANGED pc
     \/ pc \in Opening /\ pc' \in Opening
     \/ pc \in Trying /\ pc' \in Trying
     \/ pc = "next" /\ i < Total /\ pc' = (IF job.engine \in BeginFirst THEN "begin" ELSE "set")
     \/ pc = "poll" /\ pc' = FirstDuty

\* The execution ends: as finished after the last combination, or otherwise.
Ends ==
  /\ pc # "idle" /\ pc' = "idle"
  /\ UNCHANGED <<job, step, rows, pushed, run, i, cleaned>>
  /\ gaps' = gaps \cup Gap
  /\ status' \in {"pending", "completed", "error", "cancelled"}
  /\ status' = "completed" => pc = "next" /\ i = Total

LEMMA TotalPositive ==
  ASSUME job.engine \in Engine
  PROVE  Total \in Nat \ {0} /\ DOMAIN Plan = 1..Total
BY BatchAssumption DEF Total, Plan

LEMMA Kinds ==
  ASSUME TypeOK, Where, [Next]_vars
  PROVE  \/ GoesOn \/ Ends
         \/ Begin \/ MarkBegun \/ Push \/ Commit \/ Save \/ SaveReused \/ Share
         \/ Cancel \/ Resume \/ RestartFromScratch \/ CleanupOldest
<1>1. CASE \/ SetInputs \/ RefreshInputs \/ RefreshSettled \/ Snapshot \/ Write
           \/ Resnapshot \/ PollAgain \/ Retry
  BY <1>1 DEF SetInputs, RefreshInputs, RefreshSettled, Snapshot, Write, Resnapshot,
     PollAgain, Retry, PollRejects, GoesOn, progress, Trying, dbVars, ghostVars, BeginFirst
<1>2. CASE NextCombination \/ PollAccepts
  BY <1>2 DEF NextCombination, PollAccepts, GoesOn, progress, dbVars, ghostVars
<1>3. CASE ClearColumns \/ Settle
  BY <1>3 DEF ClearColumns, Settle, GoesOn, progress, Opening, dbVars, ghostVars
<1>4. CASE (\E s \in Sheet : Recalculate(s)) \/ SiblingShares \/ UNCHANGED vars
  BY <1>4 DEF Recalculate, SiblingShares, vars, GoesOn, progress, dbVars, execVars, ghostVars
<1>5. CASE CancelSeen \/ CancelInterrupts
  BY <1>5 DEF CancelSeen, CancelInterrupts, Interrupted, Finish, End, Ends, Gap, ghostVars
<1>6. CASE LoopEnds
  BY <1>6 DEF LoopEnds, Finish, End, Ends, Gap, ghostVars
<1>7. CASE RefreshBreaks \/ TimeOut \/ CommitFails \/ PushFails
  BY <1>7 DEF RefreshBreaks, TimeOut, CommitFails, PushFails, FaultAt, PollRejects, Fail,
     End, Ends, Gap, ghostVars
<1>8. CASE SaveFails
  BY <1>8 DEF SaveFails, FaultAt, Fail, End, Ends, ghostVars
<1>9. CASE Crash
  BY <1>9 DEF Crash, Ends, Where
<1> QED
  BY <1>1, <1>2, <1>3, <1>4, <1>5, <1>6, <1>7, <1>8, <1>9 DEF Next, EngineStep

\* The first combination without a row, where ResumeAtFirstMissing finds it.
LEMMA FirstMissing ==
  ASSUME TypeOK, Where, rows # {}
  PROVE  /\ ResumeAtFirstMissing \in 0..Total
         /\ ResumeAtFirstMissing + 1 \notin SavedSteps
         /\ 1..ResumeAtFirstMissing \subseteq SavedSteps
<1>1. Total \in Nat
  BY TotalPositive DEF TypeOK
<1> DEFINE Missing(n) == n \in 1..(Total + 1) /\ n \notin SavedSteps
           M == {n \in Nat : Missing(n)}
           First(n) == n \notin SavedSteps /\ \A m \in 1..(n - 1) : m \in SavedSteps
<1>2. Total + 1 \in M
  <2>1. SavedSteps \subseteq 1..Total
    BY DEF SavedSteps, TypeOK
  <2> QED
    BY <1>1, <2>1
<1>3. PICK n \in M : \A y \in M : ~(<<y, n>> \in OpToRel(<, Nat))
  BY <1>2, WFMin, NatLessThanWellFounded, Zenon
<1>4. n \in 1..(Total + 1) /\ n \in Nat
  BY <1>3
<1>5. First(n)
  <2>1. n \notin SavedSteps
    BY <1>3
  <2>2. ASSUME NEW m \in 1..(n - 1), m \notin SavedSteps PROVE FALSE
    <3>1. m \in M /\ m < n
      BY <1>1, <1>4, <2>2
    <3>2. <<m, n>> \in OpToRel(<, Nat)
      BY <3>1, <1>4 DEF OpToRel
    <3> QED
      BY <3>1, <3>2, <1>3
  <2> QED
    BY <2>1, <2>2
<1>6. \E k \in 1..(Total + 1) : First(k)
  BY <1>4, <1>5
<1> DEFINE f == CHOOSE k \in 1..(Total + 1) : First(k)
<1>7. f \in 1..(Total + 1) /\ First(f)
  BY <1>6
<1>8. ResumeAtFirstMissing = f - 1
  BY DEF ResumeAtFirstMissing
<1> HIDE DEF f
<1> QED
  BY <1>1, <1>7, <1>8

-----------------------------------------------------------------------------
(* Types, and where an execution can be. *)

\* The types of what the kinds of steps do not speak of.
PollTypes ==
  /\ DOMAIN input = Sheet /\ DOMAIN output = Sheet
  /\ attempt \in 0..PollLimit /\ tries \in 0..RetryLimit
  /\ timedOut \in BOOLEAN
  /\ notified \subseteq 1..MaxRuns

LEMMA PollTypesKept ==
  ASSUME TypeOK, Where, [Next]_vars
  PROVE  PollTypes'
<1> USE DEF PollTypes, TypeOK, Where, ghostVars, sheetVars
<1>1. PollLimit \in Nat \ {0} /\ RetryLimit \in Nat \ {0} /\ MaxRuns \in Nat \ {0}
  BY BatchAssumption
<1>2. CASE ClearColumns \/ Settle \/ SetInputs \/ RefreshInputs \/ Write
  BY <1>2 DEF ClearColumns, Settle, SetInputs, RefreshInputs, Write, ClearForRefresh,
     ClearKline, ClearParams
<1>3. CASE \E s \in Sheet : Recalculate(s)
  BY <1>3 DEF Recalculate, execVars
<1>4. CASE \/ CancelSeen \/ CancelInterrupts \/ LoopEnds
  BY <1>4 DEF CancelSeen, CancelInterrupts, LoopEnds, Interrupted, Finish, End
<1>5. CASE Begin
  BY <1>5, <1>1 DEF Begin
<1>10. CASE NextCombination
  BY <1>10, <1>1 DEF NextCombination
<1>13. CASE PollAccepts
  BY <1>13 DEF PollAccepts, Reading
<1>6. CASE \/ MarkBegun \/ RefreshSettled \/ Snapshot \/ Resnapshot
           \/ Push \/ Commit \/ Save \/ SaveReused \/ Share
  BY <1>6 DEF MarkBegun, RefreshSettled, Snapshot, Resnapshot, Push, Commit,
     Save, SaveReused, Share
<1>7. CASE PollAgain
  <2>1. attempt' \in 0..PollLimit
    BY <1>7, <1>1 DEF PollAgain
  <2> QED
    BY <1>7, <2>1 DEF PollAgain
<1>11. CASE Retry
  <2>1. attempt' \in 0..PollLimit /\ tries' \in 0..RetryLimit
    BY <1>11, <1>1 DEF Retry, CountTry
  <2> QED
    BY <1>11, <2>1 DEF Retry
<1>12. CASE TimeOut
  BY <1>12 DEF TimeOut
<1>8. CASE RefreshBreaks \/ CommitFails \/ PushFails \/ SaveFails \/ Crash
  BY <1>8 DEF RefreshBreaks, CommitFails, PushFails, SaveFails, Crash
<1>9. CASE \/ SiblingShares \/ Cancel \/ Resume \/ RestartFromScratch \/ CleanupOldest
           \/ UNCHANGED vars
  BY <1>9 DEF SiblingShares, Cancel, Resume, RestartFromScratch, CleanupOldest, vars, execVars
<1> QED
  BY <1>2, <1>3, <1>4, <1>5, <1>6, <1>7, <1>8, <1>9, <1>10, <1>11, <1>12, <1>13
     DEF Next, EngineStep

\* Where an execution may start to look for its first combination.
LEMMA StartIndexBounds ==
  ASSUME TypeOK, Where
  PROVE  StartIndex \in 0..Total
<1>1. Total \in Nat \ {0} /\ step \in 0..Total
  BY TotalPositive DEF TypeOK
<1>2. ResumeAtCheckpoint \in 0..Total /\ ResumeAfterCheckpoint \in 0..Total
  BY <1>1 DEF ResumeAtCheckpoint, ResumeAfterCheckpoint
<1>3. ResumeAtFirstMissing \in 0..Total
  BY <1>2, FirstMissing DEF ResumeAtFirstMissing
<1> QED
  BY <1>2, <1>3 DEF StartIndex

Control == TypeOK /\ Where

LEMMA ControlInit ==
  ASSUME Init
  PROVE  Control
<1>1. job.engine \in Engine /\ job.engine \in Engines
  BY BatchAssumption DEF Init
<1>2. Total \in Nat \ {0}
  BY <1>1, TotalPositive
<1>3. PollLimit \in Nat \ {0} /\ RetryLimit \in Nat \ {0} /\ MaxRuns \in Nat \ {0}
  BY BatchAssumption
<1>4. DOMAIN input = Sheet /\ DOMAIN output = Sheet
  BY DEF Init
<1>5. /\ job \in [engine : Engine, custom : BOOLEAN, prompt : BOOLEAN]
      /\ status = "pending" /\ step = 0 /\ rows = {} /\ pushed = {} /\ run = 0 /\ pc = "idle"
      /\ i = 0 /\ attempt = 0 /\ tries = 0 /\ timedOut = FALSE /\ notified = {} /\ gaps = {}
      /\ cleaned = FALSE
  BY DEF Init
<1>6. 0 \in 0..Total /\ 0 \in 0..MaxRuns /\ 0 \in 0..PollLimit /\ 0 \in 0..RetryLimit
  BY <1>2, <1>3
<1>7. TypeOK
  BY <1>4, <1>5, <1>6 DEF TypeOK, Pc
<1>8. Where
  BY <1>1, <1>5 DEF Where
<1> QED
  BY <1>7, <1>8 DEF Control

LEMMA ControlKept ==
  ASSUME Control, [Next]_vars
  PROVE  Control'
<1> USE DEF Control
<1>1. PollTypes'
  BY PollTypesKept
<1>2. Total \in Nat \ {0} /\ MaxRuns \in Nat \ {0}
  BY TotalPositive, BatchAssumption DEF TypeOK
<1> DEFINE Rest ==
             /\ job \in [engine : Engine, custom : BOOLEAN, prompt : BOOLEAN]
             /\ status \in {"pending", "running", "completed", "error", "cancelled"}
             /\ step \in 0..Total
             /\ \A r \in rows : r.step \in 1..Total /\ r.run \in 1..run
             /\ pushed \subseteq (1..Total) \X (1..MaxRuns)
             /\ run \in 0..MaxRuns
             /\ pc \in Pc /\ i \in 0..Total
             /\ cleaned \in BOOLEAN
             /\ gaps \subseteq 1..Total
<1>3. Rest /\ Where
  BY DEF TypeOK
<1>4. job' = job => Total' = Total
  BY DEF Total, Plan
<1> SUFFICES Rest' /\ Where'
  BY <1>1 DEF TypeOK, PollTypes
<1>5. CASE GoesOn
  <2>1. FirstDuty \in {"push", "commit", "save"}
        /\ (FirstDuty \in {"push", "commit"} => job.engine \in PushFirst \cup CommitFirst)
    BY DEF FirstDuty
  <2> QED
    BY <1>3, <1>4, <1>5, <2>1 DEF GoesOn, progress, Where, Pc, Opening, Trying
<1>6. CASE Ends
  BY <1>2, <1>3, <1>4, <1>6 DEF Ends, Where, Pc, Gap
<1>7. CASE Begin
  BY <1>2, <1>3, <1>4, <1>7, StartIndexBounds DEF Begin, Where, Pc, sheetVars, ghostVars
<1>8. CASE MarkBegun
  BY <1>2, <1>3, <1>4, <1>8 DEF MarkBegun, Where, Pc, ghostVars
<1>9. CASE Push
  BY <1>2, <1>3, <1>4, <1>9 DEF Push, Proceed, Where, Pc, dbVars, ghostVars
<1>10. CASE Commit
  BY <1>2, <1>3, <1>4, <1>10 DEF Commit, Checkpoint, Where, Pc, ghostVars
<1>11. CASE Save
  BY <1>2, <1>3, <1>4, <1>11 DEF Save, Proceed, Where, Pc, ghostVars, CommitFirst, PushFirst,
     BeginFirst
<1>12. CASE SaveReused
  BY <1>2, <1>3, <1>4, <1>12 DEF SaveReused, Proceed, Where, Pc, ghostVars
<1>13. CASE Share
  BY <1>2, <1>3, <1>4, <1>13 DEF Share, Proceed, Where, Pc, ghostVars
<1>14. CASE Cancel
  BY <1>3, <1>4, <1>14 DEF Cancel, Where, Pc, execVars, ghostVars
<1>15. CASE Resume
  BY <1>3, <1>4, <1>15 DEF Resume, Where, Pc, execVars, ghostVars
<1>16. CASE RestartFromScratch
  <2>1. 0 \in 0..Total
    BY <1>2
  <2>2. /\ UNCHANGED <<job, pushed, run, pc, i>> /\ pc = "idle" /\ status' = "pending"
        /\ step' = 0 /\ rows' = {} /\ gaps' = {} /\ cleaned' = FALSE
    BY <1>16 DEF RestartFromScratch, execVars
  <2> QED
    BY <1>3, <1>4, <2>1, <2>2 DEF Where, Pc
<1>17. CASE CleanupOldest
  BY <1>3, <1>4, <1>17 DEF CleanupOldest, Where, Pc, execVars
<1> QED
  BY Kinds, <1>5, <1>6, <1>7, <1>8, <1>9, <1>10, <1>11, <1>12, <1>13, <1>14, <1>15, <1>16, <1>17

-----------------------------------------------------------------------------
(* Rows and checkpoint of each kind of engine. *)

LEMMA SameRows ==
  ASSUME rows' = rows
  PROVE  SavedSteps' = SavedSteps
BY DEF SavedSteps

LEMMA RowAdds ==
  ASSUME rows' = rows \cup {[step |-> i + 1, run |-> run, seen |-> result]}
  PROVE  SavedSteps' = SavedSteps \cup {i + 1}
<1> DEFINE new == [step |-> i + 1, run |-> run, seen |-> result]
<1>1. rows' = rows \cup {new} /\ new.step = i + 1
  OBVIOUS
<1> HIDE DEF new
<1> QED
  BY <1>1 DEF SavedSteps

LEMMA Between ==
  ASSUME NEW k \in Nat, NEW n \in Nat, n > k
  PROVE  k + 1 \in 1..n
OBVIOUS

LEMMA BeginFirstKept ==
  ASSUME Control, Control', job.engine \in BeginFirst, BeginFirstInv, [Next]_vars
  PROVE  BeginFirstInv'
<1> USE DEF Control
<1>1. Total \in Nat \ {0} /\ step \in 0..Total /\ i \in 0..Total /\ SavedSteps \subseteq 1..Total
  BY TotalPositive DEF TypeOK, SavedSteps
<1>2. /\ job.engine \notin PushFirst \cup CommitFirst /\ job.engine # "c4"
      /\ pc \notin {"push", "commit"} /\ FirstDuty = "save" /\ Gap = {}
  BY DEF BeginFirst, PushFirst, CommitFirst, FirstDuty, Where, Gap
<1>3. RowSaved <=> pc = "share"
  BY <1>2 DEF RowSaved
<1>4. job' = job => (RowSaved' <=> pc' = "share")
  BY <1>2 DEF RowSaved
<1>5. CASE GoesOn
  BY <1>2, <1>3, <1>4, <1>5, SameRows DEF GoesOn, progress, BeginFirstInv, Opening, Trying
<1>6. CASE Ends
  BY <1>2, <1>6, SameRows DEF Ends, BeginFirstInv
<1>7. CASE Begin
  <2>1. UNCHANGED <<job, step, rows, gaps, cleaned>> /\ SavedSteps' = SavedSteps
    BY <1>7, SameRows DEF Begin, ghostVars
  <2>2. pc' # "share" /\ i' = ResumeAtFirstMissing
    BY <1>7, <1>2 DEF Begin, StartIndex
  <2>3. ASSUME ~cleaned PROVE SavedSteps = 1..i'
    <3>1. CASE rows = {}
      <4>1. SavedSteps = {}
        BY <3>1 DEF SavedSteps
      <4>2. step \in {0, 1}
        BY <4>1, <2>3, <1>1 DEF BeginFirstInv
      <4>3. i' = 0
        BY <3>1, <2>2, <4>2 DEF ResumeAtFirstMissing, ResumeAtCheckpoint
      <4> QED
        BY <4>1, <4>3
    <3>2. CASE rows # {}
      <4>1. i' \in 0..Total /\ i' + 1 \notin SavedSteps /\ 1..i' \subseteq SavedSteps
        BY <3>2, <2>2, FirstMissing
      <4>2. ASSUME NEW n \in SavedSteps PROVE n \in 1..i'
        <5>1. n \in Nat /\ i' \in Nat /\ n >= 1
          BY <4>1, <1>1
        <5>2. ASSUME n > i' PROVE FALSE
          <6>1. i' + 1 \in 1..n
            BY <5>1, <5>2, Between
          <6>2. 1..n \subseteq SavedSteps
            BY <2>3 DEF BeginFirstInv
          <6> QED
            BY <6>1, <6>2, <4>1
        <5>3. n <= i'
          BY <5>1, <5>2
        <5> QED
          BY <5>1, <5>3
      <4> QED
        BY <4>1, <4>2
    <3> QED
      BY <3>1, <3>2
  <2> QED
    BY <2>1, <2>2, <2>3, <1>4 DEF BeginFirstInv
<1>8. CASE MarkBegun
  <2>1. /\ UNCHANGED <<job, rows, i, gaps, cleaned>> /\ pc = "begin" /\ step' = i + 1
        /\ pc' \in {"reuse", "set"}
    BY <1>8 DEF MarkBegun, ghostVars
  <2> QED
    BY <2>1, <1>1, <1>3, <1>4, SameRows DEF BeginFirstInv
<1>9. CASE Save \/ SaveReused
  <2>1. /\ UNCHANGED <<job, step, gaps, cleaned>> /\ SavedSteps' = SavedSteps \cup {i + 1}
        /\ pc \in {"save", "reuse"}
        /\ \/ i' = i /\ pc' = "share"
           \/ i' = i + 1 /\ pc' = "next"
    BY <1>9, <1>2, RowAdds DEF Save, SaveReused, Proceed, ghostVars
  <2> QED
    BY <2>1, <1>1, <1>3, <1>4 DEF BeginFirstInv
<1>10. CASE Share
  <2>1. UNCHANGED <<job, step, rows, gaps, cleaned>> /\ pc = "share" /\ i' = i + 1 /\ pc' = "next"
    BY <1>10 DEF Share, Proceed, ghostVars
  <2> QED
    BY <2>1, <1>3, <1>4, SameRows DEF BeginFirstInv
<1>11. CASE Cancel \/ Resume
  BY <1>3, <1>4, <1>11, SameRows DEF Cancel, Resume, execVars, ghostVars, BeginFirstInv
<1>12. CASE RestartFromScratch
  <2>1. pc' = "idle" /\ step' = 0 /\ SavedSteps' = {} /\ gaps' = {}
    BY <1>12 DEF RestartFromScratch, execVars, SavedSteps
  <2> QED
    BY <2>1 DEF BeginFirstInv
<1>13. CASE CleanupOldest
  BY <1>13 DEF CleanupOldest, BeginFirstInv
<1>14. ~Push /\ ~Commit
  BY <1>2 DEF Push, Commit
<1> QED
  BY Kinds, <1>5, <1>6, <1>7, <1>8, <1>9, <1>10, <1>11, <1>12, <1>13, <1>14

LEMMA ResumeAfterKept ==
  ASSUME Control, Control', job.engine \in ResumeAfter, ResumeAfterInv, [Next]_vars
  PROVE  ResumeAfterInv'
<1> USE DEF Control
<1>1. /\ Total \in Nat \ {0} /\ step \in 0..Total /\ i \in 0..Total
      /\ SavedSteps \subseteq 1..Total /\ gaps \subseteq 1..Total
  BY TotalPositive, SMTT(40) DEF TypeOK, SavedSteps
<1>2. /\ job.engine \notin BeginFirst /\ job.engine # "c4"
      /\ job.engine \in CommitFirst <=> job.engine = "c3"
      /\ job.engine \in PushFirst <=> job.engine # "c3"
      /\ pc \notin {"begin", "reuse", "share"} /\ FirstDuty \in {"push", "commit"}
      /\ FirstDuty = "push" => job.engine # "c3"
  BY DEF ResumeAfter, BeginFirst, PushFirst, CommitFirst, FirstDuty, Where
<1>3. Counted <=> pc = "save" \/ (pc = "push" /\ job.engine = "c3")
  BY <1>2 DEF Counted, RowSaved
<1>4. job' = job => (Counted' <=> pc' = "save" \/ pc' = "share" \/ (pc' = "push" /\ job.engine = "c3"))
  BY <1>2 DEF Counted, RowSaved
<1>5. CASE GoesOn
  <2>1. (Counted' <=> Counted) /\ (pc' = "save" <=> pc = "save") /\ (pc' = "idle" <=> pc = "idle")
    BY <1>2, <1>3, <1>4, <1>5 DEF GoesOn, progress, Opening, Trying
  <2> QED
    BY <2>1, <1>5, SameRows DEF GoesOn, progress, ResumeAfterInv, Covered
<1>6. CASE Ends
  <2>1. /\ UNCHANGED <<job, step, rows, i, cleaned>> /\ SavedSteps' = SavedSteps
        /\ gaps' = gaps \cup Gap /\ pc # "idle" /\ pc' = "idle"
    BY <1>6, SameRows DEF Ends
  <2>2. pc = "save" => Gap = {i + 1} /\ step = i + 1
    BY <1>2, <1>3 DEF Gap, ResumeAfterInv
  <2> QED
    BY <2>1, <2>2, <1>1 DEF ResumeAfterInv, Covered
<1>7. CASE Begin
  <2>1. UNCHANGED <<job, step, rows, gaps, cleaned>> /\ pc = "idle" /\ i' = StartIndex
        /\ pc' \in {"next", "clear"} /\ SavedSteps' = SavedSteps
    BY <1>7, SameRows DEF Begin, ghostVars
  <2>2. StartIndex = step
    BY <1>1, <1>2 DEF StartIndex, ResumeAfterCheckpoint
  <2> QED
    BY <2>1, <2>2, <1>4 DEF ResumeAfterInv, Covered
<1>8. CASE Push
  <2>1. /\ UNCHANGED <<job, step, rows, gaps, cleaned>> /\ SavedSteps' = SavedSteps /\ pc = "push"
        /\ \/ i' = i /\ pc' = "commit" /\ job.engine # "c3"
           \/ i' = i + 1 /\ pc' = "next" /\ job.engine = "c3"
    BY <1>2, <1>8, SameRows DEF Push, Proceed, dbVars, ghostVars
  <2> QED
    BY <2>1, <1>3, <1>4 DEF ResumeAfterInv, Covered
<1>9. CASE Commit
  <2>1. UNCHANGED <<job, rows, i, gaps, cleaned>> /\ SavedSteps' = SavedSteps /\ pc = "commit"
        /\ pc' = "save" /\ step' = i + 1
    BY <1>9, SameRows DEF Commit, Checkpoint, ghostVars
  <2> QED
    BY <2>1, <1>1, <1>3, <1>4 DEF ResumeAfterInv, Covered
<1>10. CASE Save
  <2>1. /\ UNCHANGED <<job, step, gaps, cleaned>> /\ SavedSteps' = SavedSteps \cup {i + 1}
        /\ pc = "save"
        /\ \/ i' = i /\ pc' = "push" /\ job.engine = "c3"
           \/ i' = i + 1 /\ pc' = "next" /\ job.engine # "c3"
    BY <1>2, <1>10, RowAdds DEF Save, Proceed, ghostVars, BeginFirst
  <2> QED
    BY <2>1, <1>1, <1>3, <1>4 DEF ResumeAfterInv, Covered
<1>11. CASE Cancel \/ Resume
  <2>1. UNCHANGED <<job, step, rows, i, pc, gaps, cleaned>>
    BY <1>11 DEF Cancel, Resume, execVars, ghostVars
  <2> QED
    BY <2>1, SameRows DEF ResumeAfterInv, Covered, Counted, RowSaved
<1>12. CASE RestartFromScratch
  <2>1. pc' = "idle" /\ step' = 0 /\ SavedSteps' = {}
    BY <1>12 DEF RestartFromScratch, execVars, SavedSteps
  <2> QED
    BY <2>1 DEF ResumeAfterInv
<1>13. CASE CleanupOldest
  <2>1. /\ UNCHANGED <<job, step, i, pc>> /\ cleaned' = TRUE /\ SavedSteps' \subseteq SavedSteps
    BY <1>13 DEF CleanupOldest, execVars, SavedSteps
  <2> QED
    BY <2>1, <1>3, <1>4, <1>1 DEF ResumeAfterInv, Counted, RowSaved
<1>14. ~MarkBegun /\ ~SaveReused /\ ~Share
  BY <1>2 DEF MarkBegun, SaveReused, Share
<1> QED
  BY Kinds, <1>5, <1>6, <1>7, <1>8, <1>9, <1>10, <1>11, <1>12, <1>13, <1>14

LEMMA C4Kept ==
  ASSUME Control, Control', job.engine = "c4", C4Inv, [Next]_vars
  PROVE  C4Inv'
<1> USE DEF Control
<1>1. /\ Total \in Nat \ {0} /\ step \in 0..Total /\ i \in 0..Total
      /\ SavedSteps \subseteq 1..Total
  BY TotalPositive DEF TypeOK, SavedSteps
<1>2. /\ pc \notin {"begin", "reuse", "share"} /\ FirstDuty = "commit" /\ Gap = {}
      /\ job.engine \in CommitFirst /\ job.engine \notin PushFirst /\ job.engine \notin BeginFirst
  BY DEF BeginFirst, PushFirst, CommitFirst, FirstDuty, Where, Gap
<1>3. (Counted <=> pc \in {"save", "push"}) /\ (RowSaved <=> pc = "push")
  BY <1>2 DEF Counted, RowSaved
<1>4. job' = job => /\ Counted' <=> pc' \in {"save", "share", "push"}
                    /\ RowSaved' <=> pc' \in {"share", "push"}
  BY <1>2 DEF Counted, RowSaved
<1>5. CASE GoesOn
  <2>1. (Counted' <=> Counted) /\ (RowSaved' <=> RowSaved) /\ (pc' = "idle" <=> pc = "idle")
    BY <1>2, <1>3, <1>4, <1>5 DEF GoesOn, progress, Opening, Trying
  <2> QED
    BY <2>1, <1>5, SameRows DEF GoesOn, progress, C4Inv
<1>6. CASE Ends
  BY <1>2, <1>6, SameRows DEF Ends, C4Inv
<1>7. CASE Begin
  <2>1. UNCHANGED <<job, step, rows, gaps, cleaned>> /\ pc = "idle" /\ i' = ResumeAtCheckpoint
        /\ pc' \in {"next", "clear"} /\ SavedSteps' = SavedSteps
    BY <1>7, SameRows DEF Begin, ghostVars, StartIndex
  <2>2. \/ step = 0 /\ i' = 0
        \/ step >= 1 /\ i' = step - 1
    BY <2>1, <1>1 DEF ResumeAtCheckpoint
  <2> QED
    BY <2>1, <2>2, <1>1, <1>4 DEF C4Inv
<1>8. CASE Push
  <2>1. /\ UNCHANGED <<job, step, rows, gaps, cleaned>> /\ SavedSteps' = SavedSteps /\ pc = "push"
        /\ i' = i + 1 /\ pc' = "next"
    BY <1>2, <1>8, SameRows DEF Push, Proceed, dbVars, ghostVars
  <2> QED
    BY <2>1, <1>3, <1>4 DEF C4Inv
<1>9. CASE Commit
  <2>1. UNCHANGED <<job, rows, i, gaps, cleaned>> /\ SavedSteps' = SavedSteps /\ pc = "commit"
        /\ pc' = "save" /\ step' = i + 1
    BY <1>9, SameRows DEF Commit, Checkpoint, ghostVars
  <2> QED
    BY <2>1, <1>1, <1>3, <1>4 DEF C4Inv
<1>10. CASE Save
  <2>1. /\ UNCHANGED <<job, step, gaps, cleaned>> /\ SavedSteps' = SavedSteps \cup {i + 1}
        /\ pc = "save" /\ i' = i /\ pc' = "push"
    BY <1>2, <1>10, RowAdds DEF Save, Proceed, ghostVars
  <2> QED
    BY <2>1, <1>1, <1>3, <1>4 DEF C4Inv
<1>11. CASE Cancel \/ Resume
  <2>1. UNCHANGED <<job, step, rows, i, pc, gaps, cleaned>>
    BY <1>11 DEF Cancel, Resume, execVars, ghostVars
  <2> QED
    BY <2>1, SameRows DEF C4Inv, Counted, RowSaved
<1>12. CASE RestartFromScratch
  <2>1. pc' = "idle" /\ step' = 0 /\ SavedSteps' = {} /\ gaps' = {}
    BY <1>12 DEF RestartFromScratch, execVars, SavedSteps
  <2> QED
    BY <2>1 DEF C4Inv
<1>13. CASE CleanupOldest
  <2>1. /\ UNCHANGED <<job, step, i, pc, gaps>> /\ cleaned' = TRUE /\ SavedSteps' \subseteq SavedSteps
    BY <1>13 DEF CleanupOldest, execVars, SavedSteps
  <2> QED
    BY <2>1, <1>1 DEF C4Inv, Counted, RowSaved
<1>14. ~MarkBegun /\ ~SaveReused /\ ~Share
  BY <1>2 DEF MarkBegun, SaveReused, Share
<1> QED
  BY Kinds, <1>5, <1>6, <1>7, <1>8, <1>9, <1>10, <1>11, <1>12, <1>13, <1>14

-----------------------------------------------------------------------------
(* One row for a combination, and pushed before. *)

\* The step of the row that is about to be saved has no row of this execution
\* yet, and with all engines but C4 no row at all.
LEMMA NewRowFree ==
  ASSUME Control, job.engine \in BeginFirst => BeginFirstInv,
         job.engine \in ResumeAfter => ResumeAfterInv,
         job.engine # "c4", ~cleaned, pc \in {"save", "reuse"}
  PROVE  i + 1 \notin SavedSteps
<1>1. i \in Nat /\ ~RowSaved
  BY DEF Control, TypeOK, RowSaved
<1>2. CASE job.engine \in BeginFirst
  BY <1>1, <1>2 DEF BeginFirstInv
<1>3. CASE job.engine \in ResumeAfter
  <2>1. pc = "save"
    BY <1>3 DEF Control, Where, ResumeAfter, BeginFirst
  <2> QED
    BY <1>1, <1>3, <2>1 DEF ResumeAfterInv
<1> QED
  BY <1>2, <1>3 DEF Control, Where, Engines, BeginFirst, ResumeAfter

LEMMA SaveKeepsSingle ==
  ASSUME Control, job.engine \in BeginFirst => BeginFirstInv,
         job.engine \in ResumeAfter => ResumeAfterInv,
         Single, Save \/ SaveReused
  PROVE  Single'
<1> DEFINE new == [step |-> i + 1, run |-> run, seen |-> result]
<1>1. /\ rows' = rows \cup {new} /\ new.step = i + 1 /\ new.run = run
      /\ UNCHANGED <<job, run, cleaned>>
      /\ pc \in {"save", "reuse"}
      /\ job.engine = "c4" => pc' = "push"
  BY DEF Save, SaveReused, ghostVars, CommitFirst, Control, Where, BeginFirst
<1>2. /\ run \in Nat
      /\ \A r \in rows : r.step \in Nat /\ r.run \in Nat /\ r.run <= run
  BY DEF Control, TypeOK
<1> HIDE DEF new
<1>3. IsFiniteSet(rows')
  BY <1>1, FS_AddElement DEF Single
<1>4. ASSUME ~cleaned, job.engine # "c4"
      PROVE  \A r, q \in rows' : r.step = q.step => r = q
  <2>1. i + 1 \notin SavedSteps
    BY <1>1, <1>4, NewRowFree
  <2>2. \A r \in rows : r.step # new.step
    BY <1>1, <2>1 DEF SavedSteps
  <2> QED
    BY <1>1, <1>4, <2>2 DEF Single
<1>5. ASSUME ~cleaned, job.engine = "c4", NEW r \in rows, r.run = run
      PROVE  \A q \in rows : q.step # i + 1
  <2>1. SavedSteps \subseteq 1..i
    BY <1>1, <1>5 DEF Single
  <2> QED
    BY <2>1 DEF SavedSteps, Control, TypeOK
<1>6. ASSUME ~cleaned, job.engine = "c4"
      PROVE  /\ \A r, q \in rows' : r.step = q.step /\ r.run = q.run => r = q
             /\ \A r, q \in Repeated' : r.run = q.run => r = q
  <2>1. \A r, q \in rows' : r.step = q.step /\ r.run = q.run => r = q
    BY <1>1, <1>5, <1>6 DEF Single
  <2>2. \A r \in rows : r \in Repeated' => r \in Repeated
    BY <1>1, <1>2 DEF Repeated
  <2>3. \A r \in rows : r.run = run => new \notin Repeated' \/ r = new
    BY <1>1, <1>2, <1>5, <1>6 DEF Repeated
  <2>4. \A r \in Repeated' : r \in rows \/ r = new
    BY <1>1 DEF Repeated
  <2> QED
    BY <1>1, <1>6, <2>1, <2>2, <2>3, <2>4 DEF Single
<1> QED
  BY <1>1, <1>3, <1>4, <1>6 DEF Single

LEMMA SingleKept ==
  ASSUME Control, job.engine \in BeginFirst => BeginFirstInv,
         job.engine \in ResumeAfter => ResumeAfterInv,
         job.engine = "c4" => C4Inv,
         Single, [Next]_vars
  PROVE  Single'
<1>1. /\ run \in Nat /\ i \in Nat /\ step \in Nat
      /\ \A r \in rows : r.run <= run /\ r.run \in Nat
  BY DEF Control, TypeOK
<1> DEFINE Late == \E r \in rows : r.run = run
<1>2. ASSUME UNCHANGED <<job, rows, run, i, cleaned>>,
             pc' \notin {"idle", "push"} => pc \notin {"idle", "push"}
      PROVE  Single'
  <2>1. Repeated' = Repeated /\ SavedSteps' = SavedSteps
    BY <1>2 DEF Repeated, SavedSteps
  <2> QED
    BY <1>2, <2>1 DEF Single
<1>3. CASE GoesOn
  BY <1>2, <1>3 DEF GoesOn, progress, Opening, Trying
<1>4. CASE Ends \/ MarkBegun \/ Commit \/ Cancel \/ Resume
  BY <1>2, <1>4 DEF Ends, MarkBegun, Commit, Cancel, Resume, execVars, ghostVars
<1>5. CASE Share
  <2>1. job.engine # "c4"
    BY <1>5 DEF Share, Control, Where, BeginFirst
  <2>2. UNCHANGED <<job, rows, cleaned>>
    BY <1>5 DEF Share, ghostVars
  <2> QED
    BY <2>1, <2>2 DEF Single
<1>6. CASE Begin
  <2>1. UNCHANGED <<job, rows, cleaned>> /\ run' = run + 1
    BY <1>6 DEF Begin, ghostVars
  <2>2. Repeated' = Repeated /\ ~Late'
    BY <1>1, <2>1 DEF Repeated
  <2> QED
    BY <2>1, <2>2 DEF Single
<1>7. CASE Push
  <2>1. UNCHANGED <<job, rows, run, cleaned>> /\ pc = "push"
    BY <1>7 DEF Push, dbVars, ghostVars
  <2>2. Repeated' = Repeated /\ SavedSteps' = SavedSteps
    BY <2>1 DEF Repeated, SavedSteps
  <2>3. ASSUME job.engine = "c4" PROVE SavedSteps \subseteq 1..i'
    <3>1. i' = i + 1
      BY <1>7, <2>3 DEF Push, Proceed, PushFirst
    <3>2. SavedSteps \subseteq 1..step /\ step = i + 1
      BY <2>1, <2>3 DEF C4Inv, Counted, RowSaved, CommitFirst
    <3> QED
      BY <3>1, <3>2
  <2> QED
    BY <2>1, <2>2, <2>3 DEF Single
<1>8. CASE Save \/ SaveReused
  BY <1>8, SaveKeepsSingle
<1>9. CASE RestartFromScratch
  <2>1. rows' = {}
    BY <1>9 DEF RestartFromScratch
  <2>2. IsFiniteSet(rows') /\ Repeated' = {}
    BY <2>1, FS_EmptySet DEF Repeated
  <2> QED
    BY <2>1, <2>2 DEF Single
<1>10. CASE CleanupOldest
  <2>1. rows' \subseteq rows /\ cleaned' = TRUE
    BY <1>10 DEF CleanupOldest
  <2>2. IsFiniteSet(rows')
    BY <2>1, FS_Subset DEF Single
  <2> QED
    BY <2>1, <2>2 DEF Single
<1> QED
  BY Kinds, <1>3, <1>4, <1>5, <1>6, <1>7, <1>8, <1>9, <1>10 DEF Control

LEMMA JobFixed ==
  ASSUME [Next]_vars
  PROVE  job' = job
BY DEF Next, EngineStep, vars, ClearColumns, Settle, SetInputs, RefreshInputs, Write,
     Recalculate, CancelSeen, CancelInterrupts, LoopEnds, Begin, NextCombination, MarkBegun,
     RefreshSettled, Snapshot, Resnapshot, PollAccepts, Push, Commit, Save, SaveReused, Share,
     PollAgain, Retry, TimeOut, RefreshBreaks, CommitFails, PushFails, SaveFails, Crash,
     SiblingShares, Cancel, Resume, RestartFromScratch, CleanupOldest

LEMMA ToldKept ==
  ASSUME Control, Told, [Next]_vars
  PROVE  Told'
<1> SUFFICES ASSUME job.engine \in PushFirst PROVE Told'
  BY JobFixed DEF Told
<1>1. job.engine \notin CommitFirst \cup BeginFirst /\ FirstDuty = "push"
  BY DEF PushFirst, CommitFirst, BeginFirst, FirstDuty
<1>2. CASE GoesOn
  BY <1>1, <1>2 DEF GoesOn, progress, Told, Opening, Trying
<1>3. CASE Ends \/ Cancel \/ Resume
  BY <1>3 DEF Ends, Cancel, Resume, execVars, Told
<1>4. CASE Begin
  BY <1>4 DEF Begin, Told
<1>5. CASE Push
  <2>1. UNCHANGED <<rows, run, i>> /\ pc' = "commit" /\ pushed' = pushed \cup {<<i + 1, run>>}
    BY <1>5 DEF Push, dbVars
  <2> QED
    BY <2>1 DEF Told
<1>6. CASE Commit
  <2>1. UNCHANGED <<rows, run, i, pushed>> /\ pc = "commit"
    BY <1>6 DEF Commit
  <2> QED
    BY <2>1 DEF Told
<1>7. CASE Save
  <2> DEFINE new == [step |-> i + 1, run |-> run, seen |-> result]
  <2>1. /\ rows' = rows \cup {new} /\ new.step = i + 1 /\ new.run = run
        /\ pushed' = pushed /\ pc = "save" /\ pc' = "next"
    BY <1>1, <1>7 DEF Save, Proceed, BeginFirst
  <2> HIDE DEF new
  <2> QED
    BY <2>1 DEF Told
<1>8. ~MarkBegun /\ ~SaveReused /\ ~Share
  BY <1>1 DEF MarkBegun, SaveReused, Share, Control, Where
<1>9. CASE RestartFromScratch
  BY <1>9 DEF RestartFromScratch, execVars, Told
<1>10. CASE CleanupOldest
  BY <1>10 DEF CleanupOldest, execVars, Told
<1> QED
  BY Kinds, <1>2, <1>3, <1>4, <1>5, <1>6, <1>7, <1>8, <1>9, <1>10 DEF Control

-----------------------------------------------------------------------------
(* The progress invariant, and what follows from it. *)

LEMMA LoopIsDone ==
  ASSUME Progress, pc = "next", i = Total, ~cleaned
  PROVE  1..Total \subseteq Covered
<1>1. ~RowSaved /\ ~Counted /\ job.engine \in Engines
  BY DEF Progress, Where, RowSaved, Counted
<1>2. CASE job.engine \in BeginFirst
  BY <1>1, <1>2 DEF Progress, BeginFirstInv, Covered
<1>3. CASE job.engine \in ResumeAfter
  BY <1>1, <1>3 DEF Progress, ResumeAfterInv
<1>4. CASE job.engine = "c4"
  BY <1>1, <1>4 DEF Progress, C4Inv, Covered
<1> QED
  BY <1>1, <1>2, <1>3, <1>4 DEF Engines, BeginFirst, ResumeAfter

LEMMA NothingLostKept ==
  ASSUME Progress, [Next]_vars
  PROVE  NothingLost'
<1> SUFFICES ASSUME status' = "completed", ~cleaned' PROVE (1..Total \subseteq Covered)'
  BY DEF NothingLost, Covered
<1>1. Control /\ NothingLost /\ Total' = Total
  BY JobFixed DEF Progress, Control, Total, Plan
<1>2. pc # "idle" => status # "completed"
  BY <1>1 DEF Control, Where
<1>3. CASE GoesOn
  BY <1>1, <1>3, SameRows DEF GoesOn, progress, NothingLost, Covered
<1>4. CASE Ends
  <2>1. 1..Total \subseteq Covered
    BY <1>4, LoopIsDone DEF Ends
  <2> QED
    BY <1>1, <1>4, <2>1, SameRows DEF Ends, Covered
<1>5. ~Begin /\ ~Cancel /\ ~Resume /\ ~RestartFromScratch /\ ~CleanupOldest
  BY DEF Begin, Cancel, Resume, RestartFromScratch, CleanupOldest
<1>6. ~MarkBegun /\ ~Push /\ ~Commit /\ ~Save /\ ~SaveReused /\ ~Share
  BY <1>2 DEF MarkBegun, Push, Commit, Save, SaveReused, Share, dbVars
<1> QED
  BY Kinds, <1>1, <1>3, <1>4, <1>5, <1>6 DEF Control

LEMMA ProgressInit ==
  ASSUME Init
  PROVE  Progress
<1>1. Control
  BY ControlInit
<1>2. /\ status = "pending" /\ step = 0 /\ rows = {} /\ pc = "idle" /\ gaps = {}
      /\ SavedSteps = {} /\ Repeated = {}
  BY DEF Init, SavedSteps, Repeated
<1>3. BeginFirstInv /\ ResumeAfterInv /\ C4Inv
  BY <1>2 DEF BeginFirstInv, ResumeAfterInv, C4Inv
<1>4. Single /\ Told /\ NothingLost
  BY <1>2, FS_EmptySet DEF Single, Told, NothingLost
<1> QED
  BY <1>1, <1>3, <1>4 DEF Progress, Control

LEMMA ProgressKept ==
  ASSUME Progress, [Next]_vars
  PROVE  Progress'
<1>1. Control /\ Control'
  BY ControlKept DEF Progress, Control
<1>2. NothingLost'
  BY NothingLostKept
<1>3. Single' /\ Told'
  BY <1>1, SingleKept, ToldKept DEF Progress
<1>4. (job.engine \in BeginFirst => BeginFirstInv)'
  BY <1>1, JobFixed, BeginFirstKept DEF Progress
<1>5. (job.engine \in ResumeAfter => ResumeAfterInv)'
  BY <1>1, JobFixed, ResumeAfterKept DEF Progress
<1>6. (job.engine = "c4" => C4Inv)'
  BY <1>1, JobFixed, C4Kept DEF Progress
<1> QED
  BY <1>1, <1>2, <1>3, <1>4, <1>5, <1>6 DEF Progress, Control

\* The batch engines keep their progress invariant: rows, checkpoint and loop
\* of an execution belong together in the way of the engine.
THEOREM ProgressHolds == Spec => []Progress
<1>1. Init => Progress
  BY ProgressInit
<1>2. Progress /\ [Next]_vars => Progress'
  BY ProgressKept
<1> QED
  BY <1>1, <1>2, PTL DEF Spec

\* Every variable of a batch engine keeps its type: checkpoint and loop index
\* never pass the last combination, the poll never its limit.
THEOREM BatchTypes == Spec => []TypeOK
<1>1. Progress => TypeOK
  BY DEF Progress
<1> QED
  BY <1>1, ProgressHolds, PTL

\* A task reported completed has a row for every combination, unless its
\* execution ended between a checkpoint and the row.
THEOREM NothingIsLost == Spec => []NothingLost
<1>1. Progress => NothingLost
  BY DEF Progress
<1> QED
  BY <1>1, ProgressHolds, PTL

\* The completion notification goes out when every combination has its row, or
\* when C3 was cancelled while it waited.
THEOREM CompletionIsTrue == Spec => NotifiedWhenDone
<1> DEFINE Due == notified' # notified /\ ~cleaned
                    => \/ 1..Total \subseteq SavedSteps \cup gaps
                       \/ job.engine = "c3" /\ status = "cancelled"
<1>1. ASSUME Progress, Next, notified' # notified
      PROVE  LoopEnds \/ (CancelInterrupts /\ job.engine = "c3")
  BY <1>1 DEF Next, EngineStep, ClearColumns, Settle, SetInputs, RefreshInputs, Write,
     Recalculate, CancelSeen, CancelInterrupts, Interrupted, Begin, NextCombination, MarkBegun,
     RefreshSettled, Snapshot, Resnapshot, PollAccepts, Push, Commit, Save, SaveReused, Share,
     PollAgain, Retry, TimeOut, RefreshBreaks, CommitFails, PushFails, SaveFails, Crash,
     SiblingShares, Cancel, Resume, RestartFromScratch, CleanupOldest, execVars, ghostVars
<1>2. Progress /\ [Next]_vars => [Due]_vars
  <2> SUFFICES ASSUME Progress, Next, notified' # notified, ~cleaned
               PROVE  \/ 1..Total \subseteq SavedSteps \cup gaps
                      \/ job.engine = "c3" /\ status = "cancelled"
    BY DEF vars, ghostVars
  <2>1. CASE LoopEnds
    BY <2>1, LoopIsDone DEF LoopEnds, Covered
  <2>2. CASE CancelInterrupts /\ job.engine = "c3"
    BY <2>2 DEF CancelInterrupts
  <2> QED
    BY <1>1, <2>1, <2>2
<1> QED
  BY <1>2, ProgressHolds, PTL DEF Spec, NotifiedWhenDone

LEMMA RowsByStep ==
  ASSUME NEW R \in SUBSET rows, IsFiniteSet(SavedSteps),
         \A r, q \in R : r.step = q.step => r = q
  PROVE  IsFiniteSet(R) /\ Cardinality(R) <= Cardinality(SavedSteps)
<1> DEFINE f == [r \in R |-> r.step]
<1>1. f \in Injection(R, SavedSteps)
  BY DEF Injection, IsInjective, SavedSteps
<1> HIDE DEF f
<1> QED
  BY <1>1, FS_Injection

LEMMA RepeatedByRun ==
  ASSUME run \in Nat, \A r \in rows : r.run \in 1..run,
         \A r, q \in Repeated : r.run = q.run => r = q
  PROVE  IsFiniteSet(Repeated) /\ Cardinality(Repeated) <= Cardinality(2..run)
<1> DEFINE f == [r \in Repeated |-> r.run]
<1>1. f \in Injection(Repeated, 2..run)
  <2>1. \A r \in Repeated : r.run \in 2..run
    BY DEF Repeated
  <2> QED
    BY <2>1 DEF Injection, IsInjective
<1> HIDE DEF f
<1> QED
  BY <1>1, FS_Injection, FS_Interval

\* No combination is saved twice, except by C4 once per restart; and what the
\* result page of C5, C7 and C1.1 shows, the stock parameter service has had.
THEOREM NoRowTwice == Spec => []SavedOnce
<1>1. ASSUME Progress PROVE SavedOnce
  <2>1. job.engine \in PushFirst => \A r \in rows : <<r.step, r.run>> \in pushed
    BY <1>1 DEF Progress, Told
  <2>2. ASSUME ~cleaned, rows # {}
        PROVE  Cardinality(rows) <=
                 Cardinality(SavedSteps) + (IF job.engine = "c4" THEN run - 1 ELSE 0)
    <3>1. /\ Total \in Nat /\ SavedSteps \subseteq 1..Total /\ run \in Nat
          /\ \A r \in rows : r.run \in 1..run
      BY <1>1, TotalPositive DEF Progress, TypeOK, SavedSteps
    <3>2. IsFiniteSet(SavedSteps) /\ Cardinality(SavedSteps) \in Nat
      <4>1. IsFiniteSet(1..Total)
        BY <3>1, FS_Interval
      <4>2. IsFiniteSet(SavedSteps)
        BY <3>1, <4>1, FS_Subset
      <4> QED
        BY <4>2, FS_CardinalityType
    <3>3. CASE job.engine # "c4"
      <4>1. Cardinality(rows) <= Cardinality(SavedSteps)
        BY <1>1, <2>2, <3>2, <3>3, RowsByStep DEF Progress, Single
      <4> QED
        BY <3>2, <3>3, <4>1
    <3>4. CASE job.engine = "c4"
      <4> DEFINE R == rows \ Repeated
      <4>1. \A r, q \in R : r.step = q.step => r = q
        <5>1. \A r, q \in rows : r.step = q.step /\ r.run = q.run => r = q
          BY <1>1, <2>2, <3>4 DEF Progress, Single
        <5>2. \A r, q \in R : r.step = q.step => ~(r.run < q.run) /\ ~(q.run < r.run)
          BY DEF Repeated
        <5> QED
          BY <3>1, <5>1, <5>2
      <4>2. IsFiniteSet(R) /\ Cardinality(R) <= Cardinality(SavedSteps)
        BY <3>2, <4>1, RowsByStep
      <4>3. IsFiniteSet(Repeated) /\ Cardinality(Repeated) <= Cardinality(2..run)
        BY <1>1, <2>2, <3>1, <3>4, RepeatedByRun DEF Progress, Single
      <4>4. run >= 1
        BY <2>2, <3>1
      <4>5. Cardinality(2..run) = run - 1
        BY <3>1, <4>4, FS_Interval
      <4>6. rows = R \cup Repeated /\ R \cap Repeated = {}
        BY DEF Repeated
      <4>7. Cardinality(R) \in Nat /\ Cardinality(Repeated) \in Nat
        BY <4>2, <4>3, FS_CardinalityType
      <4> HIDE DEF R
      <4>8. Cardinality(rows) = Cardinality(R) + Cardinality(Repeated)
        <5>1. Cardinality(R \cup Repeated) =
                Cardinality(R) + Cardinality(Repeated) - Cardinality(R \cap Repeated)
          BY <4>2, <4>3, FS_Union
        <5>2. Cardinality(R \cap Repeated) = 0
          BY <4>6, FS_EmptySet
        <5> QED
          BY <4>6, <4>7, <5>1, <5>2
      <4> QED
        BY <3>1, <3>2, <3>4, <4>2, <4>3, <4>4, <4>5, <4>7, <4>8
    <3> QED
      BY <3>3, <3>4
  <2> QED
    BY <2>1, <2>2 DEF SavedOnce
<1> QED
  BY <1>1, ProgressHolds, PTL

-----------------------------------------------------------------------------
(* The second part: results and inputs. Whatever the spreadsheet computes    *)
(* late, what the engine accepts was computed from the inputs it has written.*)

IsCells(x) == x = [kline |-> x.kline, param |-> x.param]

\* The K-line in the cells is that of the combination; C5 only keeps the window.
RightKline(k, c) == k = Kline(c) \/ (job.engine = "c5" /\ k[2] = c.key)

\* The result in hand, or one that this execution has saved, was let pass for
\* another one's: C1.1 with a strategy that has lost almost everything.
Tainted(s) ==
  /\ job.engine = "c1_1"
  /\ \/ \E q \in rows : /\ q.run = run /\ s \in DOMAIN q.seen
                        /\ q.seen[s].series.param \in Collapsing /\ Stale(q, s, "series")
     \/ /\ pc \in {"push", "commit", "save"} /\ s \in Combo.sheets
        /\ result[s].series.param \in Collapsing /\ result[s].series # Wanted(Combo)

\* Nothing is claimed about the outputs: the engine waits for a prompt
\* spreadsheet, or does not compare, or cannot know what was there before.
Loose(s) == job.prompt \/ job.engine = "c3" \/ (job.custom /\ run > 1) \/ Tainted(s)

\* What a recalculation makes of the inputs before they are written: nothing,
\* what is shown already, or the right result.
Settled(s) == Blank(input[s]) \/ input[s] = Updated(s) \/ input[s] = output[s]
Fine(x, s) == Blank(x) \/ Shown(x) = snap[s] \/ x = Updated(s)

\* The combination in hand has the spreadsheets of its own; the cache of multi
\* is behind until the result is shared.
InHand == pc \in Trying \/ (job.engine = "multi" /\ pc \in {"save", "share"})

\* The inputs of the combination in hand have been written.
Written == pc \in {"poll", "rewrite", "resnapshot", "reset"} \/ (pc = "snapshot" /\ job.engine = "c4")
\* The snapshot of the outputs has been taken.
Snapped == pc \in {"poll", "rewrite", "resnapshot", "reset"} \/ (pc = "write" /\ job.engine # "c4")

Shape ==
  /\ DOMAIN cache = Sheet /\ DOMAIN snap = Sheet
  /\ \A s \in Sheet : IsCells(input[s]) /\ IsCells(output[s])
  /\ run = 0 => \A s \in Sheet : output[s] = input[s]
  /\ run = 0 => pc = "idle"
  /\ pc \in {"refresh", "reset"} => job.engine # "c4"
  /\ pc \in {"rewrite", "resnapshot"} => job.engine = "c4"
  /\ pc = "share" => job.engine = "multi"

CustomInv ==
  job.custom =>
    /\ job.engine \in MayBeCustom /\ pc \notin {"clear", "settle"}
    /\ \A s \in Sheet : input[s].kline = CustomKline /\ output[s].kline = CustomKline

OneKlineInv ==
  job.engine = "c3" /\ pc \notin {"idle", "clear", "settle"} =>
    \A s \in InUse : input[s].kline = Kline(Plan[1])

CacheInv ==
  \A s \in Sheet :
    /\ pc \in {"clear", "settle"} => cache[s] = None
    /\ cache[s] # None => \E n \in 1..Total : cache[s] = Plan[n]
    /\ job.engine \in {"c3", "c4"} => cache[s] = None
    /\ pc # "idle" /\ ~(InHand /\ s \in Combo.sheets) =>
         /\ cache[s] # None =>
              input[s].kline = None \/ RightKline(input[s].kline, cache[s])
         /\ (cache[s] # None \/ job.custom) /\ ~Loose(s) => output[s] = input[s]

TryInv ==
  pc \in Trying => \A s \in Combo.sheets :
    /\ \/ pc = "set" /\ KlineChanged(s)
       \/ input[s].kline = None
       \/ RightKline(input[s].kline, Combo)
    /\ pc \in {"set", "refresh", "snapshot"} /\ job.engine # "c4" /\ ~Loose(s) =>
         (pc = "set" /\ KlineChanged(s)) \/ Settled(s)
    /\ Written => input[s] = Updated(s) /\ RightKline(input[s].kline, Combo)
    /\ Snapped /\ ~Loose(s) => Fine(input[s], s) /\ Fine(output[s], s)

\* One part of the result in hand belongs to the combination, but for the excuses.
OwnInputs(in, s) ==
  LET echoed == <<in.param, Combo.param>> \in PassesCheck
  IN \/ in = Wanted(Combo)
     \/ job.engine = "c5" /\ in.kline[2] = Combo.key /\ in.param = Combo.param
     \/ job.engine = "c3" /\ ~job.prompt /\ echoed
     \/ job.engine = "c1_1" /\ ~job.prompt /\ Tainted(s)
     \/ job.engine = "c5" /\ ~job.prompt /\ job.custom /\ run > 1 /\ echoed
     \/ job.engine \in {"c7", "c1_1"} /\ ~job.prompt /\ job.custom /\ run > 1

\* The result in hand, for one spreadsheet: its figures may be blank.
Result(x, s) ==
  /\ OwnInputs(x.series, s)
  /\ \/ OwnInputs(x.head, s)
     \/ x.head = None /\ job.engine \in Unchecked /\ ~job.prompt

\* The right result, but for figures that are blank.
Genuine(x, c) ==
  /\ x.series = Wanted(c)
  /\ x.head = Wanted(c) \/ (x.head = None /\ ~job.prompt)

\* What is known of the result in hand.
ResultInv ==
  /\ pc \in {"push", "commit", "save"} /\ ~(job.engine \in CommitFirst /\ pc = "push") =>
       /\ DOMAIN result = Combo.sheets
       /\ \A s \in Combo.sheets : Result(result[s], s)
  /\ job.engine = "multi" /\ pc \in {"save", "share"} => \A s \in Combo.sheets :
       /\ RightKline(input[s].kline, Combo)
       /\ ~job.prompt => output[s] = input[s]
       /\ DOMAIN result = Combo.sheets /\ Genuine(result[s], Combo)
  /\ pc \in {"begin", "reuse"} /\ result # None =>
       job.engine = "multi" /\ \A s \in DOMAIN result : Genuine(result[s], Combo)
  /\ pc = "reuse" => result # None

SharedInv ==
  \A e \in shared : \A n \in 1..Total :
    Plan[n].stock = e.stock /\ Plan[n].param = e.param =>
      \A s \in DOMAIN e.seen : Genuine(e.seen[s], Plan[n])

InputInv ==
  /\ Shape
  /\ CustomInv
  /\ OneKlineInv
  /\ CacheInv
  /\ TryInv
  /\ ResultInv
  /\ SharedInv
  /\ ResultFromOwnInputs

LEMMA ComboFacts ==
  ASSUME Control, i < Total
  PROVE  /\ i + 1 \in 1..Total /\ Combo = Plan[i + 1]
         /\ Combo.sheets \subseteq Sheet /\ Combo.sheets \subseteq InUse /\ Combo.sheets # {}
<1>1. Total \in Nat /\ DOMAIN Plan = 1..Total /\ i \in Nat /\ job.engine \in Engine
  BY TotalPositive DEF Control, TypeOK
<1>2. i + 1 \in 1..Total
  BY <1>1
<1>3. IsCombination(Plan[i + 1])
  BY <1>1, <1>2, BatchAssumption DEF Plan
<1> QED
  BY <1>2, <1>3 DEF Combo, InUse, IsCombination

LEMMA PlanFacts ==
  ASSUME Control, NEW m \in 1..Total, NEW n \in 1..Total
  PROVE  /\ job.engine \in {"c3", "training"} => Plan[m].stock = Plan[n].stock
         /\ job.engine = "c3" => Plan[m].key = Plan[n].key
         /\ job.engine = "multi" /\ Plan[m].stock = Plan[n].stock => Plan[m].key = Plan[n].key
         /\ Plan[m] # None
<1>1. DOMAIN Plan = 1..Total /\ job.engine \in Engine
  BY TotalPositive DEF Control, TypeOK
<1> QED
  <2>1. /\ job.engine \in {"c3", "training"} => Plan[m].stock = Plan[n].stock
        /\ job.engine = "c3" => Plan[m].key = Plan[n].key
        /\ job.engine = "multi" /\ Plan[m].stock = Plan[n].stock => Plan[m].key = Plan[n].key
        /\ None \notin {Plan[m], Plan[m].param, <<Plan[m].stock, Plan[m].key>>}
    BY <1>1, PlanAssumption, Zenon DEF Plan
  <2> QED
    BY <2>1

LEMMA SameCombo ==
  ASSUME UNCHANGED <<job, i>>
  PROVE  /\ Combo' = Combo /\ Total' = Total /\ InUse' = InUse /\ Plan' = Plan
         /\ \A c : Kline(c)' = Kline(c) /\ Wanted(c)' = Wanted(c)
         /\ \A k, c : RightKline(k, c)' <=> RightKline(k, c)
BY DEF Combo, Total, InUse, Plan, Kline, Wanted, RightKline

LEMMA SameJob ==
  ASSUME job' = job
  PROVE  /\ Total' = Total /\ InUse' = InUse /\ Plan' = Plan
         /\ \A c : Kline(c)' = Kline(c) /\ Wanted(c)' = Wanted(c)
         /\ \A k, c : RightKline(k, c)' <=> RightKline(k, c)
BY DEF Total, InUse, Plan, Kline, Wanted, RightKline

LEMMA SameInputs ==
  ASSUME UNCHANGED <<job, i, cache>>, NEW s, input'[s] = input[s]
  PROVE  /\ KlineChanged(s)' <=> KlineChanged(s)
         /\ Updated(s)' = Updated(s)
BY SameCombo DEF KlineChanged, ChangedWindow, ChangedStock, Updated

\* Steps that leave the inputs, the outputs and what the execution knows about
\* them alone.
OwnRowsStay == \A q \in rows : q.run = run => q \in rows'

Rests ==
  /\ UNCHANGED <<job, input, output, run, i, cache, snap, result>>
  /\ OwnRowsStay
  /\ \/ UNCHANGED pc
     \/ pc # "idle" /\ pc' = "idle"
     \/ pc = "begin" /\ pc' = (IF result # None THEN "reuse" ELSE "set")
     \/ pc = "refresh" /\ pc' = (IF job.engine = "c3" THEN "write" ELSE "snapshot")
     \/ pc = "poll" /\ pc' = "set"
     \/ pc = "poll" /\ pc' \in {"poll", "rewrite"} /\ job.engine = "c4"
     \/ pc = "poll" /\ pc' \in {"poll", "reset"} /\ job.engine # "c4"
     \/ pc = "push" /\ pc' = "commit" /\ job.engine \in PushFirst
     \/ pc = "commit" /\ pc' = "save"

Proceeds ==
  /\ UNCHANGED <<job, input, output, run, cache, snap, result, rows>>
  /\ pc = "push" /\ pc' = "next" /\ i' = i + 1 /\ job.engine \in CommitFirst

LEMMA InputKinds ==
  ASSUME Control, [Next]_vars
  PROVE  \/ Rests \/ Proceeds
         \/ ClearColumns \/ Settle \/ SetInputs \/ RefreshInputs \/ Write
         \/ Snapshot \/ Resnapshot
         \/ (\E s \in Sheet : Recalculate(s))
         \/ NextCombination \/ PollAccepts \/ Save \/ SaveReused \/ Share
         \/ Begin \/ (pc = "idle" /\ RestartFromScratch)
<1>1. CASE MarkBegun \/ RefreshSettled \/ Commit
  BY <1>1 DEF MarkBegun, RefreshSettled, Commit, Rests, OwnRowsStay, sheetVars, dbVars
<1>2. CASE PollAgain \/ Retry
  BY <1>2 DEF PollAgain, Retry, PollRejects, Rests, OwnRowsStay, sheetVars, dbVars
<1>3. CASE Push
  BY <1>3 DEF Push, Proceed, Rests, Proceeds, OwnRowsStay, sheetVars, dbVars, Control, Where
<1>4. CASE \/ CancelSeen \/ CancelInterrupts \/ LoopEnds \/ RefreshBreaks \/ TimeOut
           \/ CommitFails \/ PushFails \/ SaveFails \/ Crash
  BY <1>4 DEF CancelSeen, CancelInterrupts, LoopEnds, RefreshBreaks, TimeOut, PollRejects,
     CommitFails, PushFails, SaveFails, Crash, Interrupted, Finish, FaultAt, Fail, End, Rests,
     OwnRowsStay, sheetVars
<1>5. CASE SiblingShares \/ Cancel \/ Resume \/ UNCHANGED vars
  BY <1>5 DEF SiblingShares, Cancel, Resume, vars, Rests, OwnRowsStay, sheetVars, execVars, dbVars
<1>6. CASE CleanupOldest
  <2>1. OwnRowsStay
    BY <1>6 DEF CleanupOldest, OwnRowsStay, Control, TypeOK
  <2> QED
    BY <1>6, <2>1 DEF CleanupOldest, Rests, sheetVars, execVars
<1>7. CASE RestartFromScratch
  BY <1>7 DEF RestartFromScratch
<1> QED
  BY <1>1, <1>2, <1>3, <1>4, <1>5, <1>6, <1>7 DEF Next, EngineStep

LEMMA RunFixed ==
  ASSUME Control, [Next]_vars, pc # "idle"
  PROVE  UNCHANGED <<job, run>>
BY InputKinds, JobFixed DEF Rests, Proceeds, ClearColumns, Settle, SetInputs, RefreshInputs,
   Write, Snapshot, Resnapshot, Recalculate, NextCombination, PollAccepts, Save, SaveReused,
   Share, Begin, execVars

LEMMA TaintedKept ==
  ASSUME Control, ResultInv, [Next]_vars, pc # "idle", pc' # "idle", NEW s, Tainted(s)
  PROVE  Tainted(s)'
<1>1. job' = job /\ run' = run
  BY RunFixed
<1>2. OwnRowsStay
  BY InputKinds DEF Rests, Proceeds, ClearColumns, Settle, SetInputs, RefreshInputs,
     Write, Snapshot, Resnapshot, Recalculate, NextCombination, PollAccepts, Save, SaveReused,
     Share, Begin, execVars, dbVars, OwnRowsStay
<1>3. \A q : Stale(q, s, "series")' <=> Stale(q, s, "series")
  BY <1>1, SameJob DEF Stale
<1>4. CASE \E q \in rows : /\ q.run = run /\ s \in DOMAIN q.seen
                           /\ q.seen[s].series.param \in Collapsing
                           /\ Stale(q, s, "series")
  BY <1>1, <1>2, <1>3, <1>4 DEF Tainted, OwnRowsStay
<1>5. CASE /\ pc \in {"push", "commit", "save"} /\ s \in Combo.sheets
           /\ result[s].series.param \in Collapsing /\ result[s].series # Wanted(Combo)
  <2>1. CASE Rests
    <3>1. pc' \in {"push", "commit", "save"}
      BY <2>1, <1>5 DEF Rests
    <3> QED
      BY <2>1, <3>1, <1>1, <1>5, SameCombo DEF Rests, Tainted
  <2>2. CASE \E t \in Sheet : Recalculate(t)
    <3>1. UNCHANGED <<pc, i, result>>
      BY <2>2 DEF Recalculate, execVars
    <3> QED
      BY <3>1, <1>1, <1>5, SameCombo DEF Tainted
  <2>3. CASE Save
    <3> DEFINE new == [step |-> i + 1, run |-> run, seen |-> result]
    <3>1. new \in rows' /\ new.run = run /\ new.seen = result /\ new.step = i + 1
      BY <2>3 DEF Save
    <3> HIDE DEF new
    <3>2. s \in DOMAIN result
      BY <1>5, <2>3 DEF Save, ResultInv
    <3>3. Stale(new, s, "series")
      BY <1>5, <3>1 DEF Stale, Combo
    <3> QED
      BY <1>1, <1>3, <1>5, <3>1, <3>2, <3>3 DEF Tainted
  <2>4. job.engine = "c1_1"
    BY DEF Tainted
  <2> QED
    BY InputKinds, <1>5, <2>1, <2>2, <2>3, <2>4 DEF Proceeds, ClearColumns, Settle, SetInputs,
       RefreshInputs, Write, Snapshot, Resnapshot, NextCombination, PollAccepts, SaveReused,
       Share, Begin, CommitFirst
<1> QED
  BY <1>4, <1>5 DEF Tainted

LEMMA LooseKept ==
  ASSUME Control, ResultInv, [Next]_vars, pc # "idle", pc' # "idle", NEW s, Loose(s)
  PROVE  Loose(s)'
BY RunFixed, TaintedKept DEF Loose

\* Between two reads a spreadsheet can only catch up.
LEMMA PollOutputs ==
  ASSUME PollAccepts
  PROVE  \A s \in Sheet : output'[s] \in {output[s], input[s]}
<1>1. \E S : output' = Reading(S)
  BY DEF PollAccepts
<1> QED
  BY <1>1 DEF Reading

LEMMA ShapeKept ==
  ASSUME Control, Shape, [Next]_vars
  PROVE  Shape'
<1> USE DEF Shape
<1>1. DOMAIN input = Sheet /\ DOMAIN output = Sheet /\ run \in Nat
  BY DEF Control, TypeOK
<1>2. CASE ClearColumns
  BY <1>1, <1>2 DEF ClearColumns, ClearKline, Cleared, IsCells
<1>3. CASE Settle
  BY <1>1, <1>3 DEF Settle, IsCells
<1>4. CASE SetInputs
  BY <1>1, <1>4 DEF SetInputs, ClearKline, Cleared, IsCells, BeginFirst
<1>5. CASE RefreshInputs
  BY <1>1, <1>5 DEF RefreshInputs, ClearForRefresh, ClearKline, ClearParams, Cleared, IsCells
<1>6. CASE Write
  BY <1>1, <1>6 DEF Write, Updated, IsCells
<1>7. CASE \E s \in Sheet : Recalculate(s)
  <2>1. PICK t \in Sheet : Recalculate(t)
    BY <1>7
  <2>2. \A s \in Sheet : output'[s] = IF s = t THEN input[t] ELSE output[s]
    BY <1>1, <2>1 DEF Recalculate
  <2> QED
    BY <2>1, <2>2 DEF Recalculate, execVars, IsCells
<1>8. CASE Snapshot \/ Resnapshot
  BY <1>8 DEF Snapshot, Resnapshot, SnapOutputs, sheetVars, IsCells
<1>9. CASE PollAccepts
  <2>1. \A s \in Sheet : output'[s] \in {output[s], input[s]}
    BY <1>9, PollOutputs
  <2>2. UNCHANGED <<job, input, run, snap>> /\ pc = "poll" /\ pc' \in {"push", "commit", "save"}
    BY <1>9 DEF PollAccepts, FirstDuty
  <2>3. DOMAIN cache' = Sheet
    BY <1>9 DEF PollAccepts, CacheAfter
  <2> QED
    BY <2>1, <2>2, <2>3 DEF IsCells
<1>10. CASE Share
  BY <1>10 DEF Share, Proceed, CacheAfter, sheetVars, IsCells
<1>11. CASE Begin
  BY <1>1, <1>11 DEF Begin, sheetVars, IsCells
<1>12. CASE Rests \/ Proceeds
  BY <1>12 DEF Rests, Proceeds, IsCells
<1>13. CASE \/ NextCombination \/ Save \/ SaveReused \/ RestartFromScratch
  BY <1>13 DEF NextCombination, Save, SaveReused, Proceed, RestartFromScratch, sheetVars, execVars,
     IsCells
<1> QED
  BY InputKinds, <1>2, <1>3, <1>4, <1>5, <1>6, <1>7, <1>8, <1>9, <1>10, <1>11, <1>12, <1>13

LEMMA CustomKept ==
  ASSUME Control, CustomInv, [Next]_vars
  PROVE  CustomInv'
<1> SUFFICES ASSUME job.custom PROVE CustomInv'
  BY JobFixed DEF CustomInv
<1>1. /\ DOMAIN input = Sheet /\ DOMAIN output = Sheet /\ job' = job /\ pc \notin {"clear", "settle"}
      /\ job.engine \in MayBeCustom
      /\ \A s \in Sheet : input[s].kline = CustomKline /\ output[s].kline = CustomKline
  BY JobFixed DEF Control, TypeOK, CustomInv
<1>2. CASE SetInputs
  <2>1. \A s \in Sheet : ~KlineChanged(s)
    BY DEF KlineChanged
  <2>2. \A s \in Sheet : input'[s] = input[s]
    BY <1>2, <2>1 DEF SetInputs, ClearKline
  <2> QED
    BY <1>1, <1>2, <2>2 DEF SetInputs, CustomInv
<1>3. CASE RefreshInputs
  BY <1>1, <1>3 DEF RefreshInputs, ClearForRefresh, ClearParams, CustomInv
<1>4. CASE Write
  <2>1. \A s \in Sheet : input'[s].kline = CustomKline
    BY <1>1, <1>4 DEF Write, Updated, Kline
  <2> QED
    BY <1>1, <1>4, <2>1 DEF Write, CustomInv
<1>5. CASE \E s \in Sheet : Recalculate(s)
  <2>1. PICK t \in Sheet : Recalculate(t)
    BY <1>5
  <2>2. \A s \in Sheet : output'[s] = IF s = t THEN input[t] ELSE output[s]
    BY <1>1, <2>1 DEF Recalculate
  <2> QED
    BY <1>1, <2>1, <2>2 DEF Recalculate, execVars, CustomInv
<1>6. CASE Begin
  BY <1>1, <1>6 DEF Begin, sheetVars, CustomInv
<1>7. CASE Rests \/ Proceeds
  BY <1>1, <1>7 DEF Rests, Proceeds, CustomInv
<1>8. CASE PollAccepts
  <2>1. \A s \in Sheet : output'[s] \in {output[s], input[s]}
    BY <1>8, PollOutputs
  <2>2. UNCHANGED <<job, input>> /\ pc' \in {"push", "commit", "save"}
    BY <1>8 DEF PollAccepts, FirstDuty
  <2> QED
    BY <1>1, <2>1, <2>2 DEF CustomInv
<1>9. CASE \/ NextCombination \/ Save \/ SaveReused \/ Share \/ Snapshot \/ Resnapshot
           \/ RestartFromScratch
  BY <1>1, <1>9 DEF NextCombination, Save, SaveReused, Share, Proceed, Snapshot, Resnapshot,
     RestartFromScratch, sheetVars, execVars, CustomInv
<1>10. ~ClearColumns /\ ~Settle
  BY <1>1 DEF ClearColumns, Settle
<1> QED
  BY InputKinds, <1>2, <1>3, <1>4, <1>5, <1>6, <1>7, <1>8, <1>9, <1>10

LEMMA OneKlineKept ==
  ASSUME Control, CustomInv, OneKlineInv, [Next]_vars
  PROVE  OneKlineInv'
<1> SUFFICES ASSUME job.engine = "c3", pc' \notin {"idle", "clear", "settle"},
                    NEW s \in InUse
             PROVE  input'[s].kline = Kline(Plan[1])
  <2>1. job' = job
    BY JobFixed
  <2> QED
    BY <2>1, SameJob DEF OneKlineInv
<1>1. DOMAIN input = Sheet /\ s \in Sheet /\ 1 \in 1..Total
  <2>1. Total \in Nat \ {0} /\ DOMAIN Plan = 1..Total /\ job.engine \in Engine
    BY TotalPositive DEF Control, TypeOK
  <2>2. \A n \in 1..Total : Plan[n].sheets \subseteq Sheet
    BY <2>1, BatchAssumption DEF Plan, IsCombination
  <2> QED
    BY <2>1, <2>2 DEF InUse, Control, TypeOK
<1>2. CASE Settle
  BY <1>1, <1>2 DEF Settle
<1>3. CASE SetInputs
  BY <1>1, <1>3 DEF SetInputs, ClearKline, KlineChanged, OneKlineInv
<1>4. CASE RefreshInputs
  BY <1>1, <1>4 DEF RefreshInputs, ClearForRefresh, ClearParams, OneKlineInv
<1>5. CASE Write
  BY <1>1, <1>5 DEF Write, Updated, OneKlineInv
<1>6. CASE Begin
  <2>1. job.custom /\ input' = input
    BY <1>6 DEF Begin, sheetVars
  <2> QED
    BY <1>1, <2>1 DEF CustomInv, Kline
<1>7. CASE \/ NextCombination \/ PollAccepts \/ Save \/ SaveReused \/ Share \/ Snapshot \/ Resnapshot
           \/ (\E t \in Sheet : Recalculate(t)) \/ (pc = "idle" /\ RestartFromScratch)
  BY <1>7 DEF NextCombination, PollAccepts, Save, SaveReused, Share, Snapshot, Resnapshot,
     Recalculate, RestartFromScratch, sheetVars, execVars, OneKlineInv
<1>8. CASE Rests \/ Proceeds
  BY <1>8 DEF Rests, Proceeds, OneKlineInv
<1>9. ~ClearColumns
  BY DEF ClearColumns
<1> QED
  BY InputKinds, <1>2, <1>3, <1>4, <1>5, <1>6, <1>7, <1>8, <1>9

\* A K-line that fitted the combination in the cache fits this one, too, when
\* the engine does not write a new one.
LEMMA KeptKline ==
  ASSUME Control, CustomInv, OneKlineInv, CacheInv, i < Total,
         NEW s \in Combo.sheets, ~KlineChanged(s), pc \in {"next", "begin"}
  PROVE  /\ input[s].kline = None \/ RightKline(input[s].kline, Combo)
         /\ ~Loose(s) => output[s] = input[s]
<1>1. s \in Sheet /\ s \in InUse /\ i + 1 \in 1..Total /\ Combo = Plan[i + 1] /\ 1 \in 1..Total
  BY ComboFacts, TotalPositive DEF Control, TypeOK
<1>2. ~InHand
  BY DEF InHand, Trying
<1>3. CASE job.custom
  <2>1. input[s].kline = Kline(Combo)
    BY <1>1, <1>3 DEF CustomInv, Kline
  <2>2. ~Loose(s) => output[s] = input[s]
    BY <1>1, <1>2, <1>3 DEF CacheInv
  <2> QED
    BY <2>1, <2>2 DEF RightKline
<1>4. CASE ~job.custom /\ job.engine = "c3"
  <2>1. Kline(Plan[1]) = Kline(Combo)
    BY <1>1, <1>4, PlanFacts DEF Kline
  <2>2. input[s].kline = Kline(Combo)
    BY <1>1, <1>4, <2>1 DEF OneKlineInv
  <2> QED
    BY <1>4, <2>2 DEF RightKline, Loose
<1>5. CASE ~job.custom /\ job.engine # "c3"
  <2>1. cache[s] # None /\ cache[s].key = Combo.key
        /\ (job.engine \in {"c7", "c1_1", "multi"} => cache[s].stock = Combo.stock)
        /\ job.engine \in {"c5", "training", "c7", "c1_1", "multi"}
    BY <1>5 DEF KlineChanged, ChangedWindow, ChangedStock, Control, Where, Engines
  <2>2. input[s].kline = None \/ RightKline(input[s].kline, cache[s])
    BY <1>1, <1>2, <2>1 DEF CacheInv
  <2>3. ~Loose(s) => output[s] = input[s]
    BY <1>1, <1>2, <2>1 DEF CacheInv
  <2>4. job.engine = "training" => cache[s].stock = Combo.stock
    <3>1. PICK n \in 1..Total : cache[s] = Plan[n]
      BY <1>1, <2>1 DEF CacheInv
    <3> QED
      BY <1>1, <3>1, PlanFacts
  <2>5. RightKline(input[s].kline, cache[s]) => RightKline(input[s].kline, Combo)
    <3>1. CASE job.engine = "c5"
      BY <1>5, <2>1, <3>1 DEF RightKline, Kline
    <3>2. CASE job.engine # "c5"
      BY <1>5, <2>1, <2>4, <3>2 DEF RightKline, Kline
    <3> QED
      BY <3>1, <3>2
  <2> QED
    BY <2>2, <2>3, <2>5
<1> QED
  BY <1>3, <1>4, <1>5

\* The K-line of a C3 task is there as long as it executes a combination.
LEMMA KeptKlineC3 ==
  ASSUME Control, CustomInv, OneKlineInv, i < Total, job.engine = "c3", pc \in Trying,
         NEW s \in Combo.sheets
  PROVE  input[s].kline = Kline(Combo)
<1>1. s \in Sheet /\ s \in InUse /\ i + 1 \in 1..Total /\ Combo = Plan[i + 1] /\ 1 \in 1..Total
  BY ComboFacts, TotalPositive DEF Control, TypeOK
<1>2. CASE job.custom
  BY <1>1, <1>2 DEF CustomInv, Kline
<1>3. CASE ~job.custom
  <2>1. Kline(Plan[1]) = Kline(Combo)
    BY <1>1, <1>3, PlanFacts DEF Kline
  <2> QED
    BY <1>1, <2>1 DEF OneKlineInv, Trying
<1> QED
  BY <1>2, <1>3

\* TryInv, for one spreadsheet.
Try(s) ==
  /\ \/ pc = "set" /\ KlineChanged(s)
     \/ input[s].kline = None
     \/ RightKline(input[s].kline, Combo)
  /\ pc \in {"set", "refresh", "snapshot"} /\ job.engine # "c4" /\ ~Loose(s) =>
       (pc = "set" /\ KlineChanged(s)) \/ Settled(s)
  /\ Written => input[s] = Updated(s) /\ RightKline(input[s].kline, Combo)
  /\ Snapped /\ ~Loose(s) => Fine(input[s], s) /\ Fine(output[s], s)

LEMMA TryAtStart ==
  ASSUME Control, CustomInv, OneKlineInv, CacheInv, ResultInv, [Next]_vars,
         i < Total, pc \in {"next", "begin"}, pc' = "set",
         UNCHANGED <<job, input, output, run, i, cache>>,
         NEW s \in Combo.sheets
  PROVE  Try(s)'
<1>1. /\ KlineChanged(s)' <=> KlineChanged(s)
      /\ Combo' = Combo /\ \A k, c : RightKline(k, c)' <=> RightKline(k, c)
  BY SameInputs, SameCombo
<1>2. Loose(s) => Loose(s)'
  BY LooseKept
<1>3. ~Written' /\ ~Snapped'
  BY DEF Written, Snapped
<1>4. CASE KlineChanged(s)
  BY <1>1, <1>3, <1>4 DEF Try
<1>5. CASE ~KlineChanged(s)
  <2>1. /\ input[s].kline = None \/ RightKline(input[s].kline, Combo)
        /\ ~Loose(s) => output[s] = input[s]
    BY <1>5, KeptKline
  <2>2. ~Loose(s)' => Settled(s)'
    BY <1>2, <2>1 DEF Settled
  <2> QED
    BY <1>1, <1>3, <2>1, <2>2 DEF Try
<1> QED
  BY <1>4, <1>5

LEMMA TryRests ==
  ASSUME Control, Shape, CustomInv, OneKlineInv, CacheInv, ResultInv, TryInv, [Next]_vars,
         Rests, pc' \in Trying, NEW s \in Combo.sheets
  PROVE  Try(s)'
<1>1. UNCHANGED <<job, input, output, run, i, cache, snap>>
  BY DEF Rests
<1>2. /\ KlineChanged(s)' <=> KlineChanged(s)
      /\ Updated(s)' = Updated(s)
      /\ Combo' = Combo /\ \A k, c : RightKline(k, c)' <=> RightKline(k, c)
  BY <1>1, SameInputs, SameCombo
<1>3. pc # "idle" /\ pc' # "idle"
  BY DEF Rests, Trying
<1>4. Loose(s) => Loose(s)'
  BY <1>3, LooseKept
<1>5. CASE pc = "begin"
  <2>1. pc' = "set" /\ i < Total
    BY <1>5 DEF Rests, Trying, Control, Where
  <2> QED
    BY <1>1, <1>5, <2>1, TryAtStart
<1>6. CASE pc # "begin"
  <2>1. pc \in Trying
    BY <1>6 DEF Rests, Trying
  <2>2. Try(s)
    BY <2>1 DEF TryInv, Try
  <2>3. /\ Settled(s)' <=> Settled(s)
        /\ Fine(input[s], s)' <=> Fine(input[s], s)
        /\ Fine(output[s], s)' <=> Fine(output[s], s)
    BY <1>1, <1>2 DEF Settled, Fine, Blank, Shown
  <2>4. CASE pc' = pc
    BY <1>1, <1>2, <1>4, <2>2, <2>3, <2>4 DEF Try, Written, Snapped
  <2>5. CASE pc = "refresh" /\ pc' # pc
    <3>1. pc' = IF job.engine = "c3" THEN "write" ELSE "snapshot"
      BY <2>5, <2>1, <1>3 DEF Rests, Trying
    <3>2. job.engine = "c3" => Loose(s)'
      BY <1>1 DEF Loose
    <3>3. job.engine # "c4"
      BY <2>5 DEF Shape
    <3> QED
      BY <1>1, <1>2, <1>4, <2>2, <2>3, <2>5, <3>1, <3>2, <3>3 DEF Try, Written, Snapped
  <2>6. CASE pc = "poll"
    <3>1. Written /\ Snapped
      BY <2>6 DEF Written, Snapped
    <3>2. Settled(s) /\ RightKline(input[s].kline, Combo) /\ input[s] = Updated(s)
      BY <2>2, <3>1 DEF Try, Settled
    <3>3. pc' \in {"set", "poll", "rewrite", "reset"}
      BY <2>6, <1>3 DEF Rests
    <3> QED
      BY <1>1, <1>2, <1>4, <2>2, <2>3, <3>1, <3>2, <3>3 DEF Try
  <2> QED
    BY <2>1, <2>4, <2>5, <2>6 DEF Rests, Trying
<1> QED
  BY <1>5, <1>6

LEMMA TrySetInputs ==
  ASSUME Control, Shape, CustomInv, OneKlineInv, ResultInv, TryInv, [Next]_vars,
         SetInputs, NEW s \in Combo.sheets
  PROVE  Try(s)'
<1>1. UNCHANGED <<job, output, i, cache>> /\ pc = "set" /\ pc' \in {"write", "refresh", "snapshot"}
      /\ (job.engine \in {"c3", "c4"} <=> pc' = "write")
  BY DEF SetInputs
<1>2. s \in Sheet /\ i < Total
  BY <1>1, ComboFacts DEF Control, Where
<1>3. Try(s)
  BY <1>1 DEF TryInv, Trying, Try
<1>4. Loose(s) => Loose(s)'
  BY <1>1, LooseKept
<1>5. ~Written' /\ (Snapped' => job.engine = "c3") /\ (job.engine = "c3" => Loose(s)')
  BY <1>1 DEF Written, Snapped, Loose
<1>6. CASE KlineChanged(s)
  <2>1. input'[s].kline = None
    BY <1>2, <1>6 DEF SetInputs, ClearKline, Cleared
  <2> QED
    BY <1>1, <1>5, <2>1 DEF Try, Settled, Blank
<1>7. CASE ~KlineChanged(s)
  <2>1. input'[s] = input[s]
    BY <1>2, <1>7 DEF SetInputs, ClearKline
  <2>2. /\ Updated(s)' = Updated(s) /\ Combo' = Combo
        /\ \A k, c : RightKline(k, c)' <=> RightKline(k, c)
    BY <1>1, <2>1, SameInputs, SameCombo
  <2>3. Settled(s)' <=> Settled(s)
    BY <1>1, <2>1, <2>2 DEF Settled, Blank
  <2> QED
    BY <1>1, <1>3, <1>4, <1>5, <1>7, <2>1, <2>2, <2>3 DEF Try
<1> QED
  BY <1>6, <1>7

LEMMA TryRefreshInputs ==
  ASSUME Control, Shape, CustomInv, OneKlineInv, ResultInv, TryInv, [Next]_vars,
         RefreshInputs, NEW s \in Combo.sheets
  PROVE  Try(s)'
<1>1. UNCHANGED <<job, output, i, cache>> /\ pc = "reset" /\ pc' = "refresh"
  BY DEF RefreshInputs
<1>2. s \in Sheet /\ i < Total
  BY <1>1, ComboFacts DEF Control, Where
<1>3. input[s] = Updated(s) /\ RightKline(input[s].kline, Combo)
  BY <1>1 DEF TryInv, Trying, Written
<1>4. ~Written' /\ ~Snapped'
  BY <1>1 DEF Written, Snapped
<1>5. Combo' = Combo /\ \A k, c : RightKline(k, c)' <=> RightKline(k, c)
  BY <1>1, SameCombo
<1>6. CASE job.engine = "c3"
  <2>1. input'[s].kline = input[s].kline
    BY <1>2, <1>6 DEF RefreshInputs, ClearForRefresh, ClearParams
  <2>2. Loose(s)'
    BY <1>1, <1>6 DEF Loose
  <2> QED
    BY <1>1, <1>3, <1>4, <1>5, <2>1, <2>2 DEF Try
<1>7. CASE job.engine # "c3" /\ job.custom
  <2>1. input' = input
    BY <1>7 DEF RefreshInputs, ClearForRefresh
  <2>2. Updated(s)' = Updated(s)
    BY <1>1, <2>1, SameInputs
  <2> QED
    BY <1>1, <1>3, <1>4, <1>5, <2>1, <2>2 DEF Try, Settled
<1>8. CASE job.engine # "c3" /\ ~job.custom
  <2>1. input'[s].kline = None
    BY <1>2, <1>8 DEF RefreshInputs, ClearForRefresh, ClearKline, Cleared
  <2> QED
    BY <1>1, <1>4, <2>1 DEF Try, Settled, Blank
<1> QED
  BY <1>6, <1>7, <1>8

LEMMA TrySnapshot ==
  ASSUME Control, Shape, CustomInv, OneKlineInv, ResultInv, TryInv, [Next]_vars,
         Snapshot \/ Resnapshot, NEW s \in Combo.sheets
  PROVE  Try(s)'
<1>1. UNCHANGED <<job, input, output, i, cache>> /\ pc \in {"snapshot", "resnapshot"}
      /\ pc' = IF job.engine = "c4" THEN "poll" ELSE "write"
  BY DEF Snapshot, Resnapshot, sheetVars, Shape
<1>2. s \in Sheet /\ i < Total
  BY <1>1, ComboFacts DEF Control, Where
<1>3. Try(s)
  BY <1>1 DEF TryInv, Trying, Try
<1>4. Loose(s) => Loose(s)'
  BY <1>1, LooseKept
<1>5. snap'[s] = Shown(output[s])
  BY <1>2 DEF Snapshot, Resnapshot, SnapOutputs
<1>6. /\ Updated(s)' = Updated(s) /\ Combo' = Combo
      /\ \A k, c : RightKline(k, c)' <=> RightKline(k, c)
      /\ \A x : (Blank(x)' <=> Blank(x)) /\ Shown(x)' = Shown(x)
  BY <1>1, SameInputs, SameCombo DEF Blank, Shown
<1>7. Fine(output[s], s)'
  BY <1>1, <1>5, <1>6 DEF Fine
<1>8. CASE job.engine = "c4"
  <2>1. Written
    BY <1>1, <1>8 DEF Written
  <2>2. Fine(input[s], s)'
    BY <1>1, <1>3, <1>6, <2>1 DEF Fine, Try
  <2> QED
    BY <1>1, <1>3, <1>6, <1>7, <1>8, <2>1, <2>2 DEF Try
<1>9. CASE job.engine # "c4"
  <2>1. pc = "snapshot" /\ ~Written'
    BY <1>1, <1>9 DEF Shape, Written
  <2>2. ~Loose(s) => Fine(input[s], s)'
    BY <1>1, <1>3, <1>5, <1>6, <1>9, <2>1 DEF Fine, Try, Settled
  <2> QED
    BY <1>1, <1>3, <1>4, <1>6, <1>7, <1>9, <2>1, <2>2 DEF Try
<1> QED
  BY <1>8, <1>9

LEMMA TryWrite ==
  ASSUME Control, Shape, CustomInv, OneKlineInv, ResultInv, TryInv, [Next]_vars,
         Write, NEW s \in Combo.sheets
  PROVE  Try(s)'
<1>1. UNCHANGED <<job, output, i, cache, snap>> /\ pc \in {"write", "rewrite"}
      /\ pc' \in {"snapshot", "resnapshot", "poll"} /\ (pc' = "snapshot" => job.engine = "c4")
      /\ (job.engine = "c4" /\ pc = "write" => pc' = "snapshot")
  BY DEF Write
<1>2. s \in Sheet /\ i < Total
  BY <1>1, ComboFacts DEF Control, Where
<1>3. Try(s)
  BY <1>1 DEF TryInv, Trying, Try
<1>4. Loose(s) => Loose(s)'
  BY <1>1, LooseKept
<1>5. input'[s] = Updated(s)
  BY <1>2 DEF Write
<1>6. (KlineChanged(s)' <=> KlineChanged(s)) /\ Combo' = Combo /\ Kline(Combo)' = Kline(Combo)
  BY <1>1, SameCombo DEF KlineChanged, ChangedWindow, ChangedStock
<1>7. Updated(s)' = Updated(s)
  BY <1>1, <1>5, <1>6 DEF Updated
<1>8. RightKline(input'[s].kline, Combo)
  <2>1. CASE job.engine = "c3"
    <3>1. input[s].kline = Kline(Combo)
      BY <1>1, <1>2, <2>1, KeptKlineC3 DEF Trying
    <3> QED
      BY <1>5, <2>1, <3>1 DEF Updated, RightKline
  <2>2. CASE job.engine # "c3" /\ (KlineChanged(s) \/ input[s].kline = None)
    BY <1>5, <2>2 DEF Updated, RightKline
  <2>3. CASE job.engine # "c3" /\ ~KlineChanged(s) /\ input[s].kline # None
    BY <1>1, <1>3, <1>5, <2>3 DEF Updated, Try
  <2> QED
    BY <2>1, <2>2, <2>3
<1>9. RightKline(input[s].kline, Combo)'
  BY <1>1, <1>6, <1>8, SameCombo
<1>10. Fine(input[s], s)'
  BY <1>5, <1>7 DEF Fine
<1>11. pc # "write" \/ job.engine # "c4" => (Fine(output[s], s) => Fine(output[s], s)')
  BY <1>1, <1>7 DEF Fine, Blank, Shown
<1>12. Snapped' /\ ~Loose(s)' => Fine(output[s], s)'
  BY <1>1, <1>3, <1>4, <1>11 DEF Snapped, Try
<1> QED
  BY <1>1, <1>5, <1>7, <1>9, <1>10, <1>12 DEF Try

LEMMA TryRecalculate ==
  ASSUME Control, Shape, CustomInv, OneKlineInv, ResultInv, TryInv, [Next]_vars,
         NEW t \in Sheet, Recalculate(t), pc \in Trying, NEW s \in Combo.sheets
  PROVE  Try(s)'
<1>1. UNCHANGED <<job, input, pc, i, cache, snap>>
  BY DEF Recalculate, execVars
<1>2. s \in Sheet /\ DOMAIN output = Sheet
  BY ComboFacts DEF Control, Where, Trying, TypeOK
<1>3. Try(s)
  BY DEF TryInv, Try
<1>4. Loose(s) => Loose(s)'
  BY <1>1, LooseKept DEF Trying
<1>5. /\ (KlineChanged(s)' <=> KlineChanged(s)) /\ Updated(s)' = Updated(s) /\ Combo' = Combo
      /\ \A k, c : RightKline(k, c)' <=> RightKline(k, c)
      /\ \A x : (Blank(x)' <=> Blank(x)) /\ Shown(x)' = Shown(x)
  BY <1>1, SameInputs, SameCombo DEF Blank, Shown
<1>6. output'[s] = output[s] \/ output'[s] = input[s]
  BY <1>2 DEF Recalculate
<1>7. /\ Settled(s) => Settled(s)'
      /\ Fine(input[s], s) => Fine(input[s], s)'
      /\ Fine(input[s], s) /\ Fine(output[s], s) => Fine(output[s], s)'
  BY <1>1, <1>5, <1>6 DEF Settled, Fine
<1> QED
  BY <1>1, <1>3, <1>4, <1>5, <1>7 DEF Try, Written, Snapped

LEMMA TryKept ==
  ASSUME Control, Shape, CustomInv, OneKlineInv, CacheInv, ResultInv, TryInv, [Next]_vars
  PROVE  TryInv'
<1> SUFFICES ASSUME pc' \in Trying, NEW s \in Combo'.sheets PROVE Try(s)'
  BY DEF TryInv, Try
<1>1. CASE Rests
  <2>1. Combo' = Combo
    BY <1>1, SameCombo DEF Rests
  <2> QED
    BY <1>1, <2>1, TryRests
<1>2. CASE SetInputs
  <2>1. Combo' = Combo
    BY <1>2, SameCombo DEF SetInputs
  <2> QED
    BY <1>2, <2>1, TrySetInputs
<1>3. CASE RefreshInputs
  <2>1. Combo' = Combo
    BY <1>3, SameCombo DEF RefreshInputs
  <2> QED
    BY <1>3, <2>1, TryRefreshInputs
<1>4. CASE Snapshot \/ Resnapshot
  <2>1. Combo' = Combo
    BY <1>4, SameCombo DEF Snapshot, Resnapshot
  <2> QED
    BY <1>4, <2>1, TrySnapshot
<1>5. CASE Write
  <2>1. Combo' = Combo
    BY <1>5, SameCombo DEF Write
  <2> QED
    BY <1>5, <2>1, TryWrite
<1>6. CASE \E t \in Sheet : Recalculate(t)
  <2>1. PICK t \in Sheet : Recalculate(t)
    BY <1>6
  <2>2. Combo' = Combo /\ pc' = pc
    BY <2>1, SameCombo DEF Recalculate, execVars
  <2> QED
    BY <2>1, <2>2, TryRecalculate
<1>7. CASE NextCombination
  <2>1. UNCHANGED <<job, input, output, run, i, cache>> /\ pc = "next" /\ i < Total /\ pc' = "set"
    BY <1>7 DEF NextCombination, sheetVars, Trying
  <2>2. Combo' = Combo
    BY <2>1, SameCombo
  <2> QED
    BY <2>1, <2>2, TryAtStart
<1>8. ~Proceeds /\ ~ClearColumns /\ ~Settle /\ ~PollAccepts /\ ~Save /\ ~SaveReused /\ ~Share
      /\ ~Begin /\ ~(pc = "idle" /\ RestartFromScratch)
  BY DEF Trying, Proceeds, ClearColumns, Settle, PollAccepts, FirstDuty, Save, SaveReused, Share,
     Proceed, Begin, RestartFromScratch, execVars
<1> QED
  BY InputKinds, <1>1, <1>2, <1>3, <1>4, <1>5, <1>6, <1>7, <1>8

\* What an attempt that is accepted has read of one spreadsheet.
LEMMA PollReads ==
  ASSUME Control, PollAccepts, NEW s \in Combo.sheets
  PROVE  /\ DOMAIN result' = Combo.sheets
         /\ output'[s] \in {output[s], input[s]} /\ ~Blank(output'[s])
         /\ result'[s].series = output'[s]
         /\ job.engine = "c1_1" => output'[s] = output[s] /\ result'[s].head = output[s]
         /\ \/ result'[s].head \in {output[s], input[s]} /\ ~Blank(result'[s].head)
            \/ /\ result'[s].head = None /\ Blank(output[s])
               /\ job.engine \in Unchecked /\ ~job.prompt
<1>1. PICK late \in SUBSET Lagging : \E early \in SUBSET late :
        /\ MayLagBeforeHead(early) /\ MayLagBeforeSeries(late)
        /\ \A t \in Combo.sheets :
             /\ ~Blank(Reading(late)[t])
             /\ job.engine = "c3" => ~Blank(Reading(early)[t])
        /\ result' = ResultOf(Reading(early), Reading(late))
        /\ output' = Reading(late)
  BY DEF PollAccepts
<1>2. PICK early \in SUBSET late :
        /\ MayLagBeforeHead(early) /\ MayLagBeforeSeries(late)
        /\ \A t \in Combo.sheets :
             /\ ~Blank(Reading(late)[t])
             /\ job.engine = "c3" => ~Blank(Reading(early)[t])
        /\ result' = ResultOf(Reading(early), Reading(late))
        /\ output' = Reading(late)
  BY <1>1
<1>3. pc = "poll" /\ Waited /\ Accept(s) /\ i < Total
  BY DEF PollAccepts, Control, Where
<1>4. s \in Sheet /\ s \in InUse
  BY <1>3, ComboFacts
<1>5. Reading(early)[s] = (IF s \in early THEN input[s] ELSE output[s])
      /\ Reading(late)[s] = (IF s \in late THEN input[s] ELSE output[s])
  BY <1>4 DEF Reading
<1>6. /\ DOMAIN result' = Combo.sheets
      /\ result'[s].head = Seen(Reading(early)[s]) /\ result'[s].series = Reading(late)[s]
      /\ output'[s] = Reading(late)[s] /\ ~Blank(Reading(late)[s])
      /\ job.engine = "c3" => ~Blank(Reading(early)[s])
  BY <1>2 DEF ResultOf
<1>7. ASSUME job.engine = "c1_1" PROVE late = {} /\ early = {}
  BY <1>2, <1>7 DEF MayLagBeforeSeries
<1>8. CASE ~Blank(Reading(early)[s])
  BY <1>5, <1>6, <1>7, <1>8 DEF Seen
<1>9. CASE Blank(Reading(early)[s])
  <2>1. job.engine \notin {"c3", "c1_1"}
    BY <1>5, <1>6, <1>7, <1>9
  <2>2. early = {}
    BY <1>2, <2>1 DEF MayLagBeforeHead
  <2>3. Blank(output[s]) /\ result'[s].head = None
    BY <1>5, <1>6, <1>9, <2>2 DEF Seen
  <2>4. job.engine # "c4"
    BY <1>3, <2>3 DEF Accept, AcceptC4
  <2>5. s \in late
    BY <1>5, <1>6, <2>3
  <2>6. ~job.prompt
    BY <1>2, <1>3, <1>4, <2>5 DEF Lagging, Waited
  <2> QED
    BY <1>5, <1>6, <2>1, <2>3, <2>4, <2>6 DEF Unchecked, Control, Where, Engines
<1> QED
  BY <1>8, <1>9

\* What the engine accepts from a spreadsheet it has watched was computed from
\* the inputs it has written; C1.1 does not look at a strategy that has lost
\* almost everything.
LEMMA AcceptedFresh ==
  ASSUME Control, TryInv, PollAccepts, NEW s \in Combo.sheets, ~Loose(s), ~Blank(output[s])
  PROVE  output[s] = input[s] \/ (job.engine = "c1_1" /\ output[s].param \in Collapsing)
<1>1. Accept(s) /\ pc = "poll"
  BY DEF PollAccepts
<1>2. input[s] = Updated(s) /\ Fine(output[s], s)
  BY <1>1 DEF TryInv, Trying, Written, Snapped
<1>3. job.engine \in Engines \ {"c3"}
  BY DEF Loose, Control, Where
<1>4. Moved(s) \/ (job.engine = "c1_1" /\ output[s].param \in Collapsing)
  BY <1>1, <1>3 DEF Accept, AcceptC4, AcceptC5, AcceptC7, AcceptC11, AcceptBacktest, Engines
<1> QED
  BY <1>2, <1>4 DEF Fine, Moved

\* The outputs of the inputs of the poll are the right result.
LEMMA AcceptedRight ==
  ASSUME Control, Shape, TryInv, i < Total, pc = "poll", NEW s \in Combo.sheets
  PROVE  /\ RightKline(input[s].kline, Combo) /\ input[s].param = Combo.param
         /\ \/ input[s] = Wanted(Combo)
            \/ job.engine = "c5" /\ input[s].kline[2] = Combo.key /\ input[s].param = Combo.param
<1>1. input[s] = Updated(s) /\ RightKline(input[s].kline, Combo)
  BY DEF TryInv, Trying, Written
<1>3. input[s].param = Combo.param
  BY <1>1 DEF Updated
<1>4. input[s] = [kline |-> input[s].kline, param |-> Combo.param]
  BY <1>1, <1>3 DEF Updated
<1> QED
  BY <1>1, <1>3, <1>4 DEF RightKline, Wanted

\* CacheInv, for one spreadsheet.
Cached(s) ==
  /\ pc \in {"clear", "settle"} => cache[s] = None
  /\ cache[s] # None => \E n \in 1..Total : cache[s] = Plan[n]
  /\ job.engine \in {"c3", "c4"} => cache[s] = None
  /\ pc # "idle" /\ ~(InHand /\ s \in Combo.sheets) =>
       /\ cache[s] # None =>
            input[s].kline = None \/ RightKline(input[s].kline, cache[s])
       /\ (cache[s] # None \/ job.custom) /\ ~Loose(s) => output[s] = input[s]

\* A step that changes nothing but the place, for a spreadsheet that was not in
\* hand before, or is in hand afterwards.
LEMMA CachedStays ==
  ASSUME Control, CacheInv, ResultInv, [Next]_vars, NEW s \in Sheet,
         UNCHANGED <<job, cache>>, input'[s] = input[s],
         output'[s] = output[s] \/ output'[s] = input[s],
         pc' \in {"clear", "settle"} => pc \in {"clear", "settle"},
         pc' # "idle" => pc # "idle",
         pc' # "idle" /\ InHand /\ s \in Combo.sheets => InHand' /\ s \in Combo'.sheets
  PROVE  Cached(s)'
<1>1. Cached(s)
  BY DEF CacheInv, Cached
<1>2. pc' # "idle" => (Loose(s) => Loose(s)')
  BY LooseKept
<1>3. /\ Total' = Total /\ Plan' = Plan
      /\ \A k, c : RightKline(k, c)' <=> RightKline(k, c)
  BY SameJob
<1> QED
  BY <1>1, <1>2, <1>3 DEF Cached

LEMMA CachedAccepts ==
  ASSUME Control, Shape, CustomInv, CacheInv, TryInv, ResultInv, [Next]_vars, NEW s \in Sheet,
         PollAccepts
  PROVE  Cached(s)'
<1>1. /\ UNCHANGED <<job, input, i, run, rows>> /\ pc = "poll" /\ i < Total
      /\ pc' \in {"push", "commit", "save"} /\ pc' = FirstDuty
      /\ output'[s] \in {output[s], input[s]}
  <2>1. output'[s] \in {output[s], input[s]}
    BY PollOutputs
  <2> QED
    BY <2>1 DEF PollAccepts, dbVars, FirstDuty, Control, Where
<1>2. /\ Total' = Total /\ Plan' = Plan /\ Combo' = Combo
      /\ \A c : Wanted(c)' = Wanted(c)
      /\ \A k, c : RightKline(k, c)' <=> RightKline(k, c)
  BY <1>1, SameCombo
<1>3. Loose(s) => Loose(s)'
  BY <1>1, LooseKept
<1>4. Cached(s)
  BY DEF CacheInv, Cached
<1>5. CASE s \notin Combo.sheets \/ job.engine = "multi"
  <2>1. cache'[s] = cache[s]
    BY <1>5 DEF PollAccepts, CacheAfter, Shape
  <2>2. InHand /\ s \in Combo.sheets => InHand' /\ s \in Combo'.sheets
    BY <1>1, <1>2, <1>5 DEF InHand, FirstDuty, PushFirst, CommitFirst
  <2> QED
    BY <1>1, <1>2, <1>3, <1>4, <2>1, <2>2 DEF Cached
<1>6. CASE s \in Combo.sheets /\ job.engine \in {"c3", "c4"}
  <2>1. cache'[s] = cache[s]
    BY <1>6 DEF PollAccepts, CacheAfter
  <2>2. job.custom => Loose(s)'
    BY <1>1, <1>6 DEF CustomInv, MayBeCustom, Loose
  <2> QED
    BY <1>1, <1>2, <1>4, <1>6, <2>1, <2>2 DEF Cached
<1>7. CASE s \in Combo.sheets /\ job.engine \notin {"c3", "c4", "multi"}
  <2>1. cache'[s] = Combo /\ Combo = Plan[i + 1] /\ i + 1 \in 1..Total
    BY <1>1, <1>7, ComboFacts DEF PollAccepts, CacheAfter
  <2>2. RightKline(input[s].kline, Combo) /\ input[s] = Updated(s)
    BY <1>1, <1>7 DEF TryInv, Trying, Written
  <2>3. ASSUME ~Loose(s)' PROVE output'[s] = input[s]
    <3>1. ~Loose(s)
      BY <1>3, <2>3
    <3>2. result'[s].series = output'[s] /\ ~Blank(output'[s])
      BY <1>7, PollReads
    <3>3. SUFFICES ASSUME output'[s] = output[s] PROVE output[s] = input[s]
      BY <1>1
    <3>4. CASE job.engine = "c1_1" /\ output[s].param \in Collapsing
      <4>1. output[s] = Wanted(Combo)
        BY <1>1, <1>2, <1>7, <2>3, <3>2, <3>3, <3>4 DEF Loose, Tainted, FirstDuty, PushFirst
      <4>2. input[s] = Wanted(Combo)
        BY <1>7, <2>2, <3>4 DEF Updated, Wanted, RightKline
      <4> QED
        BY <4>1, <4>2
    <3> QED
      BY <1>7, <3>1, <3>2, <3>3, <3>4, AcceptedFresh DEF Blank
  <2> QED
    BY <1>1, <1>2, <1>7, <2>1, <2>2, <2>3 DEF Cached
<1> QED
  BY <1>5, <1>6, <1>7

LEMMA CachedShares ==
  ASSUME Control, Shape, CustomInv, CacheInv, ResultInv, [Next]_vars, NEW s \in Sheet, Share
  PROVE  Cached(s)'
<1>1. /\ UNCHANGED <<job, input, output>> /\ pc = "share" /\ pc' = "next" /\ i < Total
      /\ cache' = CacheAfter
  BY DEF Share, Proceed, sheetVars, Control, Where
<1>2. /\ Total' = Total /\ Plan' = Plan
      /\ \A k, c : RightKline(k, c)' <=> RightKline(k, c)
  BY <1>1, SameJob
<1>3. Loose(s) => Loose(s)'
  BY <1>1, LooseKept
<1>4. Cached(s) /\ ~InHand'
  BY <1>1 DEF CacheInv, Cached, InHand, Trying
<1>5. CASE s \notin Combo.sheets
  <2>1. cache'[s] = cache[s]
    BY <1>1, <1>5 DEF CacheAfter
  <2> QED
    BY <1>1, <1>2, <1>3, <1>4, <1>5, <2>1 DEF Cached
<1>6. CASE s \in Combo.sheets /\ job.engine = "multi"
  <2>1. cache'[s] = Combo /\ Combo = Plan[i + 1] /\ i + 1 \in 1..Total
    BY <1>1, <1>6, ComboFacts DEF CacheAfter
  <2>2. RightKline(input[s].kline, Combo) /\ (~job.prompt => output[s] = input[s])
    BY <1>1, <1>6 DEF ResultInv
  <2>3. job.prompt => Loose(s)'
    BY <1>1 DEF Loose
  <2> QED
    BY <1>1, <1>2, <1>4, <1>6, <2>1, <2>2, <2>3 DEF Cached
<1>7. job.engine = "multi"
  BY <1>1 DEF Shape
<1> QED
  BY <1>5, <1>6, <1>7

LEMMA CacheKept ==
  ASSUME Control, Shape, CustomInv, OneKlineInv, CacheInv, TryInv, ResultInv, [Next]_vars
  PROVE  CacheInv'
<1> SUFFICES ASSUME NEW s \in Sheet PROVE Cached(s)'
  BY DEF CacheInv, Cached
<1>1. DOMAIN input = Sheet /\ DOMAIN output = Sheet
  BY DEF Control, TypeOK
<1>2. pc \in Trying => i < Total
  BY DEF Control, Where, Trying
<1>3. CASE Rests
  <2>1. pc' # "idle" => pc # "idle"
    BY <1>3 DEF Rests
  <2>2. pc' # "idle" /\ InHand => InHand' /\ Combo' = Combo
    BY <1>3, SameCombo DEF Rests, InHand, Trying, Control, Where, PushFirst, CommitFirst
  <2>3. pc' \in {"clear", "settle"} => pc \in {"clear", "settle"}
    BY <1>3 DEF Rests
  <2> QED
    BY <1>3, <2>1, <2>2, <2>3, CachedStays DEF Rests
<1>4. CASE Proceeds
  <2>1. ~InHand
    BY <1>4 DEF Proceeds, InHand, Trying
  <2> QED
    BY <1>4, <2>1, CachedStays DEF Proceeds
<1>5. CASE ClearColumns \/ Settle
  <2>1. UNCHANGED <<job, cache, i>> /\ pc \in {"clear", "settle"} /\ ~job.custom
    BY <1>5 DEF ClearColumns, Settle, CustomInv
  <2>2. cache'[s] = None
    BY <2>1 DEF CacheInv
  <2> QED
    BY <2>1, <2>2 DEF Cached
<1>6. CASE SetInputs \/ RefreshInputs \/ Write
  <2>1. UNCHANGED <<job, cache, output, i>> /\ pc \in Trying /\ pc' \in Trying
    BY <1>6 DEF SetInputs, RefreshInputs, Write, Trying
  <2>2. InHand /\ InHand' /\ Combo' = Combo
    BY <2>1, SameCombo DEF InHand
  <2>3. s \notin Combo.sheets => input'[s] = input[s]
    BY <1>6 DEF SetInputs, RefreshInputs, Write, ClearForRefresh, ClearKline, ClearParams, Updated
  <2>4. CASE s \notin Combo.sheets
    BY <2>1, <2>2, <2>3, <2>4, CachedStays DEF Trying
  <2>5. CASE s \in Combo.sheets
    <3>1. Cached(s) /\ Total' = Total /\ Plan' = Plan
      BY <2>1, SameCombo DEF CacheInv, Cached
    <3> QED
      BY <2>1, <2>2, <2>5, <3>1 DEF Cached, Trying
  <2> QED
    BY <2>4, <2>5
<1>7. CASE Snapshot \/ Resnapshot
  <2>1. UNCHANGED <<job, input, output, cache, i>> /\ pc \in Trying /\ pc' \in Trying
    BY <1>7 DEF Snapshot, Resnapshot, Trying, sheetVars
  <2>2. InHand' /\ Combo' = Combo
    BY <2>1, SameCombo DEF InHand
  <2> QED
    BY <2>1, <2>2, CachedStays DEF Trying
<1>8. CASE \E t \in Sheet : Recalculate(t)
  <2>1. PICK t \in Sheet : Recalculate(t)
    BY <1>8
  <2>2. UNCHANGED <<job, input, pc, i, cache>>
    BY <2>1 DEF Recalculate, execVars
  <2>3. Combo' = Combo /\ (InHand' <=> InHand)
    BY <2>2, SameCombo DEF InHand
  <2>4. output'[s] = output[s] \/ output'[s] = input[s]
    BY <1>1, <2>1 DEF Recalculate
  <2> QED
    BY <2>2, <2>3, <2>4, CachedStays
<1>9. CASE NextCombination \/ Save \/ SaveReused
  <2>1. UNCHANGED <<job, input, output, cache>> /\ pc # "idle" /\ pc' \notin {"clear", "settle"}
    BY <1>9 DEF NextCombination, Save, SaveReused, Proceed, sheetVars
  <2>2. InHand => InHand' /\ Combo' = Combo
    BY <1>9, SameCombo DEF NextCombination, Save, SaveReused, Proceed, InHand, Trying,
       CommitFirst
  <2> QED
    BY <2>1, <2>2, CachedStays
<1>10. CASE Begin
  <2>1. /\ UNCHANGED <<job, input, output>> /\ run' = run + 1 /\ cache'[s] = None
        /\ run \in Nat
    BY <1>10 DEF Begin, sheetVars, Control, TypeOK
  <2>2. job.custom /\ ~Loose(s)' => output'[s] = input'[s]
    <3>1. job.custom /\ ~Loose(s)' => run = 0
      BY <2>1 DEF Loose
    <3> QED
      BY <2>1, <3>1 DEF Shape
  <2> QED
    BY <2>1, <2>2 DEF Cached
<1>11. CASE pc = "idle" /\ RestartFromScratch
  <2>1. UNCHANGED <<job, input, output, pc, cache>>
    BY <1>11 DEF RestartFromScratch, sheetVars, execVars
  <2> QED
    BY <1>11, <2>1, CachedStays
<1> QED
  BY InputKinds, <1>3, <1>4, <1>5, <1>6, <1>7, <1>8, <1>9, <1>10, <1>11, CachedAccepts, CachedShares

LEMMA ResultAccepted ==
  ASSUME Control, Shape, CustomInv, TryInv, ResultInv, [Next]_vars, PollAccepts,
         NEW s \in Combo.sheets
  PROVE  Result(result[s], s)'
<1>1. /\ UNCHANGED <<job, input, i, run, rows>> /\ pc = "poll" /\ i < Total
      /\ pc' = FirstDuty /\ pc' \in {"push", "commit", "save"} /\ Waited /\ Accept(s)
  BY DEF PollAccepts, dbVars, Control, Where, FirstDuty
<1>2. Combo' = Combo /\ Wanted(Combo)' = Wanted(Combo)
  BY <1>1, SameCombo
<1>3. Loose(s) => Loose(s)'
  BY <1>1, LooseKept
<1>4. s \in InUse
  BY <1>1, ComboFacts
<1>5. OwnInputs(input[s], s)'
  BY <1>1, <1>2, AcceptedRight DEF OwnInputs
<1> PICK out : out = output[s]
  OBVIOUS
<1>6. ASSUME ~Blank(out), job.engine = "c1_1" => out = result'[s].series, out # input[s]
      PROVE  OwnInputs(out, s)'
  <2>1. ~job.prompt
    BY <1>1, <1>4, <1>6 DEF Waited
  <2>2. CASE job.engine \in {"c3", "c5"} /\ Loose(s)
    <3>1. Echoed(s)
      BY <1>1, <2>2 DEF Accept, AcceptC3, AcceptC5
    <3>2. job.engine = "c5" => job.custom /\ run > 1
      BY <2>1, <2>2 DEF Loose, Tainted
    <3> QED
      BY <1>1, <1>2, <2>1, <2>2, <3>1, <3>2 DEF OwnInputs, Echoed
  <2>3. CASE job.engine \notin {"c3", "c5"} /\ Loose(s)
    <3>1. \/ job.custom /\ run > 1 /\ job.engine \in {"c7", "c1_1"}
          \/ job.engine = "c1_1" /\ Tainted(s)'
      BY <1>1, <1>3, <2>1, <2>3 DEF Loose, Tainted, CustomInv, MayBeCustom
    <3> QED
      BY <1>1, <1>2, <2>1, <3>1 DEF OwnInputs
  <2>4. CASE ~Loose(s)
    <3>1. job.engine = "c1_1" /\ output[s].param \in Collapsing
      BY <1>6, <2>4, AcceptedFresh DEF Blank
    <3>2. out = Wanted(Combo) \/ Tainted(s)'
      BY <1>1, <1>2, <1>6, <3>1 DEF Tainted
    <3> QED
      BY <1>1, <1>2, <2>1, <3>1, <3>2 DEF OwnInputs
  <2> QED
    BY <2>2, <2>3, <2>4
<1>7. ASSUME NEW y \in {out, input[s]}, ~Blank(y), job.engine = "c1_1" => y = result'[s].series
      PROVE  OwnInputs(y, s)'
  <2>1. PICK inp : inp = input[s] /\ inp = input'[s]
    BY <1>1
  <2>2. OwnInputs(inp, s)'
    BY <1>5, <2>1
  <2> QED
    BY <1>6, <1>7, <2>1, <2>2
<1>8. PICK head, series : head = result'[s].head /\ series = result'[s].series
  OBVIOUS
<1>9. /\ series \in {out, input[s]} /\ ~Blank(series)
      /\ job.engine = "c1_1" => head = series
      /\ \/ head \in {out, input[s]} /\ ~Blank(head)
         \/ head = None /\ job.engine \in Unchecked /\ ~job.prompt
  <2>1. /\ output'[s] \in {output[s], input[s]} /\ ~(output'[s].kline = None \/ output'[s].param = None)
        /\ result'[s].series = output'[s]
        /\ job.engine = "c1_1" => output'[s] = output[s] /\ result'[s].head = output[s]
        /\ \/ result'[s].head \in {output[s], input[s]} /\ ~Blank(result'[s].head)
           \/ /\ result'[s].head = None /\ Blank(output[s])
              /\ job.engine \in Unchecked /\ ~job.prompt
    BY PollReads DEF Blank
  <2> QED
    BY <1>8, <2>1 DEF Blank
<1>10. OwnInputs(series, s)'
  BY <1>7, <1>8, <1>9
<1>11. OwnInputs(head, s)' \/ (head = None /\ job.engine \in Unchecked /\ ~job.prompt)
  BY <1>7, <1>8, <1>9
<1> QED
  BY <1>1, <1>8, <1>10, <1>11 DEF Result

\* The three parts of ResultInv.
InHandResult ==
  pc \in {"push", "commit", "save"} /\ ~(job.engine \in CommitFirst /\ pc = "push") =>
    DOMAIN result = Combo.sheets /\ \A s \in Combo.sheets : Result(result[s], s)
MultiResult ==
  job.engine = "multi" /\ pc \in {"save", "share"} => \A s \in Combo.sheets :
    /\ RightKline(input[s].kline, Combo)
    /\ ~job.prompt => output[s] = input[s]
    /\ DOMAIN result = Combo.sheets /\ Genuine(result[s], Combo)
ReusedResult ==
  /\ pc \in {"begin", "reuse"} /\ result # None =>
       job.engine = "multi" /\ \A s \in DOMAIN result : Genuine(result[s], Combo)
  /\ pc = "reuse" => result # None

LEMMA ResultParts == ResultInv <=> InHandResult /\ MultiResult /\ ReusedResult
BY DEF ResultInv, InHandResult, MultiResult, ReusedResult

LEMMA InHandResultKept ==
  ASSUME Control, Shape, CustomInv, TryInv, ResultInv, [Next]_vars
  PROVE  InHandResult'
<1> SUFFICES ASSUME pc' \in {"push", "commit", "save"},
                    ~(job'.engine \in CommitFirst /\ pc' = "push")
             PROVE  /\ DOMAIN result' = Combo'.sheets
                    /\ \A s \in Combo'.sheets : Result(result[s], s)'
  BY DEF InHandResult
<1>1. CASE PollAccepts
  <2>1. Combo' = Combo /\ DOMAIN result' = Combo.sheets
    BY <1>1, SameCombo DEF PollAccepts, ResultOf
  <2> QED
    BY <1>1, <2>1, ResultAccepted
<1>2. ASSUME UNCHANGED <<job, i, run, result>>, pc # "idle",
             pc \in {"push", "commit", "save"}, ~(job.engine \in CommitFirst /\ pc = "push")
      PROVE  /\ DOMAIN result' = Combo'.sheets
             /\ \A s \in Combo'.sheets : Result(result[s], s)'
  <2>1. Combo' = Combo /\ Wanted(Combo)' = Wanted(Combo)
    BY <1>2, SameCombo
  <2>2. InHandResult
    BY ResultParts
  <2>3. \A s : Tainted(s) => Tainted(s)'
    BY <1>2, TaintedKept
  <2> QED
    BY <1>2, <2>1, <2>2, <2>3 DEF InHandResult, Result, OwnInputs
<1>3. CASE Rests
  BY <1>2, <1>3 DEF Rests, PushFirst, CommitFirst
<1>4. CASE \E t \in Sheet : Recalculate(t)
  BY <1>2, <1>4 DEF Recalculate, execVars
<1>5. CASE RestartFromScratch
  BY <1>5 DEF RestartFromScratch, execVars, Control
<1>6. ~Proceeds /\ ~ClearColumns /\ ~Settle /\ ~SetInputs /\ ~RefreshInputs /\ ~Write /\ ~Snapshot
      /\ ~Resnapshot /\ ~NextCombination /\ ~SaveReused /\ ~Share /\ ~Begin
  BY DEF Proceeds, ClearColumns, Settle, SetInputs, RefreshInputs, Write, Snapshot, Resnapshot,
     NextCombination, SaveReused, Share, Proceed, Begin
<1>7. ~Save
  BY JobFixed DEF Save, Proceed
<1> QED
  BY InputKinds, <1>1, <1>3, <1>4, <1>5, <1>6, <1>7

LEMMA MultiResultKept ==
  ASSUME Control, Shape, CustomInv, TryInv, ResultInv, [Next]_vars
  PROVE  MultiResult'
<1> SUFFICES ASSUME job.engine = "multi", pc' \in {"save", "share"}, NEW s \in Combo'.sheets
             PROVE  /\ RightKline(input[s].kline, Combo)'
                    /\ ~job.prompt => output'[s] = input'[s]
                    /\ DOMAIN result' = Combo'.sheets /\ Genuine(result[s], Combo)'
  BY JobFixed DEF MultiResult
<1>1. FirstDuty = "save" /\ pc # "commit" /\ pc # "push"
  BY DEF FirstDuty, PushFirst, CommitFirst, Control, Where
<1>2. ~job.custom
  BY DEF CustomInv, MayBeCustom
<1>3. CASE PollAccepts
  <2>1. UNCHANGED <<job, input, i>> /\ pc = "poll" /\ i < Total
    BY <1>3 DEF PollAccepts, Control, Where
  <2>2. Combo' = Combo /\ Wanted(Combo)' = Wanted(Combo)
        /\ \A k, c : RightKline(k, c)' <=> RightKline(k, c)
    BY <2>1, SameCombo
  <2>3. s \in Combo.sheets /\ s \in InUse /\ job.prompt => output[s] = input[s]
    BY <1>3 DEF PollAccepts, Waited
  <2>4. s \in Combo.sheets /\ s \in InUse
    BY <2>1, <2>2, ComboFacts
  <2>5. ~Blank(output[s]) => output[s] = input[s]
    <3>1. ~job.prompt => ~Loose(s)
      BY <1>2 DEF Loose, Tainted
    <3> QED
      BY <1>3, <2>3, <2>4, <3>1, AcceptedFresh
  <2>6. /\ DOMAIN result' = Combo.sheets
        /\ output'[s] \in {output[s], input[s]} /\ ~Blank(output'[s])
        /\ result'[s].series = output'[s]
        /\ \/ result'[s].head \in {output[s], input[s]} /\ ~Blank(result'[s].head)
           \/ result'[s].head = None /\ ~job.prompt
    BY <1>3, <2>4, PollReads
  <2>7. output'[s] = input[s]
    BY <2>5, <2>6 DEF Blank
  <2>8. result'[s].head = input[s] \/ (result'[s].head = None /\ ~job.prompt)
    BY <2>5, <2>6 DEF Blank
  <2>9. RightKline(input[s].kline, Combo) /\ input[s] = Wanted(Combo)
    BY <2>1, <2>4, AcceptedRight
  <2> QED
    BY <2>1, <2>2, <2>6, <2>7, <2>8, <2>9 DEF Genuine
<1>4. ASSUME UNCHANGED <<job, i, input, result>>, pc \in {"save", "share"},
             \A t \in Combo.sheets : output'[t] = output[t] \/ output'[t] = input[t]
      PROVE  /\ RightKline(input[s].kline, Combo)'
             /\ ~job.prompt => output'[s] = input'[s]
             /\ DOMAIN result' = Combo'.sheets /\ Genuine(result[s], Combo)'
  <2>1. MultiResult
    BY ResultParts
  <2>2. Combo' = Combo /\ Wanted(Combo)' = Wanted(Combo)
        /\ \A k, c : RightKline(k, c)' <=> RightKline(k, c)
    BY <1>4, SameCombo
  <2> QED
    BY <1>4, <2>1, <2>2 DEF MultiResult, Genuine
<1>5. CASE Rests
  BY <1>1, <1>4, <1>5 DEF Rests
<1>6. CASE \E t \in Sheet : Recalculate(t)
  <2>1. PICK t \in Sheet : Recalculate(t)
    BY <1>6
  <2>2. \A u \in Sheet : output'[u] = output[u] \/ output'[u] = input[u]
    BY <2>1 DEF Recalculate, Control, TypeOK
  <2>3. UNCHANGED <<job, i, input, result, pc>>
    BY <2>1 DEF Recalculate, execVars
  <2>4. Combo.sheets \subseteq Sheet
    BY <2>3, ComboFacts DEF Control, Where
  <2> QED
    BY <1>4, <2>2, <2>3, <2>4
<1>7. CASE Save
  BY <1>4, <1>7 DEF Save, Proceed, sheetVars
<1>8. ~Proceeds /\ ~ClearColumns /\ ~Settle /\ ~SetInputs /\ ~RefreshInputs /\ ~Write /\ ~Snapshot
      /\ ~Resnapshot /\ ~NextCombination /\ ~SaveReused /\ ~Share /\ ~Begin
      /\ ~(pc = "idle" /\ RestartFromScratch)
  BY DEF Proceeds, ClearColumns, Settle, SetInputs, RefreshInputs, Write, Snapshot, Resnapshot,
     NextCombination, SaveReused, Share, Proceed, Begin, RestartFromScratch, execVars
<1> QED
  BY InputKinds, <1>3, <1>5, <1>6, <1>7, <1>8

LEMMA ReusedResultKept ==
  ASSUME Control, SharedInv, ResultInv, [Next]_vars
  PROVE  ReusedResult'
<1>6. pc' = "reuse" => result' # None
  BY InputKinds, ResultParts DEF ReusedResult, Rests, Proceeds, ClearColumns, Settle, SetInputs,
     RefreshInputs, Write, Snapshot, Resnapshot, Recalculate, NextCombination, PollAccepts,
     FirstDuty, Save, SaveReused, Share, Proceed, Begin, RestartFromScratch, execVars
<1> SUFFICES ASSUME pc' \in {"begin", "reuse"}, result' # None
             PROVE  job'.engine = "multi" /\ \A s \in DOMAIN result' : Genuine(result[s], Combo)'
  BY <1>6 DEF ReusedResult
<1>1. CASE NextCombination
  <2>1. /\ UNCHANGED <<job, i>> /\ pc = "next" /\ i < Total
        /\ result' = IF Reusable THEN (CHOOSE e \in CachedResult(Combo) : TRUE).seen ELSE None
    BY <1>1 DEF NextCombination
  <2>2. Reusable
    BY <2>1
  <2>3. PICK e \in CachedResult(Combo) : result' = e.seen
    BY <2>1, <2>2 DEF Reusable
  <2>4. e \in shared /\ e.stock = Combo.stock /\ e.param = Combo.param
    BY <2>3 DEF CachedResult
  <2>5. i + 1 \in 1..Total /\ Combo = Plan[i + 1]
    BY <2>1, ComboFacts
  <2>6. (\A s \in DOMAIN e.seen : Genuine(e.seen[s], Combo)) /\ job.engine = "multi"
    BY <2>2, <2>3, <2>4, <2>5 DEF SharedInv, Reusable
  <2> QED
    BY <2>1, <2>3, <2>6, SameCombo DEF Genuine
<1>2. ASSUME UNCHANGED <<job, i, result>>, pc \in {"begin", "reuse"}
      PROVE  job'.engine = "multi" /\ \A s \in DOMAIN result' : Genuine(result[s], Combo)'
  <2>1. Combo' = Combo /\ Wanted(Combo)' = Wanted(Combo)
    BY <1>2, SameCombo
  <2> QED
    BY <1>2, <2>1, ResultParts DEF ReusedResult, Genuine
<1>3. CASE Rests
  BY <1>2, <1>3 DEF Rests
<1>4. CASE \E t \in Sheet : Recalculate(t)
  BY <1>2, <1>4 DEF Recalculate, execVars
<1>5. ~Proceeds /\ ~ClearColumns /\ ~Settle /\ ~SetInputs /\ ~RefreshInputs /\ ~Write /\ ~Snapshot
      /\ ~Resnapshot /\ ~PollAccepts /\ ~Save /\ ~SaveReused /\ ~Share /\ ~Begin
      /\ ~(pc = "idle" /\ RestartFromScratch)
  BY DEF Proceeds, ClearColumns, Settle, SetInputs, RefreshInputs, Write, Snapshot, Resnapshot,
     PollAccepts, FirstDuty, Save, SaveReused, Share, Proceed, Begin, RestartFromScratch, execVars
<1> QED
  BY InputKinds, <1>1, <1>3, <1>4, <1>5

LEMMA SharedKept ==
  ASSUME Control, Shape, CustomInv, ResultInv, SharedInv, [Next]_vars
  PROVE  SharedInv'
<1>1. /\ Total' = Total /\ Plan' = Plan
      /\ \A x, c : Genuine(x, c)' <=> Genuine(x, c)
  BY JobFixed, SameJob DEF Genuine
<1>2. ASSUME NEW n \in 1..Total, NEW seen, \A s \in DOMAIN seen : Genuine(seen[s], Plan[n]),
             job.engine = "multi", InsertIfAbsent(Entry(Plan[n], seen))
      PROVE  SharedInv'
  <2>1. ~job.custom
    BY <1>2 DEF CustomInv, MayBeCustom
  <2>2. ASSUME NEW m \in 1..Total, Plan[m].stock = Plan[n].stock, Plan[m].param = Plan[n].param
        PROVE  Wanted(Plan[m]) = Wanted(Plan[n])
    BY <1>2, <2>1, <2>2, PlanFacts DEF Wanted, Kline
  <2> DEFINE new == Entry(Plan[n], seen)
  <2>3. new.stock = Plan[n].stock /\ new.param = Plan[n].param /\ new.seen = seen
    BY DEF Entry
  <2>4. shared' = shared \/ shared' = shared \cup {new}
    BY <1>2 DEF InsertIfAbsent
  <2> HIDE DEF new
  <2> QED
    BY <1>1, <1>2, <2>2, <2>3, <2>4 DEF SharedInv, Genuine
<1>3. CASE SiblingShares
  <2>1. PICK n \in 1..Total, blank \in IF job.prompt THEN {FALSE} ELSE BOOLEAN :
          InsertIfAbsent(Entry(Plan[n],
            [s \in Plan[n].sheets |-> [head   |-> IF blank THEN None ELSE Wanted(Plan[n]),
                                       series |-> Wanted(Plan[n])]]))
    BY <1>3 DEF SiblingShares
  <2> DEFINE seen ==
        [s \in Plan[n].sheets |-> [head   |-> IF blank THEN None ELSE Wanted(Plan[n]),
                                   series |-> Wanted(Plan[n])]]
  <2>2. \A s \in DOMAIN seen : Genuine(seen[s], Plan[n])
    BY DEF Genuine
  <2>3. InsertIfAbsent(Entry(Plan[n], seen)) /\ job.engine = "multi"
    BY <1>3, <2>1 DEF SiblingShares
  <2> HIDE DEF seen
  <2> QED
    BY <1>2, <2>2, <2>3
<1>4. CASE Share
  <2>1. pc = "share" /\ i < Total
    BY <1>4 DEF Share, Control, Where
  <2>2. i + 1 \in 1..Total /\ Combo = Plan[i + 1]
    BY <2>1, ComboFacts
  <2>3. CASE shared' = shared
    BY <1>1, <2>3 DEF SharedInv
  <2>4. CASE InsertIfAbsent(Entry(Combo, result))
    <3>1. job.engine = "multi"
      BY <2>1 DEF Shape
    <3>2. \A s \in DOMAIN result : Genuine(result[s], Combo)
      BY <2>1, <3>1, ResultParts, ComboFacts DEF MultiResult
    <3> QED
      BY <1>2, <2>2, <2>4, <3>1, <3>2
  <2> QED
    BY <1>4, <2>3, <2>4 DEF Share
<1>5. CASE ~SiblingShares /\ ~Share
  <2>1. shared' = shared
    BY <1>5 DEF Next, EngineStep, vars, dbVars, ClearColumns, Settle, SetInputs, RefreshInputs,
       Write, Recalculate, CancelSeen, CancelInterrupts, Interrupted, LoopEnds, Finish, Begin,
       NextCombination, MarkBegun, RefreshSettled, Snapshot, Resnapshot, PollAccepts, Push, Commit,
       Save, SaveReused, PollAgain, Retry, TimeOut, RefreshBreaks, CommitFails, PushFails,
       SaveFails, Crash, Cancel, Resume, RestartFromScratch, CleanupOldest, Fail, End
  <2> QED
    BY <1>1, <2>1 DEF SharedInv
<1> QED
  BY <1>3, <1>4, <1>5

\* A part of a row, and what may be wrong with it.
FromOwn(r, s, part) ==
  Stale(r, s, part) => (part = "head" /\ BlankHead(r, s)) \/ Excused(r, s, part)

\* A row is excused for good.
LEMMA RightRowsKept ==
  ASSUME Control, Shape, ResultInv, job.engine \in ResumeAfter => ResumeAfterInv,
         ResultFromOwnInputs, [Next]_vars
  PROVE  ResultFromOwnInputs'
<1>1. /\ job' = job /\ Plan' = Plan
      /\ \A c : Wanted(c)' = Wanted(c)
      /\ \A r, s, p : Stale(r, s, p)' <=> Stale(r, s, p)
      /\ \A r, s : BlankHead(r, s)' <=> BlankHead(r, s)
  BY JobFixed, SameJob DEF Stale, BlankHead
<1>2. ASSUME NEW r \in rows, NEW s \in DOMAIN r.seen, NEW p \in Parts,
             (rows \subseteq rows' /\ cleaned' = cleaned) \/ cleaned'
      PROVE  FromOwn(r, s, p)'
  <2>1. FromOwn(r, s, p)
    BY DEF ResultFromOwnInputs, FromOwn
  <2>2. LetPass(r, s) => LetPass(r, s)' \/ cleaned'
    BY <1>1, <1>2 DEF LetPass
  <2>3. Excused(r, s, p) => Excused(r, s, p)'
    BY <1>1, <1>2, <2>2 DEF Excused
  <2> QED
    BY <1>1, <2>1, <2>3 DEF FromOwn
<1>3. CASE rows' \subseteq rows /\ ((rows' = rows /\ cleaned' = cleaned) \/ cleaned')
  BY <1>2, <1>3 DEF ResultFromOwnInputs, FromOwn
<1>4. CASE Save \/ SaveReused
  <2>0. \E row : /\ rows' = rows \cup {row}
                 /\ row.step = i + 1 /\ row.run = run /\ row.seen = result
    <3> WITNESS [step |-> i + 1, run |-> run, seen |-> result]
    <3> QED
      BY <1>4 DEF Save, SaveReused
  <2>1. PICK new : /\ rows' = rows \cup {new}
                   /\ new.step = i + 1 /\ new.run = run /\ new.seen = result
                   /\ UNCHANGED <<job, run, cleaned>> /\ i < Total
                   /\ (Save => pc = "save") /\ (SaveReused => pc = "reuse")
    BY <1>4, <2>0 DEF Save, SaveReused, ghostVars, Control, Where
  <2>2. Plan[new.step] = Combo
    BY <2>1 DEF Combo
  <2>3. ASSUME NEW s \in DOMAIN result, NEW p \in Parts PROVE FromOwn(new, s, p)'
    <3>1. CASE SaveReused
      <4>1. Genuine(result[s], Combo) /\ job.engine = "multi"
        BY <2>1, <2>3, <3>1, ResultParts DEF ReusedResult, SaveReused
      <4>2. Stale(new, s, p) => p = "head" /\ BlankHead(new, s)
        BY <2>1, <2>2, <4>1 DEF Stale, Genuine, BlankHead, Unchecked, Parts
      <4> QED
        BY <1>1, <4>2 DEF FromOwn
    <3>2. CASE Save
      <4>1. DOMAIN result = Combo.sheets /\ Result(result[s], s) /\ s \in Combo.sheets
        BY <2>1, <2>3, <3>2, ResultParts DEF InHandResult, Save
      <4>2. ASSUME Tainted(s) PROVE LetPass(new, s)'
        <5>1. ASSUME NEW q \in rows, q.run = run, s \in DOMAIN q.seen,
                     q.seen[s].series.param \in Collapsing, Stale(q, s, "series")
              PROVE  LetPass(new, s)'
          <6>1. SavedSteps \subseteq 1..i
            BY <2>1, <3>2, <4>2 DEF ResumeAfterInv, ResumeAfter, Tainted
          <6>2. q.step \in 1..i
            BY <5>1, <6>1 DEF SavedSteps
          <6>3. q.step <= new.step
            BY <2>1, <6>2 DEF Control, TypeOK
          <6> QED
            BY <1>1, <2>1, <5>1, <6>3 DEF LetPass
        <5>2. ASSUME result[s].series.param \in Collapsing, result[s].series # Wanted(Combo)
              PROVE  LetPass(new, s)'
          <6>1. Stale(new, s, "series")
            BY <2>1, <2>2, <5>2 DEF Stale
          <6>2. new.step <= new.step
            BY <2>1 DEF Control, TypeOK
          <6> QED
            BY <1>1, <2>1, <2>3, <5>2, <6>1, <6>2 DEF LetPass
        <5> QED
          BY <4>2, <5>1, <5>2 DEF Tainted
      <4>3. Stale(new, s, p) => result[s][p] # Wanted(Combo)
        BY <2>1, <2>2 DEF Stale
      <4>4. ASSUME Stale(new, s, p), OwnInputs(result[s][p], s) PROVE Excused(new, s, p)'
        <5>1. /\ new.seen[s][p] = result[s][p] /\ new.run = run /\ Plan'[new.step] = Combo
              /\ job' = job
          BY <1>1, <2>1, <2>2
        <5> QED
          BY <4>2, <4>3, <4>4, <5>1 DEF Excused, OwnInputs
      <4>5. CASE OwnInputs(result[s][p], s)
        BY <1>1, <4>4, <4>5 DEF FromOwn
      <4>6. CASE ~OwnInputs(result[s][p], s)
        <5>1. p = "head" /\ result[s].head = None /\ job.engine \in Unchecked /\ ~job.prompt
          BY <4>1, <4>6 DEF Result, Parts
        <5> QED
          BY <1>1, <2>1, <5>1 DEF FromOwn, BlankHead
      <4> QED
        BY <4>5, <4>6
    <3> QED
      BY <1>4, <3>1, <3>2
  <2> QED
    BY <1>2, <2>1, <2>3 DEF ResultFromOwnInputs, FromOwn
<1>5. CASE RestartFromScratch
  BY <1>5 DEF RestartFromScratch, ResultFromOwnInputs
<1>6. CASE CleanupOldest
  BY <1>3, <1>6 DEF CleanupOldest
<1>7. CASE GoesOn \/ Ends \/ Begin \/ MarkBegun \/ Push \/ Commit \/ Share \/ Cancel \/ Resume
  BY <1>3, <1>7 DEF GoesOn, Ends, Begin, MarkBegun, Push, Commit, Share, Cancel, Resume, progress,
     dbVars, ghostVars, execVars
<1> QED
  BY Kinds, <1>4, <1>5, <1>6, <1>7 DEF Control

LEMMA InputInit ==
  ASSUME Init, Control
  PROVE  InputInv
<1>1. /\ job.custom => job.engine \in MayBeCustom
      /\ input = [s \in Sheet |->
                    [kline |-> IF job.custom THEN CustomKline ELSE Leftover.kline,
                     param |-> Leftover.param]]
      /\ output = input /\ rows = {} /\ shared = {} /\ run = 0 /\ pc = "idle"
      /\ cache = [s \in Sheet |-> None] /\ snap = [s \in Sheet |-> None]
  BY DEF Init
<1>2. Shape
  BY <1>1 DEF Shape, IsCells
<1>3. CustomInv /\ OneKlineInv
  BY <1>1 DEF CustomInv, OneKlineInv
<1>4. CacheInv
  BY <1>1 DEF CacheInv
<1>5. TryInv /\ ResultInv
  BY <1>1 DEF TryInv, ResultInv, Trying
<1>6. SharedInv /\ ResultFromOwnInputs
  BY <1>1 DEF SharedInv, ResultFromOwnInputs
<1> QED
  BY <1>2, <1>3, <1>4, <1>5, <1>6 DEF InputInv

\* The engines keep what they know about inputs and outputs.
THEOREM InputsHold == Spec => []InputInv
<1>1. Init /\ Progress => InputInv
  BY InputInit DEF Progress, Control
<1>2. Progress /\ InputInv /\ [Next]_vars => InputInv'
  <2> SUFFICES ASSUME Progress, InputInv, [Next]_vars PROVE InputInv'
    OBVIOUS
  <2>1. Control
    BY DEF Progress, Control
  <2>2. Shape /\ CustomInv /\ OneKlineInv /\ CacheInv /\ TryInv /\ ResultInv /\ SharedInv
        /\ ResultFromOwnInputs
    BY DEF InputInv
  <2>3. ResultInv'
    <3>1. InHandResult' /\ MultiResult' /\ ReusedResult'
      BY <2>1, <2>2, InHandResultKept, MultiResultKept, ReusedResultKept
    <3> QED
      BY <3>1, ResultParts, PTL
  <2>4. Shape' /\ CustomInv' /\ OneKlineInv' /\ CacheInv' /\ TryInv' /\ SharedInv'
    BY <2>1, <2>2, ShapeKept, CustomKept, OneKlineKept, CacheKept, TryKept, SharedKept
  <2>5. ResultFromOwnInputs'
    BY <2>1, <2>2, RightRowsKept DEF Progress
  <2> QED
    BY <2>3, <2>4, <2>5 DEF InputInv
<1> QED
  BY <1>1, <1>2, ProgressHolds, PTL DEF Spec

\* A saved result was computed from the inputs of its own combination, but for
\* the results that Excused names.
THEOREM ResultsAreOwn == Spec => []ResultFromOwnInputs
<1>1. InputInv => ResultFromOwnInputs
  BY DEF InputInv
<1> QED
  BY <1>1, InputsHold, PTL

-----------------------------------------------------------------------------
(* A spreadsheet that keeps up. *)

\* The engines that blank the outputs of a prompt spreadsheet before they write
\* again.
Keeping == job.prompt /\ ~job.custom /\ job.engine \notin {"c3", "c4"}

\* The turn of a refresh has come in this round of attempts.
Refreshed == \E a \in RefreshAt : a <= attempt

\* After a refresh the outputs are blank when they are remembered, so that the
\* result differs from what is remembered.
KeepingUp ==
  /\ pc \in {"begin", "set"} => attempt = 0
  /\ Keeping /\ Refreshed /\ pc \in Trying => \A s \in Combo.sheets :
       /\ pc \in {"refresh", "snapshot", "write"} => input[s].kline = None
       /\ pc = "snapshot" => output[s] = input[s]
       /\ pc \in {"write", "poll"} => snap[s] = None
       /\ pc = "poll" => input[s] = Wanted(Combo)
  /\ PromptNeverTimesOut

LEMMA PlanFigures ==
  ASSUME Control, NEW n \in 1..Total
  PROVE  /\ <<Plan[n].param, Plan[n].param>> \in PassesCheck
         /\ None # Plan[n].param /\ None # <<Plan[n].stock, Plan[n].key>>
         /\ \A f \in {"alike", Plan[n].param} :
              None # [kline |-> <<Plan[n].stock, Plan[n].key>>, figure |-> f]
<1>1. DOMAIN Plan = 1..Total /\ job.engine \in Engine /\ Plan = PlanOf[job.engine]
  BY TotalPositive DEF Control, TypeOK, Plan
<1>2. None \notin {Plan[n], Plan[n].param, <<Plan[n].stock, Plan[n].key>>}
  BY <1>1, PlanAssumption, Zenon
<1>3. /\ <<Plan[n].param, Plan[n].param>> \in PassesCheck
      /\ \A f \in {"alike", Plan[n].param} :
           None # [kline |-> <<Plan[n].stock, Plan[n].key>>, figure |-> f]
  BY <1>1, RefreshAssumption, Zenon
<1> QED
  BY <1>2, <1>3

\* With the right inputs shown, no attempt is rejected: at once for C3, after a
\* refresh for the others.
LEMMA NoRejection ==
  ASSUME Control, Shape, CustomInv, OneKlineInv, TryInv, KeepingUp,
         job.prompt, ~job.custom, job.engine # "c4",
         job.engine = "c3" \/ Refreshed
  PROVE  ~PollRejects
<1> SUFFICES ASSUME pc = "poll", Waited, NEW s \in Combo.sheets
             PROVE  Accept(s) /\ ~Blank(output[s])
  BY DEF PollRejects
<1>1. i < Total
  BY DEF Control, Where
<1>2. i + 1 \in 1..Total /\ Combo = Plan[i + 1] /\ s \in InUse /\ s \in Sheet
  BY <1>1, ComboFacts
<1>3. output[s] = input[s]
  BY <1>2 DEF Waited
<1>4. Kline(Combo) = <<Combo.stock, Combo.key>>
  BY DEF Kline
<1>5. input[s] = Wanted(Combo)
  <2>1. CASE job.engine = "c3"
    <3>1. input[s].kline = Kline(Combo)
      BY <1>1, <2>1, KeptKlineC3 DEF Trying
    <3>2. input[s] = Updated(s)
      BY DEF TryInv, Trying, Written
    <3> QED
      BY <2>1, <3>1, <3>2 DEF Updated, Wanted
  <2>2. CASE job.engine # "c3"
    BY <2>2 DEF KeepingUp, Keeping, Trying
  <2> QED
    BY <2>1, <2>2
<1>6. output[s].kline = <<Combo.stock, Combo.key>> /\ output[s].param = Combo.param
  BY <1>3, <1>4, <1>5 DEF Wanted
<1>7. ~Blank(output[s])
  BY <1>2, <1>6, PlanFigures DEF Blank
<1>8. Echoed(s)
  BY <1>2, <1>6, PlanFigures DEF Echoed
<1>9. ASSUME job.engine # "c3" PROVE Moved(s)
  <2>1. snap[s] = None
    BY <1>9 DEF KeepingUp, Keeping, Trying
  <2>2. Shown(output[s]) # None
    <3>1. PICK f \in {"alike", Combo.param} :
            Shown(output[s]) = [kline |-> <<Combo.stock, Combo.key>>, figure |-> f]
      BY <1>6, <1>7 DEF Shown
    <3> QED
      BY <1>2, <3>1, PlanFigures
  <2> QED
    BY <2>1, <2>2 DEF Moved
<1> QED
  BY <1>7, <1>8, <1>9 DEF Accept, AcceptC3, AcceptC4, AcceptC5, AcceptC7, AcceptC11, AcceptBacktest,
     Control, Where, Engines

\* KeepingUp, for one spreadsheet.
Kept(s) ==
  /\ pc \in {"refresh", "snapshot", "write"} => input[s].kline = None
  /\ pc = "snapshot" => output[s] = input[s]
  /\ pc \in {"write", "poll"} => snap[s] = None
  /\ pc = "poll" => input[s] = Wanted(Combo)

LEMMA AttemptStarts ==
  ASSUME Control, KeepingUp, [Next]_vars
  PROVE  pc' \in {"begin", "set"} => attempt' = 0
BY Kinds DEF KeepingUp, Control, Next, EngineStep, vars, ClearColumns, Settle, SetInputs,
   RefreshInputs, Write, Recalculate, CancelSeen, CancelInterrupts, Interrupted, LoopEnds, Finish,
   Begin, NextCombination, MarkBegun, RefreshSettled, Snapshot, Resnapshot, PollAccepts, FirstDuty,
   Push, Commit, Save, SaveReused, Share, Proceed, PollAgain, Retry, TimeOut, RefreshBreaks,
   CommitFails, PushFails, SaveFails, Crash, SiblingShares, Cancel, Resume, RestartFromScratch,
   CleanupOldest, Fail, End, execVars

LEMMA KeptStep ==
  ASSUME Control, Shape, CustomInv, OneKlineInv, TryInv, KeepingUp, [Next]_vars,
         Keeping, Refreshed', pc' \in Trying, NEW s \in Combo'.sheets
  PROVE  Kept(s)'
<1>1. Refreshed /\ pc \in Trying => (s \in Combo.sheets => Kept(s))
  BY DEF KeepingUp, Kept
<1>2. /\ job.prompt /\ ~job.custom /\ job.engine \notin {"c3", "c4"} /\ job' = job
  BY JobFixed DEF Keeping
<1>3. RefreshAt \subseteq Nat \ {0}
  BY BatchAssumption
<1>4. pc' # "set" /\ attempt' # 0
  <2>1. attempt' # 0
    BY <1>3 DEF Refreshed
  <2> QED
    BY <2>1, AttemptStarts
<1>5. ASSUME UNCHANGED <<i, attempt>>, pc \in Trying
      PROVE  /\ s \in Combo.sheets /\ Kept(s) /\ Combo' = Combo /\ i < Total
             /\ s \in Sheet /\ s \in InUse /\ Refreshed
             /\ \A c : Wanted(c)' = Wanted(c)
  <2>1. Combo' = Combo /\ \A c : Wanted(c)' = Wanted(c)
    BY <1>2, <1>5, SameCombo
  <2>2. Refreshed
    BY <1>5 DEF Refreshed
  <2>3. i < Total
    BY <1>5 DEF Control, Where, Trying
  <2> QED
    BY <1>1, <1>5, <2>1, <2>2, <2>3, ComboFacts
<1>6. CASE Write
  <2>1. UNCHANGED <<i, attempt, output, snap, cache>> /\ pc = "write" /\ pc' = "poll"
    BY <1>2, <1>4, <1>6 DEF Write, Shape
  <2>2. input'[s] = Updated(s) /\ input[s].kline = None /\ snap[s] = None
    BY <1>5, <1>6, <2>1 DEF Write, Kept, Trying
  <2>3. Updated(s) = Wanted(Combo)
    BY <1>2, <1>5, <2>1, <2>2 DEF Updated, Wanted, Trying
  <2> QED
    BY <1>5, <2>1, <2>2, <2>3 DEF Kept, Trying
<1>7. CASE RefreshInputs
  <2>1. UNCHANGED <<i, attempt>> /\ pc = "reset" /\ pc' = "refresh"
    BY <1>7 DEF RefreshInputs
  <2>2. input'[s].kline = None
    BY <1>2, <1>5, <1>7, <2>1 DEF RefreshInputs, ClearForRefresh, ClearKline, Cleared, Trying
  <2> QED
    BY <2>1, <2>2 DEF Kept
<1>8. CASE RefreshSettled
  <2>1. /\ UNCHANGED <<i, attempt, input, output>> /\ pc = "refresh" /\ pc' = "snapshot" /\ Waited
    BY <1>2, <1>8 DEF RefreshSettled, sheetVars
  <2>2. output[s] = input[s]
    BY <1>2, <1>5, <2>1 DEF Waited, Trying
  <2> QED
    BY <1>5, <2>1, <2>2 DEF Kept, Trying
<1>9. CASE Snapshot
  <2>1. UNCHANGED <<i, attempt, input, output>> /\ pc = "snapshot" /\ pc' = "write"
    BY <1>2, <1>9 DEF Snapshot, sheetVars
  <2>2. snap'[s] = Shown(output[s]) /\ output[s].kline = None /\ input[s].kline = None
    BY <1>5, <1>9, <2>1 DEF Snapshot, SnapOutputs, Kept, Trying
  <2> QED
    BY <2>1, <2>2 DEF Kept, Shown, Blank
<1>10. CASE \E t \in Sheet : Recalculate(t)
  <2>1. PICK t \in Sheet : Recalculate(t)
    BY <1>10
  <2>2. UNCHANGED <<input, pc, i, snap, attempt>>
    BY <2>1 DEF Recalculate, execVars
  <2>3. s \in Sheet => output'[s] = output[s] \/ output'[s] = input[s]
    BY <2>1 DEF Recalculate, Control, TypeOK
  <2> QED
    BY <1>5, <2>2, <2>3 DEF Kept
<1>11. CASE PollAgain
  <2>1. UNCHANGED <<i, input, snap, run, output, cache>> /\ pc = "poll" /\ attempt' = attempt + 1
        /\ pc' = IF attempt + 1 \in RefreshAt THEN "reset" ELSE "poll"
    BY <1>2, <1>11 DEF PollAgain, PollRejects, sheetVars
  <2>2. CASE attempt + 1 \in RefreshAt
    BY <2>1, <2>2 DEF Kept
  <2>3. CASE attempt + 1 \notin RefreshAt
    <3>1. PICK a \in RefreshAt : a <= attempt + 1
      BY <2>1 DEF Refreshed
    <3>2. a # attempt + 1 /\ a \in Nat /\ attempt \in Nat
      BY <2>3, <1>3 DEF Control, TypeOK
    <3>3. Refreshed
      BY <3>1, <3>2 DEF Refreshed
    <3> QED
      BY <1>2, <1>11, <3>3, NoRejection DEF PollAgain
  <2> QED
    BY <2>2, <2>3
<1>12. CASE SetInputs
  <2>1. UNCHANGED attempt /\ pc = "set"
    BY <1>12 DEF SetInputs
  <2> QED
    BY <1>4, <2>1 DEF KeepingUp
<1>13. CASE MarkBegun
  <2>1. UNCHANGED attempt /\ pc = "begin"
    BY <1>13 DEF MarkBegun
  <2> QED
    BY <1>4, <2>1 DEF KeepingUp
<1>14. CASE UNCHANGED <<input, output, pc, i, snap, attempt>>
  BY <1>5, <1>14 DEF Kept
<1>15. CASE SiblingShares \/ Cancel \/ Resume \/ RestartFromScratch \/ CleanupOldest \/ UNCHANGED vars
  BY <1>14, <1>15 DEF SiblingShares, Cancel, Resume, RestartFromScratch, CleanupOldest, vars,
     sheetVars, execVars
<1>16. ~Begin /\ ~ClearColumns /\ ~Settle /\ ~CancelSeen /\ ~CancelInterrupts /\ ~NextCombination
       /\ ~LoopEnds /\ ~RefreshBreaks /\ ~Retry /\ ~TimeOut
  BY <1>4 DEF Trying, Begin, ClearColumns, Settle, CancelSeen, CancelInterrupts, Interrupted,
     Finish, NextCombination, LoopEnds, RefreshBreaks, Retry, TimeOut, Fail, End
<1>17. ~PollAccepts /\ ~Push /\ ~Commit /\ ~Save /\ ~SaveReused /\ ~Share /\ ~CommitFails
       /\ ~PushFails /\ ~SaveFails /\ ~Crash
  BY DEF Trying, PollAccepts, FirstDuty, Push, Commit, Save, SaveReused, Share, Proceed,
     CommitFails, PushFails, SaveFails, Crash, Fail, End
<1>18. ~Resnapshot
  BY <1>2 DEF Resnapshot, Shape
<1> QED
  BY <1>6, <1>7, <1>8, <1>9, <1>10, <1>11, <1>12, <1>13, <1>15, <1>16, <1>17, <1>18
     DEF Next, EngineStep

LEMMA NeverTimesOut ==
  ASSUME Control, Shape, CustomInv, OneKlineInv, TryInv, KeepingUp, [Next]_vars
  PROVE  PromptNeverTimesOut'
<1> SUFFICES ASSUME job.prompt, ~job.custom, job.engine # "c4", timedOut' PROVE FALSE
  BY JobFixed DEF PromptNeverTimesOut
<1>1. ~timedOut
  BY DEF KeepingUp, PromptNeverTimesOut
<1>2. TimeOut
  BY <1>1 DEF Next, EngineStep, vars, ClearColumns, Settle, SetInputs, RefreshInputs, Write,
     Recalculate, CancelSeen, CancelInterrupts, LoopEnds, Begin, NextCombination, MarkBegun,
     RefreshSettled, Snapshot, Resnapshot, PollAccepts, Push, Commit, Save, SaveReused, Share,
     PollAgain, Retry, RefreshBreaks, CommitFails, PushFails, SaveFails, Crash,
     SiblingShares, Cancel, Resume, RestartFromScratch, CleanupOldest, ghostVars
<1>3. Refreshed
  <2>1. PICK a \in RefreshAt : TRUE
    BY RefreshAssumption
  <2>2. a \in 1..(PollLimit - 1) /\ PollLimit \in Nat
    BY BatchAssumption
  <2>3. attempt + 1 = PollLimit /\ attempt \in Nat
    BY <1>2 DEF TimeOut, Control, TypeOK
  <2>4. a <= attempt
    BY <2>2, <2>3
  <2> QED
    BY <2>4 DEF Refreshed
<1> QED
  BY <1>2, <1>3, NoRejection DEF TimeOut

\* A spreadsheet that keeps up is never given up, whatever its results look
\* like, as long as there is a refresh.
THEOREM PromptIsServed == Spec => []PromptNeverTimesOut
<1>1. Init => KeepingUp
  BY DEF Init, KeepingUp, Trying, PromptNeverTimesOut
<1>2. Progress /\ InputInv /\ KeepingUp /\ [Next]_vars => KeepingUp'
  <2> SUFFICES ASSUME Progress, InputInv, KeepingUp, [Next]_vars PROVE KeepingUp'
    OBVIOUS
  <2>1. Control /\ Shape /\ CustomInv /\ OneKlineInv /\ TryInv
    BY DEF Progress, Control, InputInv
  <2>2. PromptNeverTimesOut'
    BY <2>1, NeverTimesOut
  <2>3. pc' \in {"begin", "set"} => attempt' = 0
    BY <2>1, AttemptStarts
  <2>4. ASSUME Keeping', Refreshed', pc' \in Trying, NEW s \in Combo'.sheets PROVE Kept(s)'
    <3>1. Keeping
      BY <2>4, JobFixed DEF Keeping
    <3> QED
      BY <2>1, <2>4, <3>1, KeptStep
  <2> QED
    BY <2>2, <2>3, <2>4 DEF KeepingUp, Kept
<1>3. KeepingUp => PromptNeverTimesOut
  BY DEF KeepingUp
<1> QED
  BY <1>1, <1>2, <1>3, ProgressHolds, InputsHold, PTL DEF Spec
=============================================================================
