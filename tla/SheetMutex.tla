----------------------------- MODULE SheetMutex -----------------------------
(***************************************************************************)
(* What the sheet execution locks promise                                  *)
(* (app/services/sheet_execution_lock_service.py): a task gets all of its  *)
(* spreadsheets at once or none, only works while it has them, and nobody  *)
(* takes one away from a task that works.                                  *)
(*                                                                         *)
(* TaskRuntime implements it with rows of a table, a process-wide lock and *)
(* the rule by which the end of a thread finds out whether the execution   *)
(* it ran is still the one that owns the task.                             *)
(***************************************************************************)
CONSTANTS Task, Sheet, None, SheetsOf

VARIABLES
  holder,   \* the task a sheet is locked for
  using     \* tasks that work on their sheets

mutexVars == <<holder, using>>

MutexInit ==
  /\ holder = [s \in Sheet |-> None]
  /\ using = {}

Has(t) == \A s \in SheetsOf[t] : holder[s] = t

\* All the sheets of a task, none of which another task holds.
Acquire(t) ==
  /\ \A s \in SheetsOf[t] : holder[s] \in {None, t}
  /\ holder' = [s \in Sheet |-> IF s \in SheetsOf[t] THEN t ELSE holder[s]]
  /\ UNCHANGED using

\* A task gives up sheets it holds; not in the middle of its work.
Release(t, S) ==
  /\ t \notin using
  /\ \A s \in S : holder[s] = t
  /\ holder' = [s \in Sheet |-> IF s \in S THEN None ELSE holder[s]]
  /\ UNCHANGED using

Start(t) ==
  /\ t \notin using
  /\ Has(t)
  /\ using' = using \cup {t}
  /\ UNCHANGED holder

Stop(t) ==
  /\ t \in using
  /\ using' = using \ {t}
  /\ UNCHANGED holder

\* A task is deleted: it loses its sheets, and what still runs is not its work.
Withdraw(t) ==
  /\ t \in using
  /\ using' = using \ {t}
  /\ holder' = [s \in Sheet |-> IF holder[s] = t THEN None ELSE holder[s]]

MutexNext ==
  \E t \in Task :
    \/ Acquire(t) \/ Start(t) \/ Stop(t) \/ Withdraw(t)
    \/ \E S \in SUBSET {s \in Sheet : holder[s] = t} : Release(t, S)

MutexSpec == MutexInit /\ [][MutexNext]_mutexVars
=============================================================================
