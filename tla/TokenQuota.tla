---------------------------- MODULE TokenQuota ----------------------------
(***************************************************************************)
(* The quota of the Google tokens (app/services/google_sheet_token_service *)
(* .py, app/repositories/google_sheet_token_repository.py) under the       *)
(* threads of start_task, of the end of an execution and of cancel.        *)
(*                                                                         *)
(* What a token serves is counted over the running rows; the stored        *)
(* counter is written from such a scan when a task takes its token and     *)
(* decremented when it gives it back. Nothing serialises the two.          *)
(***************************************************************************)
EXTENDS Integers, FiniteSets

CONSTANTS
  User,         \* tasks with a token
  Token,
  TokenOf,
  Limit,        \* max_usage_count, 0 for no limit
  GlobalLimit,  \* google_sheet_token_global_max_usage, 0 for no limit
  MaxStarts     \* bound: starts of a task

ASSUME TokenAssumption ==
  /\ IsFiniteSet(User)
  /\ TokenOf \in [User -> Token]
  /\ Limit \in [Token -> Nat]
  /\ GlobalLimit \in Nat
  /\ MaxStarts \in Nat

VARIABLES
  stage,    \* where the start or the end of a task is
  stored,   \* current_in_use_count
  scan,     \* the number a thread has read and not yet written
  starts,
  tally,    \* the scan of a reconcile request; Idle when there is none
  alone,    \* history: operations that no other one on their token overlapped
  mixed     \* history: the counter of a token was written by an overlapped one

tokenVars == <<stage, stored, scan, starts, tally, alone, mixed>>

\* "marked" to "noted" are running rows without the token, "held" has it;
\* "closing" and "closed" are past the final status, "undoing" before it.
Stage == {"pending", "marked", "checked", "noted", "held", "undoing", "undone", "closing", "closed"}
RunningRow == {"marked", "checked", "noted", "held", "undoing", "undone"}
InOperation == Stage \ {"pending", "held"}
Idle == [k \in Token |-> -1]

HoldingTasks == {t \in User : stage[t] = "held"}
RunningTasks == {t \in User : stage[t] \in RunningRow}
Using(k, ts) == Cardinality({t \in ts : TokenOf[t] = k})
Holders(k) == {t \in User : TokenOf[t] = k /\ stage[t] = "held"}

TokenTypeOK ==
  /\ stage \in [User -> Stage]
  /\ stored \in [Token -> Nat]
  /\ scan \in [User -> Nat]
  /\ starts \in [User -> 0..MaxStarts]
  /\ tally \in [Token -> Nat \cup {-1}]
  /\ alone \in SUBSET User
  /\ mixed \in [Token -> BOOLEAN]

TokenInit ==
  /\ stage = [t \in User |-> "pending"]
  /\ stored = [k \in Token |-> 0]
  /\ scan = [t \in User |-> 0]
  /\ starts = [t \in User |-> 0]
  /\ tally = Idle
  /\ alone = {}
  /\ mixed = [k \in Token |-> FALSE]

\* History: an operation on a token begins, and one ends by writing the counter.
Rivals(t) == {u \in User \ {t} : TokenOf[u] = TokenOf[t] /\ stage[u] \in InOperation}
Begins(t) ==
  alone' = IF Rivals(t) = {} /\ tally = Idle THEN alone \cup {t} ELSE alone \ (Rivals(t) \cup {t})
MovesTo(t, s) == stage' = [stage EXCEPT ![t] = s]
Writes(t, n, recount) ==
  /\ stored' = [stored EXCEPT ![TokenOf[t]] = n]
  /\ mixed' = [mixed EXCEPT ![TokenOf[t]] = IF t \in alone THEN @ /\ ~recount ELSE TRUE]

-----------------------------------------------------------------------------
(* start_task.                                                             *)

\* mark_running_if_pending, committed before the token is looked at.
MarkUser(t) ==
  /\ stage[t] = "pending"
  /\ starts[t] < MaxStarts
  /\ starts' = [starts EXCEPT ![t] = @ + 1]
  /\ MovesTo(t, "marked")
  /\ Begins(t)
  /\ UNCHANGED <<stored, scan, tally, mixed>>

\* _assert_global_usage_available and _assert_token_usage_available.
Available(k, ts) ==
  /\ GlobalLimit > 0 => Cardinality(ts) < GlobalLimit
  /\ Limit[k] > 0 => Using(k, ts) < Limit[k]

\* validate_task_start counts every running row, the one that starts included.
CountedAtStart(t) == RunningTasks

ValidateTaskStart(t) ==
  /\ stage[t] = "marked"
  /\ MovesTo(t, IF Available(TokenOf[t], CountedAtStart(t)) THEN "checked" ELSE "undone")
  /\ UNCHANGED <<stored, scan, starts, tally, alone, mixed>>

\* increment_usage counts the others, and checks again.
ScanUsage(t) ==
  LET others == RunningTasks \ {t} IN
  /\ stage[t] = "checked"
  /\ IF Available(TokenOf[t], others)
     THEN /\ MovesTo(t, "noted")
          /\ scan' = [scan EXCEPT ![t] = Using(TokenOf[t], others)]
     ELSE /\ MovesTo(t, "undone")
          /\ UNCHANGED scan
  /\ UNCHANGED <<stored, starts, tally, alone, mixed>>

IncrementUsage(t) ==
  /\ stage[t] = "noted"
  /\ Writes(t, scan[t] + 1, TRUE)
  /\ scan' = [scan EXCEPT ![t] = 0]
  /\ MovesTo(t, "held")
  /\ alone' = alone \ {t}
  /\ UNCHANGED <<starts, tally>>

\* A start that fails later, in the quota or in the submit.
StartRefused(t) ==
  /\ stage[t] = "held"
  /\ MovesTo(t, "undoing")
  /\ Begins(t)
  /\ scan' = [scan EXCEPT ![t] = stored[TokenOf[t]]]
  /\ UNCHANGED <<stored, starts, tally, mixed>>

\* The execution ends or is cancelled: its row has its final status, then the
\* token is given back.
EndUse(t) ==
  /\ stage[t] = "held"
  /\ MovesTo(t, "closing")
  /\ Begins(t)
  /\ scan' = [scan EXCEPT ![t] = stored[TokenOf[t]]]
  /\ UNCHANGED <<stored, starts, tally, mixed>>

Unclamped(n) == n - 1
NotDecremented(n) == n
Decremented(n) == IF n > 0 THEN n - 1 ELSE 0

\* release_usage: the counter that was read, less one.
ReleaseUsage(t) ==
  /\ stage[t] \in {"undoing", "closing"}
  /\ Writes(t, Decremented(scan[t]), FALSE)
  /\ scan' = [scan EXCEPT ![t] = 0]
  /\ MovesTo(t, IF stage[t] = "undoing" THEN "undone" ELSE "closed")
  /\ UNCHANGED <<starts, tally, alone>>

\* revert_running_to_pending, or a restart of a task that ended.
BackToPending(t) ==
  /\ stage[t] \in {"undone", "closed"}
  /\ MovesTo(t, "pending")
  /\ alone' = alone \ {t}
  /\ UNCHANGED <<stored, scan, starts, tally, mixed>>

-----------------------------------------------------------------------------
(* reconcile_in_use_counts, on request. Tokens that no running task uses   *)
(* are not in the scan, and their counter is left as it is.                *)

ReconcileScan ==
  /\ tally = Idle
  /\ RunningTasks # {}
  /\ tally' = [k \in Token |-> Using(k, RunningTasks)]
  /\ alone' = {}
  /\ UNCHANGED <<stage, stored, scan, starts, mixed>>

InUse(n) == n > 0

ReconcileWrite ==
  /\ tally # Idle
  /\ stored' = [k \in Token |-> IF InUse(tally[k]) THEN tally[k] ELSE stored[k]]
  /\ mixed' = [k \in Token |-> mixed[k] \/ InUse(tally[k])]
  /\ tally' = Idle
  /\ UNCHANGED <<stage, scan, starts, alone>>

\* The process ends; the boot resets the rows and the counters.
RebootTokens ==
  /\ \E t \in User : stage[t] # "pending"
  /\ stage' = [t \in User |-> "pending"]
  /\ stored' = [k \in Token |-> 0]
  /\ scan' = [t \in User |-> 0]
  /\ tally' = Idle
  /\ alone' = {}
  /\ mixed' = [k \in Token |-> FALSE]
  /\ UNCHANGED starts

TokenNext ==
  \/ \E t \in User :
       \/ MarkUser(t) \/ ValidateTaskStart(t) \/ ScanUsage(t) \/ IncrementUsage(t)
       \/ StartRefused(t) \/ EndUse(t) \/ ReleaseUsage(t) \/ BackToPending(t)
  \/ ReconcileScan \/ ReconcileWrite \/ RebootTokens

TokenSpec == TokenInit /\ [][TokenNext]_tokenVars

-----------------------------------------------------------------------------
(* Properties.                                                             *)

\* Tasks that start at the same time do not overrun a token or the system limit:
\* each row says running before its thread counts.
QuotaKept ==
  LET served == {t \in User : stage[t] \in {"checked", "noted", "held", "undoing"}} IN
  /\ GlobalLimit > 0 => Cardinality(served) <= GlobalLimit
  /\ \A k \in Token : Limit[k] > 0 => Using(k, served) <= Limit[k]

\* The stored counter of a token is the number of tasks that hold it whenever no
\* operation on it is under way, unless one that overlapped another wrote it.
CountExact ==
  \A k \in Token :
    ~mixed[k] /\ (\A t \in User : TokenOf[t] = k => stage[t] \notin InOperation) =>
      stored[k] = Cardinality(Holders(k))
=============================================================================
