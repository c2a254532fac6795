---------------------------- MODULE PriceLibrary ----------------------------
(***************************************************************************)
(* Where the prices of a stock come from (app/services/kline_service.py).  *)
(*                                                                         *)
(* A library outside of the program keeps daily rows. A request that the   *)
(* library covers is answered from it; another one is answered by a        *)
(* provider, whose rows are then written to the library, each by a call of *)
(* its own and all at the same time. A request gives the first and the     *)
(* last day it wants, one of them or none (then: a number of rows).        *)
(***************************************************************************)
EXTENDS Naturals, FiniteSets, FiniteSetsExt

CONSTANTS
  Day,      \* trading days, 1 .. N
  Asker,    \* calls of get_kline_data
  RowLimit,    \* numbers of rows asked for
  Recent,   \* rows written if the library has some of the fetched ones (30)
  LookedUp,     \* rows looked up to see whether it has (8)
  NoRow

ASSUME LibraryAssumption ==
  /\ IsFiniteSet(Day) /\ Day # {} /\ Day = 1..Cardinality(Day)
  /\ Recent \in Nat \ {0} /\ LookedUp \in Nat \ {0}
  /\ RowLimit \subseteq Nat \ {0} /\ NoRow \notin Day /\ NoRow \notin {"forward", "none"}

VARIABLES
  today,     \* the last day with prices
  library,   \* rows of the library
  asking,    \* rows each call has still to write to the library
  answer,    \* history: the rows the library returned in the last step
  holes      \* history: why a day may be missing in the library

libraryVars == <<today, library, asking, answer, holes>>

Adjusts == {"forward", "none"}
NotAsking == [left |-> {}, adjust |-> NoRow]

LibraryTypeOK ==
  /\ today \in Day
  /\ \A d \in Day : library[d] = NoRow \/ library[d] \in Adjusts
  /\ \A a \in Asker : asking[a].left \subseteq Day
  /\ holes \subseteq {"late", "apart", "failed"}

LibraryInit ==
  /\ today = 1
  /\ library = [d \in Day |-> NoRow]
  /\ asking = [a \in Asker |-> NotAsking]
  /\ answer = NoRow /\ holes = {}

Kept == {d \in Day : library[d] # NoRow}

\* read_internal_kline_data: from a day on; nothing says how they are adjusted.
Internal(from) == {d \in Kept : d >= from}

\* What is asked for: from a day to a day, 0 for an end that is not given.
Query(from, to, limit, adjust) ==
  [from |-> from, to |-> to, limit |-> limit, adjust |-> adjust]
Wanted(from, to) == from = 0 \/ to = 0 \/ from <= to
NoEnds(q) == q.from = 0 /\ q.to = 0

\* _covers_range: the ends that are given, or the number of rows.
StartCovered(rows, q) == q.from = 0 \/ Min(rows) <= q.from
CoversStart(rows, q) == rows # {} /\ StartCovered(rows, q)
CoversRange(rows, q) ==
  /\ rows # {}
  /\ IF NoEnds(q) THEN Cardinality(rows) >= q.limit
     ELSE StartCovered(rows, q) /\ (q.to = 0 \/ Max(rows) >= q.to)

\* _filter_rows_by_date_range.
Newest(rows, n) == {d \in rows : Cardinality({e \in rows : e > d}) < n}
Spanned(rows, q) == {d \in rows : q.from <= d /\ (q.to = 0 \/ d <= q.to)}
InRange(rows, q) == IF NoEnds(q) THEN Newest(rows, q.limit) ELSE Spanned(rows, q)

\* What a provider sends: the newest rows, up to the limit, whatever the ends are
\* (dfcf, qq, tdx, and akshare without ends), or the rows between the ends without a
\* limit (akshare, and yahoo, whose ten years are all there is).
Provider == {"newest", "between"}
Fetched(q, provider) ==
  IF provider = "newest" THEN Newest(1..today, q.limit) ELSE Spanned(1..today, q)

\* write_internal_kline_data: forward adjusted rows only. If the library has one
\* of the first fetched days, only the newest rows are written.
FetchedHead(rows) == {d \in rows : Cardinality({e \in rows : e < d}) < LookedUp}
Written(rows, adjust) ==
  IF adjust # "forward" THEN {}
  ELSE IF FetchedHead(rows) \cap Kept = {} THEN rows
       ELSE Newest(rows, Recent)

\* Days between the rows that the library has or is getting.
Coming == UNION {asking[a].left : a \in Asker}
Skipped(w) ==
  LET all == Kept \cup Coming \cup w IN
  {d \in Day \ all : (\E k \in all : k < d) /\ (\E k \in all : d < k)}

\* The days an answer is about: to the ends that were given, or to those of its rows.
Meant(rows, q) ==
  {d \in Day : /\ IF q.from # 0 THEN q.from <= d ELSE \E k \in rows : k <= d
              /\ IF q.to # 0 THEN d <= q.to ELSE \E k \in rows : d <= k}
Answer(q) ==
  LET rows == InRange(Internal(q.from), q) IN
  [lacking |-> Meant(rows, q) \ rows,
   holes |-> holes \cup (IF Coming = {} THEN {} ELSE {"unwritten"})]

\* get_kline_data: the library answers.
AskLibrary(a, q) ==
  /\ asking[a].left = {}
  /\ CoversRange(Internal(q.from), q)
  /\ answer' = Answer(q)
  /\ UNCHANGED <<today, library, asking, holes>>

\* It does not, and a provider answers; if it fails nothing changes. The caller
\* gets what the provider sent when the writes have ended.
AskProvider(a, q, provider) ==
  LET rows == Fetched(q, provider)
      w == Written(rows, q.adjust) IN
  /\ asking[a].left = {}
  /\ ~CoversRange(Internal(q.from), q)
  /\ w # {}
  /\ asking' = [asking EXCEPT ![a] = [left |-> w, adjust |-> q.adjust]]
  /\ holes' = holes \cup (IF Skipped(w) = {} THEN {}
                           ELSE IF w = rows THEN {"apart"} ELSE {"late"})
  /\ answer' = NoRow
  /\ UNCHANGED <<today, library>>

Rest(a, d) == IF asking[a].left = {d} THEN NotAsking ELSE [asking[a] EXCEPT !.left = @ \ {d}]

\* The writes run on threads, in any order.
WriteRow(a, d) ==
  /\ d \in asking[a].left
  /\ library' = [library EXCEPT ![d] = asking[a].adjust]
  /\ asking' = [asking EXCEPT ![a] = Rest(a, d)]
  /\ answer' = NoRow /\ UNCHANGED <<today, holes>>

\* One of them fails: the call fails, the threads of the others go on.
WriteFails(a, d) ==
  /\ d \in asking[a].left
  /\ asking' = [asking EXCEPT ![a] = Rest(a, d)]
  /\ holes' = holes \cup {"failed"}
  /\ answer' = NoRow /\ UNCHANGED <<today, library>>

NextDay ==
  /\ today + 1 \in Day
  /\ today' = today + 1
  /\ answer' = NoRow /\ UNCHANGED <<library, asking, holes>>

LibraryNext ==
  \/ \E a \in Asker :
       \/ \E from, to \in Day \cup {0}, limit \in RowLimit, adjust \in Adjusts :
            /\ Wanted(from, to)
            /\ LET q == Query(from, to, limit, adjust) IN
               AskLibrary(a, q) \/ \E provider \in Provider : AskProvider(a, q, provider)
       \/ \E d \in Day : WriteRow(a, d) \/ WriteFails(a, d)
  \/ NextDay

LibrarySpec == LibraryInit /\ [][LibraryNext]_libraryVars

-----------------------------------------------------------------------------
(* Properties. *)

\* An answer from the library lacks a day between its ends for a reason only: the
\* ends are all that is compared, and days were left out because only the newest of
\* the fetched rows were written, because the fetched rows stand apart from those the
\* library has (an older range, or too few rows), because a write failed, or they
\* were not written yet when another call was at it.
GapExplained == answer # NoRow /\ answer.lacking # {} => answer.holes # {}
=============================================================================
