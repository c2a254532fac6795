----------------------------- MODULE SheetRows -----------------------------
(***************************************************************************)
(* The input columns of one spreadsheet, row by row. An engine writes a    *)
(* K-line from the first row on and leaves alone what is below: what an    *)
(* earlier stock, execution or user left there is part of the input unless *)
(* it was cleared. How far each engine clears is what this module is       *)
(* about; row 1 is the first row of data. That a K-line is not rewritten   *)
(* for parameters of the same source is in BatchEngine.                    *)
(***************************************************************************)
EXTENDS Naturals, Sequences, FiniteSetsExt

CONSTANTS
  RowEngine,   \* the engines of this run
  StockRows,   \* K-line lengths of the stocks of a task, in order
  MaxRow,      \* bound: rows of the spreadsheet
  FewRows,     \* a sheet with so many rows is not cleared at the start
  Spare,       \* rows cleared below the longest K-line of a stock
  NoCell, Foreign

ASSUME RowAssumption ==
  /\ RowEngine \subseteq {"c3", "c4", "c5", "c7", "c1_1", "training", "multi"}
  /\ \A rs \in StockRows : rs \in Seq(1..MaxRow) /\ rs # <<>>
  /\ {MaxRow, FewRows, Spare} \subseteq Nat /\ FewRows <= Spare
  /\ NoCell # Foreign /\ {NoCell, Foreign} \cap Nat = {}

VARIABLES
  engine, stocks,   \* the execution: its engine, and lengths of its stocks
  cells,            \* row -> the stock whose price it shows
  place,            \* the stock it has come to; 0 before the first clear
  shownRows,        \* rows of the K-line just written, 0 for none
  highest,          \* longest K-line so far (column_A_length, multi-product)
  counted           \* could the last row be read: at first, and last time

cellVars == <<engine, stocks, cells, place, shownRows, highest, counted>>

Row == 1..MaxRow
Own == stocks[place]
LastRow == Max({0} \cup {r \in Row : cells[r] # NoCell})
\* get_last_row answers -1 when the request fails. The same happens when the
\* column it counts (A or D, fixed) is not the configured input column.
Count(read) == IF read THEN LastRow ELSE 0
EmptiedTo(n) == [r \in Row |-> IF r <= n THEN NoCell ELSE cells[r]]

\* One product, one K-line: C3. One product in windows of years: training.
SingleStock == {"c3", "training"}
WholeLine == {"c3", "multi"}
AtStart   == {"c3", "c4", "c5", "training"}   \* skip the clear below FewRows
LooksAgain == {"c7", "c1_1", "multi"}         \* read the last row at every K-line

EngineRuns ==
  {x \in RowEngine \X StockRows : x[1] \in SingleStock => Len(x[2]) = 1}

RowTypeOK ==
  /\ <<engine, stocks>> \in EngineRuns
  /\ place \in 0..Len(stocks) /\ shownRows \in 0..MaxRow
  /\ highest \in 0..MaxRow
  /\ DOMAIN cells = Row

RowInit ==
  /\ \E x \in EngineRuns : engine = x[1] /\ stocks = x[2]
  /\ \E old \in 0..MaxRow :
       cells = [r \in Row |-> IF r <= old THEN Foreign ELSE NoCell]
  /\ place = 0 /\ shownRows = 0 /\ highest = 0
  /\ counted = [first |-> FALSE, last |-> FALSE]

-----------------------------------------------------------------------------
\* _clear_input_columns and its like; a multi-product task has none.
FirstClear ==
  /\ place = 0
  /\ \E read \in BOOLEAN :
       /\ cells' = IF engine = "multi" \/ (engine \in AtStart /\ Count(read) <= FewRows)
                     THEN cells ELSE EmptiedTo(Count(read))
       /\ counted' = [first |-> read /\ engine # "multi", last |-> FALSE]
  /\ place' = 1 /\ shownRows' = 0 /\ highest' = 0
  /\ UNCHANGED <<engine, stocks>>

\* How far it clears before it writes a K-line of the stock.
SpareOnly(read) == Own + Spare
LongerOf(read)  == Max({Count(read), Own + Spare})
Highest(read)   == Max({Count(read), highest + 1, Own + 1})
ClearedTo(read) ==
  CASE engine = "c3"                       -> 0
    [] engine \in {"c4", "c5", "training"} -> SpareOnly(read)
    [] engine \in {"c7", "c1_1"}           -> LongerOf(read)
    [] engine = "multi"                    -> Highest(read)

\* A window of the stock, which is never longer than its whole K-line.
WriteRows ==
  /\ place > 0
  /\ engine \in WholeLine => shownRows = 0
  /\ \E read \in BOOLEAN : \E n \in 1..Own :
       LET below == EmptiedTo(ClearedTo(read)) IN
       /\ engine \in WholeLine => n = Own
       /\ cells' = [r \in Row |-> IF r <= n THEN place ELSE below[r]]
       /\ shownRows' = n
       /\ counted' = [first |-> counted.first, last |-> read]
  /\ highest' = Max({highest, Own})
  /\ UNCHANGED <<engine, stocks, place>>

\* Also past a stock that is done already, or has its result from elsewhere.
NextStock ==
  /\ place \in 1..(Len(stocks) - 1)
  /\ place' = place + 1 /\ shownRows' = 0
  /\ UNCHANGED <<engine, stocks, cells, highest, counted>>

\* The execution ends or fails where it is; the next one that uses the sheet
\* finds its rows there.
AnotherExecution ==
  /\ place > 0
  /\ \E x \in EngineRuns : engine' = x[1] /\ stocks' = x[2]
  /\ cells' = [r \in Row |-> IF cells[r] = NoCell THEN NoCell ELSE Foreign]
  /\ place' = 0 /\ shownRows' = 0 /\ highest' = 0
  /\ counted' = [first |-> FALSE, last |-> FALSE]

RowNext == FirstClear \/ WriteRows \/ NextStock \/ AnotherExecution

-----------------------------------------------------------------------------
\* "Otherwise the rows left behind are not cleared"
\* (backtest_multi_product_service.py): while a spreadsheet computes a result,
\* the rows below the K-line are empty. Two ways remain in which they are not,
\* each far below the K-line: the last row could not be counted (an old row
\* stays; with C7 and C1.1 it takes a second failure), or C4 and C5 have come
\* from a stock to a shorter one. C3 does not clear a sheet with few rows.
OwnRowsOnly ==
  shownRows > 0 =>
    /\ \A r \in 1..shownRows : cells[r] = place
    /\ \A r \in (shownRows + 1)..MaxRow :
         \/ cells[r] = NoCell
         \/ /\ cells[r] = Foreign
            /\ r > Own
            /\ \/ ~counted.first /\ (engine \in LooksAgain => ~counted.last)
               \/ engine = "c3" /\ r <= FewRows
         \/ /\ engine \in {"c4", "c5"} \/ (engine \in {"c7", "c1_1"} /\ ~counted.last)
            /\ r > Own + Spare
            /\ \E p \in 1..(place - 1) : cells[r] = p /\ r <= stocks[p]
=============================================================================
