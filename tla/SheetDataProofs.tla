-------------------------- MODULE SheetDataProofs --------------------------
(***************************************************************************)
(* Proofs about the price data and where it goes: the cells of a sheet     *)
(* that one stock after the other is computed in, the price library, the   *)
(* rows that a task keeps of its random K-lines, and the windows of        *)
(* K-lines that a task is executed on.                                     *)
(*                                                                         *)
(* First part: the rows that are counted and read back are those of the    *)
(* own stock. The invariant says of every cell what it may show after the  *)
(* first clear: nothing, a row of a stock so far that is within its own    *)
(* length, or an old row for one of the reasons that OwnRowsOnly lists.    *)
(*                                                                         *)
(* Second part: the price library explains every gap it leaves. Until a    *)
(* day is left out for one of the reasons, the days it has and those that  *)
(* calls are still writing leave no gap together, whatever order the rows  *)
(* are written in.                                                         *)
(*                                                                         *)
(* Third part: a combination is executed with the same kept rows in every  *)
(* execution, and an expansion fails only for a reason. For the first the  *)
(* tables have one row of a key and only grow until they are cleared. For  *)
(* the second the rows of a thread agree with the data of its stock, and   *)
(* no other thread is about to insert what this one has not found, unless  *)
(* something is excused: overlapping executions, an edited configuration,  *)
(* a corrected history.                                                    *)
(*                                                                         *)
(* Fourth part: what a configuration asks for is what is executed, for     *)
(* every stretch of dates and every list of parameters. Each expansion is  *)
(* read as the sequence of its windows (AutoWindowsAre,                    *)
(* TrainingWindowsAre, C4WindowsAre); Registered keeps every window whose  *)
(* label is its own and lets a recent window give way to one with its      *)
(* label (RegisteredUpTo, over the first k windows); Combinations and      *)
(* Deduplicated neither add nor lose an execution. What remains is         *)
(* calendar arithmetic: the windows have the rows that were asked for, and *)
(* two windows with one label begin in one year.                           *)
(*                                                                         *)
(* Each component also keeps its types. Those of the rows that a task      *)
(* keeps need that a thread has no more executions left to do than the     *)
(* plan has (WithinPlan).                                                  *)
(***************************************************************************)
EXTENDS SheetRows, PriceLibrary, KlineSnapshots, WindowPlan, LoopProofs

(* The rows of a sheet. *)

LEMMA GreaterOfTwo ==
  ASSUME NEW a \in Nat, NEW b \in Nat
  PROVE  Max({a, b}) \in {a, b} /\ Max({a, b}) >= a /\ Max({a, b}) >= b
<1>1. \E x \in {a, b} : \A y \in {a, b} : x >= y
  OBVIOUS
<1>2. Max({a, b}) \in {a, b} /\ \A y \in {a, b} : Max({a, b}) >= y
  BY <1>1 DEF Max
<1> QED
  BY <1>2

LEMMA GreatestOfThree ==
  ASSUME NEW a \in Nat, NEW b \in Nat, NEW c \in Nat
  PROVE  /\ Max({a, b, c}) \in {a, b, c}
         /\ Max({a, b, c}) >= a /\ Max({a, b, c}) >= b /\ Max({a, b, c}) >= c
<1>1. \E x \in {a, b, c} : \A y \in {a, b, c} : x >= y
  OBVIOUS
<1>2. Max({a, b, c}) \in {a, b, c} /\ \A y \in {a, b, c} : Max({a, b, c}) >= y
  BY <1>1 DEF Max
<1> QED
  BY <1>2

LEMMA LastRowBounds ==
  /\ LastRow \in 0..MaxRow
  /\ \A r \in Row : cells[r] # NoCell => r <= LastRow
<1> DEFINE S == {0} \cup {r \in Row : cells[r] # NoCell}
<1>1. S \subseteq 0..MaxRow /\ MaxRow \in Nat
  BY RowAssumption DEF Row
<1>2. IsFiniteSet(S)
  <2>1. IsFiniteSet(0..MaxRow)
    BY <1>1, FS_Interval
  <2> QED
    BY <1>1, <2>1, FS_Subset
<1>3. Max(S) \in S /\ \A y \in S : y <= Max(S)
  BY <1>1, <1>2, GreatestOfFinite
<1> QED
  BY <1>1, <1>3 DEF LastRow

-----------------------------------------------------------------------------
\* A row that was there before the execution stays for a reason.
Remains(r) == ~counted.first \/ (engine \in AtStart /\ r <= FewRows)

\* What a row may show after the first clear.
Explained(r) ==
  \/ cells[r] = NoCell
  \/ cells[r] = Foreign /\ Remains(r)
  \/ \E p \in 1..place : cells[r] = p /\ r <= stocks[p] /\ r <= highest

RowInv ==
  /\ engine \in RowEngine /\ stocks \in StockRows
  /\ engine \in SingleStock => Len(stocks) = 1
  /\ place \in 0..Len(stocks) /\ shownRows \in 0..MaxRow /\ highest \in 0..MaxRow
  /\ DOMAIN cells = Row
  /\ counted.first \in BOOLEAN
  /\ place = 0 => shownRows = 0 /\ \A r \in Row : cells[r] \in {NoCell, Foreign}
  /\ place > 0 => \A r \in Row : Explained(r)
  /\ shownRows = 0 => \A r \in Row : cells[r] # place
  /\ OwnRowsOnly

LEMMA StockLengths ==
  ASSUME NEW rs \in StockRows
  PROVE  Len(rs) \in Nat \ {0} /\ \A p \in 1..Len(rs) : rs[p] \in 1..MaxRow
BY RowAssumption

LEMMA Chosen ==
  ASSUME NEW x \in EngineRuns
  PROVE  /\ x[1] \in RowEngine /\ x[2] \in StockRows
         /\ x[1] \in SingleStock => Len(x[2]) = 1
BY DEF EngineRuns

LEMMA RowInitial == RowInit => RowInv
<1> SUFFICES ASSUME RowInit PROVE RowInv
  OBVIOUS
<1>1. PICK x \in EngineRuns : engine = x[1] /\ stocks = x[2]
  BY DEF RowInit
<1>2. PICK old \in 0..MaxRow : cells = [r \in Row |-> IF r <= old THEN Foreign ELSE NoCell]
  BY DEF RowInit
<1>3. place = 0 /\ shownRows = 0 /\ highest = 0 /\ counted.first = FALSE
  BY DEF RowInit
<1>4. \A r \in Row : cells[r] \in {NoCell, Foreign} /\ cells[r] # 0
  BY <1>2, RowAssumption
<1>5. Len(stocks) \in Nat /\ MaxRow \in Nat
  BY <1>1, Chosen, StockLengths, RowAssumption
<1>6. OwnRowsOnly
  BY <1>3 DEF OwnRowsOnly
<1>7. engine \in RowEngine /\ stocks \in StockRows /\ (engine \in SingleStock => Len(stocks) = 1)
  BY <1>1, Chosen
<1>8. DOMAIN cells = Row
  BY <1>2
<1>9. place \in 0..Len(stocks) /\ shownRows \in 0..MaxRow /\ highest \in 0..MaxRow
  BY <1>3, <1>5
<1>10. counted.first \in BOOLEAN
  BY <1>3, Zenon
<1>11. ~(place > 0)
  <2>1. place = 0
    BY <1>3, Zenon
  <2> QED
    BY <2>1
<1>12. \A r \in Row : cells[r] # place
  BY <1>3, <1>4
<1> QED
  BY <1>3, <1>4, <1>6, <1>7, <1>8, <1>9, <1>10, <1>12, <1>11 DEF RowInv

LEMMA FirstClearKeeps == ASSUME RowInv, FirstClear PROVE RowInv'
<1>1. PICK read \in BOOLEAN :
        /\ cells' = IF engine = "multi" \/ (engine \in AtStart /\ Count(read) <= FewRows)
                      THEN cells ELSE EmptiedTo(Count(read))
        /\ counted' = [first |-> read /\ engine # "multi", last |-> FALSE]
  BY DEF FirstClear
<1>2. place = 0 /\ place' = 1 /\ shownRows' = 0 /\ highest' = 0 /\ UNCHANGED <<engine, stocks>>
  BY DEF FirstClear
<1>3. Len(stocks) \in Nat \ {0}
  BY StockLengths DEF RowInv
<1>4. \A r \in Row : cells[r] \in {NoCell, Foreign}
  BY <1>2 DEF RowInv
<1>5. DOMAIN cells' = Row /\ \A r \in Row : cells'[r] \in {NoCell, Foreign}
  BY <1>1, <1>4 DEF RowInv, EmptiedTo
<1>6. counted'.first = (read /\ engine # "multi")
  BY <1>1
<1>7. ASSUME NEW r \in Row, cells'[r] = Foreign
      PROVE  Remains(r)'
  <2>1. CASE ~read \/ engine = "multi"
    BY <2>1, <1>6 DEF Remains
  <2>2. CASE read /\ engine # "multi"
    <3>1. cells[r] = Foreign /\ r <= LastRow
      BY <1>1, <1>4, <1>7, LastRowBounds, RowAssumption DEF EmptiedTo
    <3>2. CASE engine \in AtStart /\ LastRow <= FewRows
      <4>1. r <= FewRows
        BY <3>1, <3>2, LastRowBounds, RowAssumption DEF Row
      <4> QED
        BY <3>2, <4>1, <1>2 DEF Remains
    <3>3. CASE ~(engine \in AtStart /\ LastRow <= FewRows)
      <4>1. cells'[r] = NoCell
        BY <1>1, <2>2, <3>1, <3>3 DEF EmptiedTo, Count
      <4> QED
        BY <4>1, <1>7, RowAssumption
    <3> QED
      BY <3>2, <3>3
  <2> QED
    BY <2>1, <2>2
<1>8. \A r \in Row : Explained(r)'
  BY <1>5, <1>7 DEF Explained
<1>9. \A r \in Row : cells'[r] # 1
  BY <1>5, RowAssumption, ZenonT(40)
<1> QED
  BY <1>2, <1>3, <1>5, <1>6, <1>8, <1>9, RowAssumption DEF RowInv, OwnRowsOnly

LEMMA WriteRowsKeeps == ASSUME RowInv, WriteRows PROVE RowInv'
<1>1. place > 0 /\ (engine \in WholeLine => shownRows = 0)
  BY DEF WriteRows
<1>2. PICK read \in BOOLEAN, n \in 1..Own :
        /\ engine \in WholeLine => n = Own
        /\ cells' = [r \in Row |-> IF r <= n THEN place ELSE EmptiedTo(ClearedTo(read))[r]]
        /\ shownRows' = n
        /\ counted' = [first |-> counted.first, last |-> read]
  BY DEF WriteRows
<1>3. highest' = Max({highest, Own}) /\ UNCHANGED <<engine, stocks, place>>
  BY DEF WriteRows
<1>4. place \in 1..Len(stocks) /\ Len(stocks) \in Nat /\ Own \in 1..MaxRow /\ MaxRow \in Nat
  BY <1>1, StockLengths, RowAssumption DEF RowInv, Own
<1>5. /\ highest' \in {highest, Own} /\ highest \in Nat
      /\ highest' >= highest /\ highest' >= Own
  BY <1>3, <1>4, GreaterOfTwo DEF RowInv
<1>6. /\ Spare \in Nat /\ FewRows \in Nat /\ FewRows <= Spare
      /\ NoCell \notin Nat /\ Foreign \notin Nat /\ NoCell # Foreign
  BY RowAssumption
<1>7. LastRow \in Nat /\ \A r \in Row : cells[r] # NoCell => r <= LastRow
  BY <1>4, LastRowBounds
<1>8. \A r \in Row : Explained(r)
  BY <1>1 DEF RowInv
<1>9. counted'.first = counted.first /\ counted'.last = read
  BY <1>2
<1>10. ASSUME NEW r \in Row, r > n, cells'[r] # NoCell
       PROVE  cells'[r] = cells[r] /\ ~(r <= ClearedTo(read))
  BY <1>2, <1>10, <1>4 DEF EmptiedTo, Row
\* What stays below, by how far the engine has cleared.
<1>11. ASSUME NEW r \in Row, r > n, cells'[r] # NoCell
       PROVE  \/ engine = "c3"
              \/ r > Own + Spare /\ engine \in {"c4", "c5", "training"}
              \/ r > Own + Spare /\ engine \in {"c7", "c1_1"} /\ ~read
              \/ r > Own /\ r > highest /\ engine = "multi" /\ ~read
  <2>1. cells[r] # NoCell /\ ~(r <= ClearedTo(read)) /\ r <= LastRow /\ r \in Nat
    BY <1>10, <1>11, <1>7 DEF Row
  <2>2. engine \in {"c3", "c4", "c5", "c7", "c1_1", "training", "multi"}
    BY RowAssumption DEF RowInv
  <2>3. CASE engine \in {"c4", "c5", "training"}
    <3>1. ClearedTo(read) = Own + Spare /\ Own + Spare \in Nat
      BY <2>3, <1>4, <1>6 DEF ClearedTo, SpareOnly
    <3> QED
      BY <2>1, <2>3, <3>1
  <2>4. CASE engine \in {"c7", "c1_1"}
    <3>1. Count(read) \in Nat /\ Own + Spare \in Nat
      BY <1>4, <1>6, <1>7 DEF Count
    <3>2. ClearedTo(read) >= Count(read) /\ ClearedTo(read) >= Own + Spare /\ ClearedTo(read) \in Nat
      <4>1. ClearedTo(read) = Max({Count(read), Own + Spare})
        BY <2>4 DEF ClearedTo, LongerOf
      <4> QED
        BY <3>1, <4>1, GreaterOfTwo
    <3>3. read => Count(read) = LastRow
      BY DEF Count
    <3> HIDE DEF Own
    <3>4. ~read
      BY <2>1, <3>1, <3>2, <3>3, <1>7
    <3> QED
      BY <2>1, <2>4, <3>1, <3>2, <3>4
  <2>5. CASE engine = "multi"
    <3>1. Count(read) \in Nat /\ highest + 1 \in Nat /\ Own + 1 \in Nat
      BY <1>4, <1>5, <1>7 DEF Count
    <3>2. ClearedTo(read) >= Count(read) /\ ClearedTo(read) >= highest + 1
          /\ ClearedTo(read) >= Own + 1 /\ ClearedTo(read) \in Nat
      <4>1. ClearedTo(read) = Max({Count(read), highest + 1, Own + 1})
        BY <2>5 DEF ClearedTo, Highest
      <4> QED
        BY <3>1, <4>1, GreatestOfThree
    <3>3. read => Count(read) = LastRow
      BY DEF Count
    <3>4. Own \in Nat
      BY <1>4
    <3> HIDE DEF Own
    <3>5. ~read
      BY <2>1, <3>1, <3>2, <3>3, <1>7
    <3> QED
      BY <2>1, <2>5, <3>2, <3>4, <3>5, <1>5
  <2> QED
    BY <2>2, <2>3, <2>4, <2>5
<1>12. /\ engine \in SingleStock => place = 1
       /\ engine \in WholeLine => n = Own /\ \A r \in Row : cells[r] # place
  <2>1. /\ engine \in SingleStock => Len(stocks) = 1
        /\ shownRows = 0 => \A r \in Row : cells[r] # place
    BY DEF RowInv
  <2>2. Len(stocks) = 1 => place = 1
    <3> HIDE DEF Own
    <3>1. place \in 1..Len(stocks)
      BY <1>4
    <3> QED
      BY <3>1
  <2>3. engine \in SingleStock => place = 1
    BY <2>1, <2>2
  <2> QED
    BY <1>1, <1>2, <2>1, <2>3
<1>13. ASSUME NEW r \in Row
       PROVE  Explained(r)'
  <2>1. CASE r <= n
    BY <1>2, <1>3, <1>4, <1>5, <2>1 DEF Explained, Own, Row
  <2>2. CASE r > n /\ cells'[r] # NoCell
    <3>1. cells'[r] = cells[r]
      BY <2>2, <1>10
    <3>2. CASE cells[r] = Foreign
      BY <1>3, <1>8, <1>9, <3>1, <3>2, <1>4, <1>6 DEF Explained, Remains
    <3>3. CASE \E p \in 1..place : cells[r] = p /\ r <= stocks[p] /\ r <= highest
      <4>1. PICK p \in 1..place : cells[r] = p /\ r <= stocks[p] /\ r <= highest
        BY <3>3
      <4>2. r <= highest'
        BY <4>1, <1>5 DEF RowInv, Row
      <4> QED
        BY <1>3, <3>1, <4>1, <4>2 DEF Explained
    <3> QED
      BY <1>8, <2>2, <3>1, <3>2, <3>3 DEF Explained
  <2>3. CASE cells'[r] = NoCell
    BY <2>3 DEF Explained
  <2> QED
    BY <2>1, <2>2, <2>3, <1>4 DEF Row
<1>14. OwnRowsOnly'
  <2> SUFFICES ASSUME NEW r \in (n + 1)..MaxRow, cells'[r] # NoCell
               PROVE  (\/ /\ cells[r] = Foreign
                          /\ r > Own
                          /\ \/ ~counted.first /\ (engine \in LooksAgain => ~counted.last)
                             \/ engine = "c3" /\ r <= FewRows
                       \/ /\ engine \in {"c4", "c5"} \/ (engine \in {"c7", "c1_1"} /\ ~counted.last)
                          /\ r > Own + Spare
                          /\ \E p \in 1..(place - 1) : cells[r] = p /\ r <= stocks[p])'
    <3>1. \A r \in 1..n : cells'[r] = place
      BY <1>2, <1>4 DEF Row
    <3> QED
      BY <1>2, <1>3, <3>1 DEF OwnRowsOnly
  <2>1. r \in Row /\ r > n /\ r \in Nat
    BY <1>4 DEF Row
  <2>2. cells'[r] = cells[r]
    BY <2>1, <1>10
  <2>3. \/ engine = "c3"
        \/ r > Own + Spare /\ engine \in {"c4", "c5", "training"}
        \/ r > Own + Spare /\ engine \in {"c7", "c1_1"} /\ ~read
        \/ r > Own /\ r > highest /\ engine = "multi" /\ ~read
    BY <2>1, <1>11
  <2>4. Own' = Own /\ Own \in Nat
    BY <1>3, <1>4 DEF Own
  <2>5. CASE cells[r] = Foreign
    <3>1. Remains(r)
      BY <1>8, <2>1, <2>5, <1>4, <1>6 DEF Explained
    <3>2. r > Own
      BY <2>1, <2>3, <2>4, <1>6, <1>12 DEF WholeLine
    <3>3. CASE ~counted.first
      <4>1. engine \in LooksAgain => ~read
        BY <2>3 DEF LooksAgain
      <4> QED
        BY <1>3, <1>9, <2>2, <2>4, <2>5, <3>2, <3>3, <4>1
    <3>4. CASE engine \in AtStart /\ r <= FewRows
      <4>1. ~(r > Own + Spare)
        BY <2>1, <2>4, <3>4, <1>6
      <4>2. engine = "c3"
        BY <2>3, <3>4, <4>1 DEF AtStart
      <4> QED
        BY <1>3, <2>2, <2>4, <2>5, <3>2, <3>4, <4>2
    <3> QED
      BY <3>1, <3>3, <3>4 DEF Remains
  <2>6. CASE \E p \in 1..place : cells[r] = p /\ r <= stocks[p] /\ r <= highest
    <3>1. PICK p \in 1..place : cells[r] = p /\ r <= stocks[p] /\ r <= highest
      BY <2>6
    <3>2. r <= stocks[p] /\ (p = place => r <= Own)
      BY <3>1 DEF Own
    <3>3. p # place
      <4>1. CASE engine \in WholeLine
        BY <4>1, <1>12, <2>1, <3>1
      <4>2. CASE engine \notin WholeLine
        BY <4>2, <2>1, <2>3, <2>4, <3>2, <1>6 DEF WholeLine
      <4> QED
        BY <4>1, <4>2
    <3>4. p \in 1..(place - 1) /\ place # 1
      BY <3>1, <3>3, <1>4
    <3>5. engine \notin {"c3", "training", "multi"}
      BY <3>1, <3>4, <1>12, <2>1, <2>3, <1>5 DEF SingleStock
    <3> QED
      BY <1>3, <1>9, <2>2, <2>3, <2>4, <3>1, <3>4, <3>5
  <2> QED
    BY <1>8, <2>1, <2>2, <2>5, <2>6 DEF Explained
<1>15. DOMAIN cells' = Row /\ shownRows' \in 1..MaxRow
  BY <1>2, <1>4
<1> QED
  BY <1>3, <1>4, <1>5, <1>9, <1>13, <1>14, <1>15 DEF RowInv

LEMMA NextStockKeeps == ASSUME RowInv, NextStock PROVE RowInv'
<1>1. /\ place \in 1..(Len(stocks) - 1) /\ place' = place + 1 /\ shownRows' = 0
      /\ UNCHANGED <<engine, stocks, cells, highest, counted>>
  BY DEF NextStock
<1>2. Len(stocks) \in Nat /\ stocks \in StockRows /\ place \in Nat
  BY <1>1, StockLengths DEF RowInv
<1>3. \A r \in Row : Explained(r)
  BY <1>1 DEF RowInv
<1>4. \A r \in Row : Explained(r)'
  BY <1>1, <1>2, <1>3 DEF Explained, Remains
<1>5. \A r \in Row : cells'[r] # place'
  <2>1. NoCell \notin Nat /\ Foreign \notin Nat
    BY RowAssumption
  <2>2. place' \in Nat /\ place' \notin 1..place
    BY <1>1, <1>2
  <2> QED
    BY <1>1, <1>3, <2>1, <2>2 DEF Explained
<1>6. place' \in 0..Len(stocks) /\ place' # 0 /\ OwnRowsOnly'
  BY <1>1, <1>2 DEF OwnRowsOnly
<1> QED
  BY <1>1, <1>4, <1>5, <1>6, RowAssumption DEF RowInv

LEMMA AnotherKeeps == ASSUME RowInv, AnotherExecution PROVE RowInv'
<1>1. PICK x \in EngineRuns : engine' = x[1] /\ stocks' = x[2]
  BY DEF AnotherExecution
<1>2. /\ cells' = [r \in Row |-> IF cells[r] = NoCell THEN NoCell ELSE Foreign]
      /\ place' = 0 /\ shownRows' = 0 /\ highest' = 0
      /\ counted' = [first |-> FALSE, last |-> FALSE]
  BY DEF AnotherExecution
<1>3. \A r \in Row : cells'[r] \in {NoCell, Foreign} /\ cells'[r] # 0
  BY <1>2, RowAssumption
<1>4. Len(stocks') \in Nat
  BY <1>1, Chosen, StockLengths
<1> QED
  BY <1>1, <1>2, <1>3, <1>4, Chosen, RowAssumption DEF RowInv, OwnRowsOnly

LEMMA RowStays == RowInv /\ [RowNext]_cellVars => RowInv'
<1>1. RowInv /\ UNCHANGED cellVars => RowInv'
  BY DEF RowInv, cellVars, Explained, Remains, OwnRowsOnly, Own, Row
<1> QED
  BY <1>1, FirstClearKeeps, WriteRowsKeeps, NextStockKeeps, AnotherKeeps DEF RowNext

\* For all lengths of sheets and stocks and all engines: a result is computed from
\* rows of the own stock, with nothing below them but what the two ways in which a
\* clear falls short leave (backtest_multi_product_service.py and the engines).
THEOREM RowsAreOwn == RowInit /\ [][RowNext]_cellVars => []OwnRowsOnly
<1>1. RowInv => OwnRowsOnly
  BY DEF RowInv
<1> QED
  BY <1>1, RowInitial, RowStays, PTL

\* An execution stays within its stocks and the sheet within its rows: the place is
\* a stock of the list, and the K-line just written no longer than the sheet.
THEOREM SheetRowTypes == RowInit /\ [][RowNext]_cellVars => []RowTypeOK
<1>1. RowInv => RowTypeOK
  <2> SUFFICES ASSUME RowInv PROVE RowTypeOK
    OBVIOUS
  <2>1. <<engine, stocks>> \in EngineRuns
    BY DEF RowInv, EngineRuns
  <2> QED
    BY <2>1 DEF RowInv, RowTypeOK
<1> QED
  BY <1>1, RowInitial, RowStays, PTL

-----------------------------------------------------------------------------
(* The price library. *)

-----------------------------------------------------------------------------
\* No day between the rows the library has, or is getting, is missing.
All(w) == Kept \cup Coming \cup w
Gapless(S) == \A k, m \in S : k..m \subseteq S

LibraryInv ==
  /\ today \in Day
  /\ library \in [Day -> Adjusts \cup {NoRow}]
  /\ asking \in [Asker -> [left : SUBSET Day, adjust : Adjusts \cup {NoRow}]]
  /\ \A a \in Asker : asking[a].left # {} => asking[a].adjust \in Adjusts
  /\ holes = {} => Gapless(Kept \cup Coming)
  /\ GapExplained

LEMMA Days == Day \subseteq Nat \ {0} /\ IsFiniteSet(Day) /\ \A x, y \in Day : x..y \subseteq Day
<1>1. IsFiniteSet(Day) /\ Day = 1..Cardinality(Day)
  BY LibraryAssumption
<1>2. PICK n \in Nat : Day = 1..n
  BY <1>1, FS_CardinalityType
<1>3. Day \subseteq Nat \ {0} /\ \A x, y \in Day : x..y \subseteq Day
  BY <1>2
<1> QED
  BY <1>1, <1>3

\* Skipped says what is missing between the first row and the last.
LEMMA NothingSkipped ==
  ASSUME NEW w \in SUBSET Day, Kept \cup Coming \subseteq Day, Skipped(w) = {}
  PROVE  Gapless(Kept \cup Coming \cup w)
<1> DEFINE S == Kept \cup Coming \cup w
<1> SUFFICES ASSUME NEW k \in S, NEW m \in S, NEW d \in k..m PROVE d \in S
  BY DEF Gapless
<1>1. k \in Day /\ m \in Day /\ k \in Nat /\ m \in Nat
  BY Days
<1>2. d \in Day /\ d \in Nat /\ k <= d /\ d <= m
  BY <1>1, Days
<1>3. CASE d = k \/ d = m
  BY <1>3
<1>4. CASE k < d /\ d < m
  BY <1>2, <1>4 DEF Skipped
<1> QED
  BY <1>1, <1>2, <1>3, <1>4

\* A provider sends rows of days there are, and no others are written.
LEMMA FetchedDays == ASSUME NEW q, NEW provider, today \in Day PROVE Fetched(q, provider) \subseteq Day
<1>1. 1..today \subseteq Day
  BY Days, LibraryAssumption, FS_CardinalityType
<1> QED
  BY <1>1 DEF Fetched, Newest, Spanned

LEMMA WrittenDays ==
  ASSUME NEW rows \in SUBSET Day, NEW adjust PROVE Written(rows, adjust) \in SUBSET Day
BY DEF Written, Newest

LEMMA LibraryInitial == LibraryInit => LibraryInv
<1> SUFFICES ASSUME LibraryInit PROVE LibraryInv
  OBVIOUS
<1>1. Kept = {} /\ Coming = {}
  BY DEF LibraryInit, Kept, Coming, NotAsking
<1>2. 1 \in Day
  <2>1. PICK d \in Day : TRUE
    BY LibraryAssumption
  <2>2. d \in Nat \ {0} /\ Day = 1..Cardinality(Day) /\ Cardinality(Day) \in Nat
    BY Days, LibraryAssumption, FS_CardinalityType
  <2> QED
    BY <2>1, <2>2
<1>3. Gapless(Kept \cup Coming) /\ GapExplained
  BY <1>1 DEF LibraryInit, Gapless, GapExplained
<1> QED
  BY <1>2, <1>3 DEF LibraryInit, LibraryInv, NotAsking

\* The newest rows have no gap if the rows they are taken from have none.
LEMMA NewestUpward ==
  ASSUME NEW S \in SUBSET Day, NEW n \in Nat, NEW k \in Newest(S, n), NEW d \in S, k <= d
  PROVE  d \in Newest(S, n)
<1>1. IsFiniteSet(S) /\ k \in S /\ k \in Nat /\ d \in Nat /\ S \subseteq Nat
  BY Days, FS_Subset DEF Newest
<1>2. PICK above : above = {e \in S : e > k}
  OBVIOUS
<1>3. PICK beyond : beyond = {e \in S : e > d}
  OBVIOUS
<1>4. beyond \subseteq above
  <2> SUFFICES ASSUME NEW e \in beyond PROVE e \in above
    OBVIOUS
  <2>1. e \in S /\ e \in Nat /\ e > d
    BY <1>1, <1>3
  <2>2. e > k
    BY <1>1, <2>1
  <2> QED
    BY <1>2, <2>1, <2>2
<1>5. IsFiniteSet(above)
  BY <1>1, <1>2, FS_Subset
<1>6. Cardinality(beyond) <= Cardinality(above)
      /\ Cardinality(beyond) \in Nat /\ Cardinality(above) \in Nat
  BY <1>4, <1>5, FS_Subset, FS_CardinalityType
<1>7. Cardinality(above) < n
  BY <1>2 DEF Newest
<1>8. Cardinality(beyond) < n
  BY <1>6, <1>7
<1> QED
  BY <1>3, <1>8 DEF Newest

\* Of gapless rows that cover what is asked for, the answer lacks none it is about.
LEMMA NothingLacking ==
  ASSUME NEW from \in Day \cup {0}, NEW to \in Day \cup {0}, NEW limit \in Nat, NEW adjust,
         NEW q, q = Query(from, to, limit, adjust),
         Kept \subseteq Day, Gapless(Kept), CoversRange(Internal(from), q),
         NEW d \in Meant(InRange(Internal(from), q), q)
  PROVE  d \in InRange(Internal(from), q)
<1>1. q.from = from /\ q.to = to /\ q.limit = limit
  BY DEF Query
<1>2. PICK R : R = Internal(from)
  OBVIOUS
<1>3. R \subseteq Kept /\ R \subseteq Day /\ \A e : e \in R <=> e \in Kept /\ e >= from
  BY <1>2 DEF Internal
<1>4. d \in Day /\ d \in Nat /\ from \in Nat /\ to \in Nat /\ Day \subseteq Nat
  BY Days DEF Meant
<1>5. CASE NoEnds(q)
  <2>1. from = 0 /\ to = 0 /\ InRange(R, q) = Newest(R, limit)
    BY <1>1, <1>5 DEF NoEnds, InRange
  <2>2. PICK k \in Newest(R, limit) : k <= d
    BY <1>1, <1>2, <2>1 DEF Meant
  <2>3. PICK m \in Newest(R, limit) : d <= m
    BY <1>1, <1>2, <2>1 DEF Meant
  <2>4. k \in R /\ m \in R
    BY <2>2, <2>3 DEF Newest
  <2>5. k \in Nat /\ m \in Nat /\ k \in Kept /\ m \in Kept
    BY <1>3, <1>4, <2>4
  <2>6. d \in k..m
    BY <1>4, <2>2, <2>3, <2>5
  <2>7. d \in Kept
    BY <2>5, <2>6 DEF Gapless
  <2>8. d \in R
    BY <1>3, <1>4, <2>1, <2>7
  <2> QED
    BY <1>2, <1>3, <2>1, <2>2, <2>8, NewestUpward
<1>6. CASE ~NoEnds(q)
  <2>1. R # {} /\ (from = 0 \/ Min(R) <= from) /\ (to = 0 \/ Max(R) >= to)
    BY <1>1, <1>2, <1>6 DEF CoversRange, StartCovered
  <2>2. \A e : e \in InRange(R, q) <=> e \in R /\ from <= e /\ (to = 0 \/ e <= to)
    BY <1>1, <1>6 DEF InRange, Spanned
  <2>3. /\ from # 0 => from <= d
        /\ from = 0 => \E k \in InRange(R, q) : k <= d
        /\ to # 0 => d <= to
        /\ to = 0 => \E k \in InRange(R, q) : d <= k
    BY <1>1, <1>2 DEF Meant
  <2>4. IsFiniteSet(R)
    BY <1>3, Days, FS_Subset
  <2>5. R \in SUBSET Int
    BY <1>3, <1>4
  <2>6. PICK least \in R : least = Min(R)
    BY <2>1, <2>4, <2>5, LeastOfFinite
  <2>7. PICK most \in R : most = Max(R)
    BY <2>1, <2>4, <2>5, GreatestOfFinite
  <2>8. least \in Nat /\ most \in Nat
    BY <1>3, <1>4, <2>6, <2>7
  <2>9. \E k \in R : k <= d
    <3>1. CASE from = 0
      BY <2>2, <2>3, <3>1
    <3>2. CASE from # 0
      BY <1>4, <2>1, <2>3, <2>6, <2>8, <3>2
    <3> QED
      BY <3>1, <3>2
  <2>10. \E m \in R : d <= m
    <3>1. CASE to = 0
      BY <2>2, <2>3, <3>1
    <3>2. CASE to # 0
      BY <1>4, <2>1, <2>3, <2>7, <2>8, <3>2
    <3> QED
      BY <3>1, <3>2
  <2>11. PICK k \in R : k <= d
    BY <2>9
  <2>12. PICK m \in R : d <= m
    BY <2>10
  <2>13. k \in Kept /\ m \in Kept /\ d \in k..m
    BY <1>3, <1>4, <2>11, <2>12
  <2>14. d \in Kept
    BY <2>13 DEF Gapless
  <2>15. from <= d
    BY <1>4, <2>3
  <2>16. d \in R
    BY <1>3, <1>4, <2>14, <2>15
  <2> QED
    BY <1>2, <2>2, <2>3, <2>15, <2>16
<1> QED
  BY <1>5, <1>6

LEMMA AskLibraryKeeps ==
  ASSUME LibraryInv, NEW a \in Asker, NEW from \in Day \cup {0}, NEW to \in Day \cup {0},
         NEW limit \in RowLimit, NEW adjust, AskLibrary(a, Query(from, to, limit, adjust))
  PROVE  LibraryInv'
<1>1. PICK q : q = Query(from, to, limit, adjust)
  OBVIOUS
<1>2. q.from = from
  BY <1>1 DEF Query
<1>3. CoversRange(Internal(from), q) /\ answer' = Answer(q)
      /\ UNCHANGED <<today, library, asking, holes>>
  BY <1>1, <1>2 DEF AskLibrary
<1>4. Kept' = Kept /\ Coming' = Coming
  BY <1>3 DEF Kept, Coming
<1>5. Kept \subseteq Day /\ limit \in Nat
  BY LibraryAssumption DEF Kept
<1>6. GapExplained'
  <2> SUFFICES ASSUME answer'.holes = {} PROVE answer'.lacking = {}
    BY DEF GapExplained
  <2>1. PICK rows : rows = InRange(Internal(from), q)
    OBVIOUS
  <2>2. answer'.lacking = Meant(rows, q) \ rows
        /\ answer'.holes = holes \cup (IF Coming = {} THEN {} ELSE {"unwritten"})
    BY <1>2, <1>3, <2>1 DEF Answer
  <2>3. holes = {} /\ Coming = {}
    BY <2>2
  <2>4. Gapless(Kept)
    BY <2>3 DEF LibraryInv
  <2>5. \A d \in Meant(rows, q) : d \in rows
    BY <1>1, <1>3, <1>5, <2>1, <2>4, NothingLacking
  <2> QED
    BY <2>2, <2>5
<1> QED
  BY <1>3, <1>4, <1>6 DEF LibraryInv

LEMMA AskProviderKeeps ==
  ASSUME LibraryInv, NEW a \in Asker, NEW q, q.adjust \in Adjusts, NEW provider,
         AskProvider(a, q, provider)
  PROVE  LibraryInv'
<1>1. PICK rows \in SUBSET Day : rows = Fetched(q, provider)
  BY FetchedDays DEF LibraryInv
<1>2. PICK w \in SUBSET Day : w = Written(rows, q.adjust)
  BY WrittenDays
<1>3. /\ asking[a].left = {} /\ w # {}
      /\ asking' = [asking EXCEPT ![a] = [left |-> w, adjust |-> q.adjust]]
      /\ holes' = holes \cup (IF Skipped(w) = {} THEN {}
                           ELSE IF w = rows THEN {"apart"} ELSE {"late"})
      /\ answer' = NoRow
      /\ UNCHANGED <<today, library>>
  BY <1>1, <1>2 DEF AskProvider
<1>4. asking' \in [Asker -> [left : SUBSET Day, adjust : Adjusts \cup {NoRow}]]
      /\ \A b \in Asker : asking'[b].left # {} => asking'[b].adjust \in Adjusts
  BY <1>3 DEF LibraryInv
<1>5. Kept' = Kept
  BY <1>3 DEF Kept
<1>6. Coming' = Coming \cup w
  <2>1. \A b \in Asker : asking'[b].left = IF b = a THEN w ELSE asking[b].left
    BY <1>3 DEF LibraryInv
  <2> QED
    BY <1>3, <2>1 DEF Coming
<1>7. Kept \cup Coming \subseteq Day
  BY DEF LibraryInv, Kept, Coming
<1>8. holes' = {} => Gapless(Kept' \cup Coming')
  <2> SUFFICES ASSUME holes' = {} PROVE Gapless(Kept' \cup Coming')
    OBVIOUS
  <2>1. Skipped(w) = {}
    BY <1>3
  <2>2. Gapless(Kept \cup Coming \cup w)
    BY <1>7, <2>1, NothingSkipped
  <2>3. Kept' \cup Coming' = Kept \cup Coming \cup w
    BY <1>5, <1>6
  <2> QED
    BY <2>2, <2>3
<1> QED
  BY <1>3, <1>4, <1>8 DEF LibraryInv, GapExplained, Gapless

\* A call that has written, or failed to write, one of its days.
LEMMA RestOf ==
  ASSUME LibraryInv, NEW a \in Asker, NEW d \in asking[a].left,
         asking' = [asking EXCEPT ![a] = Rest(a, d)]
  PROVE  /\ asking' \in [Asker -> [left : SUBSET Day, adjust : Adjusts \cup {NoRow}]]
         /\ \A b \in Asker : asking'[b].left # {} => asking'[b].adjust \in Adjusts
         /\ d \in Day
         /\ Coming' \cup {d} = Coming
<1>1. asking \in [Asker -> [left : SUBSET Day, adjust : Adjusts \cup {NoRow}]]
      /\ asking[a].adjust \in Adjusts
  BY DEF LibraryInv
<1>2. /\ Rest(a, d) \in [left : SUBSET Day, adjust : Adjusts \cup {NoRow}]
      /\ Rest(a, d).left = asking[a].left \ {d}
      /\ Rest(a, d).left # {} => Rest(a, d).adjust = asking[a].adjust
  BY <1>1 DEF Rest, NotAsking
<1>3. \A b \in Asker : asking'[b] = IF b = a THEN Rest(a, d) ELSE asking[b]
  BY <1>1
<1>4. \A b \in Asker : asking'[b].left # {} => asking'[b].adjust \in Adjusts
  BY <1>1, <1>2, <1>3 DEF LibraryInv
<1>5. asking' \in [Asker -> [left : SUBSET Day, adjust : Adjusts \cup {NoRow}]]
  BY <1>1, <1>2
<1>6. d \in Day
  BY <1>1
<1>7. Coming' \cup {d} = Coming
  <2>1. \A b \in Asker : asking'[b].left = IF b = a THEN asking[a].left \ {d} ELSE asking[b].left
    BY <1>2, <1>3
  <2> QED
    BY <2>1 DEF Coming
<1> QED
  BY <1>4, <1>5, <1>6, <1>7

LEMMA WriteRowKeeps ==
  ASSUME LibraryInv, NEW a \in Asker, NEW d \in Day, WriteRow(a, d)
  PROVE  LibraryInv'
<1>1. /\ d \in asking[a].left
      /\ library' = [library EXCEPT ![d] = asking[a].adjust]
      /\ asking' = [asking EXCEPT ![a] = Rest(a, d)]
      /\ answer' = NoRow /\ UNCHANGED <<today, holes>>
  BY DEF WriteRow
<1>2. asking[a].adjust \in Adjusts /\ library \in [Day -> Adjusts \cup {NoRow}]
  BY <1>1 DEF LibraryInv
<1>3. Kept' = Kept \cup {d}
  <2>1. asking[a].adjust # NoRow
    BY <1>2, LibraryAssumption DEF Adjusts
  <2> QED
    BY <1>1, <1>2, <2>1 DEF Kept
<1>4. Kept' \cup Coming' = Kept \cup Coming
  <2>1. Coming' \cup {d} = Coming
    BY <1>1, RestOf
  <2> QED
    BY <1>3, <2>1
<1>5. holes' = {} => Gapless(Kept' \cup Coming')
  BY <1>1, <1>4 DEF LibraryInv
<1>6. asking' \in [Asker -> [left : SUBSET Day, adjust : Adjusts \cup {NoRow}]]
      /\ \A b \in Asker : asking'[b].left # {} => asking'[b].adjust \in Adjusts
  BY <1>1, RestOf
<1> QED
  BY <1>1, <1>2, <1>5, <1>6 DEF LibraryInv, GapExplained, Gapless

\* After any step the rows and the calls are of their kind. What the library
\* returned is complete, or the reason is known.
LEMMA LibraryStep == ASSUME LibraryInv, [LibraryNext]_libraryVars PROVE LibraryInv'
<1>1. ASSUME NEW a \in Asker, NEW from \in Day \cup {0}, NEW to \in Day \cup {0},
             NEW limit \in RowLimit, NEW adjust \in Adjusts,
             AskLibrary(a, Query(from, to, limit, adjust))
      PROVE  LibraryInv'
  BY <1>1, AskLibraryKeeps
<1>2. ASSUME NEW a \in Asker, NEW from, NEW to, NEW limit, NEW adjust \in Adjusts,
             NEW provider, AskProvider(a, Query(from, to, limit, adjust), provider)
      PROVE  LibraryInv'
  <2>1. Query(from, to, limit, adjust).adjust = adjust
    BY DEF Query
  <2> QED
    BY <1>2, <2>1, AskProviderKeeps
<1>3. ASSUME NEW a \in Asker, NEW d \in Day, WriteRow(a, d) PROVE LibraryInv'
  BY <1>3, WriteRowKeeps
<1>4. ASSUME NEW a \in Asker, NEW d \in Day, WriteFails(a, d) PROVE LibraryInv'
  <2>1. /\ d \in asking[a].left
        /\ asking' = [asking EXCEPT ![a] = Rest(a, d)]
        /\ holes' = holes \cup {"failed"}
        /\ answer' = NoRow /\ UNCHANGED <<today, library>>
    BY <1>4 DEF WriteFails
  <2>2. holes' # {}
    BY <2>1
  <2> QED
    BY <2>1, <2>2, RestOf DEF LibraryInv, GapExplained
<1>5. CASE NextDay
  <2>1. Kept' = Kept /\ Coming' = Coming
    BY <1>5 DEF NextDay, Kept, Coming
  <2> QED
    BY <1>5, <2>1 DEF NextDay, LibraryInv, GapExplained, Gapless
<1>6. CASE UNCHANGED libraryVars
  <2>1. Kept' = Kept /\ Coming' = Coming
    BY <1>6 DEF libraryVars, Kept, Coming
  <2> QED
    BY <1>6, <2>1 DEF libraryVars, LibraryInv, GapExplained, Gapless
<1> QED
  BY <1>1, <1>2, <1>3, <1>4, <1>5, <1>6 DEF LibraryNext

\* An answer of the library is complete, or the reason is known: for every number
\* of days, calls and rows, whatever order the threads write in.
THEOREM AnswersExplained == LibrarySpec => []GapExplained
<1>1. LibraryInit => LibraryInv
  BY LibraryInitial
<1>2. LibraryInv /\ [LibraryNext]_libraryVars => LibraryInv'
  BY LibraryStep
<1>3. LibraryInv => GapExplained
  BY DEF LibraryInv
<1> QED
  BY <1>1, <1>2, <1>3, PTL DEF LibrarySpec

\* Only the three kinds of gaps that the code can leave are ever recorded.
LEMMA ReasonsStay ==
  ASSUME holes \subseteq {"late", "apart", "failed"}, [LibraryNext]_libraryVars
  PROVE  holes' \subseteq {"late", "apart", "failed"}
<1>1. ASSUME NEW a \in Asker, NEW q, NEW provider,
             AskLibrary(a, q) \/ AskProvider(a, q, provider)
      PROVE  holes' \subseteq {"late", "apart", "failed"}
  <2>1. CASE holes' = holes
    BY <2>1
  <2>2. ASSUME NEW w, NEW rows, holes' = holes \cup (IF Skipped(w) = {} THEN {}
                                        ELSE IF w = rows THEN {"apart"} ELSE {"late"})
        PROVE  holes' \subseteq {"late", "apart", "failed"}
    BY <2>2
  <2> QED
    BY <1>1, <2>1, <2>2, Zenon DEF AskLibrary, AskProvider
<1>2. ASSUME NEW a \in Asker, NEW d \in Day, WriteRow(a, d) \/ WriteFails(a, d)
      PROVE  holes' \subseteq {"late", "apart", "failed"}
  BY <1>2 DEF WriteRow, WriteFails
<1>3. CASE NextDay \/ UNCHANGED libraryVars
  BY <1>3 DEF NextDay, libraryVars
<1> QED
  BY <1>1, <1>2, <1>3 DEF LibraryNext

\* The library has rows of the days there are, calls write days there are, and a
\* gap has one of the three reasons.
THEOREM LibraryTypes == LibrarySpec => []LibraryTypeOK
<1>1. LibraryInit => holes \subseteq {"late", "apart", "failed"}
  BY DEF LibraryInit
<1>2. holes \subseteq {"late", "apart", "failed"} /\ [LibraryNext]_libraryVars
        => (holes \subseteq {"late", "apart", "failed"})'
  BY ReasonsStay
<1>3. LibraryInv /\ [LibraryNext]_libraryVars => LibraryInv'
  BY LibraryStep
<1>4. LibraryInv /\ holes \subseteq {"late", "apart", "failed"} => LibraryTypeOK
  BY DEF LibraryInv, LibraryTypeOK
<1> QED
  BY <1>1, <1>2, <1>3, <1>4, LibraryInitial, PTL DEF LibrarySpec

-----------------------------------------------------------------------------
(* The kept rows of the model summary. *)

(***************************************************************************)
(* The numbers of the plan: jobs and combinations stay within it.          *)
(***************************************************************************)
LEMMA Sizes ==
  /\ Cardinality(Window) \in Nat \ {0} /\ Window = 1..Cardinality(Window)
  /\ Cardinality(Group) \in Nat \ {0} /\ Group = 1..Cardinality(Group)
<1>1. Cardinality(Window) \in Nat /\ Cardinality(Group) \in Nat
  BY SnapshotAssumption, FS_CardinalityType
<1>2. Cardinality(Window) # 0 /\ Cardinality(Group) # 0
  <2>1. Window # 1..0 /\ Group # 1..0
    BY SnapshotAssumption
  <2> QED
    BY <2>1, SnapshotAssumption
<1> QED
  BY <1>1, <1>2, SnapshotAssumption

LEMMA ProductPositive ==
  ASSUME NEW a \in Nat \ {0}, NEW b \in Nat \ {0}
  PROVE  a * b \in Nat \ {0}
OBVIOUS

LEMMA QuotientBelow ==
  ASSUME NEW a \in Nat \ {0}, NEW d \in Nat \ {0}, NEW n \in Nat, n < a * d
  PROVE  n \div d \in 0..(a - 1)
OBVIOUS

LEMMA JobBounds ==
  /\ Len(Jobs) \in Nat \ {0} /\ DOMAIN Jobs = 1..Len(Jobs)
  /\ Jobs[1].group = 0
  /\ \A k \in DOMAIN Jobs : Jobs[k].window \in Int /\ Jobs[k].group \in Int
<1> DEFINE W == Cardinality(Window)
<1> DEFINE G == Cardinality(Group)
<1>1. W * (G + 1) \in Nat \ {0} /\ G + 1 \in Nat \ {0}
  BY Sizes, ProductPositive
<1>2. Jobs = [n \in 1..(W * (G + 1)) |-> [window |-> 1 + (n - 1) \div (G + 1),
                                          group |-> (n - 1) % (G + 1)]]
  BY DEF Jobs
<1> HIDE DEF W, G
<1>3. PICK m \in Nat \ {0} : m = W * (G + 1)
  BY <1>1
<1>4. PICK d \in Nat \ {0} : d = G + 1
  BY <1>1
<1>5. Jobs = [n \in 1..m |-> [window |-> 1 + (n - 1) \div d, group |-> (n - 1) % d]]
  BY <1>2, <1>3, <1>4
<1>6. Len(Jobs) = m /\ DOMAIN Jobs = 1..m
  BY <1>5
<1>7. Jobs[1].group = 0
  <2>1. Jobs[1].group = (1 - 1) % d
    BY <1>5
  <2> QED
    BY <2>1
<1>8. \A k \in 1..m : Jobs[k].window \in Int /\ Jobs[k].group \in Int
  <2> SUFFICES ASSUME NEW k \in 1..m PROVE Jobs[k].window \in Int /\ Jobs[k].group \in Int
    OBVIOUS
  <2>1. Jobs[k] = [window |-> 1 + (k - 1) \div d, group |-> (k - 1) % d]
    BY <1>5
  <2>2. 1 + (k - 1) \div d \in Int /\ (k - 1) % d \in Int
    OBVIOUS
  <2> QED
    BY <2>1, <2>2
<1> QED
  BY <1>6, <1>7, <1>8

LEMMA CombinationBounds ==
  ASSUME NEW n \in Nat, Len(outer) \in Nat \ {0}, n < PlanLength
  PROVE  /\ Combination(n + 1).p \in 1..Len(outer)
         /\ Combination(n + 1).w \in Window
         /\ Combination(n + 1).g \in Group
<1>1. PICK W \in Nat \ {0} : W = Cardinality(Window) /\ Window = 1..W
  BY Sizes
<1>2. PICK G \in Nat \ {0} : G = Cardinality(Group) /\ Group = 1..G
  BY Sizes
<1>3. PICK L \in Nat \ {0} : L = Len(outer)
  OBVIOUS
<1>4. /\ Combination(n + 1).p = 1 + (n + 1 - 1) \div (W * G)
      /\ Combination(n + 1).w = 1 + (((n + 1 - 1) \div G) % W)
      /\ Combination(n + 1).g = 1 + ((n + 1 - 1) % G)
  BY <1>1, <1>2 DEF Combination
<1>5. n + 1 - 1 = n
  OBVIOUS
<1>6. W * G \in Nat \ {0} /\ n < L * (W * G)
  <2>1. n < L * W * G
    BY <1>1, <1>2, <1>3 DEF PlanLength
  <2>2. L * W * G = L * (W * G)
    OBVIOUS
  <2> QED
    BY <2>1, <2>2, ProductPositive
<1>7. n \div (W * G) \in 0..(L - 1)
  BY <1>6, QuotientBelow
<1>8. 1 + n \div (W * G) \in 1..L
  <2>1. PICK q \in 0..(L - 1) : q = n \div (W * G)
    BY <1>7
  <2> QED
    BY <2>1
<1>9. 1 + ((n \div G) % W) \in 1..W
  <2>1. n \div G \in Int
    OBVIOUS
  <2> QED
    BY <2>1
<1>10. 1 + (n % G) \in 1..G
  OBVIOUS
<1> QED
  BY <1>1, <1>2, <1>3, <1>4, <1>5, <1>8, <1>9, <1>10

-----------------------------------------------------------------------------
(***************************************************************************)
(* The invariant of the rows.                                              *)
(***************************************************************************)
ThreadRow ==
  [at : {"fetch", "read", "insert", "done", "failed"}, k : 1..Len(Jobs),
   rows : KlineRows \cup {Unset}, source : KeptSource \cup {Unset},
   kept : [Window -> [Group -> KeptSeries \cup {Unset}]]]

\* A thread that has fetched has rows, and one beyond its first job a source.
Supplied(t) ==
  /\ t.at # "fetch" => t.rows \in KlineRows
  /\ t.k # 1 => t.source \in KeptSource

SnapshotTypes ==
  /\ outer \in Outers /\ parallel \in BOOLEAN
  /\ market \in [Stocks -> KlineRows]
  /\ config \in Configs
  /\ epoch \in Nat
  /\ sources \subseteq KeptSource /\ series \subseteq KeptSeries
  /\ taskRow \in [status : {"pending", "running", "error", "completed"}, step : Nat]
  /\ execution \in [Executions -> [phase : {"none", "expand", "execute", "ended"},
                                   told : BOOLEAN, n : Nat, config : Configs]]
  /\ thread \in [Executions -> [DOMAIN outer -> ThreadRow]]
  /\ \A e \in Executions : \A p \in DOMAIN outer : Supplied(thread[e][p])

\* The unique keys of the tables; a clearing begins a new epoch.
OneRowPerKey ==
  /\ \A s, o \in sources : s.stock = o.stock /\ s.window = o.window => s = o
  /\ \A s, o \in series :
       s.stock = o.stock /\ s.window = o.window /\ s.group = o.group /\ s.range = o.range => s = o
  /\ \A s \in sources \cup series : s.epoch = epoch

\* What a thread keeps is what it was looking for.
KeepsOwn(t, p) ==
  \A w \in Window, g \in Group :
    LET s == t.kept[w][g] IN s # Unset => s.stock = StockOf(p) /\ s.window = w

\* A combination of this epoch was executed with rows that are still kept.
StillKept(x) ==
  /\ x.series \in series
  /\ \E o \in sources :
       /\ o.stock = x.stock /\ o.window = x.window
       /\ x.rows = [source |-> o.rows, prices |-> x.series.prices, seed |-> x.series.seed]

UsedInv ==
  \A x \in used :
    /\ x.series.stock = x.stock /\ x.series.window = x.window
    /\ x.series.epoch \in Nat /\ x.series.epoch <= epoch
    /\ x.series.epoch = epoch => StillKept(x)

RowsInv ==
  /\ SnapshotTypes
  /\ OneRowPerKey
  /\ \A e \in Executions : \A p \in DOMAIN outer : KeepsOwn(thread[e][p], p)
  /\ UsedInv
  /\ RowsRepeat

\* The threads are of their kind, and keep their own.
ThreadsFit ==
  /\ thread \in [Executions -> [DOMAIN outer -> ThreadRow]]
  /\ \A e \in Executions : \A p \in DOMAIN outer :
       Supplied(thread[e][p]) /\ KeepsOwn(thread[e][p], p)

LEMMA StocksOf == ASSUME outer \in Outers, NEW p \in DOMAIN outer PROVE StockOf(p) \in Stocks
BY DEF StockOf, Stocks

LEMMA Unstarted ==
  ASSUME outer \in Outers
  PROVE  /\ NoThreads \in [DOMAIN outer -> ThreadRow]
         /\ \A p \in DOMAIN outer : Supplied(NoThreads[p]) /\ KeepsOwn(NoThreads[p], p)
<1>1. 1 \in 1..Len(Jobs)
  BY JobBounds
<1>2. [w \in Window |-> [g \in Group |-> Unset]] \in [Window -> [Group -> KeptSeries \cup {Unset}]]
  OBVIOUS
<1>3. NewThread \in ThreadRow
  BY <1>1, <1>2 DEF NewThread, ThreadRow
<1>4. Supplied(NewThread) /\ \A p \in DOMAIN outer : KeepsOwn(NewThread, p)
  BY DEF NewThread, Supplied, KeepsOwn
<1> QED
  BY <1>3, <1>4 DEF NoThreads

OnlyMoves(e, p) ==
  \A d \in Executions : \A q \in DOMAIN outer :
    <<d, q>> # <<e, p>> => thread'[d][q] = thread[d][q]

\* One thread moves on.
LEMMA MoveFits ==
  ASSUME RowsInv, NEW e \in Executions, NEW p \in DOMAIN outer, NEW t \in ThreadRow,
         Supplied(t), KeepsOwn(t, p), Moves(e, p, t), outer' = outer
  PROVE  ThreadsFit' /\ thread'[e][p] = t /\ OnlyMoves(e, p)
<1>1. thread \in [Executions -> [DOMAIN outer -> ThreadRow]]
      /\ thread' = [thread EXCEPT ![e][p] = t]
  BY DEF RowsInv, SnapshotTypes, Moves
<1>2. thread' \in [Executions -> [DOMAIN outer -> ThreadRow]] /\ thread'[e][p] = t
  BY <1>1
<1>3. ASSUME NEW d \in Executions, NEW q \in DOMAIN outer
      PROVE  Supplied(thread'[d][q]) /\ KeepsOwn(thread'[d][q], q)
  <2>1. thread'[d][q] = thread[d][q] \/ (q = p /\ thread'[d][q] = t)
    BY <1>1
  <2> QED
    BY <2>1 DEF RowsInv, SnapshotTypes
<1>4. \A d \in Executions : \A q \in DOMAIN outer' :
        (Supplied(thread[d][q]) /\ KeepsOwn(thread[d][q], q))'
  BY <1>3 DEF Supplied, KeepsOwn, StockOf
<1>5. OnlyMoves(e, p)
  BY <1>1 DEF OnlyMoves
<1> QED
  BY <1>2, <1>4, <1>5 DEF ThreadsFit

LEMMA AdvancedFits ==
  ASSUME NEW t \in ThreadRow, NEW p, t.rows \in KlineRows, t.source \in KeptSource, KeepsOwn(t, p)
  PROVE  /\ Advanced(t) \in ThreadRow /\ Supplied(Advanced(t)) /\ KeepsOwn(Advanced(t), p)
         /\ Advanced(t).source = t.source /\ Advanced(t).rows = t.rows
         /\ Advanced(t).at \in {"read", "done"}
<1>1. t.k \in 1..Len(Jobs) /\ Len(Jobs) \in Nat
  BY JobBounds DEF ThreadRow
<1>2. CASE t.k = Len(Jobs)
  <2>1. Advanced(t) = [t EXCEPT !.at = "done"]
    BY <1>2 DEF Advanced
  <2>2. /\ Advanced(t) \in ThreadRow /\ Advanced(t).at = "done"
        /\ Advanced(t).source = t.source /\ Advanced(t).rows = t.rows
        /\ Advanced(t).kept = t.kept
    BY <2>1 DEF ThreadRow
  <2> QED
    BY <2>2 DEF Supplied, KeepsOwn
<1>3. CASE t.k # Len(Jobs)
  <2>1. Advanced(t) = [t EXCEPT !.at = "read", !.k = t.k + 1]
    BY <1>3 DEF Advanced
  <2>2. t.k + 1 \in 1..Len(Jobs)
    BY <1>1, <1>3
  <2>3. /\ Advanced(t) \in ThreadRow /\ Advanced(t).at = "read"
        /\ Advanced(t).source = t.source /\ Advanced(t).rows = t.rows
        /\ Advanced(t).kept = t.kept
    BY <2>1, <2>2 DEF ThreadRow
  <2> QED
    BY <2>3 DEF Supplied, KeepsOwn
<1> QED
  BY <1>2, <1>3

\* With a source it has found or made.
LEMMA WithSource ==
  ASSUME NEW t \in ThreadRow, NEW p, t.rows \in KlineRows, KeepsOwn(t, p), NEW o \in KeptSource
  PROVE  LET u == Advanced([t EXCEPT !.source = o]) IN
         /\ u \in ThreadRow /\ Supplied(u) /\ KeepsOwn(u, p)
         /\ u.source = o /\ u.rows = t.rows /\ u.at \in {"read", "done"}
<1>1. PICK v : v = [t EXCEPT !.source = o]
  OBVIOUS
<1>2. v \in ThreadRow /\ v.rows = t.rows /\ v.source = o /\ v.kept = t.kept
  BY <1>1 DEF ThreadRow
<1>3. KeepsOwn(v, p)
  BY <1>2 DEF KeepsOwn
<1> QED
  BY <1>1, <1>2, <1>3, AdvancedFits

\* With a series it has found or made.
WithKept(t, w, g, s) == [t EXCEPT !.kept[w][g] = s]

LEMMA WithSeries ==
  ASSUME NEW t \in ThreadRow, NEW p, t.rows \in KlineRows, t.source \in KeptSource, KeepsOwn(t, p),
         NEW s \in KeptSeries, NEW w, NEW g, s.stock = StockOf(p), s.window = w,
         NEW u, u = Advanced(WithKept(t, w, g, s))
  PROVE  /\ u \in ThreadRow /\ Supplied(u) /\ KeepsOwn(u, p)
         /\ u.source = t.source /\ u.rows = t.rows /\ u.at \in {"read", "done"}
<1>1. PICK v : v = WithKept(t, w, g, s)
  OBVIOUS
<1>2. PICK kept \in [Window -> [Group -> KeptSeries \cup {Unset}]] : kept = [t.kept EXCEPT ![w][g] = s]
  BY DEF ThreadRow
<1>3. v \in ThreadRow /\ v.rows = t.rows /\ v.source = t.source /\ v.kept = kept
  BY <1>1, <1>2 DEF ThreadRow, WithKept
<1>4. KeepsOwn(v, p)
  <2>1. ASSUME NEW x \in Window, NEW h \in Group
        PROVE  kept[x][h] = t.kept[x][h] \/ (x = w /\ kept[x][h] = s)
    BY <1>2 DEF ThreadRow
  <2> QED
    BY <1>3, <2>1 DEF KeepsOwn
<1> QED
  BY <1>1, <1>3, <1>4, AdvancedFits

\* Only the place changes.
LEMMA AtOnly ==
  ASSUME NEW t \in ThreadRow, NEW p, t.rows \in KlineRows, Supplied(t), KeepsOwn(t, p),
         NEW a \in {"insert", "failed"}
  PROVE  LET u == [t EXCEPT !.at = a] IN
         /\ u \in ThreadRow /\ Supplied(u) /\ KeepsOwn(u, p)
         /\ u.at = a /\ u.k = t.k /\ u.source = t.source /\ u.rows = t.rows
<1>1. PICK u : u = [t EXCEPT !.at = a]
  OBVIOUS
<1>2. /\ u \in ThreadRow /\ u.at = a /\ u.k = t.k /\ u.source = t.source /\ u.rows = t.rows
      /\ u.kept = t.kept
  BY <1>1 DEF ThreadRow
<1>3. Supplied(u) /\ KeepsOwn(u, p)
  BY <1>2 DEF Supplied, KeepsOwn
<1> QED
  BY <1>1, <1>2, <1>3

-----------------------------------------------------------------------------
(***************************************************************************)
(* The steps of a thread, and what each leaves.                            *)
(***************************************************************************)
\* Nothing but the rows of the tables and the thread itself changes.
Apart == UNCHANGED <<fixed, world, epoch, taskRow, execution, history>>

LEMMA AThread ==
  ASSUME RowsInv, NEW e \in Executions, NEW p \in DOMAIN outer
  PROVE  /\ thread[e][p] \in ThreadRow /\ Supplied(thread[e][p]) /\ KeepsOwn(thread[e][p], p)
         /\ StockOf(p) \in Stocks /\ Config(e) \in Configs
         /\ NextJob(e, p).window \in Int /\ NextJob(e, p).group \in Int
         /\ NextJob(e, p).group # 0 => thread[e][p].k # 1
<1>1. /\ thread[e][p] \in ThreadRow /\ Supplied(thread[e][p]) /\ KeepsOwn(thread[e][p], p)
      /\ StockOf(p) \in Stocks /\ Config(e) \in Configs
  BY StocksOf DEF RowsInv, SnapshotTypes, Config
<1>2. thread[e][p].k \in DOMAIN Jobs
  BY <1>1, JobBounds DEF ThreadRow
<1> QED
  BY <1>1, <1>2, JobBounds DEF NextJob

LEMMA FetchEffect ==
  ASSUME RowsInv, NEW e \in Executions, NEW p \in DOMAIN outer, Fetch(e, p)
  PROVE  /\ ThreadsFit' /\ OnlyMoves(e, p) /\ UNCHANGED <<sources, series>> /\ Apart
         /\ thread'[e][p].at = "read" /\ thread'[e][p].rows = market[StockOf(p)]
         /\ thread'[e][p].k = thread[e][p].k /\ thread'[e][p].source = thread[e][p].source
<1>1. PICK u : u = [thread[e][p] EXCEPT !.at = "read", !.rows = market[StockOf(p)]]
  OBVIOUS
<1>2. Moves(e, p, u) /\ UNCHANGED <<fixed, world, tables, taskRow, execution, history>>
  BY <1>1 DEF Fetch
<1>3. market[StockOf(p)] \in KlineRows
  BY AThread DEF RowsInv, SnapshotTypes
<1>4. /\ u \in ThreadRow /\ u.at = "read" /\ u.rows = market[StockOf(p)]
      /\ u.k = thread[e][p].k /\ u.source = thread[e][p].source /\ u.kept = thread[e][p].kept
  BY <1>1, <1>3, AThread DEF ThreadRow
<1>5. Supplied(u) /\ KeepsOwn(u, p)
  BY <1>3, <1>4, AThread DEF Supplied, KeepsOwn
<1> QED
  BY <1>2, <1>4, <1>5, MoveFits DEF fixed, tables, Apart

LEMMA ReadSourceEffect ==
  ASSUME RowsInv, NEW e \in Executions, NEW p \in DOMAIN outer, ReadSource(e, p)
  PROVE  /\ ThreadsFit' /\ OnlyMoves(e, p) /\ UNCHANGED <<sources, series>> /\ Apart
         /\ NextJob(e, p).group = 0 /\ thread'[e][p].rows = thread[e][p].rows
         /\ \/ /\ thread'[e][p].at = "insert" /\ SourcesAt(p, NextJob(e, p).window) = {}
               /\ thread'[e][p].k = thread[e][p].k /\ thread'[e][p].source = thread[e][p].source
            \/ /\ thread'[e][p].at = "failed"
               /\ \E s \in SourcesAt(p, NextJob(e, p).window) :
                    SourceMismatch(s, Config(e), thread[e][p].rows)
            \/ /\ thread'[e][p].at \in {"read", "done"}
               /\ thread'[e][p].source \in SourcesAt(p, NextJob(e, p).window)
<1> DEFINE t == thread[e][p]
<1> DEFINE w == NextJob(e, p).window
<1>1. /\ Working(e, p, "read") /\ NextJob(e, p).group = 0
      /\ \/ SourcesAt(p, w) = {} /\ Moves(e, p, [t EXCEPT !.at = "insert"])
         \/ \E s \in SourcesAt(p, w) :
              IF SourceMismatch(s, Config(e), t.rows) THEN Fails(e, p)
              ELSE Moves(e, p, Advanced([t EXCEPT !.source = s]))
      /\ UNCHANGED <<fixed, world, tables, taskRow, execution, history>>
  BY DEF ReadSource
<1>2. outer' = outer /\ UNCHANGED <<sources, series>> /\ Apart
  BY <1>1 DEF fixed, tables, Apart
<1>3. t \in ThreadRow /\ t.rows \in KlineRows /\ Supplied(t) /\ KeepsOwn(t, p)
  BY <1>1, AThread DEF Working, Supplied
<1>4. CASE SourcesAt(p, w) = {} /\ Moves(e, p, [t EXCEPT !.at = "insert"])
  <2>1. PICK u : u = [t EXCEPT !.at = "insert"]
    OBVIOUS
  <2>2. /\ u \in ThreadRow /\ Supplied(u) /\ KeepsOwn(u, p)
        /\ u.at = "insert" /\ u.k = t.k /\ u.source = t.source /\ u.rows = t.rows
    BY <1>3, <2>1, AtOnly
  <2>3. ThreadsFit' /\ thread'[e][p] = u /\ OnlyMoves(e, p)
    BY <1>2, <1>4, <2>1, <2>2, MoveFits
  <2> QED
    BY <1>1, <1>2, <1>4, <2>2, <2>3
<1>5. ASSUME NEW s \in SourcesAt(p, w), SourceMismatch(s, Config(e), t.rows), Fails(e, p)
      PROVE  /\ ThreadsFit' /\ OnlyMoves(e, p)
             /\ thread'[e][p].at = "failed" /\ thread'[e][p].rows = t.rows
  <2>1. PICK u : u = [t EXCEPT !.at = "failed"]
    OBVIOUS
  <2>2. u \in ThreadRow /\ Supplied(u) /\ KeepsOwn(u, p) /\ u.at = "failed" /\ u.rows = t.rows
    BY <1>3, <2>1, AtOnly
  <2>3. Moves(e, p, u)
    BY <1>5, <2>1 DEF Fails
  <2> QED
    BY <1>2, <2>2, <2>3, MoveFits
<1>6. ASSUME NEW s \in SourcesAt(p, w), Moves(e, p, Advanced([t EXCEPT !.source = s]))
      PROVE  /\ ThreadsFit' /\ OnlyMoves(e, p) /\ thread'[e][p].rows = t.rows
             /\ thread'[e][p].at \in {"read", "done"} /\ thread'[e][p].source = s
  <2>1. s \in KeptSource
    BY DEF SourcesAt, RowsInv, SnapshotTypes
  <2>2. PICK u : u = Advanced([t EXCEPT !.source = s])
    OBVIOUS
  <2>3. /\ u \in ThreadRow /\ Supplied(u) /\ KeepsOwn(u, p)
        /\ u.source = s /\ u.rows = t.rows /\ u.at \in {"read", "done"}
    BY <1>3, <2>1, <2>2, WithSource
  <2> QED
    BY <1>2, <1>6, <2>2, <2>3, MoveFits
<1> QED
  BY <1>1, <1>2, <1>4, <1>5, <1>6

LEMMA ReadSeriesEffect ==
  ASSUME RowsInv, NEW e \in Executions, NEW p \in DOMAIN outer, ReadSeries(e, p)
  PROVE  /\ ThreadsFit' /\ OnlyMoves(e, p) /\ UNCHANGED <<sources, series>> /\ Apart
         /\ NextJob(e, p).group # 0 /\ thread'[e][p].rows = thread[e][p].rows
         /\ \/ /\ thread'[e][p].at = "insert" /\ thread'[e][p].k = thread[e][p].k
               /\ SeriesAt(e, p, NextJob(e, p).window, NextJob(e, p).group) = {}
               /\ thread'[e][p].source = thread[e][p].source
            \/ /\ thread'[e][p].at = "failed"
               /\ \E s \in SeriesAt(e, p, NextJob(e, p).window, NextJob(e, p).group) :
                    SeriesMismatch(s, Config(e), thread[e][p], NextJob(e, p))
            \/ /\ thread'[e][p].at \in {"read", "done"}
               /\ thread'[e][p].source = thread[e][p].source
<1> DEFINE t == thread[e][p]
<1> DEFINE j == NextJob(e, p)
<1> DEFINE found == SeriesAt(e, p, j.window, j.group)
<1>1. /\ Working(e, p, "read") /\ j.group # 0
      /\ \/ found = {} /\ Moves(e, p, [t EXCEPT !.at = "insert"])
         \/ \E s \in found :
              IF SeriesMismatch(s, Config(e), t, j) THEN Fails(e, p)
              ELSE Moves(e, p, Advanced([t EXCEPT !.kept[j.window][j.group] = s]))
      /\ UNCHANGED <<fixed, world, tables, taskRow, execution, history>>
  BY DEF ReadSeries
<1>2. outer' = outer /\ UNCHANGED <<sources, series>> /\ Apart
  BY <1>1 DEF fixed, tables, Apart
<1>3. /\ t \in ThreadRow /\ t.rows \in KlineRows /\ t.source \in KeptSource
      /\ Supplied(t) /\ KeepsOwn(t, p)
  BY <1>1, AThread DEF Working, Supplied
<1>4. CASE found = {} /\ Moves(e, p, [t EXCEPT !.at = "insert"])
  <2>1. PICK u : u = [t EXCEPT !.at = "insert"]
    OBVIOUS
  <2>2. /\ u \in ThreadRow /\ Supplied(u) /\ KeepsOwn(u, p)
        /\ u.at = "insert" /\ u.k = t.k /\ u.source = t.source /\ u.rows = t.rows
    BY <1>3, <2>1, AtOnly
  <2>3. ThreadsFit' /\ thread'[e][p] = u /\ OnlyMoves(e, p)
    BY <1>2, <1>4, <2>1, <2>2, MoveFits
  <2> QED
    BY <1>1, <1>2, <1>4, <2>2, <2>3
<1>5. ASSUME NEW s \in found, SeriesMismatch(s, Config(e), t, j), Fails(e, p)
      PROVE  /\ ThreadsFit' /\ OnlyMoves(e, p)
             /\ thread'[e][p].at = "failed" /\ thread'[e][p].rows = t.rows
  <2>1. PICK u : u = [t EXCEPT !.at = "failed"]
    OBVIOUS
  <2>2. u \in ThreadRow /\ Supplied(u) /\ KeepsOwn(u, p) /\ u.at = "failed" /\ u.rows = t.rows
    BY <1>3, <2>1, AtOnly
  <2>3. Moves(e, p, u)
    BY <1>5, <2>1 DEF Fails
  <2> QED
    BY <1>2, <2>2, <2>3, MoveFits
<1>6. ASSUME NEW s \in found, Moves(e, p, Advanced([t EXCEPT !.kept[j.window][j.group] = s]))
      PROVE  /\ ThreadsFit' /\ OnlyMoves(e, p) /\ thread'[e][p].rows = t.rows
             /\ thread'[e][p].at \in {"read", "done"} /\ thread'[e][p].source = t.source
  <2>1. s \in KeptSeries /\ s.stock = StockOf(p) /\ s.window = j.window
    BY DEF SeriesAt, RowsInv, SnapshotTypes
  <2>2. PICK u : u = Advanced(WithKept(t, j.window, j.group, s))
    OBVIOUS
  <2>3. /\ u \in ThreadRow /\ Supplied(u) /\ KeepsOwn(u, p)
        /\ u.source = t.source /\ u.rows = t.rows /\ u.at \in {"read", "done"}
    <3> HIDE DEF t, j
    <3> QED
      BY <1>3, <2>1, <2>2, WithSeries
  <2> QED
    BY <1>2, <1>6, <2>2, <2>3, MoveFits DEF WithKept
<1> QED
  BY <1>1, <1>2, <1>4, <1>5, <1>6

\* The row a thread writes for its source.
SourceMade(e, p) ==
  [stock |-> StockOf(p), window |-> NextJob(e, p).window, epoch |-> epoch,
   adjust |-> Config(e).adjust, rows |-> thread[e][p].rows]

LEMMA InsertSourceEffect ==
  ASSUME RowsInv, NEW e \in Executions, NEW p \in DOMAIN outer, InsertSource(e, p)
  PROVE  /\ ThreadsFit' /\ OnlyMoves(e, p) /\ series' = series /\ Apart
         /\ NextJob(e, p).group = 0 /\ thread'[e][p].rows = thread[e][p].rows
         /\ \/ /\ thread'[e][p].at = "failed" /\ sources' = sources
               /\ SourcesAt(p, NextJob(e, p).window) # {}
            \/ /\ thread'[e][p].at \in {"read", "done"}
               /\ thread'[e][p].source = SourceMade(e, p)
               /\ SourceMade(e, p) \in KeptSource
               /\ sources' = sources \cup {SourceMade(e, p)}
               /\ SourcesAt(p, NextJob(e, p).window) = {}
<1> DEFINE t == thread[e][p]
<1> DEFINE w == NextJob(e, p).window
<1>1. PICK new : new = SourceMade(e, p)
  OBVIOUS
<1>2. /\ Working(e, p, "insert") /\ NextJob(e, p).group = 0
      /\ IF SourcesAt(p, w) # {}
         THEN Fails(e, p) /\ UNCHANGED sources
         ELSE /\ sources' = sources \cup {new}
              /\ Moves(e, p, Advanced([t EXCEPT !.source = new]))
      /\ UNCHANGED <<fixed, world, epoch, series, taskRow, execution, history>>
  BY <1>1 DEF InsertSource, SourceMade
<1>3. outer' = outer /\ series' = series /\ Apart
  BY <1>2 DEF fixed, Apart
<1>4. t \in ThreadRow /\ t.rows \in KlineRows /\ Supplied(t) /\ KeepsOwn(t, p)
  BY <1>2, AThread DEF Working, Supplied
<1>5. new \in KeptSource
  BY <1>1, <1>4, AThread DEF SourceMade, KeptSource, Configs, RowsInv, SnapshotTypes
<1>6. CASE SourcesAt(p, w) # {}
  <2>1. PICK u : u = [t EXCEPT !.at = "failed"]
    OBVIOUS
  <2>2. u \in ThreadRow /\ Supplied(u) /\ KeepsOwn(u, p) /\ u.at = "failed" /\ u.rows = t.rows
    BY <1>4, <2>1, AtOnly
  <2>3. Moves(e, p, u) /\ sources' = sources
    BY <1>2, <1>6, <2>1 DEF Fails
  <2>4. ThreadsFit' /\ thread'[e][p] = u /\ OnlyMoves(e, p)
    BY <1>3, <2>2, <2>3, MoveFits
  <2> QED
    BY <1>2, <1>3, <1>6, <2>2, <2>3, <2>4
<1>7. CASE SourcesAt(p, w) = {}
  <2>1. PICK u : u = Advanced([t EXCEPT !.source = new])
    OBVIOUS
  <2>2. /\ u \in ThreadRow /\ Supplied(u) /\ KeepsOwn(u, p)
        /\ u.source = new /\ u.rows = t.rows /\ u.at \in {"read", "done"}
    BY <1>4, <1>5, <2>1, WithSource
  <2>3. Moves(e, p, u) /\ sources' = sources \cup {new}
    BY <1>2, <1>7, <2>1
  <2>4. ThreadsFit' /\ thread'[e][p] = u /\ OnlyMoves(e, p)
    BY <1>3, <2>2, <2>3, MoveFits
  <2> QED
    BY <1>1, <1>2, <1>3, <1>5, <1>7, <2>2, <2>3, <2>4
<1> QED
  BY <1>6, <1>7

\* The row it writes for a series.
SeriesMade(e, p) ==
  [stock |-> StockOf(p), window |-> NextJob(e, p).window, group |-> NextJob(e, p).group,
   range |-> Config(e).range, epoch |-> epoch, source |-> thread[e][p].source.epoch,
   seed |-> SeedOf(Config(e), NextJob(e, p).window, NextJob(e, p).group),
   prices |-> thread[e][p].rows.prices]

LEMMA InsertSeriesEffect ==
  ASSUME RowsInv, NEW e \in Executions, NEW p \in DOMAIN outer, InsertSeries(e, p)
  PROVE  /\ ThreadsFit' /\ OnlyMoves(e, p) /\ sources' = sources /\ Apart
         /\ NextJob(e, p).group # 0 /\ thread'[e][p].rows = thread[e][p].rows
         /\ \/ /\ thread'[e][p].at = "failed" /\ series' = series
               /\ SeriesAt(e, p, NextJob(e, p).window, NextJob(e, p).group) # {}
            \/ /\ thread'[e][p].at \in {"read", "done"}
               /\ thread'[e][p].source = thread[e][p].source
               /\ SeriesMade(e, p) \in KeptSeries
               /\ series' = series \cup {SeriesMade(e, p)}
               /\ SeriesAt(e, p, NextJob(e, p).window, NextJob(e, p).group) = {}
<1> DEFINE t == thread[e][p]
<1> DEFINE j == NextJob(e, p)
<1>1. PICK new : new = SeriesMade(e, p)
  OBVIOUS
<1>2. /\ Working(e, p, "insert") /\ j.group # 0
      /\ IF SeriesAt(e, p, j.window, j.group) # {}
         THEN Fails(e, p) /\ UNCHANGED series
         ELSE /\ series' = series \cup {new}
              /\ Moves(e, p, Advanced([t EXCEPT !.kept[j.window][j.group] = new]))
      /\ UNCHANGED <<fixed, world, epoch, sources, taskRow, execution, history>>
  BY <1>1 DEF InsertSeries, SeriesMade
<1>3. outer' = outer /\ sources' = sources /\ Apart
  BY <1>2 DEF fixed, Apart
<1>4. /\ t \in ThreadRow /\ t.rows \in KlineRows /\ t.source \in KeptSource
      /\ Supplied(t) /\ KeepsOwn(t, p)
  BY <1>2, AThread DEF Working, Supplied
<1>5. new \in KeptSeries
  <2>1. SeedOf(Config(e), j.window, j.group) \in [base : Int, range : Ranges, group : Int]
    BY AThread DEF SeedOf, Configs
  <2>2. t.source.epoch \in Nat /\ t.rows.prices \in Nat /\ Config(e).range \in Ranges /\ epoch \in Nat
    BY <1>4, AThread DEF KeptSource, KlineRows, Configs, RowsInv, SnapshotTypes
  <2> QED
    BY <1>1, <2>1, <2>2, AThread DEF SeriesMade, KeptSeries
<1>6. new.stock = StockOf(p) /\ new.window = j.window
  BY <1>1 DEF SeriesMade
<1>7. CASE SeriesAt(e, p, j.window, j.group) # {}
  <2>1. PICK u : u = [t EXCEPT !.at = "failed"]
    OBVIOUS
  <2>2. u \in ThreadRow /\ Supplied(u) /\ KeepsOwn(u, p) /\ u.at = "failed" /\ u.rows = t.rows
    BY <1>4, <2>1, AtOnly
  <2>3. Moves(e, p, u) /\ series' = series
    BY <1>2, <1>7, <2>1 DEF Fails
  <2>4. ThreadsFit' /\ thread'[e][p] = u /\ OnlyMoves(e, p)
    BY <1>3, <2>2, <2>3, MoveFits
  <2> QED
    BY <1>2, <1>3, <1>7, <2>2, <2>3, <2>4
<1>8. CASE SeriesAt(e, p, j.window, j.group) = {}
  <2>1. PICK u : u = Advanced(WithKept(t, j.window, j.group, new))
    OBVIOUS
  <2>2. /\ u \in ThreadRow /\ Supplied(u) /\ KeepsOwn(u, p)
        /\ u.source = t.source /\ u.rows = t.rows /\ u.at \in {"read", "done"}
    <3> HIDE DEF t, j
    <3> QED
      BY <1>4, <1>5, <1>6, <2>1, WithSeries
  <2>3. Moves(e, p, u) /\ series' = series \cup {new}
    BY <1>2, <1>8, <2>1 DEF WithKept
  <2>4. ThreadsFit' /\ thread'[e][p] = u /\ OnlyMoves(e, p)
    BY <1>3, <2>2, <2>3, MoveFits
  <2> QED
    BY <1>1, <1>2, <1>3, <1>5, <1>8, <2>2, <2>3, <2>4
<1> QED
  BY <1>7, <1>8

-----------------------------------------------------------------------------
(***************************************************************************)
(* The rows a combination is executed with stay.                           *)
(***************************************************************************)
OtherTypes ==
  /\ market \in [Stocks -> KlineRows]
  /\ config \in Configs
  /\ taskRow \in [status : {"pending", "running", "error", "completed"}, step : Nat]
  /\ execution \in [Executions -> [phase : {"none", "expand", "execute", "ended"},
                                   told : BOOLEAN, n : Nat, config : Configs]]

\* The tables grow, by rows of new keys.
LEMMA TablesGrow ==
  ASSUME RowsInv, UNCHANGED <<outer, parallel, epoch, used>>, OtherTypes', ThreadsFit',
         sources \subseteq sources', series \subseteq series',
         sources' \subseteq KeptSource, series' \subseteq KeptSeries, OneRowPerKey'
  PROVE  RowsInv'
<1>1. SnapshotTypes'
  BY DEF RowsInv, SnapshotTypes, OtherTypes, ThreadsFit
<1>2. UsedInv'
  <2> SUFFICES ASSUME NEW x \in used
               PROVE  /\ x.series.stock = x.stock /\ x.series.window = x.window
                      /\ x.series.epoch \in Nat /\ x.series.epoch <= epoch
                      /\ x.series.epoch = epoch => StillKept(x)'
    BY DEF UsedInv
  <2>1. /\ x.series.stock = x.stock /\ x.series.window = x.window
        /\ x.series.epoch \in Nat /\ x.series.epoch <= epoch
        /\ x.series.epoch = epoch => StillKept(x)
    BY DEF RowsInv, UsedInv
  <2>2. StillKept(x) => StillKept(x)'
    BY DEF StillKept
  <2> QED
    BY <2>1, <2>2
<1>3. RowsRepeat'
  BY DEF RowsInv, RowsRepeat
<1>4. \A e \in Executions : \A p \in DOMAIN outer' : KeepsOwn(thread[e][p], p)'
  BY DEF ThreadsFit
<1> QED
  BY <1>1, <1>2, <1>3, <1>4 DEF RowsInv

LEMMA TablesStay ==
  ASSUME RowsInv, UNCHANGED <<outer, parallel, epoch, used, sources, series>>, OtherTypes',
         ThreadsFit'
  PROVE  RowsInv'
<1>1. sources' \subseteq KeptSource /\ series' \subseteq KeptSeries /\ OneRowPerKey'
  BY DEF RowsInv, SnapshotTypes, OneRowPerKey
<1> QED
  BY <1>1, TablesGrow

LEMMA ThreadsStay ==
  ASSUME RowsInv, UNCHANGED <<outer, thread>>
  PROVE  ThreadsFit'
BY DEF RowsInv, SnapshotTypes, ThreadsFit, Supplied, KeepsOwn, StockOf

LEMMA ThreadStepKeeps ==
  ASSUME RowsInv, NEW e \in Executions, NEW p \in DOMAIN outer, ThreadStep(e, p)
  PROVE  RowsInv' /\ ThreadsFit' /\ OnlyMoves(e, p) /\ Apart
<1>1. ASSUME Apart PROVE OtherTypes' /\ UNCHANGED <<outer, parallel, epoch, used>>
  BY <1>1 DEF Apart, fixed, world, history, RowsInv, SnapshotTypes, OtherTypes
<1>2. CASE Fetch(e, p) \/ ReadSource(e, p) \/ ReadSeries(e, p)
  <2>1. ThreadsFit' /\ OnlyMoves(e, p) /\ UNCHANGED <<sources, series>> /\ Apart
    BY <1>2, FetchEffect, ReadSourceEffect, ReadSeriesEffect
  <2> QED
    BY <1>1, <2>1, TablesStay
<1>3. CASE InsertSource(e, p)
  <2>1. /\ ThreadsFit' /\ OnlyMoves(e, p) /\ series' = series /\ Apart
        /\ \/ sources' = sources
           \/ /\ SourceMade(e, p) \in KeptSource
              /\ sources' = sources \cup {SourceMade(e, p)}
              /\ SourcesAt(p, NextJob(e, p).window) = {}
    BY <1>3, InsertSourceEffect
  <2>2. CASE sources' = sources
    BY <1>1, <2>1, <2>2, TablesStay
  <2>3. CASE sources' # sources
    <3>1. PICK new \in KeptSource : new = SourceMade(e, p)
      BY <2>1, <2>3
    <3>2. new.stock = StockOf(p) /\ new.window = NextJob(e, p).window /\ new.epoch = epoch
      BY <3>1 DEF SourceMade
    <3>3. \A s \in sources : ~(s.stock = new.stock /\ s.window = new.window)
      BY <2>1, <2>3, <3>2 DEF SourcesAt
    <3>4. sources' = sources \cup {new} /\ epoch' = epoch
      BY <1>1, <2>1, <2>3, <3>1
    <3>5. OneRowPerKey'
      BY <2>1, <3>2, <3>3, <3>4 DEF RowsInv, OneRowPerKey
    <3>6. sources' \subseteq KeptSource /\ series' \subseteq KeptSeries
      BY <2>1, <3>1, <3>4 DEF RowsInv, SnapshotTypes
    <3> QED
      BY <1>1, <2>1, <3>4, <3>5, <3>6, TablesGrow
  <2> QED
    BY <2>2, <2>3
<1>4. CASE InsertSeries(e, p)
  <2>1. /\ ThreadsFit' /\ OnlyMoves(e, p) /\ sources' = sources /\ Apart
        /\ \/ series' = series
           \/ /\ SeriesMade(e, p) \in KeptSeries
              /\ series' = series \cup {SeriesMade(e, p)}
              /\ SeriesAt(e, p, NextJob(e, p).window, NextJob(e, p).group) = {}
    BY <1>4, InsertSeriesEffect
  <2>2. CASE series' = series
    BY <1>1, <2>1, <2>2, TablesStay
  <2>3. CASE series' # series
    <3>1. PICK new \in KeptSeries : new = SeriesMade(e, p)
      BY <2>1, <2>3
    <3>2. /\ new.stock = StockOf(p) /\ new.window = NextJob(e, p).window /\ new.epoch = epoch
          /\ new.group = NextJob(e, p).group /\ new.range = Config(e).range
      BY <3>1 DEF SeriesMade
    <3>3. \A s \in series : ~(/\ s.stock = new.stock /\ s.window = new.window
                              /\ s.group = new.group /\ s.range = new.range)
      BY <2>1, <2>3, <3>2 DEF SeriesAt
    <3>4. series' = series \cup {new} /\ epoch' = epoch
      BY <1>1, <2>1, <2>3, <3>1
    <3>5. OneRowPerKey'
      BY <2>1, <3>2, <3>3, <3>4 DEF RowsInv, OneRowPerKey
    <3>6. sources' \subseteq KeptSource /\ series' \subseteq KeptSeries
      BY <2>1, <3>1, <3>4 DEF RowsInv, SnapshotTypes
    <3> QED
      BY <1>1, <2>1, <3>4, <3>5, <3>6, TablesGrow
  <2> QED
    BY <2>2, <2>3
<1> QED
  BY <1>2, <1>3, <1>4 DEF ThreadStep

LEMMA BeginKeeps == ASSUME RowsInv, NEW e \in Executions, BeginExecution(e) PROVE RowsInv'
<1>1. /\ taskRow' = [taskRow EXCEPT !.status = "running"]
      /\ execution' = [execution EXCEPT ![e].phase = "expand", ![e].config = config]
      /\ UNCHANGED <<fixed, world, tables, thread, used>>
  BY DEF BeginExecution
<1>2. OtherTypes'
  BY <1>1, ZenonT(40) DEF OtherTypes, RowsInv, SnapshotTypes, world
<1> QED
  BY <1>1, <1>2, ThreadsStay, TablesStay DEF fixed, tables

LEMMA EndsKeeps ==
  ASSUME RowsInv, NEW e \in Executions, Ends(e),
         UNCHANGED <<fixed, world, tables, history>>,
         taskRow' \in [status : {"pending", "running", "error", "completed"}, step : Nat]
  PROVE  RowsInv'
<1>1. /\ execution' = [execution EXCEPT ![e] = [execution[e] EXCEPT !.phase = "ended", !.n = 0]]
      /\ thread' = [thread EXCEPT ![e] = NoThreads]
      /\ UNCHANGED <<outer, parallel, market, config, epoch, sources, series, used>>
  BY DEF Ends, fixed, world, tables, history
<1>2. OtherTypes'
  BY <1>1 DEF OtherTypes, RowsInv, SnapshotTypes
<1>3. ThreadsFit'
  <2>1. /\ NoThreads \in [DOMAIN outer -> ThreadRow]
        /\ \A p \in DOMAIN outer : Supplied(NoThreads[p]) /\ KeepsOwn(NoThreads[p], p)
    BY Unstarted DEF RowsInv, SnapshotTypes
  <2>2. thread' \in [Executions -> [DOMAIN outer -> ThreadRow]]
    BY <1>1, <2>1 DEF RowsInv, SnapshotTypes
  <2>3. \A d \in Executions : \A p \in DOMAIN outer :
          Supplied(thread'[d][p]) /\ KeepsOwn(thread'[d][p], p)
    <3> SUFFICES ASSUME NEW d \in Executions, NEW p \in DOMAIN outer
                 PROVE  Supplied(thread'[d][p]) /\ KeepsOwn(thread'[d][p], p)
      OBVIOUS
    <3>1. thread'[d] = IF d = e THEN NoThreads ELSE thread[d]
      BY <1>1 DEF RowsInv, SnapshotTypes
    <3>2. Supplied(thread[d][p]) /\ KeepsOwn(thread[d][p], p)
      BY DEF RowsInv, SnapshotTypes
    <3> QED
      BY <2>1, <3>1, <3>2
  <2> QED
    BY <1>1, <2>2, <2>3 DEF ThreadsFit, Supplied, KeepsOwn, StockOf
<1> QED
  BY <1>1, <1>2, <1>3, TablesStay

LEMMA EndsAsTypes ==
  ASSUME RowsInv, NEW e, NEW a \in {"error", "completed"}, EndsAs(e, a)
  PROVE  taskRow' \in [status : {"pending", "running", "error", "completed"}, step : Nat]
BY DEF EndsAs, RowsInv, SnapshotTypes

LEMMA CombinationKeeps ==
  ASSUME RowsInv, NEW e \in Executions, ExecuteCombination(e)
  PROVE  RowsInv'
<1>1. PICK n \in Nat : n = execution[e].n
  BY DEF RowsInv, SnapshotTypes
<1>2. PICK c : c = Combination(n + 1)
  OBVIOUS
<1>3. PICK s : s = thread[e][c.p].kept[c.w][c.g]
  OBVIOUS
<1>4. /\ n < PlanLength
      /\ IF Materializes(c, s)
         THEN /\ used' = used \cup {[stock |-> StockOf(c.p), window |-> c.w, series |-> s,
                                     rows |-> RowsUsed(c, s)]}
              /\ execution' = [execution EXCEPT ![e].n = n + 1]
              /\ taskRow' = [taskRow EXCEPT !.step = n + 1]
              /\ UNCHANGED thread
         ELSE Ends(e) /\ EndsAs(e, "error") /\ UNCHANGED used
      /\ UNCHANGED <<fixed, world, tables, excuse>>
  BY <1>1, <1>2, <1>3 DEF ExecuteCombination
<1>5. CASE ~Materializes(c, s)
  BY <1>4, <1>5, EndsAsTypes, EndsKeeps DEF history
<1>6. CASE Materializes(c, s)
  <2>1. c.p \in DOMAIN outer /\ c.w \in Window /\ c.g \in Group
    <3>1. Len(outer) \in Nat \ {0} /\ DOMAIN outer = 1..Len(outer)
      BY SnapshotAssumption DEF RowsInv, SnapshotTypes
    <3> QED
      BY <1>2, <1>4, <3>1, CombinationBounds
  <2>2. /\ s \in series
        /\ \E o \in SourcesAt(c.p, c.w) : o.epoch = s.source
    BY <1>6 DEF Materializes
  <2>3. s \in KeptSeries /\ s.epoch = epoch /\ epoch \in Nat /\ s # Unset
    BY <2>2, UnsetAssumption DEF RowsInv, SnapshotTypes, OneRowPerKey
  <2>4. s.stock = StockOf(c.p) /\ s.window = c.w
    <3>1. KeepsOwn(thread[e][c.p], c.p)
      BY <2>1 DEF RowsInv
    <3>2. PICK kept : kept = thread[e][c.p].kept /\ s = kept[c.w][c.g]
      BY <1>3
    <3>3. kept[c.w][c.g] # Unset
      BY <2>3, <3>2
    <3> QED
      BY <2>1, <3>1, <3>2, <3>3 DEF KeepsOwn
  <2>5. PICK o \in SourcesAt(c.p, c.w) : o = CHOOSE x \in SourcesAt(c.p, c.w) : TRUE
    BY <2>2
  <2>6. o \in sources /\ o.stock = StockOf(c.p) /\ o.window = c.w
    BY DEF SourcesAt
  <2>7. PICK new : new = [stock |-> StockOf(c.p), window |-> c.w, series |-> s,
                          rows |-> [source |-> o.rows, prices |-> s.prices, seed |-> s.seed]]
    OBVIOUS
  <2>8. used' = used \cup {new}
    BY <1>4, <1>6, <2>5, <2>7 DEF RowsUsed
  <2>9. UNCHANGED <<outer, parallel, market, config, epoch, sources, series, thread>>
    BY <1>4, <1>6 DEF fixed, world, tables
  <2>10. OtherTypes'
    <3>1. n + 1 \in Nat
      OBVIOUS
    <3>2. /\ execution' = [execution EXCEPT ![e].n = n + 1]
          /\ taskRow' = [taskRow EXCEPT !.step = n + 1]
      BY <1>4, <1>6
    <3> QED
      BY <3>1, <3>2, <2>9 DEF OtherTypes, RowsInv, SnapshotTypes
  <2>11. /\ new.stock = s.stock /\ new.window = s.window /\ new.series = s
         /\ new.rows = [source |-> o.rows, prices |-> s.prices, seed |-> s.seed]
    BY <2>4, <2>7
  <2>12. StillKept(new)
    BY <2>2, <2>4, <2>6, <2>11 DEF StillKept
  <2>13. UsedInv'
    <3> SUFFICES ASSUME NEW x \in used'
                 PROVE  /\ x.series.stock = x.stock /\ x.series.window = x.window
                        /\ x.series.epoch \in Nat /\ x.series.epoch <= epoch
                        /\ x.series.epoch = epoch => StillKept(x)
      BY <2>9 DEF UsedInv, StillKept
    <3>1. CASE x = new
      BY <2>3, <2>11, <2>12, <3>1
    <3>2. CASE x \in used
      BY <3>2 DEF RowsInv, UsedInv
    <3> QED
      BY <2>8, <3>1, <3>2
\* A row that was used before is the row that is kept.
  <2>14. ASSUME NEW x \in used, x.stock = new.stock, x.window = new.window,
                x.series.epoch = new.series.epoch,
                x.series.group = new.series.group, x.series.range = new.series.range
         PROVE  x.rows = new.rows
    <3>1. StillKept(x) /\ x.series.stock = x.stock /\ x.series.window = x.window
      BY <2>3, <2>11, <2>14 DEF RowsInv, UsedInv
    <3>2. x.series = s
      BY <2>2, <2>11, <2>14, <3>1 DEF StillKept, RowsInv, OneRowPerKey
    <3>3. PICK q \in sources :
            /\ q.stock = x.stock /\ q.window = x.window
            /\ x.rows = [source |-> q.rows, prices |-> x.series.prices, seed |-> x.series.seed]
      BY <3>1 DEF StillKept
    <3>4. q = o
      BY <2>4, <2>6, <2>11, <2>14, <3>3 DEF RowsInv, OneRowPerKey
    <3> QED
      BY <2>11, <3>2, <3>3, <3>4
  <2>15. RowsRepeat'
    <3> SUFFICES ASSUME NEW x \in used', NEW y \in used',
                        x.stock = y.stock, x.window = y.window,
                        x.series.epoch = y.series.epoch,
                        x.series.group = y.series.group, x.series.range = y.series.range
                 PROVE  x.rows = y.rows
      BY DEF RowsRepeat
    <3>1. CASE x \in used /\ y \in used
      BY <3>1 DEF RowsInv, RowsRepeat
    <3>2. CASE x \in used /\ y = new
      BY <2>14, <3>2
    <3>3. CASE x = new /\ y \in used
      BY <2>14, <3>3
    <3> QED
      BY <2>8, <3>1, <3>2, <3>3
  <2>16. ThreadsFit'
    BY <2>9, ThreadsStay
  <2>17. SnapshotTypes' /\ OneRowPerKey'
    BY <2>9, <2>10, <2>16 DEF RowsInv, SnapshotTypes, OneRowPerKey, OtherTypes, ThreadsFit
  <2> QED
    BY <2>13, <2>15, <2>16, <2>17 DEF RowsInv, ThreadsFit
<1> QED
  BY <1>5, <1>6

LEMMA ScratchKeeps == ASSUME RowsInv, RestartFromScratch PROVE RowsInv'
<1>1. /\ epoch' = epoch + 1 /\ sources' = {} /\ series' = {}
      /\ taskRow' = [status |-> "pending", step |-> 0]
      /\ execution' = [e \in Executions |->
                     IF Active(e) THEN [execution[e] EXCEPT !.told = TRUE] ELSE execution[e]]
      /\ UNCHANGED <<fixed, world, thread, used>>
  BY DEF RestartFromScratch
<1>2. OtherTypes'
  BY <1>1 DEF OtherTypes, RowsInv, SnapshotTypes, world
<1>3. ThreadsFit'
  BY <1>1, ThreadsStay DEF fixed
<1>4. SnapshotTypes' /\ OneRowPerKey'
  BY <1>1, <1>2, <1>3 DEF RowsInv, SnapshotTypes, OneRowPerKey, OtherTypes, ThreadsFit, fixed
<1>5. UsedInv'
  <2> SUFFICES ASSUME NEW x \in used
               PROVE  /\ x.series.stock = x.stock /\ x.series.window = x.window
                      /\ x.series.epoch \in Nat /\ x.series.epoch <= epoch + 1
                      /\ x.series.epoch # epoch + 1
    BY <1>1 DEF UsedInv
  <2>1. /\ x.series.stock = x.stock /\ x.series.window = x.window
        /\ x.series.epoch \in Nat /\ x.series.epoch <= epoch /\ epoch \in Nat
    BY DEF RowsInv, UsedInv, SnapshotTypes
  <2> QED
    BY <2>1
<1>6. RowsRepeat'
  BY <1>1 DEF RowsInv, RowsRepeat
<1> QED
  BY <1>3, <1>4, <1>5, <1>6 DEF RowsInv, ThreadsFit

LEMMA CrashKeeps == ASSUME RowsInv, CrashExecution PROVE RowsInv'
<1>1. /\ execution' = [e \in Executions |->
                     IF Active(e) THEN [execution[e] EXCEPT !.phase = "ended", !.n = 0]
                                  ELSE execution[e]]
      /\ thread' = [e \in Executions |-> NoThreads]
      /\ taskRow' = [taskRow EXCEPT !.status = IF taskRow.status = "running" THEN "pending"
                                               ELSE taskRow.status]
      /\ UNCHANGED <<outer, parallel, market, config, epoch, sources, series, used>>
  BY DEF CrashExecution, fixed, world, tables, history
<1>2. OtherTypes'
  BY <1>1 DEF OtherTypes, RowsInv, SnapshotTypes
<1>3. ThreadsFit'
  <2>1. /\ NoThreads \in [DOMAIN outer -> ThreadRow]
        /\ \A p \in DOMAIN outer : Supplied(NoThreads[p]) /\ KeepsOwn(NoThreads[p], p)
    BY Unstarted DEF RowsInv, SnapshotTypes
  <2>2. thread' \in [Executions -> [DOMAIN outer -> ThreadRow]]
    BY <1>1, <2>1
  <2>3. \A d \in Executions : \A p \in DOMAIN outer :
          Supplied(thread'[d][p]) /\ KeepsOwn(thread'[d][p], p)
    BY <1>1, <2>1
  <2>4. outer' = outer
    BY <1>1
  <2> QED
    BY <2>2, <2>3, <2>4 DEF ThreadsFit, Supplied, KeepsOwn, StockOf
<1> QED
  BY <1>1, <1>2, <1>3, TablesStay

LEMMA WorldKeeps ==
  ASSUME RowsInv, \/ \E s \in Stocks : Reprice(s) \/ OtherHistory(s)
                  \/ ResumeTask
                  \/ \E c \in Configs : EditConfig(c)
  PROVE  RowsInv'
<1>1. UNCHANGED <<outer, parallel, epoch, used, sources, series, thread>>
  BY DEF Reprice, OtherHistory, ResumeTask, EditConfig, fixed, tables, running, history
<1>2. OtherTypes'
  <2>1. ASSUME NEW s \in Stocks, Reprice(s) PROVE OtherTypes'
    BY <2>1 DEF Reprice, OtherTypes, RowsInv, SnapshotTypes, KlineRows, running
  <2>2. ASSUME NEW s \in Stocks, OtherHistory(s) PROVE OtherTypes'
    BY <2>2 DEF OtherHistory, OtherTypes, RowsInv, SnapshotTypes, KlineRows, running
  <2>3. CASE ResumeTask
    BY <2>3 DEF ResumeTask, OtherTypes, RowsInv, SnapshotTypes, world
  <2>4. ASSUME NEW c \in Configs, EditConfig(c) PROVE OtherTypes'
    BY <2>4 DEF EditConfig, OtherTypes, RowsInv, SnapshotTypes, running
  <2> QED
    BY <2>1, <2>2, <2>3, <2>4
<1> QED
  BY <1>1, <1>2, ThreadsStay, TablesStay

LEMMA RowsInitial == SnapshotInit => RowsInv
<1> SUFFICES ASSUME SnapshotInit PROVE RowsInv
  OBVIOUS
<1>1. /\ outer \in Outers /\ parallel \in BOOLEAN /\ config \in Configs
      /\ market = [s \in Stocks |-> [prices |-> 0, history |-> 0]]
      /\ epoch = 0 /\ sources = {} /\ series = {} /\ used = {}
      /\ taskRow = [status |-> "pending", step |-> 0]
      /\ execution = [e \in Executions |-> [phase |-> "none", told |-> FALSE, n |-> 0,
                                            config |-> config]]
      /\ thread = [e \in Executions |-> NoThreads]
  BY DEF SnapshotInit, Configs, Ranges
<1>2. /\ NoThreads \in [DOMAIN outer -> ThreadRow]
      /\ \A p \in DOMAIN outer : Supplied(NoThreads[p]) /\ KeepsOwn(NoThreads[p], p)
  BY <1>1, Unstarted
<1>3. SnapshotTypes
  BY <1>1, <1>2 DEF SnapshotTypes, KlineRows
<1>4. OneRowPerKey /\ UsedInv /\ RowsRepeat
  BY <1>1 DEF OneRowPerKey, UsedInv, RowsRepeat
<1> QED
  BY <1>1, <1>2, <1>3, <1>4 DEF RowsInv

LEMMA RowsStep == ASSUME RowsInv, [SnapshotNext]_snapshotVars PROVE RowsInv'
<1>1. ASSUME NEW e \in Executions, ExecutionStep(e) PROVE RowsInv'
  <2>1. ASSUME NEW p \in DOMAIN outer, ThreadStep(e, p) PROVE RowsInv'
    BY <2>1, ThreadStepKeeps
  <2>2. CASE Expanded(e)
    <3>1. /\ execution' = [execution EXCEPT ![e].phase = "execute", ![e].n = taskRow.step]
          /\ UNCHANGED <<fixed, world, tables, taskRow, thread, history>>
      BY <2>2 DEF Expanded
    <3>2. taskRow.step \in Nat
      BY DEF RowsInv, SnapshotTypes
    <3>3. OtherTypes'
      BY <3>1, <3>2, ZenonT(40) DEF OtherTypes, RowsInv, SnapshotTypes, world
    <3> QED
      BY <3>1, <3>3, ThreadsStay, TablesStay DEF fixed, tables, history
  <2>3. CASE ExpansionFails(e)
    BY <2>3, EndsAsTypes, EndsKeeps DEF ExpansionFails
  <2>4. CASE ExecuteCombination(e)
    BY <2>4, CombinationKeeps
  <2>5. CASE ExecutionEnds(e)
    BY <2>5, EndsAsTypes, EndsKeeps DEF ExecutionEnds
  <2> QED
    BY <1>1, <2>1, <2>2, <2>3, <2>4, <2>5 DEF ExecutionStep
<1>2. CASE UNCHANGED snapshotVars
  <2>1. OtherTypes' /\ UNCHANGED <<outer, parallel, epoch, used, sources, series, thread>>
    BY <1>2 DEF snapshotVars, fixed, world, tables, running, history, OtherTypes, RowsInv,
                SnapshotTypes
  <2> QED
    BY <2>1, ThreadsStay, TablesStay
<1> QED
  BY <1>1, <1>2, BeginKeeps, WorldKeeps, CrashKeeps, ScratchKeeps DEF SnapshotNext

\* A combination is executed with the same rows in every execution: for every number
\* of stocks, windows, groups and executions, whatever is corrected or crashes.
THEOREM KeptRowsRepeat == SnapshotSpec => []RowsRepeat
<1>1. SnapshotInit => RowsInv
  BY RowsInitial
<1>2. RowsInv /\ [SnapshotNext]_snapshotVars => RowsInv'
  BY RowsStep
<1>3. RowsInv => RowsRepeat
  BY DEF RowsInv
<1> QED
  BY <1>1, <1>2, <1>3, PTL DEF SnapshotSpec

(***************************************************************************)
(* What is kept and counted stays within the plan.                         *)
(***************************************************************************)
LEMMA PlanSize == ASSUME outer \in Outers PROVE PlanLength \in Nat
<1>1. Len(outer) \in Nat \ {0} /\ Cardinality(Window) \in Nat \ {0} /\ Cardinality(Group) \in Nat \ {0}
  BY SnapshotAssumption, Sizes
<1> QED
  BY <1>1, ProductPositive DEF PlanLength

LEMMA JobsOfPlan ==
  ASSUME NEW k \in 1..Len(Jobs)
  PROVE  Jobs[k].window \in Window /\ (Jobs[k].group # 0 => Jobs[k].group \in Group)
<1>1. PICK W \in Nat \ {0} : W = Cardinality(Window) /\ Window = 1..W
  BY Sizes
<1>2. PICK G \in Nat \ {0} : G = Cardinality(Group) /\ Group = 1..G
  BY Sizes
<1>3. PICK d \in Nat \ {0} : d = G + 1
  OBVIOUS
<1>4. PICK m \in Nat \ {0} : m = W * d
  BY ProductPositive
<1>5. Jobs = [n \in 1..m |-> [window |-> 1 + (n - 1) \div d, group |-> (n - 1) % d]]
  BY <1>1, <1>2, <1>3, <1>4 DEF Jobs
<1>6. k \in 1..m
  BY <1>5
<1>7. PICK n \in Nat : n = k - 1 /\ n < W * d
  BY <1>4, <1>6
<1>8. Jobs[k].window = 1 + n \div d /\ Jobs[k].group = n % d
  BY <1>5, <1>6, <1>7
<1>9. 1 + n \div d \in 1..W
  <2>1. PICK q \in 0..(W - 1) : q = n \div d
    BY <1>7, QuotientBelow
  <2> QED
    BY <2>1
<1>10. n % d \in 0..G
  <2>1. n % d \in 0..(d - 1)
    OBVIOUS
  <2> QED
    BY <1>3, <2>1
<1>11. PICK g \in 0..G : g = Jobs[k].group
  BY <1>8, <1>10
<1>12. g # 0 => g \in 1..G
  OBVIOUS
<1> QED
  BY <1>1, <1>2, <1>8, <1>9, <1>11, <1>12

\* What is stored is of a window of the run, and no execution goes beyond the plan.
WithinPlan ==
  /\ epoch <= MaxClears
  /\ \A s \in sources : s.window \in Window
  /\ \A s \in series : s.window \in Window /\ s.group \in Group
  /\ taskRow.step <= PlanLength

LEMMA WithinInitial == SnapshotInit => WithinPlan
<1> SUFFICES ASSUME SnapshotInit PROVE WithinPlan
  OBVIOUS
<1>1. epoch = 0 /\ sources = {} /\ series = {} /\ taskRow.step = 0 /\ outer \in Outers
  BY DEF SnapshotInit
<1>2. PlanLength \in Nat /\ MaxClears \in Nat
  BY <1>1, PlanSize, SnapshotAssumption
<1> QED
  BY <1>1, <1>2 DEF WithinPlan

LEMMA WithinStep == ASSUME RowsInv, WithinPlan, [SnapshotNext]_snapshotVars PROVE WithinPlan'
<1> DEFINE Same == UNCHANGED <<epoch, sources, series>> /\ outer' = outer
<1>1. PlanLength \in Nat /\ PlanLength' = IF outer' = outer THEN PlanLength ELSE PlanLength'
  BY PlanSize DEF RowsInv, SnapshotTypes, PlanLength
<1>2. ASSUME Same, taskRow'.step = taskRow.step PROVE WithinPlan'
  BY <1>2 DEF WithinPlan, PlanLength
<1>3. ASSUME NEW e \in Executions, NEW p \in DOMAIN outer, ThreadStep(e, p) PROVE WithinPlan'
  <2>1. epoch' = epoch /\ taskRow' = taskRow /\ outer' = outer
    BY <1>3 DEF ThreadStep, Fetch, ReadSource, ReadSeries, InsertSource, InsertSeries, tables, fixed
  <2>2. NextJob(e, p).window \in Window
        /\ (NextJob(e, p).group # 0 => NextJob(e, p).group \in Group)
    <3>1. thread[e][p].k \in 1..Len(Jobs)
      BY DEF RowsInv, SnapshotTypes, ThreadRow
    <3> QED
      BY <3>1, JobsOfPlan DEF NextJob
  <2>3. \A s \in sources' : s.window \in Window
    <3>1. CASE sources' = sources
      BY <3>1 DEF WithinPlan
    <3>2. CASE \E new : sources' = sources \cup {new} /\ new.window = NextJob(e, p).window
      BY <2>2, <3>2 DEF WithinPlan
    <3>3. ASSUME InsertSource(e, p), sources' # sources
          PROVE  \E new : sources' = sources \cup {new} /\ new.window = NextJob(e, p).window
      BY <3>3 DEF InsertSource
    <3> QED
      BY <1>3, <3>1, <3>2, <3>3 DEF ThreadStep, Fetch, ReadSource, ReadSeries, InsertSeries, tables
  <2>4. \A s \in series' : s.window \in Window /\ s.group \in Group
    <3>1. CASE series' = series
      BY <3>1 DEF WithinPlan
    <3>2. CASE \E new : /\ series' = series \cup {new} /\ NextJob(e, p).group # 0
                        /\ new.window = NextJob(e, p).window /\ new.group = NextJob(e, p).group
      BY <2>2, <3>2 DEF WithinPlan
    <3>3. ASSUME InsertSeries(e, p), series' # series
          PROVE  \E new : /\ series' = series \cup {new} /\ NextJob(e, p).group # 0
                          /\ new.window = NextJob(e, p).window /\ new.group = NextJob(e, p).group
      BY <3>3 DEF InsertSeries
    <3> QED
      BY <1>3, <3>1, <3>2, <3>3 DEF ThreadStep, Fetch, ReadSource, ReadSeries, InsertSource, tables
  <2> QED
    BY <2>1, <2>3, <2>4 DEF WithinPlan, PlanLength
<1>4. ASSUME NEW e \in Executions, ExecuteCombination(e) PROVE WithinPlan'
  <2>1. Same /\ execution[e].n < PlanLength /\ execution[e].n \in Nat
    BY <1>4 DEF ExecuteCombination, tables, fixed, RowsInv, SnapshotTypes
  <2>2. taskRow'.step = taskRow.step \/ taskRow'.step = execution[e].n + 1
    <3>1. taskRow \in [status : {"pending", "running", "error", "completed"}, step : Nat]
      BY DEF RowsInv, SnapshotTypes
    <3>2. \/ taskRow' = [taskRow EXCEPT !.step = execution[e].n + 1]
          \/ EndsAs(e, "error")
      BY <1>4, Zenon DEF ExecuteCombination
    <3> QED
      BY <3>1, <3>2 DEF EndsAs
  <2>3. execution[e].n + 1 <= PlanLength
    BY <1>1, <2>1
  <2> QED
    BY <1>2, <2>1, <2>2, <2>3 DEF WithinPlan, PlanLength
<1>5. CASE RestartFromScratch
  <2>1. /\ epoch < MaxClears /\ epoch' = epoch + 1 /\ sources' = {} /\ series' = {}
        /\ taskRow'.step = 0 /\ outer' = outer
    BY <1>5 DEF RestartFromScratch, fixed
  <2>2. epoch \in Nat /\ MaxClears \in Nat
    BY SnapshotAssumption DEF RowsInv, SnapshotTypes
  <2>3. PlanLength' = PlanLength
    BY <2>1 DEF PlanLength
  <2> QED
    BY <1>1, <2>1, <2>2, <2>3 DEF WithinPlan
<1>6. ASSUME NEW e \in Executions, Expanded(e) \/ ExpansionFails(e) \/ ExecutionEnds(e) \/ BeginExecution(e)
      PROVE  WithinPlan'
  <2>1. Same
    BY <1>6 DEF Expanded, ExpansionFails, ExecutionEnds, BeginExecution, tables, fixed
  <2>2. taskRow'.step = taskRow.step
    <3>1. taskRow \in [status : {"pending", "running", "error", "completed"}, step : Nat]
      BY DEF RowsInv, SnapshotTypes
    <3> QED
      BY <1>6, <3>1 DEF Expanded, ExpansionFails, ExecutionEnds, BeginExecution, EndsAs
  <2> QED
    BY <1>2, <2>1, <2>2
<1>7. CASE \/ \E s \in Stocks : Reprice(s) \/ OtherHistory(s)
           \/ CrashExecution \/ ResumeTask
           \/ \E c \in Configs : EditConfig(c)
           \/ UNCHANGED snapshotVars
  <2>1. Same
    BY <1>7 DEF Reprice, OtherHistory, CrashExecution, ResumeTask, EditConfig, snapshotVars, tables, fixed
  <2>2. taskRow'.step = taskRow.step
    <3>1. taskRow \in [status : {"pending", "running", "error", "completed"}, step : Nat]
      BY DEF RowsInv, SnapshotTypes
    <3> QED
      BY <1>7, <3>1 DEF Reprice, OtherHistory, CrashExecution, ResumeTask, EditConfig, snapshotVars, running
  <2> QED
    BY <1>2, <2>1, <2>2
<1> QED
  BY <1>3, <1>4, <1>5, <1>6, <1>7 DEF SnapshotNext, ExecutionStep

\* Rows are kept for windows and groups of the plan and under the epoch of the task,
\* and a step that is saved is one of the plan, for every number of stocks, windows
\* and groups: no resumption, crash or restart from scratch writes any other.
THEOREM SnapshotTypesCorrect == SnapshotSpec => []SnapshotTypeOK
<1>1. RowsInv /\ WithinPlan /\ [SnapshotNext]_snapshotVars => WithinPlan'
  BY WithinStep
<1>2. RowsInv /\ [SnapshotNext]_snapshotVars => RowsInv'
  BY RowsStep
<1>3. RowsInv /\ WithinPlan => SnapshotTypeOK
  <2> SUFFICES ASSUME RowsInv, WithinPlan PROVE SnapshotTypeOK
    OBVIOUS
  <2>1. SnapshotTypes /\ \A s \in sources : s.epoch = epoch
    BY DEF RowsInv, OneRowPerKey
  <2>2. epoch \in 0..MaxClears /\ taskRow.step \in 0..PlanLength
    BY <2>1, PlanSize, SnapshotAssumption DEF SnapshotTypes, WithinPlan
  <2> QED
    BY <2>1, <2>2 DEF SnapshotTypes, SnapshotTypeOK, WithinPlan, PlanLength
<1> QED
  BY <1>1, <1>2, <1>3, WithinInitial, RowsInitial, PTL DEF SnapshotSpec

-----------------------------------------------------------------------------
(***************************************************************************)
(* An expansion fails for a reason.                                        *)
(***************************************************************************)
NoTwin(p) == ~parallel \/ \A q \in DOMAIN outer \ {p} : outer[q] # outer[p]

\* The rows of a thread, its source and its fate.
Sound(t, p) ==
  /\ t.at # "fetch" => t.rows.history = market[StockOf(p)].history
  /\ t.at # "failed" /\ t.k # 1 => t.source.epoch = epoch
  /\ NoTwin(p) => t.at # "failed"

\* Nobody else inserts what a thread has not found.
Vacant(t, p) ==
  t.at = "insert" /\ NoTwin(p) =>
    IF Jobs[t.k].group = 0
    THEN \A s \in sources : ~(s.stock = StockOf(p) /\ s.window = Jobs[t.k].window)
    ELSE \A s \in series : ~(/\ s.stock = StockOf(p) /\ s.window = Jobs[t.k].window
                             /\ s.group = Jobs[t.k].group /\ s.range = config.range)

\* A serial expansion takes the stocks one by one.
InTurn(e, p) ==
  ~parallel /\ thread[e][p].at # "fetch" => \A q \in 1..(p - 1) : thread[e][q].at = "done"

TablesAgree ==
  /\ \A s \in sources : s.adjust = config.adjust /\ s.rows.history = market[s.stock].history
  /\ \A s \in series : s.source = epoch /\ s.seed = SeedOf(config, s.window, s.group)

ThreadsAgree ==
  \A e \in Executions : Active(e) =>
    \A p \in DOMAIN outer :
      Sound(thread[e][p], p) /\ Vacant(thread[e][p], p) /\ InTurn(e, p)

Unexcused ==
  /\ \A d, e \in Executions : Active(d) /\ Active(e) => d = e
  /\ \A e \in Executions : Active(e) => Config(e) = config
  /\ TablesAgree
  /\ ThreadsAgree

FailureInv ==
  /\ RowsInv
  /\ \A e \in Executions : ~Active(e) => thread[e] = NoThreads
  /\ excuse = {} => Unexcused

LEMMA FailureInvExplains == FailureInv => FailureExplained
<1> SUFFICES ASSUME FailureInv, NEW e \in Executions, NEW p \in DOMAIN outer,
                    thread[e][p].at = "failed", excuse = {}
             PROVE  parallel /\ \E q \in DOMAIN outer \ {p} : outer[q] = outer[p]
  BY DEF FailureExplained
<1>1. Active(e)
  BY DEF FailureInv, NoThreads, NewThread
<1>2. ~NoTwin(p)
  BY <1>1 DEF FailureInv, Unexcused, ThreadsAgree, Sound
<1> QED
  BY <1>2 DEF NoTwin

\* A fresh expansion.
LEMMA FreshSound ==
  ASSUME NEW p \in DOMAIN outer
  PROVE  Sound(NoThreads[p], p) /\ Vacant(NoThreads[p], p)
BY DEF NoThreads, NewThread, Sound, Vacant

LEMMA SeparateStocks ==
  ASSUME NEW e \in Executions, NEW p \in DOMAIN outer, NEW q \in DOMAIN outer, p # q,
         outer \in Outers, NoTwin(q), Alone(e, p),
         thread[e][p].at \in {"fetch", "read", "insert"},
         thread[e][q].at = "insert", InTurn(e, q)
  PROVE  StockOf(p) # StockOf(q)
<1>1. DOMAIN outer = 1..Len(outer) /\ Len(outer) \in Nat
  BY SnapshotAssumption
<1>2. CASE parallel
  BY <1>2 DEF NoTwin, StockOf
<1>3. CASE ~parallel
  <2>1. q \in 1..(p - 1) \/ p \in 1..(q - 1)
    BY <1>1
  <2>2. CASE q \in 1..(p - 1)
    BY <1>3, <2>2 DEF Alone
  <2>3. CASE p \in 1..(q - 1)
    BY <1>3, <2>3 DEF InTurn
  <2> QED
    BY <2>1, <2>2, <2>3
<1> QED
  BY <1>2, <1>3

\* What a step of a thread does to the tables and to itself.
Grown(p) ==
  /\ sources' = sources \/ \E s \in KeptSource : sources' = sources \cup {s} /\ s.stock = StockOf(p)
  /\ series' = series \/ \E s \in KeptSeries : series' = series \cup {s} /\ s.stock = StockOf(p)

LEMMA ThreadsAgreeNext ==
  ASSUME FailureInv, excuse = {}, NEW e \in Executions, NEW p \in DOMAIN outer, Active(e),
         Alone(e, p), thread[e][p].at \in {"fetch", "read", "insert"},
         OnlyMoves(e, p), Apart, Grown(p),
         NEW u, thread'[e][p] = u, Sound(u, p), Vacant(u, p)'
  PROVE  ThreadsAgree'
<1>1. UNCHANGED <<outer, parallel, market, config, epoch, execution>>
  BY DEF Apart, fixed, world
<1>2. ASSUME NEW d \in Executions PROVE Active(d)' => d = e
  BY <1>1 DEF FailureInv, Unexcused, Active
<1>3. ASSUME NEW q \in DOMAIN outer
      PROVE  Sound(thread[e][q], q) /\ Vacant(thread[e][q], q) /\ InTurn(e, q)
  BY DEF FailureInv, Unexcused, ThreadsAgree
<1>4. ASSUME NEW q \in DOMAIN outer, q # p
      PROVE  thread'[e][q] = thread[e][q]
  BY <1>4 DEF OnlyMoves
<1>5. \A t, q : Sound(t, q)' <=> Sound(t, q)
  BY <1>1 DEF Sound, StockOf, NoTwin
<1>6. ASSUME NEW q \in DOMAIN outer
      PROVE  Sound(thread'[e][q], q)
  BY <1>3, <1>4
<1>7. ASSUME NEW q \in DOMAIN outer, q # p
      PROVE  Vacant(thread[e][q], q)'
  <2> SUFFICES ASSUME thread[e][q].at = "insert", NoTwin(q)
               PROVE  IF Jobs[thread[e][q].k].group = 0
                      THEN \A s \in sources' :
                             ~(s.stock = StockOf(q) /\ s.window = Jobs[thread[e][q].k].window)
                      ELSE \A s \in series' :
                             ~(/\ s.stock = StockOf(q) /\ s.window = Jobs[thread[e][q].k].window
                               /\ s.group = Jobs[thread[e][q].k].group /\ s.range = config.range)
    <3>1. PICK t : t = thread[e][q]
      OBVIOUS
    <3>2. ASSUME t.at = "insert", NoTwin(q)
          PROVE  IF Jobs[t.k].group = 0
                 THEN \A s \in sources' : ~(s.stock = StockOf(q) /\ s.window = Jobs[t.k].window)
                 ELSE \A s \in series' : ~(/\ s.stock = StockOf(q) /\ s.window = Jobs[t.k].window
                                           /\ s.group = Jobs[t.k].group /\ s.range = config.range)
      BY <3>1, <3>2
    <3>3. Vacant(t, q)'
      BY <1>1, <3>2 DEF Vacant, NoTwin, StockOf
    <3>4. thread'[e][q] = t
      BY <1>4, <1>7, <3>1
    <3> QED
      BY <3>3, <3>4 DEF Vacant, StockOf, NoTwin
  <2>1. StockOf(p) # StockOf(q)
    BY <1>3, <1>7, SeparateStocks DEF FailureInv, RowsInv, SnapshotTypes
  <2>2. \A s \in sources' : s \in sources \/ s.stock = StockOf(p)
    BY DEF Grown
  <2>3. \A s \in series' : s \in series \/ s.stock = StockOf(p)
    BY DEF Grown
  <2> QED
    BY <1>3, <2>1, <2>2, <2>3 DEF Vacant
<1>8. ASSUME NEW q \in DOMAIN outer
      PROVE  ~parallel /\ thread'[e][q].at # "fetch" =>
               \A r \in 1..(q - 1) : thread'[e][r].at = "done"
  <2> SUFFICES ASSUME ~parallel, thread'[e][q].at # "fetch", NEW r \in 1..(q - 1)
               PROVE  thread'[e][r].at = "done"
    OBVIOUS
  <2>1. DOMAIN outer = 1..Len(outer) /\ Len(outer) \in Nat
    BY SnapshotAssumption DEF FailureInv, RowsInv, SnapshotTypes
  <2>2. r \in DOMAIN outer /\ r # q
    BY <2>1
  <2>3. CASE q = p
    <3>1. thread[e][r].at = "done"
      BY <2>3 DEF Alone
    <3> QED
      BY <1>4, <2>2, <2>3, <3>1
  <2>4. CASE q # p
    <3>1. thread[e][r].at = "done"
      BY <1>3, <1>4, <2>4 DEF InTurn
    <3>2. r # p
      BY <3>1
    <3> QED
      BY <1>4, <2>2, <3>1, <3>2
  <2> QED
    BY <2>3, <2>4
<1>9. ASSUME NEW q \in DOMAIN outer
      PROVE  Sound(thread'[e][q], q) /\ Vacant(thread[e][q], q)' /\ InTurn(e, q)'
  <2>1. Vacant(thread[e][q], q)'
    <3>1. CASE q = p
      <4>1. thread'[e][q] = u
        BY <3>1
      <4> QED
        BY <3>1, <4>1 DEF Vacant, StockOf, NoTwin
    <3>2. CASE q # p
      BY <1>4, <1>7, <3>2 DEF Vacant, StockOf, NoTwin
    <3> QED
      BY <3>1, <3>2
  <2>2. InTurn(e, q)'
    BY <1>1, <1>8 DEF InTurn
  <2> QED
    BY <1>6, <2>1, <2>2
<1> QED
  BY <1>1, <1>2, <1>5, <1>9 DEF ThreadsAgree, Sound, StockOf, NoTwin

\* What a found row agrees in, as long as nothing is excused.
LEMMA FoundAgrees ==
  ASSUME FailureInv, excuse = {}, NEW e \in Executions, NEW p \in DOMAIN outer, Active(e),
         thread[e][p].at = "read"
  PROVE  /\ \A s \in SourcesAt(p, NextJob(e, p).window) :
              ~SourceMismatch(s, Config(e), thread[e][p].rows) /\ s.epoch = epoch
         /\ NextJob(e, p).group # 0 =>
              \A s \in SeriesAt(e, p, NextJob(e, p).window, NextJob(e, p).group) :
                ~SeriesMismatch(s, Config(e), thread[e][p], NextJob(e, p))
<1>1. /\ Config(e) = config
      /\ thread[e][p].rows.history = market[StockOf(p)].history
      /\ thread[e][p].k # 1 => thread[e][p].source.epoch = epoch
      /\ TablesAgree
  BY DEF FailureInv, Unexcused, ThreadsAgree, Sound
<1>2. \A s \in SourcesAt(p, NextJob(e, p).window) :
        ~SourceMismatch(s, Config(e), thread[e][p].rows) /\ s.epoch = epoch
  BY <1>1 DEF SourcesAt, SourceMismatch, TablesAgree, FailureInv, RowsInv, OneRowPerKey
<1>3. NextJob(e, p).group # 0 => thread[e][p].source.epoch = epoch
  BY <1>1, AThread DEF FailureInv
<1>4. ASSUME NextJob(e, p).group # 0,
             NEW s \in SeriesAt(e, p, NextJob(e, p).window, NextJob(e, p).group)
      PROVE  ~SeriesMismatch(s, Config(e), thread[e][p], NextJob(e, p))
  <2>1. s \in series /\ s.window = NextJob(e, p).window /\ s.group = NextJob(e, p).group
    BY DEF SeriesAt
  <2>2. s.source = epoch /\ s.seed = SeedOf(config, NextJob(e, p).window, NextJob(e, p).group)
    BY <1>1, <2>1 DEF TablesAgree
  <2> QED
    BY <1>1, <1>3, <1>4, <2>2 DEF SeriesMismatch
<1> QED
  BY <1>2, <1>4

LEMMA ThreadStepUnexcused ==
  ASSUME FailureInv, excuse = {}, NEW e \in Executions, NEW p \in DOMAIN outer, ThreadStep(e, p)
  PROVE  TablesAgree' /\ ThreadsAgree'
<1>1. /\ Apart /\ OnlyMoves(e, p)
      /\ UNCHANGED <<outer, parallel, market, config, epoch, execution>>
  BY ThreadStepKeeps DEF FailureInv, Apart, fixed, world
<1>2. /\ Active(e) /\ Alone(e, p) /\ thread[e][p].at \in {"fetch", "read", "insert"}
  BY DEF ThreadStep, Fetch, ReadSource, ReadSeries, InsertSource, InsertSeries, Working, Active
<1>3. PICK t \in ThreadRow : t = thread[e][p]
  BY AThread DEF FailureInv
<1>4. PICK u : u = thread'[e][p]
  OBVIOUS
<1>5. /\ Sound(t, p) /\ Vacant(t, p) /\ TablesAgree /\ Config(e) = config /\ t.at # "failed"
  BY <1>2, <1>3 DEF FailureInv, Unexcused, ThreadsAgree
<1>6. /\ NextJob(e, p) = Jobs[t.k] /\ StockOf(p) \in Stocks
      /\ NextJob(e, p).group # 0 => t.k # 1
  BY <1>3, AThread DEF FailureInv, NextJob
<1>7. t.k # 1 => t.source.epoch = epoch
  BY <1>5 DEF Sound
<1>8. t.at # "fetch" => t.rows.history = market[StockOf(p)].history
  BY <1>5 DEF Sound
<1>9. RowsInv
  BY DEF FailureInv
<1>10. CASE Fetch(e, p)
  <2>1. /\ UNCHANGED <<sources, series>>
        /\ u.at = "read" /\ u.rows = market[StockOf(p)] /\ u.k = t.k /\ u.source = t.source
    BY <1>3, <1>4, <1>9, <1>10, FetchEffect
  <2>2. Grown(p) /\ TablesAgree'
    BY <1>1, <1>5, <2>1 DEF Grown, TablesAgree, SeedOf
  <2>3. Sound(u, p) /\ Vacant(u, p)'
    BY <1>7, <2>1 DEF Sound, Vacant
  <2> QED
    BY <1>1, <1>2, <1>4, <2>2, <2>3, ThreadsAgreeNext
<1>11. CASE ReadSource(e, p)
  <2>1. /\ UNCHANGED <<sources, series>> /\ NextJob(e, p).group = 0 /\ u.rows = t.rows
        /\ \/ /\ u.at = "insert" /\ SourcesAt(p, NextJob(e, p).window) = {}
              /\ u.k = t.k /\ u.source = t.source
           \/ /\ u.at = "failed"
              /\ \E s \in SourcesAt(p, NextJob(e, p).window) : SourceMismatch(s, Config(e), t.rows)
           \/ u.at \in {"read", "done"} /\ u.source \in SourcesAt(p, NextJob(e, p).window)
    BY <1>3, <1>4, <1>9, <1>11, ReadSourceEffect
  <2>2. t.at = "read"
    BY <1>3, <1>11 DEF ReadSource, Working
  <2>3. \A s \in SourcesAt(p, NextJob(e, p).window) :
          ~SourceMismatch(s, Config(e), t.rows) /\ s.epoch = epoch
    BY <1>2, <1>3, <2>2, FoundAgrees
  <2>4. Grown(p) /\ TablesAgree'
    BY <1>1, <1>5, <2>1 DEF Grown, TablesAgree, SeedOf
  <2>5. Sound(u, p)
    BY <1>7, <1>8, <2>1, <2>2, <2>3 DEF Sound
  <2>6. Vacant(u, p)'
    BY <1>1, <1>6, <2>1 DEF Vacant, SourcesAt, StockOf
  <2> QED
    BY <1>1, <1>2, <1>4, <2>4, <2>5, <2>6, ThreadsAgreeNext
<1>12. CASE ReadSeries(e, p)
  <2>1. /\ UNCHANGED <<sources, series>> /\ NextJob(e, p).group # 0 /\ u.rows = t.rows
        /\ \/ /\ u.at = "insert" /\ u.k = t.k /\ u.source = t.source
              /\ SeriesAt(e, p, NextJob(e, p).window, NextJob(e, p).group) = {}
           \/ /\ u.at = "failed"
              /\ \E s \in SeriesAt(e, p, NextJob(e, p).window, NextJob(e, p).group) :
                   SeriesMismatch(s, Config(e), t, NextJob(e, p))
           \/ u.at \in {"read", "done"} /\ u.source = t.source
    BY <1>3, <1>4, <1>9, <1>12, ReadSeriesEffect
  <2>2. t.at = "read"
    BY <1>3, <1>12 DEF ReadSeries, Working
  <2>3. \A s \in SeriesAt(e, p, NextJob(e, p).window, NextJob(e, p).group) :
          ~SeriesMismatch(s, Config(e), t, NextJob(e, p))
    BY <1>2, <1>3, <2>1, <2>2, FoundAgrees
  <2>4. Grown(p) /\ TablesAgree'
    BY <1>1, <1>5, <2>1 DEF Grown, TablesAgree, SeedOf
  <2>5. Sound(u, p)
    BY <1>6, <1>7, <1>8, <2>1, <2>2, <2>3 DEF Sound
  <2>6. Vacant(u, p)'
    BY <1>1, <1>5, <1>6, <2>1 DEF Vacant, SeriesAt, StockOf
  <2> QED
    BY <1>1, <1>2, <1>4, <2>4, <2>5, <2>6, ThreadsAgreeNext
<1>13. CASE InsertSource(e, p)
  <2>1. /\ series' = series /\ NextJob(e, p).group = 0 /\ u.rows = t.rows
        /\ \/ /\ u.at = "failed" /\ sources' = sources /\ SourcesAt(p, NextJob(e, p).window) # {}
           \/ /\ u.at \in {"read", "done"} /\ u.source = SourceMade(e, p)
              /\ SourceMade(e, p) \in KeptSource
              /\ sources' = sources \cup {SourceMade(e, p)}
    BY <1>3, <1>4, <1>9, <1>13, InsertSourceEffect
  <2>2. t.at = "insert"
    BY <1>3, <1>13 DEF InsertSource, Working
  <2>3. NoTwin(p) => SourcesAt(p, NextJob(e, p).window) = {}
    BY <1>5, <1>6, <2>1, <2>2 DEF Vacant, SourcesAt
  <2>4. PICK new : new = SourceMade(e, p)
    OBVIOUS
  <2>5. /\ new.stock = StockOf(p) /\ new.epoch = epoch /\ new.adjust = config.adjust
        /\ new.rows.history = market[StockOf(p)].history
    BY <1>3, <1>5, <1>8, <2>2, <2>4 DEF SourceMade
  <2>6. Grown(p) /\ TablesAgree'
    <3>1. \A s \in sources' : s \in sources \/ s = new
      BY <2>1, <2>4
    <3>2. Grown(p)
      BY <2>1, <2>4, <2>5 DEF Grown
    <3> QED
      BY <1>1, <1>5, <2>1, <2>5, <3>1, <3>2 DEF TablesAgree, SeedOf
  <2>7. Sound(u, p)
    BY <1>7, <1>8, <2>1, <2>2, <2>3, <2>4, <2>5 DEF Sound
  <2>8. Vacant(u, p)'
    BY <2>1 DEF Vacant
  <2> QED
    BY <1>1, <1>2, <1>4, <2>6, <2>7, <2>8, ThreadsAgreeNext
<1>14. CASE InsertSeries(e, p)
  <2>1. /\ sources' = sources /\ NextJob(e, p).group # 0 /\ u.rows = t.rows
        /\ \/ /\ u.at = "failed" /\ series' = series
              /\ SeriesAt(e, p, NextJob(e, p).window, NextJob(e, p).group) # {}
           \/ /\ u.at \in {"read", "done"} /\ u.source = t.source
              /\ SeriesMade(e, p) \in KeptSeries
              /\ series' = series \cup {SeriesMade(e, p)}
    BY <1>3, <1>4, <1>9, <1>14, InsertSeriesEffect
  <2>2. t.at = "insert"
    BY <1>3, <1>14 DEF InsertSeries, Working
  <2>3. NoTwin(p) => SeriesAt(e, p, NextJob(e, p).window, NextJob(e, p).group) = {}
    BY <1>5, <1>6, <2>1, <2>2 DEF Vacant, SeriesAt
  <2>4. PICK new : new = SeriesMade(e, p)
    OBVIOUS
  <2>5. /\ new.stock = StockOf(p) /\ new.source = epoch
        /\ new.seed = SeedOf(config, new.window, new.group)
    BY <1>3, <1>5, <1>6, <1>7, <2>1, <2>4 DEF SeriesMade
  <2>6. Grown(p) /\ TablesAgree'
    <3>1. \A s \in series' : s \in series \/ s = new
      BY <2>1, <2>4
    <3>2. Grown(p)
      BY <2>1, <2>4, <2>5 DEF Grown
    <3> QED
      BY <1>1, <1>5, <2>1, <2>5, <3>1, <3>2 DEF TablesAgree, SeedOf
  <2>7. Sound(u, p)
    BY <1>6, <1>7, <1>8, <2>1, <2>2, <2>3 DEF Sound
  <2>8. Vacant(u, p)'
    BY <2>1 DEF Vacant
  <2> QED
    BY <1>1, <1>2, <1>4, <2>6, <2>7, <2>8, ThreadsAgreeNext
<1> QED
  BY <1>10, <1>11, <1>12, <1>13, <1>14 DEF ThreadStep

\* The executions that remain go on as they were.
LEMMA FewerActive ==
  ASSUME FailureInv, excuse = {}, UNCHANGED <<outer, parallel, config, epoch, sources, series>>,
         \A s \in Stocks : market'[s].history = market[s].history,
         \A e \in Executions : Active(e)' => /\ Active(e) /\ thread'[e] = thread[e]
                                             /\ execution'[e].config = execution[e].config
  PROVE  Unexcused'
<1>1. /\ \A d, e \in Executions : Active(d) /\ Active(e) => d = e
      /\ \A e \in Executions : Active(e) => Config(e) = config
      /\ TablesAgree /\ ThreadsAgree
  BY DEF FailureInv, Unexcused
<1>2. TablesAgree'
  <2>1. \A s \in sources : s.stock \in Stocks
    BY DEF FailureInv, RowsInv, SnapshotTypes, KeptSource
  <2> QED
    BY <1>1, <2>1 DEF TablesAgree, SeedOf
<1>3. ThreadsAgree'
  <2> SUFFICES ASSUME NEW e \in Executions, Active(e)', NEW p \in DOMAIN outer
               PROVE  Sound(thread[e][p], p)' /\ Vacant(thread[e][p], p)' /\ InTurn(e, p)'
    BY DEF ThreadsAgree
  <2>1. thread'[e] = thread[e]
    OBVIOUS
  <2>2. Sound(thread[e][p], p) /\ Vacant(thread[e][p], p) /\ InTurn(e, p)
    BY <1>1 DEF ThreadsAgree
  <2>3. StockOf(p) \in Stocks
    BY StocksOf DEF FailureInv, RowsInv, SnapshotTypes
  <2>4. Sound(thread[e][p], p)'
    BY <2>1, <2>2, <2>3 DEF Sound, StockOf, NoTwin
  <2>5. Vacant(thread[e][p], p)'
    BY <2>1, <2>2 DEF Vacant, StockOf, NoTwin
  <2>6. InTurn(e, p)'
    BY <2>1, <2>2 DEF InTurn
  <2> QED
    BY <2>4, <2>5, <2>6
<1>4. \A d, e \in Executions : Active(d)' /\ Active(e)' => d = e
  BY <1>1
<1>5. \A e \in Executions : Active(e)' => Config(e)' = config'
  BY <1>1 DEF Config
<1> QED
  BY <1>2, <1>3, <1>4, <1>5 DEF Unexcused

LEMMA EndsUnexcused ==
  ASSUME FailureInv, NEW e \in Executions, Ends(e),
         UNCHANGED <<outer, parallel, market, config, epoch, sources, series, excuse>>
  PROVE  /\ \A d \in Executions : ~Active(d)' => thread'[d] = NoThreads'
         /\ excuse' = {} => Unexcused'
<1>1. /\ execution' = [execution EXCEPT ![e] = [execution[e] EXCEPT !.phase = "ended", !.n = 0]]
      /\ thread' = [thread EXCEPT ![e] = NoThreads]
  BY DEF Ends
<1>2. execution \in [Executions -> [phase : {"none", "expand", "execute", "ended"},
                                    told : BOOLEAN, n : Nat, config : Configs]]
      /\ DOMAIN thread = Executions
  BY DEF FailureInv, RowsInv, SnapshotTypes
<1>3. /\ \A d \in Executions : d # e => execution'[d] = execution[d] /\ thread'[d] = thread[d]
      /\ execution'[e].phase = "ended" /\ thread'[e] = NoThreads
  BY <1>1, <1>2
<1>4. NoThreads' = NoThreads
  BY DEF NoThreads
<1>5. \A d \in Executions : Active(d)' => d # e /\ Active(d)
  BY <1>3 DEF Active
<1>6. \A d \in Executions : ~Active(d)' => thread'[d] = NoThreads'
  BY <1>3, <1>4 DEF Active, FailureInv
<1>7. excuse' = {} => Unexcused'
  BY <1>3, <1>5, FewerActive
<1> QED
  BY <1>6, <1>7

\* Steps that touch neither the tables nor a thread.
LEMMA SamePhases ==
  ASSUME FailureInv, UNCHANGED <<outer, parallel, config, epoch, sources, series, thread, excuse>>,
         \A s \in Stocks : market'[s].history = market[s].history,
         \A e \in Executions : (Active(e)' <=> Active(e)) /\ execution'[e].config = execution[e].config
  PROVE  /\ \A d \in Executions : ~Active(d)' => thread'[d] = NoThreads'
         /\ excuse' = {} => Unexcused'
<1>1. NoThreads' = NoThreads
  BY DEF NoThreads
<1>2. \A d \in Executions : ~Active(d)' => thread'[d] = NoThreads'
  BY <1>1 DEF FailureInv
<1>3. excuse' = {} => Unexcused'
  BY FewerActive
<1> QED
  BY <1>2, <1>3

LEMMA FailureInitial == SnapshotInit => FailureInv
<1> SUFFICES ASSUME SnapshotInit PROVE FailureInv
  OBVIOUS
<1>1. RowsInv
  BY RowsInitial
<1>2. \A e \in Executions : ~Active(e) /\ thread[e] = NoThreads
  BY DEF SnapshotInit, Active
<1>3. TablesAgree
  BY DEF SnapshotInit, TablesAgree
<1>4. Unexcused
  BY <1>2, <1>3 DEF Unexcused, ThreadsAgree
<1> QED
  BY <1>1, <1>2, <1>4 DEF FailureInv

LEMMA FailureStep == ASSUME FailureInv, [SnapshotNext]_snapshotVars PROVE FailureInv'
<1> DEFINE FailureRest ==
             /\ \A d \in Executions : ~Active(d)' => thread'[d] = NoThreads'
             /\ excuse' = {} => Unexcused'
<1>1. RowsInv'
  BY RowsStep DEF FailureInv
<1>2. /\ execution \in [Executions -> [phase : {"none", "expand", "execute", "ended"},
                                           told : BOOLEAN, n : Nat, config : Configs]]
          /\ market \in [Stocks -> KlineRows] /\ DOMAIN thread = Executions
  BY DEF FailureInv, RowsInv, SnapshotTypes
<1>3. ASSUME NEW e \in Executions, BeginExecution(e) PROVE FailureRest
  <2>1. /\ execution[e].phase = "none"
        /\ execution' = [execution EXCEPT ![e].phase = "expand", ![e].config = config]
        /\ excuse' = excuse \cup (IF \E d \in Executions : Active(d) THEN {"overlap"} ELSE {})
        /\ UNCHANGED <<outer, parallel, market, config, epoch, sources, series, thread>>
    BY <1>3 DEF BeginExecution, fixed, world, tables
  <2>2. /\ \A d \in Executions : d # e => execution'[d] = execution[d]
        /\ execution'[e].phase = "expand" /\ execution'[e].config = config
    BY <1>2, <2>1
  <2>3. /\ thread[e] = NoThreads /\ NoThreads' = NoThreads
        /\ \A d \in Executions : ~Active(d) => thread[d] = NoThreads
    BY <2>1 DEF Active, NoThreads, FailureInv
  <2>4. \A d \in Executions : ~Active(d)' => thread'[d] = NoThreads'
    BY <2>1, <2>2, <2>3 DEF Active
  <2>5. ASSUME excuse' = {} PROVE Unexcused'
    <3>1. excuse = {} /\ \A d \in Executions : ~Active(d)
      BY <2>1, <2>5
    <3>2. \A d \in Executions : Active(d)' => d = e
      BY <2>2, <3>1 DEF Active
    <3>3. TablesAgree'
      BY <2>1, <3>1 DEF FailureInv, Unexcused, TablesAgree, SeedOf
    <3>4. \A p \in DOMAIN outer : /\ thread'[e][p] = NoThreads[p]
                                  /\ Sound(NoThreads[p], p) /\ Vacant(NoThreads[p], p)
                                  /\ NoThreads[p].at = "fetch" /\ NoThreads[p].k = 1
      BY <2>1, <2>3, FreshSound DEF NoThreads, NewThread
    <3>5. \A p \in DOMAIN outer' : (Sound(thread[e][p], p) /\ Vacant(thread[e][p], p) /\ InTurn(e, p))'
      BY <2>1, <3>4 DEF Sound, Vacant, InTurn
    <3>6. ThreadsAgree'
      BY <3>2, <3>5 DEF ThreadsAgree
    <3> QED
      BY <2>1, <2>2, <3>2, <3>3, <3>6 DEF Unexcused, Config
  <2> QED
    BY <2>4, <2>5
<1>4. ASSUME NEW e \in Executions, NEW p \in DOMAIN outer, ThreadStep(e, p) PROVE FailureRest
  <2>1. /\ UNCHANGED <<outer, parallel, market, config, epoch, execution, excuse>>
        /\ OnlyMoves(e, p) /\ ThreadsFit'
    BY <1>4, ThreadStepKeeps DEF FailureInv, Apart, fixed, world, history
  <2>2. Active(e)
    BY <1>4 DEF ThreadStep, Fetch, ReadSource, ReadSeries, InsertSource, InsertSeries, Working, Active
  <2>3. \A d \in Executions : Active(d)' <=> Active(d)
    BY <2>1 DEF Active
  <2>4. ASSUME NEW d \in Executions, ~Active(d) PROVE thread'[d] = NoThreads'
    <3>1. d # e /\ thread[d] = NoThreads /\ NoThreads' = NoThreads
      BY <2>1, <2>2, <2>4 DEF FailureInv, NoThreads
    <3>2. \A q \in DOMAIN outer : thread'[d][q] = thread[d][q]
      BY <2>1, <3>1 DEF OnlyMoves
    <3>3. thread'[d] \in [DOMAIN outer -> ThreadRow] /\ thread[d] \in [DOMAIN outer -> ThreadRow]
      BY <2>1 DEF ThreadsFit, FailureInv, RowsInv, SnapshotTypes
    <3>4. thread'[d] = thread[d]
      BY <3>2, <3>3
    <3> QED
      BY <3>1, <3>4
  <2>5. ASSUME excuse' = {} PROVE Unexcused'
    <3>1. excuse = {}
      BY <2>1, <2>5
    <3>2. TablesAgree' /\ ThreadsAgree'
      BY <1>4, <3>1, ThreadStepUnexcused
    <3> QED
      BY <2>1, <2>3, <3>1, <3>2 DEF FailureInv, Unexcused, Config
  <2> QED
    BY <2>3, <2>4, <2>5
<1>5. ASSUME NEW e \in Executions, Expanded(e) PROVE FailureRest
  <2>1. /\ execution[e].phase = "expand"
        /\ execution' = [execution EXCEPT ![e].phase = "execute", ![e].n = taskRow.step]
        /\ UNCHANGED <<outer, parallel, config, epoch, sources, series, thread, excuse, market>>
    BY <1>5 DEF Expanded, fixed, world, tables, history
  <2>2. \A d \in Executions : (Active(d)' <=> Active(d)) /\ execution'[d].config = execution[d].config
    BY <1>2, <2>1 DEF Active
  <2> QED
    BY <2>1, <2>2, SamePhases
<1>6. ASSUME NEW e \in Executions, ExpansionFails(e) \/ ExecutionEnds(e) PROVE FailureRest
  <2>1. /\ Ends(e)
        /\ UNCHANGED <<outer, parallel, market, config, epoch, sources, series, excuse>>
    BY <1>6 DEF ExpansionFails, ExecutionEnds, fixed, world, tables, history
  <2> QED
    BY <2>1, EndsUnexcused
<1>7. ASSUME NEW e \in Executions, ExecuteCombination(e) PROVE FailureRest
  <2>1. /\ UNCHANGED <<outer, parallel, market, config, epoch, sources, series, excuse>>
        /\ Ends(e) \/ (UNCHANGED thread /\ execution' = [execution EXCEPT ![e].n = execution[e].n + 1])
    BY <1>7 DEF ExecuteCombination, fixed, world, tables
  <2>2. CASE Ends(e)
    BY <2>1, <2>2, EndsUnexcused
  <2>3. CASE UNCHANGED thread /\ execution' = [execution EXCEPT ![e].n = execution[e].n + 1]
    <3>1. \A d \in Executions : (Active(d)' <=> Active(d)) /\ execution'[d].config = execution[d].config
      BY <1>2, <2>3 DEF Active
    <3> QED
      BY <2>1, <2>3, <3>1, SamePhases
  <2> QED
    BY <2>1, <2>2, <2>3
<1>8. ASSUME NEW s \in Stocks, Reprice(s) PROVE FailureRest
  <2>1. /\ market' = [market EXCEPT ![s].prices = market[s].prices + 1]
        /\ UNCHANGED <<outer, parallel, config, epoch, sources, series, thread, excuse, execution>>
    BY <1>8 DEF Reprice, fixed, tables, running, history
  <2>2. \A x \in Stocks : market'[x].history = market[x].history
    BY <1>2, <2>1 DEF KlineRows
  <2>3. \A d \in Executions : (Active(d)' <=> Active(d)) /\ execution'[d].config = execution[d].config
    BY <2>1 DEF Active
  <2> QED
    BY <2>1, <2>2, <2>3, SamePhases
<1>9. ASSUME NEW s \in Stocks, OtherHistory(s) PROVE FailureRest
  <2>1. excuse' # {} /\ UNCHANGED <<outer, thread, execution>>
    BY <1>9 DEF OtherHistory, fixed, tables, running
  <2>2. \A d \in Executions : (Active(d)' <=> Active(d)) /\ NoThreads' = NoThreads
    BY <2>1 DEF Active, NoThreads
  <2> QED
    BY <2>1, <2>2 DEF FailureInv
<1>10. ASSUME NEW c \in Configs, EditConfig(c) PROVE FailureRest
  <2>1. excuse' # {} /\ UNCHANGED <<outer, thread, execution>>
    BY <1>10 DEF EditConfig, fixed, tables, running
  <2>2. \A d \in Executions : (Active(d)' <=> Active(d)) /\ NoThreads' = NoThreads
    BY <2>1 DEF Active, NoThreads
  <2> QED
    BY <2>1, <2>2 DEF FailureInv
<1>11. ASSUME ResumeTask PROVE FailureRest
  <2>1. UNCHANGED <<outer, parallel, config, epoch, sources, series, thread, excuse, market, execution>>
    BY <1>11 DEF ResumeTask, fixed, world, tables, history
  <2>2. \A d \in Executions : (Active(d)' <=> Active(d)) /\ execution'[d].config = execution[d].config
    BY <2>1 DEF Active
  <2>3. \A x \in Stocks : market'[x].history = market[x].history
    BY <2>1
  <2>4. FailureRest
    BY <2>1, <2>2, <2>3, SamePhases
  <2> QED
    BY <2>4
<1>12. ASSUME CrashExecution PROVE FailureRest
  <2>1. /\ execution' = [e \in Executions |->
                     IF Active(e) THEN [execution[e] EXCEPT !.phase = "ended", !.n = 0]
                                  ELSE execution[e]]
        /\ thread' = [e \in Executions |-> NoThreads]
        /\ UNCHANGED <<outer, parallel, market, config, epoch, sources, series, excuse>>
    BY <1>12 DEF CrashExecution, fixed, world, tables, history
  <2>2. \A e \in Executions : ~Active(e)'
    BY <1>2, <2>1 DEF Active
  <2>3. \A d \in Executions : thread'[d] = NoThreads'
    BY <2>1 DEF NoThreads
  <2>4. \A x \in Stocks : market'[x].history = market[x].history
    BY <2>1
  <2>5. \A e \in Executions : Active(e)' =>
          /\ Active(e) /\ thread'[e] = thread[e]
          /\ execution'[e].config = execution[e].config
    BY <2>2
  <2>6. excuse' = {} => Unexcused'
    BY <2>1, <2>4, <2>5, FewerActive
  <2> QED
    BY <2>3, <2>6
<1>13. ASSUME RestartFromScratch PROVE FailureRest
  <2>1. /\ sources' = {} /\ series' = {}
        /\ execution' = [e \in Executions |->
                     IF Active(e) THEN [execution[e] EXCEPT !.told = TRUE] ELSE execution[e]]
        /\ excuse' = IF \E e \in Executions : Active(e) THEN {"overlap"} ELSE {}
        /\ UNCHANGED <<outer, thread>>
    BY <1>13 DEF RestartFromScratch, fixed
  <2>2. \A e \in Executions : (Active(e)' <=> Active(e)) /\ NoThreads' = NoThreads
    BY <1>2, <2>1 DEF Active, NoThreads
  <2>3. ASSUME excuse' = {} PROVE Unexcused'
    <3>1. \A e \in Executions : ~Active(e)'
      BY <2>1, <2>2, <2>3
    <3>2. TablesAgree'
      BY <2>1 DEF TablesAgree
    <3> QED
      BY <3>1, <3>2 DEF Unexcused, ThreadsAgree
  <2>4. \A d \in Executions : ~Active(d)' => thread'[d] = NoThreads'
    BY <2>1, <2>2 DEF FailureInv
  <2> QED
    BY <2>3, <2>4
<1>14. ASSUME UNCHANGED snapshotVars PROVE FailureRest
  <2>1. UNCHANGED <<outer, parallel, config, epoch, sources, series, thread, excuse, market, execution>>
    BY <1>14 DEF snapshotVars, fixed, world, tables, running, history
  <2>2. \A d \in Executions : (Active(d)' <=> Active(d)) /\ execution'[d].config = execution[d].config
    BY <2>1 DEF Active
  <2>3. \A x \in Stocks : market'[x].history = market[x].history
    BY <2>1
  <2>4. FailureRest
    BY <2>1, <2>2, <2>3, SamePhases
  <2> QED
    BY <2>4
<1>15. ASSUME NEW e \in Executions, ExecutionStep(e) PROVE FailureRest
  <2> HIDE DEF FailureRest
  <2> QED
    BY <1>3, <1>4, <1>5, <1>6, <1>7, <1>15 DEF ExecutionStep
<1>16. FailureRest
  <2> HIDE DEF FailureRest
  <2> QED
    BY <1>3, <1>8, <1>9, <1>10, <1>11, <1>12, <1>13, <1>14, <1>15 DEF SnapshotNext
<1>17. \A d \in Executions : ~Active(d)' => thread'[d] = NoThreads'
  BY <1>16
<1>18. excuse' = {} => Unexcused'
  BY <1>16
<1> QED
  <2> HIDE DEF FailureRest
  <2> QED
    BY <1>1, <1>17, <1>18 DEF FailureInv

\* An expansion fails for a reason: for every number of stocks, windows, groups and
\* executions.
THEOREM FailuresExplained == SnapshotSpec => []FailureExplained
<1>1. SnapshotInit => FailureInv
  BY FailureInitial
<1>2. FailureInv /\ [SnapshotNext]_snapshotVars => FailureInv'
  BY FailureStep
<1>3. FailureInv => FailureExplained
  BY FailureInvExplains
<1> QED
  BY <1>1, <1>2, <1>3, PTL DEF SnapshotSpec

-----------------------------------------------------------------------------
(***************************************************************************)
(* The windows of K-lines. Dates are half years.                           *)
(***************************************************************************)
LEMMA YearIs ==
  ASSUME NEW d \in Nat
  PROVE  Year(d) \in Nat /\ 2 * Year(d) <= d /\ d <= 2 * Year(d) + 1
BY DEF Year

LEMMA SameYear ==
  ASSUME NEW d \in Nat, NEW y \in Int
  PROVE  Year(d) = y <=> 2 * y <= d /\ d <= 2 * y + 1
<1>1. PICK c \in Nat : c = Year(d)
  BY YearIs
<1>2. 2 * c <= d /\ d <= 2 * c + 1
  BY <1>1, YearIs
<1>3. c = y <=> 2 * y <= d /\ d <= 2 * y + 1
  BY <1>2
<1> QED
  BY <1>1, <1>3

LEMMA YearsGrow ==
  ASSUME NEW d \in Nat, NEW e \in Nat, d <= e
  PROVE  Year(d) <= Year(e)
BY YearIs

\* What a plan may hold: the labels come from a set L.
KlineWindows(L) == [kind : {"whole", "recent", "year"}, label : L, rows : SUBSET Dates]
LabelMaps(L) == UNION {[D -> SUBSET Dates] : D \in SUBSET L}
RegisterAcc(L) == [map : LabelMaps(L), kept : Seq(KlineWindows(L))]
RegisterFrom(base, ws) == FoldLeft(Register, base, ws)

LEMMA RegisterIs ==
  ASSUME NEW L, NEW acc \in RegisterAcc(L), NEW w \in KlineWindows(L), Keep(acc.map, w),
         NEW D, D = DOMAIN acc.map
  PROVE  /\ Register(acc, w) \in RegisterAcc(L)
         /\ Register(acc, w).kept = Append(acc.kept, w)
         /\ DOMAIN Register(acc, w).map = D \cup {w.label}
         /\ \A l \in D : Register(acc, w).map[l] = acc.map[l]
         /\ w.label \notin D => Register(acc, w).map[w.label] = w.rows
<1>1. w.label \in L /\ w.rows \in SUBSET Dates
  BY DEF KlineWindows
<1>2. PICK E \in SUBSET L : acc.map \in [E -> SUBSET Dates]
  BY DEF RegisterAcc, LabelMaps
<1>3. E = D
  BY <1>2
<1> DEFINE new == [l \in D \cup {w.label} |-> IF l \in D THEN acc.map[l] ELSE w.rows]
<1>4. D \cup {w.label} \in SUBSET L /\ new \in [D \cup {w.label} -> SUBSET Dates]
  BY <1>1, <1>2, <1>3
<1>5. new \in LabelMaps(L)
  BY <1>4 DEF LabelMaps
<1>6. Append(acc.kept, w) \in Seq(KlineWindows(L))
  BY DEF RegisterAcc
<1>7. Register(acc, w) = [map |-> new, kept |-> Append(acc.kept, w)]
  BY DEF Register
<1>8. DOMAIN new = D \cup {w.label} /\ \A l \in D : new[l] = acc.map[l]
  OBVIOUS
<1>9. w.label \notin D => new[w.label] = w.rows
  OBVIOUS
<1> HIDE DEF new
<1> QED
  BY <1>5, <1>6, <1>7, <1>8, <1>9 DEF RegisterAcc

LEMMA RegisterTyped ==
  ASSUME NEW L, NEW acc \in RegisterAcc(L), NEW w \in KlineWindows(L)
  PROVE  Register(acc, w) \in RegisterAcc(L)
<1>1. ~Keep(acc.map, w) => Register(acc, w) = acc
  BY DEF Register
<1>2. Keep(acc.map, w) => Register(acc, w) \in RegisterAcc(L)
  BY RegisterIs
<1> QED
  BY <1>1, <1>2

RegisterRuns(L, n, s, base) ==
  \E F \in [0..n -> RegisterAcc(L)] :
    /\ F[0] = base
    /\ F[n] = RegisterFrom(base, s)
    /\ \A k \in 1..n : F[k] = Register(F[k - 1], s[k])

LEMMA RegisterRun ==
  ASSUME NEW L, NEW n \in Nat, NEW s \in [1..n -> KlineWindows(L)], NEW base \in RegisterAcc(L)
  PROVE  RegisterRuns(L, n, s, base)
<1> DEFINE Acc == RegisterAcc(L)
<1> DEFINE step == [p \in Acc \X (1..n) |-> Register(p[1], s[p[2]])]
<1> DEFINE Recursion(g) ==
      g = [t \in SUBSET (1..n) |->
             IF t = {} THEN base ELSE Register(g[t \ {Max(t)}], s[Max(t)])]
<1>1. \A acc \in Acc, k \in 1..n :
        step[<<acc, k>>] = Register(acc, s[k]) /\ Register(acc, s[k]) \in Acc
  BY RegisterTyped
<1>2. step \in [Acc \X (1..n) -> Acc] /\ base \in Acc
  BY <1>1
<1> HIDE DEF step, Acc
<1>3. \E g : Recursion(g)
  <2>1. PICK g \in [SUBSET (1..n) -> Acc] : SolvesFold(g, n, base, step)
    BY <1>2, FoldExists DEF Foldable
  <2>2. ASSUME NEW t \in SUBSET (1..n), t # {}
        PROVE  Max(t) \in 1..n /\ g[t \ {Max(t)}] \in Acc
    <3>1. \A x \in t : x \in Nat /\ x <= n
      OBVIOUS
    <3>2. Max(t) \in t
      BY <2>2, <3>1, GreatestBelow
    <3> QED
      BY <3>2
  <2>3. \A t \in SUBSET (1..n) :
          g[t] = IF t = {} THEN base ELSE Register(g[t \ {Max(t)}], s[Max(t)])
    BY <1>1, <2>1, <2>2 DEF SolvesFold
  <2> QED
    BY <2>3
<1> DEFINE h == CHOOSE g : Recursion(g)
<1>4. RegisterFrom(base, s) = h[1..n]
  <2>1. DOMAIN s = 1..n
    OBVIOUS
  <2> QED
    BY <2>1 DEF RegisterFrom, FoldLeft, MapThenFoldSet
<1>5. Recursion(h)
  BY <1>3
<1> HIDE DEF h
<1>6. h[{}] = base /\ \A k \in 1..n : h[1..k] = Register(h[1..(k - 1)], s[k])
  <2>1. h[{}] = base
    BY <1>5
  <2>2. ASSUME NEW k \in 1..n PROVE h[1..k] = Register(h[1..(k - 1)], s[k])
    <3>1. 1..k \in SUBSET (1..n)
      OBVIOUS
    <3>2. 1..k # {} /\ Max(1..k) = k /\ (1..k) \ {k} = 1..(k - 1)
      <4>1. k \in Nat \ {0}
        OBVIOUS
      <4> QED
        BY <4>1, FirstPositions, Zenon
    <3>3. h[1..k] = IF 1..k = {} THEN base ELSE Register(h[(1..k) \ {Max(1..k)}], s[Max(1..k)])
      BY <1>5, <3>1
    <3> QED
      BY <3>2, <3>3
  <2> QED
    BY <2>1, <2>2
<1> HIDE DEF Recursion
<1>7. StepsAlong(h, n, Acc, base, step)
  BY <1>1, <1>6 DEF StepsAlong
<1>8. PICK F : RunOf(F, n, Acc, base, step, RegisterFrom(base, s))
  BY <1>2, <1>4, <1>7, FoldRun
<1>9. \A k \in 1..n : F[k - 1] \in Acc
  BY <1>8 DEF RunOf
<1>10. /\ F \in [0..n -> Acc]
       /\ F[0] = base
       /\ F[n] = RegisterFrom(base, s)
       /\ \A k \in 1..n : F[k] = Register(F[k - 1], s[k])
  BY <1>1, <1>8, <1>9 DEF RunOf
<1> QED
  BY <1>10 DEF Acc, RegisterRuns

\* No window that has to be planned meets its label again.
Fits(ws) ==
  \A i, j \in 1..Len(ws) : i < j /\ ws[j].kind # "recent" => ws[i].label # ws[j].label

\* A recent window gives way to one with its label and other rows.
GivesWay(w, kept) ==
  w.kind = "recent" /\ \E v \in ToSet(kept) : v.label = w.label /\ v.rows # w.rows

\* What is registered after the first k windows.
RegisteredUpTo(ws, k, acc) ==
  /\ \A w \in ToSet(acc.kept) :
       /\ w.rows # {} /\ w.label \in DOMAIN acc.map /\ acc.map[w.label] = w.rows
       /\ \E i \in 1..k : w = ws[i]
  /\ \A l \in DOMAIN acc.map : \E w \in ToSet(acc.kept) : w.label = l
  /\ \A i \in 1..k : ws[i].rows # {} => ws[i] \in ToSet(acc.kept) \/ GivesWay(ws[i], acc.kept)

LEMMA RegisteringContinues ==
  ASSUME NEW L, NEW ws \in Seq(KlineWindows(L)), Fits(ws), NEW k \in Nat, k + 1 \in 1..Len(ws),
         NEW acc \in RegisterAcc(L), RegisteredUpTo(ws, k, acc)
  PROVE  RegisteredUpTo(ws, k + 1, Register(acc, ws[k + 1]))
<1>1. PICK w : w = ws[k + 1]
  OBVIOUS
<1>2. w \in KlineWindows(L)
  BY <1>1
<1>3. 1..(k + 1) = 1..k \cup {k + 1}
  OBVIOUS
<1>4. PICK next : next = Register(acc, w)
  OBVIOUS
<1>5. CASE ~Keep(acc.map, w)
  <2>1. next = acc
    BY <1>4, <1>5 DEF Register
  <2>2. w.rows # {} => GivesWay(w, acc.kept)
    <3> SUFFICES ASSUME w.rows # {} PROVE GivesWay(w, acc.kept)
      OBVIOUS
    <3>1. w.kind = "recent" /\ w.label \in DOMAIN acc.map /\ acc.map[w.label] # w.rows
      BY <1>5 DEF Keep
    <3>2. PICK v \in ToSet(acc.kept) : v.label = w.label
      BY <3>1 DEF RegisteredUpTo
    <3>3. acc.map[v.label] = v.rows
      BY DEF RegisteredUpTo
    <3> QED
      BY <3>1, <3>2, <3>3 DEF GivesWay
  <2>3. \A i \in 1..(k + 1) : ws[i].rows # {} => ws[i] \in ToSet(acc.kept) \/ GivesWay(ws[i], acc.kept)
    BY <1>1, <1>3, <2>2 DEF RegisteredUpTo
  <2>4. \A v \in ToSet(acc.kept) :
          /\ v.rows # {} /\ v.label \in DOMAIN acc.map /\ acc.map[v.label] = v.rows
          /\ \E i \in 1..(k + 1) : v = ws[i]
    BY <1>3 DEF RegisteredUpTo
  <2>5. \A l \in DOMAIN acc.map : \E v \in ToSet(acc.kept) : v.label = l
    BY DEF RegisteredUpTo
  <2> QED
    BY <1>1, <1>4, <2>1, <2>3, <2>4, <2>5 DEF RegisteredUpTo
<1>6. CASE Keep(acc.map, w)
  <2>1. PICK D : D = DOMAIN acc.map
    OBVIOUS
  <2>2. /\ next.kept = Append(acc.kept, w)
        /\ DOMAIN next.map = D \cup {w.label}
        /\ \A l \in D : next.map[l] = acc.map[l]
        /\ w.label \notin D => next.map[w.label] = w.rows
    BY <1>2, <1>4, <1>6, <2>1, RegisterIs
  <2>3. acc.kept \in Seq(KlineWindows(L))
    BY DEF RegisterAcc
  <2>4. ToSet(next.kept) = ToSet(acc.kept) \cup {w}
    BY <1>2, <2>2, <2>3, MembersOfAppend
  <2>5. w.rows # {}
    BY <1>6 DEF Keep
  <2>6. next.map[w.label] = w.rows
    <3>1. CASE w.kind = "recent"
      <4>1. w.label \in D => acc.map[w.label] = w.rows
        BY <1>6, <2>1, <3>1 DEF Keep
      <4> QED
        BY <2>2, <4>1
    <3>2. CASE w.kind # "recent"
      <4>1. ASSUME w.label \in D PROVE FALSE
        <5>1. PICK v \in ToSet(acc.kept) : v.label = w.label
          BY <2>1, <4>1 DEF RegisteredUpTo
        <5>2. PICK i \in 1..k : v = ws[i]
          BY DEF RegisteredUpTo
        <5>3. i \in 1..Len(ws) /\ i < k + 1
          OBVIOUS
        <5> QED
          BY <1>1, <3>2, <5>1, <5>2, <5>3 DEF Fits
      <4> QED
        BY <2>2, <4>1
    <3> QED
      BY <3>1, <3>2
  <2>7. ASSUME NEW v \in ToSet(next.kept)
        PROVE  /\ v.rows # {} /\ v.label \in DOMAIN next.map /\ next.map[v.label] = v.rows
               /\ \E i \in 1..(k + 1) : v = ws[i]
    <3>1. CASE v = w
      BY <1>1, <1>3, <2>2, <2>5, <2>6, <3>1
    <3>2. CASE v \in ToSet(acc.kept)
      <4>1. /\ v.rows # {} /\ v.label \in D /\ acc.map[v.label] = v.rows
            /\ \E i \in 1..k : v = ws[i]
        BY <2>1, <3>2 DEF RegisteredUpTo
      <4> QED
        BY <1>3, <2>2, <4>1
    <3> QED
      BY <2>4, <2>7, <3>1, <3>2
  <2>8. ASSUME NEW l \in DOMAIN next.map PROVE \E v \in ToSet(next.kept) : v.label = l
    <3>1. l \in D \/ l = w.label
      BY <2>2, <2>8
    <3>2. l \in D => \E v \in ToSet(acc.kept) : v.label = l
      BY <2>1 DEF RegisteredUpTo
    <3> QED
      BY <2>4, <3>1, <3>2
  <2>9. ASSUME NEW i \in 1..(k + 1), ws[i].rows # {}
        PROVE  ws[i] \in ToSet(next.kept) \/ GivesWay(ws[i], next.kept)
    <3>1. CASE i = k + 1
      BY <1>1, <2>4, <3>1
    <3>2. CASE i \in 1..k
      <4>1. ws[i] \in ToSet(acc.kept) \/ GivesWay(ws[i], acc.kept)
        BY <2>9, <3>2 DEF RegisteredUpTo
      <4> QED
        BY <2>4, <4>1 DEF GivesWay
    <3> QED
      BY <1>3, <3>1, <3>2
  <2> QED
    BY <1>1, <1>4, <2>7, <2>8, <2>9 DEF RegisteredUpTo
<1> QED
  BY <1>5, <1>6

\* What is registered of windows that fit.
LEMMA RegisteredIs ==
  ASSUME NEW L, NEW ws \in Seq(KlineWindows(L)), Fits(ws), NEW reg, reg = Registered(ws)
  PROVE  reg \in RegisterAcc(L) /\ RegisteredUpTo(ws, Len(ws), reg)
<1>1. PICK base : base = [map |-> << >>, kept |-> << >>]
  OBVIOUS
<1>2. base \in RegisterAcc(L)
  <2>1. << >> \in [{} -> SUBSET Dates] /\ {} \in SUBSET L
    OBVIOUS
  <2>2. << >> \in LabelMaps(L)
    BY <2>1 DEF LabelMaps
  <2>3. << >> \in Seq(KlineWindows(L))
    OBVIOUS
  <2> QED
    BY <1>1, <2>2, <2>3 DEF RegisterAcc
<1>3. PICK n \in Nat : n = Len(ws)
  OBVIOUS
<1>4. ws \in [1..n -> KlineWindows(L)]
  BY <1>3
<1>5. reg = RegisterFrom(base, ws)
  BY <1>1 DEF Registered, RegisterFrom
<1>6. PICK F \in [0..n -> RegisterAcc(L)] :
        /\ F[0] = base
        /\ F[n] = reg
        /\ \A k \in 1..n : F[k] = Register(F[k - 1], ws[k])
  <2>1. RegisterRuns(L, n, ws, base)
    BY <1>2, <1>4, RegisterRun
  <2> QED
    BY <1>5, <2>1, Zenon DEF RegisterRuns
<1> DEFINE T == {k \in Nat : k <= n => RegisteredUpTo(ws, k, F[k])}
<1>7. 0 \in T
  <2>1. ToSet(base.kept) = {} /\ DOMAIN base.map = {}
    BY <1>1 DEF ToSet
  <2> QED
    BY <1>6, <2>1 DEF RegisteredUpTo
<1>8. ASSUME NEW k \in Nat, k \in T PROVE k + 1 \in T
  <2> SUFFICES ASSUME k + 1 <= n PROVE RegisteredUpTo(ws, k + 1, F[k + 1])
    OBVIOUS
  <2>1. k <= n /\ k \in 0..n /\ k + 1 \in 1..n /\ (k + 1) - 1 = k
    OBVIOUS
  <2>2. RegisteredUpTo(ws, k, F[k]) /\ F[k] \in RegisterAcc(L)
    BY <1>8, <2>1
  <2>3. F[k + 1] = Register(F[k], ws[k + 1])
    BY <1>6, <2>1
  <2> QED
    BY <1>3, <2>1, <2>2, <2>3, RegisteringContinues
<1>9. n \in T
  <2> HIDE DEF T
  <2> QED
    BY <1>7, <1>8, EveryNatural
<1>10. F[n] \in RegisterAcc(L)
  OBVIOUS
<1> QED
  BY <1>3, <1>6, <1>9, <1>10

-----------------------------------------------------------------------------
(* Lists of combinations.                                                    *)

Combos(L, P) == [label : L, pair : P, group : Nat]
Combo(w, p, g) == [label |-> w.label, pair |-> p, group |-> g]

LEMMA CombinationsAre ==
  ASSUME NEW L, NEW P, NEW kept \in Seq(KlineWindows(L)), NEW q, q.pairs \in Seq(P),
         Groups(q) \in Seq(Nat), NEW list, list = Combinations(q, kept)
  PROVE  /\ list \in Seq(Combos(L, P))
         /\ \A c : c \in ToSet(list) <=>
              \E w \in ToSet(kept), p \in ToSet(q.pairs), g \in ToSet(Groups(q)) :
                c = Combo(w, p, g)
<1>1. PICK pairs \in Seq(P) : pairs = q.pairs
  OBVIOUS
<1>2. PICK groups \in Seq(Nat) : groups = Groups(q)
  OBVIOUS
<1>3. PICK C : C = Combos(L, P)
  OBVIOUS
<1> DEFINE row(i, j) == [k \in DOMAIN groups |-> Combo(kept[i], pairs[j], groups[k])]
<1> DEFINE rows(i) == [j \in DOMAIN pairs |-> row(i, j)]
<1> DEFINE parts == [i \in DOMAIN kept |-> FlattenSeq(rows(i))]
<1>4. list = FlattenSeq(parts)
  BY <1>1, <1>2 DEF Combinations, Combo
<1>5. DOMAIN kept = 1..Len(kept) /\ DOMAIN pairs = 1..Len(pairs) /\ DOMAIN groups = 1..Len(groups)
  OBVIOUS
<1>6. ASSUME NEW i \in 1..Len(kept), NEW j \in 1..Len(pairs)
      PROVE  /\ row(i, j) \in Seq(C)
             /\ \A c : c \in ToSet(row(i, j)) <=>
                  \E g \in ToSet(groups) : c = Combo(kept[i], pairs[j], g)
  <2>1. \A k \in 1..Len(groups) : Combo(kept[i], pairs[j], groups[k]) \in C
    <3>1. kept[i] \in KlineWindows(L) /\ pairs[j] \in P
      OBVIOUS
    <3>2. kept[i].label \in L
      BY <3>1 DEF KlineWindows
    <3> QED
      BY <1>3, <3>1, <3>2 DEF Combo, Combos
  <2>2. row(i, j) \in Seq(C)
    BY <1>5, <2>1
  <2>3. \A c : c \in ToSet(row(i, j)) <=>
          \E g \in ToSet(groups) : c = Combo(kept[i], pairs[j], g)
    BY DEF ToSet
  <2> QED
    BY <2>2, <2>3
<1> HIDE DEF row
<1>7. ASSUME NEW i \in 1..Len(kept)
      PROVE  /\ FlattenSeq(rows(i)) \in Seq(C)
             /\ \A c : c \in ToSet(FlattenSeq(rows(i))) <=>
                  \E p \in ToSet(pairs), g \in ToSet(groups) : c = Combo(kept[i], p, g)
  <2>1. PICK s : s = rows(i)
    OBVIOUS
  <2>2. s \in Seq(Seq(C)) /\ Len(s) = Len(pairs) /\ \A j \in 1..Len(pairs) : s[j] = row(i, j)
    BY <1>5, <1>6, <2>1
  <2>3. PICK F : F = FlattenSeq(s)
    OBVIOUS
  <2>4. F \in Seq(C) /\ \A c : c \in ToSet(F) <=> \E j \in 1..Len(s) : c \in ToSet(s[j])
    BY <2>2, <2>3, MembersOfFlatten
  <2>5. \A c : c \in ToSet(F) <=>
          \E j \in 1..Len(pairs) : \E g \in ToSet(groups) : c = Combo(kept[i], pairs[j], g)
    <3> TAKE c
    <3>1. \A j \in 1..Len(pairs) :
            c \in ToSet(s[j]) <=> \E g \in ToSet(groups) : c = Combo(kept[i], pairs[j], g)
      <4> TAKE j \in 1..Len(pairs)
      <4> QED
        BY <1>6, <2>2
    <3> QED
      BY <2>2, <2>4, <3>1
  <2>6. \A c : c \in ToSet(F) <=>
          \E p \in ToSet(pairs), g \in ToSet(groups) : c = Combo(kept[i], p, g)
    BY <1>5, <2>5 DEF ToSet
  <2> QED
    BY <2>1, <2>3, <2>4, <2>6
<1> HIDE DEF rows
<1>8. parts \in Seq(Seq(C)) /\ Len(parts) = Len(kept)
      /\ \A i \in 1..Len(kept) : parts[i] = FlattenSeq(rows(i))
  BY <1>5, <1>7
<1> HIDE DEF parts
<1>9. list \in Seq(C) /\ \A c : c \in ToSet(list) <=> \E i \in 1..Len(kept) : c \in ToSet(parts[i])
  BY <1>4, <1>8, MembersOfFlatten
<1>10. \A c : c \in ToSet(list) <=>
         \E i \in 1..Len(kept) :
           \E p \in ToSet(pairs), g \in ToSet(groups) : c = Combo(kept[i], p, g)
  <2> TAKE c
  <2>1. \A i \in 1..Len(kept) :
          c \in ToSet(parts[i]) <=>
            \E p \in ToSet(pairs), g \in ToSet(groups) : c = Combo(kept[i], p, g)
    <3> TAKE i \in 1..Len(kept)
    <3> QED
      BY <1>7, <1>8
  <2> QED
    BY <1>9, <2>1
<1>11. \A c : c \in ToSet(list) <=>
         \E w \in ToSet(kept), p \in ToSet(pairs), g \in ToSet(groups) : c = Combo(w, p, g)
  BY <1>5, <1>10 DEF ToSet
<1> QED
  BY <1>1, <1>2, <1>3, <1>9, <1>11

\* The first of each signature stays.
LEMMA DeduplicatedIs ==
  ASSUME NEW C, NEW list \in Seq(C), NEW q, NEW map, NEW d, d = Deduplicated(q, map, list)
  PROVE  /\ d \in Seq(C)
         /\ ToSet(d) \subseteq ToSet(list)
         /\ \A c \in ToSet(list) : \E e \in ToSet(d) : Signature(q, map, e) = Signature(q, map, c)
         /\ \A i, j \in 1..Len(d) : Signature(q, map, d[i]) = Signature(q, map, d[j]) => i = j
         /\ Len(d) <= Len(list)
         /\ (\A i, j \in 1..Len(list) :
               Signature(q, map, list[i]) = Signature(q, map, list[j]) => i = j)
              => Len(d) = Len(list)
<1>1. PICK n \in Nat : n = Len(list)
  OBVIOUS
<1>2. DOMAIN list = 1..n
  BY <1>1
<1> DEFINE sig(i) == Signature(q, map, list[i])
<1> DEFINE K == {i \in 1..n : \A h \in 1..(i - 1) : sig(h) # sig(i)}
<1>3. PICK m, at : m = Cardinality(K) /\ at = InOrder(K)
  OBVIOUS
<1>4. K \in SUBSET Nat /\ K \in SUBSET (1..n) /\ IsFiniteSet(1..n) /\ Cardinality(1..n) = n
  BY FS_Interval
<1>5. IsFiniteSet(K) /\ Cardinality(K) <= n /\ (K = 1..n => Cardinality(K) = n)
  BY <1>4, FS_Subset
<1>6. /\ m \in Nat /\ at \in [1..m -> K]
      /\ \A i, j \in 1..m : i < j => at[i] < at[j]
      /\ \A e \in K : \E i \in 1..m : at[i] = e
  <2> HIDE DEF K
  <2> QED
    BY <1>3, <1>4, <1>5, InOrderSorted
<1>7. d = [i \in 1..m |-> list[at[i]]]
  <2>1. DOMAIN at = 1..m
    BY <1>6
  <2>2. at = InOrder({i \in DOMAIN list : \A h \in 1..(i - 1) :
                        Signature(q, map, list[h]) # Signature(q, map, list[i])})
    BY <1>2, <1>3
  <2> QED
    BY <2>1, <2>2 DEF Deduplicated
<1>8. \A i \in 1..m : at[i] \in K /\ at[i] \in 1..n
  BY <1>6
<1>9. d \in Seq(C) /\ Len(d) = m /\ \A i \in 1..m : d[i] = list[at[i]]
  <2>1. \A i \in 1..m : list[at[i]] \in C
    BY <1>1, <1>8
  <2> QED
    BY <1>6, <1>7, <2>1
<1>10. ToSet(d) \subseteq ToSet(list)
  BY <1>2, <1>8, <1>9 DEF ToSet
<1>11. ASSUME NEW i \in 1..n PROVE \E k \in 1..m : sig(at[k]) = sig(i)
  <2> DEFINE H == {h \in 1..n : sig(h) = sig(i)}
  <2>1. i \in H /\ H \in SUBSET Nat /\ H # {}
    OBVIOUS
  <2>2. PICK h : h = Min(H)
    OBVIOUS
  <2>3. h \in H /\ \A x \in H : h <= x
    <3> HIDE DEF H
    <3> QED
      BY <2>1, <2>2, LeastExists
  <2>4. \A g \in 1..(h - 1) : sig(g) # sig(h)
    <3> SUFFICES ASSUME NEW g \in 1..(h - 1), sig(g) = sig(h) PROVE FALSE
      OBVIOUS
    <3>1. h \in 1..n /\ g \in 1..n /\ g < h /\ sig(h) = sig(i)
      BY <2>3
    <3>2. g \in H
      BY <3>1
    <3> QED
      BY <2>3, <3>1, <3>2
  <2>5. h \in K /\ sig(h) = sig(i)
    BY <2>3, <2>4
  <2> HIDE DEF K
  <2> QED
    BY <1>6, <2>5
<1>12. \A c \in ToSet(list) : \E e \in ToSet(d) : Signature(q, map, e) = Signature(q, map, c)
  BY <1>2, <1>9, <1>11 DEF ToSet
<1>13. ASSUME NEW i \in 1..m, NEW j \in 1..m, sig(at[i]) = sig(at[j]) PROVE i = j
  <2>1. at[i] = at[j]
    <3>1. at[i] \in 1..n /\ at[j] \in 1..n
      BY <1>8
    <3>2. \A h \in 1..(at[i] - 1) : sig(h) # sig(at[i])
      BY <1>8
    <3>3. \A h \in 1..(at[j] - 1) : sig(h) # sig(at[j])
      BY <1>8
    <3>4. ~(at[i] < at[j]) /\ ~(at[j] < at[i])
      <4>1. at[i] < at[j] => at[i] \in 1..(at[j] - 1)
        BY <3>1
      <4>2. at[j] < at[i] => at[j] \in 1..(at[i] - 1)
        BY <3>1
      <4> HIDE DEF sig
      <4> QED
        BY <1>13, <3>2, <3>3, <4>1, <4>2
    <3> QED
      BY <3>1, <3>4
  <2> HIDE DEF K
  <2>2. ~(i < j) /\ ~(j < i)
    <3>1. i < j => at[i] < at[j]
      BY <1>6
    <3>2. j < i => at[j] < at[i]
      BY <1>6
    <3>3. at[i] \in Nat /\ at[j] \in Nat
      BY <1>8
    <3> QED
      BY <2>1, <3>1, <3>2, <3>3
  <2> QED
    BY <1>6, <2>2
<1>14. (\A i, j \in 1..n : sig(i) = sig(j) => i = j) => m = n
  <2> SUFFICES ASSUME \A i, j \in 1..n : sig(i) = sig(j) => i = j PROVE K = 1..n
    BY <1>3, <1>5
  <2>1. ASSUME NEW i \in 1..n, NEW h \in 1..(i - 1) PROVE sig(h) # sig(i)
    <3>1. h \in 1..n /\ h # i
      OBVIOUS
    <3> QED
      BY <3>1
  <2> QED
    BY <2>1
<1> HIDE DEF K
<1>15. m <= n
  BY <1>3, <1>5
<1>16. \A i, j \in 1..m : Signature(q, map, d[i]) = Signature(q, map, d[j]) => i = j
  BY <1>9, <1>13
<1> QED
  BY <1>1, <1>9, <1>10, <1>12, <1>14, <1>15, <1>16

-----------------------------------------------------------------------------
(* Windows one after the other.                                              *)

LEMMA FitsTogether ==
  ASSUME NEW L, NEW a \in Seq(KlineWindows(L)), NEW b \in Seq(KlineWindows(L)), Fits(a), Fits(b),
         \A v \in ToSet(a), w \in ToSet(b) : w.kind # "recent" => v.label # w.label
  PROVE  Fits(a \o b)
<1>1. PICK m, n : m = Len(a) /\ n = Len(b)
  OBVIOUS
<1>2. m \in Nat /\ n \in Nat /\ DOMAIN a = 1..m /\ DOMAIN b = 1..n
  BY <1>1
<1>3. PICK c : c = a \o b
  OBVIOUS
<1>4. /\ Len(c) = m + n
      /\ \A i \in 1..m : c[i] = a[i]
      /\ \A i \in (m + 1)..(m + n) : c[i] = b[i - m]
  BY <1>1, <1>3, ConcatProperties
<1> SUFFICES Fits(c)
  BY <1>3
<1> SUFFICES ASSUME NEW i \in 1..(m + n), NEW j \in 1..(m + n), i < j, c[j].kind # "recent"
    PROVE  c[i].label # c[j].label
  <2>1. Len(c) = m + n
    BY <1>4
  <2> QED
    BY <2>1, Zenon DEF Fits
<1>5. CASE j \in 1..m
  <2>1. i \in 1..m /\ c[i] = a[i] /\ c[j] = a[j]
    BY <1>2, <1>4, <1>5
  <2> QED
    BY <1>1, <1>5, <2>1 DEF Fits
<1>6. CASE j \in (m + 1)..(m + n) /\ i \in 1..m
  <2>1. c[i] = a[i] /\ c[j] = b[j - m] /\ j - m \in 1..n
    BY <1>2, <1>4, <1>6
  <2>2. a[i] \in ToSet(a) /\ b[j - m] \in ToSet(b)
    BY <1>2, <1>6, <2>1 DEF ToSet
  <2> QED
    BY <2>1, <2>2
<1>7. CASE j \in (m + 1)..(m + n) /\ i \in (m + 1)..(m + n)
  <2>1. c[i] = b[i - m] /\ c[j] = b[j - m] /\ i - m \in 1..n /\ j - m \in 1..n /\ i - m < j - m
    BY <1>2, <1>4, <1>7
  <2> QED
    BY <1>1, <2>1 DEF Fits
<1> QED
  BY <1>2, <1>5, <1>6, <1>7

\* A finite set in order is a sequence of it without repetition.
LEMMA InOrderList ==
  ASSUME NEW S \in SUBSET Nat, IsFiniteSet(S), NEW s, s = InOrder(S)
  PROVE  /\ s \in Seq(S)
         /\ ToSet(s) = S
         /\ \A i, j \in 1..Len(s) : i # j => s[i] # s[j]
<1>1. PICK n \in Nat : n = Cardinality(S)
  BY FS_CardinalityType
<1>2. /\ s \in [1..n -> S]
      /\ \A i, j \in 1..n : i < j => s[i] < s[j]
      /\ \A e \in S : \E i \in 1..n : s[i] = e
  BY <1>1, InOrderSorted
<1>3. s \in Seq(S) /\ Len(s) = n /\ DOMAIN s = 1..n
  BY <1>2
<1>4. ToSet(s) = S
  BY <1>2, <1>3 DEF ToSet
<1>5. \A i, j \in 1..n : i # j => s[i] # s[j]
  <2> SUFFICES ASSUME NEW i \in 1..n, NEW j \in 1..n, i # j PROVE s[i] # s[j]
    OBVIOUS
  <2>1. i < j \/ j < i
    OBVIOUS
  <2>2. s[i] \in Nat /\ s[j] \in Nat
    BY <1>2
  <2> QED
    BY <1>2, <2>1, <2>2
<1> QED
  BY <1>3, <1>4, <1>5

Labels == {<<>>} \cup {<<y>> : y \in Nat} \cup {<<y, z>> : y \in Nat, z \in Nat}

\* Calendar years of the same rows.
YearWindows(R, ys) == [i \in DOMAIN ys |-> YearWindow(R, ys[i])]

LEMMA YearWindowsFit ==
  ASSUME NEW R \in SUBSET Dates, NEW Y \in SUBSET Nat, IsFiniteSet(Y), NEW ys, ys = InOrder(Y),
         NEW ws, ws = YearWindows(R, ys), NEW L, \A y \in Nat : <<y>> \in L
  PROVE  /\ ws \in Seq(KlineWindows(L))
         /\ ToSet(ws) = {YearWindow(R, y) : y \in Y}
         /\ Fits(ws)
         /\ DOMAIN ws = DOMAIN ys
<1>1. ys \in Seq(Y) /\ ToSet(ys) = Y /\ \A i, j \in 1..Len(ys) : i # j => ys[i] # ys[j]
  BY InOrderList
<1>2. PICK n \in Nat : n = Len(ys) /\ DOMAIN ys = 1..n
  BY <1>1
<1>3. \A i \in 1..n : ys[i] \in Y /\ ys[i] \in Nat
  <2>1. ys \in Seq(Y) /\ Len(ys) = n
    BY <1>1, <1>2
  <2>2. \A i \in 1..n : ys[i] \in Y
    BY <2>1
  <2> QED
    BY <2>2
<1>4. \A y \in Nat : YearWindow(R, y) \in KlineWindows(L) /\ YearWindow(R, y).label = <<y>>
  BY DEF YearWindow, KlineWindow, KlineWindows
<1>5. ws = [i \in 1..n |-> YearWindow(R, ys[i])]
  BY <1>2 DEF YearWindows
<1>6. ws \in Seq(KlineWindows(L)) /\ Len(ws) = n /\ DOMAIN ws = 1..n
      /\ \A i \in 1..n : ws[i] = YearWindow(R, ys[i])
  BY <1>3, <1>4, <1>5
<1>7. ToSet(ws) = {YearWindow(R, ys[i]) : i \in 1..n}
  BY <1>6 DEF ToSet
<1>8. Y = {ys[i] : i \in 1..n}
  BY <1>1, <1>2 DEF ToSet
<1>9. Fits(ws)
  <2> SUFFICES ASSUME NEW i \in 1..n, NEW j \in 1..n, i < j PROVE ws[i].label # ws[j].label
    BY <1>6 DEF Fits
  <2>1. ws[i].label = <<ys[i]>> /\ ws[j].label = <<ys[j]>>
    BY <1>3, <1>4, <1>6
  <2>2. ys[i] # ys[j]
    BY <1>1, <1>2
  <2> QED
    BY <2>1, <2>2
<1>10. ToSet(ws) = {YearWindow(R, y) : y \in Y}
  BY <1>7, <1>8
<1>11. DOMAIN ws = DOMAIN ys
  BY <1>2, <1>6
<1> QED
  BY <1>6, <1>9, <1>10, <1>11

LEMMA RowsTyped ==
  ASSUME NEW s \in Stretch, NEW from, NEW to
  PROVE  /\ RowsBetween(s, from, to) \in SUBSET Dates
         /\ RowsBetween(s, from, to) \in SUBSET Nat
         /\ s.first \in Nat /\ s.last \in Nat /\ s.first <= s.last
         /\ s.first \in Dates /\ s.last \in Dates
<1>1. s.first \in Dates /\ s.last \in Dates /\ s.first <= s.last
  BY DEF Stretch
<1>2. s.first \in Nat /\ s.last \in Nat /\ 0..s.last \subseteq Dates
  BY <1>1, PlanAssumption
<1>3. RowsBetween(s, from, to) \subseteq s.first..s.last
  BY DEF RowsBetween
<1>4. s.first..s.last \subseteq 0..s.last
  BY <1>2
<1>5. Dates \subseteq Nat
  BY PlanAssumption
<1> QED
  BY <1>1, <1>2, <1>3, <1>4, <1>5

-----------------------------------------------------------------------------
(* C5, C7 and C1.1.                                                          *)

Inside(q) == RowsBetween(q.data, From(q), To(q))

LEMMA AutoIs ==
  ASSUME NEW q \in AutoRequests
  PROVE  /\ q.range \in Stretch /\ q.data \in Stretch /\ q.nPlus1 \in BOOLEAN
         /\ q.modes \in SUBSET {"recent", "full"} /\ q.pairs \in Parameters
         /\ q.service \in Services
         /\ From(q) \in Nat /\ To(q) \in Nat
         /\ From(q) >= q.range.first /\ From(q) >= q.data.first
         /\ From(q) = q.range.first \/ From(q) = q.data.first
         /\ To(q) = q.range.last /\ q.range.first <= To(q)
         /\ To(q) \in Dates
<1>1. /\ q.range \in Stretch /\ q.data \in Stretch /\ q.nPlus1 \in BOOLEAN
      /\ q.modes \in SUBSET {"recent", "full"} /\ q.pairs \in Parameters
      /\ q.service \in Services
  BY DEF AutoRequests
<1>2. PICK a, b : a = q.range.first /\ b = q.data.first
  OBVIOUS
<1>3. a \in Nat /\ b \in Nat /\ q.range.last \in Nat /\ q.range.last \in Dates /\ a <= q.range.last
  BY <1>1, <1>2, RowsTyped
<1>4. From(q) = IF a >= b THEN a ELSE b
  BY <1>2, <1>3, MaxPair DEF From
<1> QED
  BY <1>1, <1>2, <1>3, <1>4 DEF To

\* The rows of the range; when there are any, the first is the one it begins with.
LEMMA InsideIs ==
  ASSUME NEW q \in AutoRequests
  PROVE  /\ Inside(q) \in SUBSET Dates /\ Inside(q) \in SUBSET Nat
         /\ \A d \in Inside(q) : From(q) <= d /\ d <= To(q)
         /\ \A d \in Nat : d \in Inside(q) <=>
              d \in q.data.first..q.data.last /\ q.range.first <= d /\ d <= To(q)
         /\ Inside(q) # {} => Min(Inside(q)) = From(q)
         /\ Between(q, 0, To(q)) = Inside(q)
<1>1. /\ From(q) \in Nat /\ To(q) \in Nat /\ q.data \in Stretch /\ q.range \in Stretch
      /\ From(q) >= q.range.first /\ From(q) >= q.data.first
      /\ From(q) = q.range.first \/ From(q) = q.data.first
  BY AutoIs
<1>2. q.data.first \in Nat /\ q.data.last \in Nat /\ q.range.first \in Nat
  BY <1>1, RowsTyped
<1>3. Inside(q) \in SUBSET Dates /\ Inside(q) \in SUBSET Nat
  BY <1>1, RowsTyped DEF Inside
<1>4. \A d \in Inside(q) : From(q) <= d /\ d <= To(q)
  BY DEF Inside, RowsBetween
<1>5. \A d \in Nat : d \in Inside(q) <=>
        d \in q.data.first..q.data.last /\ q.range.first <= d /\ d <= To(q)
  BY <1>1, <1>2 DEF Inside, RowsBetween
<1>6. ASSUME Inside(q) # {} PROVE Min(Inside(q)) = From(q)
  <2>1. PICK d \in Inside(q) : d \in Nat
    BY <1>3, <1>6
  <2>2. From(q) \in Inside(q)
    BY <1>1, <1>2, <1>4, <1>5, <2>1
  <2>3. Inside(q) \in SUBSET Int
    BY <1>3
  <2> QED
    BY <1>4, <2>2, <2>3, MinIs
<1>7. Between(q, 0, To(q)) = Inside(q)
  BY <1>1, <1>2 DEF Between, Inside, RowsBetween
<1> QED
  BY <1>3, <1>4, <1>5, <1>6, <1>7

LEMMA SpansAre ==
  ASSUME NEW q \in AutoRequests, NEW s, s = RecentSpans(q)
  PROVE  s \in Seq(Nat)
<1>1. PICK n : n = Year(q.range.last) - Year(q.range.first)
  OBVIOUS
<1>2. q.range.first \in Nat /\ q.range.last \in Nat /\ q.range.first <= q.range.last
  BY AutoIs, RowsTyped
<1>3. n \in Nat
  <2>1. Year(q.range.first) <= Year(q.range.last)
    BY <1>2, YearsGrow
  <2>2. Year(q.range.first) \in Nat /\ Year(q.range.last) \in Nat
    BY <1>2, YearIs
  <2> QED
    BY <1>1, <2>1, <2>2
<1>4. PICK S : S = ({1} \cup {2 * i : i \in 1..n}) \ q.excluded
  OBVIOUS
<1>5. S \in SUBSET Nat /\ 2 * n + 1 \in Nat /\ \A x \in S : x <= 2 * n + 1
  BY <1>3, <1>4
<1>6. IsFiniteSet(S)
  BY <1>5, FS_BoundedSetOfNaturals
<1>7. s = InOrder(S)
  BY <1>1, <1>4 DEF RecentSpans
<1>8. s \in Seq(S)
  BY <1>5, <1>6, <1>7, InOrderList
<1>9. PICK m \in Nat : m = Len(s) /\ s \in [1..m -> S]
  BY <1>8
<1>10. s = [i \in 1..m |-> s[i]] /\ \A i \in 1..m : s[i] \in Nat
  BY <1>5, <1>9
<1> QED
  BY <1>10

RecentRows(q, span) == {d \in Inside(q) : d + span >= To(q)}

LEMMA RecentIs ==
  ASSUME NEW q \in AutoRequests, NEW span \in Nat, NEW w, w = RecentWindow(q, span)
  PROVE  /\ w \in KlineWindows(Labels)
         /\ w.kind = "recent" /\ w.rows = RecentRows(q, span)
         /\ w.rows = {} => w.label = <<>>
         /\ w.rows # {} => w.label = <<Year(Max(w.rows)), Year(Min(w.rows))>>
         /\ \A y \in Nat : w.label # <<y>>
<1>1. PICK R : R = RecentRows(q, span)
  OBVIOUS
<1>2. R \in SUBSET Dates /\ R \in SUBSET Nat /\ To(q) \in Nat /\ \A d \in R : d <= To(q)
  BY <1>1, AutoIs, InsideIs DEF RecentRows
<1>3. w = KlineWindow("recent", IF R = {} THEN <<>> ELSE <<Year(Max(R)), Year(Min(R))>>, R)
  BY <1>1 DEF RecentWindow, RecentRows, Inside
<1>4. CASE R = {}
  BY <1>1, <1>2, <1>3, <1>4 DEF KlineWindow, KlineWindows, Labels
<1>5. CASE R # {}
  <2>1. Max(R) \in Nat /\ Min(R) \in Nat
    BY <1>2, <1>5, GreatestBelow, LeastExists
  <2>2. PICK y \in Nat, z \in Nat : y = Year(Max(R)) /\ z = Year(Min(R))
    BY <2>1, YearIs
  <2>3. w = [kind |-> "recent", label |-> <<y, z>>, rows |-> R]
    BY <1>3, <1>5, <2>2 DEF KlineWindow
  <2>4. <<y, z>> \in Labels /\ \A x \in Nat : <<y, z>> # <<x>>
    BY DEF Labels
  <2> QED
    BY <1>1, <1>2, <1>5, <2>2, <2>3, <2>4 DEF KlineWindows
<1> QED
  BY <1>4, <1>5

LEMMA RecentsAre ==
  ASSUME NEW q \in AutoRequests, NEW ws, ws = Recents(q)
  PROVE  /\ ws \in Seq(KlineWindows(Labels))
         /\ ToSet(ws) = IF "recent" \in q.modes
                        THEN {RecentWindow(q, span) : span \in ToSet(RecentSpans(q))} ELSE {}
         /\ Fits(ws)
<1>1. CASE "recent" \notin q.modes
  <2>1. ws = <<>>
    BY <1>1 DEF Recents
  <2> QED
    BY <1>1, <2>1 DEF ToSet, Fits
<1>2. CASE "recent" \in q.modes
  <2>1. PICK spans \in Seq(Nat) : spans = RecentSpans(q)
    BY SpansAre
  <2>2. PICK n \in Nat : n = Len(spans) /\ DOMAIN spans = 1..n
    BY <2>1
  <2>3. ws = [i \in 1..n |-> RecentWindow(q, spans[i])]
    BY <1>2, <2>1, <2>2 DEF Recents
  <2>4. \A i \in 1..n : spans[i] \in Nat
    BY <2>2
  <2>5. \A i \in 1..n : RecentWindow(q, spans[i]) \in KlineWindows(Labels)
                        /\ RecentWindow(q, spans[i]).kind = "recent"
    BY <2>4, RecentIs
  <2>6. ws \in Seq(KlineWindows(Labels)) /\ Len(ws) = n /\ DOMAIN ws = 1..n
        /\ \A i \in 1..n : ws[i] = RecentWindow(q, spans[i])
    BY <2>3, <2>5
  <2>7. Fits(ws)
    BY <2>5, <2>6 DEF Fits
  <2>8. ToSet(ws) = {RecentWindow(q, spans[i]) : i \in 1..n}
    BY <2>6 DEF ToSet
  <2>9. ToSet(spans) = {spans[i] : i \in 1..n}
    BY <2>2 DEF ToSet
  <2>10. ToSet(ws) = {RecentWindow(q, span) : span \in ToSet(RecentSpans(q))}
    BY <2>1, <2>8, <2>9
  <2> QED
    BY <1>2, <2>6, <2>7, <2>10
<1> QED
  BY <1>1, <1>2

LEMMA PlanYearsFinite ==
  ASSUME NEW q \in AutoRequests
  PROVE  PlanYears(q) \in SUBSET Nat /\ IsFiniteSet(PlanYears(q))
<1>1. Year(From(q)) \in Nat /\ Year(To(q)) \in Nat
  BY AutoIs, YearIs
<1> QED
  BY <1>1, FS_Interval DEF PlanYears

LEMMA FullYearsAre ==
  ASSUME NEW q \in AutoRequests, NEW ws, ws = FullYears(q)
  PROVE  /\ ws \in Seq(KlineWindows(Labels))
         /\ ToSet(ws) = IF "full" \in q.modes
                        THEN {YearWindow(Inside(q), y) : y \in PlanYears(q)} ELSE {}
         /\ Fits(ws)
<1>1. CASE "full" \notin q.modes
  <2>1. ws = <<>>
    BY <1>1 DEF FullYears
  <2> QED
    BY <1>1, <2>1 DEF ToSet, Fits
<1>2. CASE "full" \in q.modes
  <2>1. PICK R : R = Inside(q)
    OBVIOUS
  <2>2. PICK Y, ys : Y = PlanYears(q) /\ ys = InOrder(Y)
    OBVIOUS
  <2>3. ws = YearWindows(R, ys)
    BY <1>2, <2>1, <2>2 DEF FullYears, Inside, YearWindows
  <2>4. \A y \in Nat : <<y>> \in Labels
    BY DEF Labels
  <2>5. R \in SUBSET Dates /\ Y \in SUBSET Nat /\ IsFiniteSet(Y)
    BY <2>1, <2>2, InsideIs, PlanYearsFinite
  <2>6. ws \in Seq(KlineWindows(Labels)) /\ ToSet(ws) = {YearWindow(R, y) : y \in Y} /\ Fits(ws)
    BY <2>2, <2>3, <2>4, <2>5, YearWindowsFit
  <2> QED
    BY <1>2, <2>1, <2>2, <2>6
<1> QED
  BY <1>1, <1>2

LEMMA WholeIs ==
  ASSUME NEW q \in AutoRequests, NEW w, w = Whole(q)
  PROVE  /\ w \in KlineWindows(Labels)
         /\ w.kind = "whole" /\ w.rows = Inside(q)
         /\ w.label = <<Year(To(q)), Year(From(q))>>
<1>1. PICK y \in Nat, z \in Nat : y = Year(To(q)) /\ z = Year(From(q))
  BY AutoIs, YearIs
<1>2. w = [kind |-> "whole", label |-> <<y, z>>, rows |-> Inside(q)]
  BY <1>1 DEF Whole, KlineWindow, Inside
<1>3. <<y, z>> \in Labels /\ Inside(q) \in SUBSET Dates
  BY InsideIs DEF Labels
<1> QED
  BY <1>1, <1>2, <1>3 DEF KlineWindows

LEMMA AutoWindowsAre ==
  ASSUME NEW q \in AutoRequests, NEW ws, ws = AutoWindows(q)
  PROVE  /\ ws \in Seq(KlineWindows(Labels))
         /\ Fits(ws)
         /\ \A w : w \in ToSet(ws) <=>
              \/ w = Whole(q)
              \/ /\ q.nPlus1 /\ "recent" \in q.modes
                 /\ \E span \in ToSet(RecentSpans(q)) : w = RecentWindow(q, span)
              \/ /\ q.nPlus1 /\ "full" \in q.modes
                 /\ \E y \in PlanYears(q) : w = YearWindow(Inside(q), y)
<1>1. PICK W : W = KlineWindows(Labels)
  OBVIOUS
<1>2. PICK a, b, c : a = <<Whole(q)>> /\ b = Recents(q) /\ c = FullYears(q)
  OBVIOUS
<1>3. a \in Seq(W) /\ ToSet(a) = {Whole(q)} /\ Fits(a)
  <2>1. Whole(q) \in W
    BY <1>1, WholeIs
  <2>2. a \in Seq(W) /\ Len(a) = 1 /\ DOMAIN a = {1} /\ a[1] = Whole(q)
    BY <1>2, <2>1
  <2>3. ToSet(a) = {Whole(q)}
    BY <2>2 DEF ToSet
  <2>4. Fits(a)
    BY <2>2 DEF Fits
  <2> QED
    BY <2>2, <2>3, <2>4
<1>4. /\ b \in Seq(W) /\ Fits(b)
      /\ ToSet(b) = IF "recent" \in q.modes
                    THEN {RecentWindow(q, span) : span \in ToSet(RecentSpans(q))} ELSE {}
  BY <1>1, <1>2, RecentsAre
<1>5. /\ c \in Seq(W) /\ Fits(c)
      /\ ToSet(c) = IF "full" \in q.modes
                    THEN {YearWindow(Inside(q), y) : y \in PlanYears(q)} ELSE {}
  BY <1>1, <1>2, FullYearsAre
<1>6. \A w \in ToSet(b) : w.kind = "recent" /\ \A y \in Nat : w.label # <<y>>
  <2>1. PICK spans \in Seq(Nat) : spans = RecentSpans(q)
    BY SpansAre
  <2>2. \A span \in ToSet(spans) : span \in Nat
    BY <2>1 DEF ToSet
  <2> TAKE w \in ToSet(b)
  <2>3. PICK span \in ToSet(spans) : w = RecentWindow(q, span)
    BY <1>4, <2>1
  <2> QED
    BY <2>2, <2>3, RecentIs
<1>7. \A w \in ToSet(c) : \E y \in Nat : w.label = <<y>>
  BY <1>5, PlanYearsFinite DEF YearWindow, KlineWindow
<1>8. CASE ~q.nPlus1
  <2>1. ws = a
    BY <1>2, <1>8 DEF AutoWindows
  <2> QED
    BY <1>1, <1>3, <1>8, <2>1
<1>9. CASE q.nPlus1
  <2>1. PICK ab : ab = a \o b
    OBVIOUS
  <2>2. ab \in Seq(W) /\ ToSet(ab) = ToSet(a) \cup ToSet(b)
    BY <1>3, <1>4, <2>1, MembersOfConcat
  <2>3. Fits(ab)
    BY <1>1, <1>3, <1>4, <1>6, <2>1, FitsTogether
  <2>4. ws = ab \o c
    BY <1>2, <1>9, <2>1 DEF AutoWindows
  <2>5. ws \in Seq(W) /\ ToSet(ws) = ToSet(ab) \cup ToSet(c)
    BY <1>5, <2>2, <2>4, MembersOfConcat
  <2>6. \A v \in ToSet(ab) : \A y \in Nat : v.label # <<y>>
    <3>1. \A y \in Nat : Whole(q).label # <<y>>
      BY WholeIs
    <3> QED
      BY <1>3, <1>6, <2>2, <3>1
  <2>7. Fits(ws)
    <3>1. \A v \in ToSet(ab), w \in ToSet(c) : w.kind # "recent" => v.label # w.label
      BY <1>7, <2>6
    <3> QED
      BY <1>1, <1>5, <2>2, <2>3, <2>4, <3>1, FitsTogether
  <2>8. ToSet(ws) = ToSet(a) \cup ToSet(b) \cup ToSet(c)
    BY <2>2, <2>5
  <2>9. \A w : w \in ToSet(b) <=>
          "recent" \in q.modes /\ \E span \in ToSet(RecentSpans(q)) : w = RecentWindow(q, span)
    BY <1>4
  <2>10. \A w : w \in ToSet(c) <=>
           "full" \in q.modes /\ \E y \in PlanYears(q) : w = YearWindow(Inside(q), y)
    BY <1>5
  <2>11. \A w : w \in ToSet(ws) <=>
              \/ w = Whole(q)
              \/ /\ q.nPlus1 /\ "recent" \in q.modes
                 /\ \E span \in ToSet(RecentSpans(q)) : w = RecentWindow(q, span)
              \/ /\ q.nPlus1 /\ "full" \in q.modes
                 /\ \E y \in PlanYears(q) : w = YearWindow(Inside(q), y)
    BY <1>3, <1>9, <2>8, <2>9, <2>10
  <2> QED
    BY <1>1, <2>5, <2>7, <2>11
<1> QED
  BY <1>8, <1>9, AutoIs

(***************************************************************************)
(* The rows that are asked for are those of the windows.                   *)
(***************************************************************************)
Asked(q) == (AskedYears(q) \cup AskedRecent(q) \cup AskedWhole(q)) \ {{}}

LEMMA YearAsked ==
  ASSUME NEW q \in AutoRequests, NEW y \in Years
  PROVE  /\ Between(q, 2 * y, Min({To(q), 2 * y + 1})) = {d \in Inside(q) : Year(d) = y}
         /\ y \notin PlanYears(q) => {d \in Inside(q) : Year(d) = y} = {}
<1>1. y \in Nat
  BY YearIs, PlanAssumption DEF Years
<1>2. PICK t \in Nat : t = To(q)
  BY AutoIs
<1>3. Min({t, 2 * y + 1}) = IF t <= 2 * y + 1 THEN t ELSE 2 * y + 1
  <2>1. CASE t <= 2 * y + 1
    <3>1. {t, 2 * y + 1} \in SUBSET Int /\ t \in {t, 2 * y + 1}
          /\ \A x \in {t, 2 * y + 1} : t <= x
      BY <1>1, <2>1
    <3> QED
      BY <2>1, <3>1, MinIs
  <2>2. CASE ~(t <= 2 * y + 1)
    <3>1. {t, 2 * y + 1} \in SUBSET Int /\ 2 * y + 1 \in {t, 2 * y + 1}
          /\ \A x \in {t, 2 * y + 1} : 2 * y + 1 <= x
      BY <1>1, <2>2
    <3> QED
      BY <2>2, <3>1, MinIs
  <2> QED
    BY <2>1, <2>2
<1>4. PICK e : e = Min({t, 2 * y + 1})
  OBVIOUS
<1>5. \A d \in Nat : d <= e <=> d <= t /\ d <= 2 * y + 1
  BY <1>1, <1>3, <1>4
<1>6. q.data.first..q.data.last \subseteq Nat
  <2>1. q.data.first \in Nat /\ q.data.last \in Nat
    BY AutoIs, RowsTyped
  <2> QED
    BY <2>1
<1>7. \A d : d \in Between(q, 2 * y, e) <=>
        /\ d \in q.data.first..q.data.last /\ d >= q.range.first /\ 2 * y <= d /\ d <= e
  BY DEF Between
<1>8. ASSUME NEW d
      PROVE  d \in Between(q, 2 * y, e) <=> d \in Inside(q) /\ Year(d) = y
  <2>1. d \in Between(q, 2 * y, e) \/ d \in Inside(q) => d \in Nat
    BY <1>6, <1>7, InsideIs
  <2>2. CASE d \in Nat
    <3>1. Year(d) = y <=> 2 * y <= d /\ d <= 2 * y + 1
      BY <1>1, <2>2, SameYear
    <3>2. d \in Inside(q) <=> d \in q.data.first..q.data.last /\ q.range.first <= d /\ d <= t
      BY <1>2, <2>2, InsideIs
    <3>3. q.range.first \in Nat
      BY AutoIs, RowsTyped
    <3> QED
      BY <1>5, <1>7, <2>2, <3>1, <3>2, <3>3
  <2> QED
    BY <2>1, <2>2
<1>9. Between(q, 2 * y, e) = {d \in Inside(q) : Year(d) = y}
  BY <1>8
<1>10. ASSUME y \notin PlanYears(q), NEW d \in Inside(q), Year(d) = y PROVE FALSE
  <2>1. d \in Nat /\ From(q) <= d /\ d <= To(q) /\ From(q) \in Nat /\ To(q) \in Nat
    BY AutoIs, InsideIs
  <2>2. Year(From(q)) <= y /\ y <= Year(To(q))
    BY <1>10, <2>1, YearsGrow
  <2>3. Year(From(q)) \in Nat /\ Year(To(q)) \in Nat
    BY <2>1, YearIs
  <2> QED
    BY <1>1, <1>10, <2>2, <2>3 DEF PlanYears
<1> QED
  BY <1>2, <1>4, <1>9, <1>10

LEMMA PlanYearsKnown ==
  ASSUME NEW q \in AutoRequests, NEW y \in PlanYears(q)
  PROVE  y \in Years
<1>1. To(q) \in Dates /\ To(q) \in Nat /\ From(q) \in Nat
  BY AutoIs
<1>2. Year(To(q)) \in Nat /\ 2 * Year(To(q)) <= To(q) /\ Year(From(q)) \in Nat
  BY <1>1, YearIs
<1>3. y \in Nat /\ y <= Year(To(q))
  BY <1>2 DEF PlanYears
<1>4. 2 * y \in 0..To(q)
  BY <1>1, <1>2, <1>3
<1>5. 2 * y \in Dates
  BY <1>1, <1>4, PlanAssumption
<1>6. Year(2 * y) = y
  BY <1>3, SameYear
<1> QED
  BY <1>5, <1>6 DEF Years

LEMMA WindowsAreAsked ==
  ASSUME NEW q \in AutoRequests, NEW w \in ToSet(AutoWindows(q)), w.rows # {}
  PROVE  w.rows \in Asked(q)
<1>1. CASE w = Whole(q)
  <2>1. w.rows = Between(q, 0, To(q))
    BY <1>1, WholeIs, InsideIs
  <2> QED
    BY <2>1 DEF Asked, AskedWhole
<1>2. CASE q.nPlus1 /\ "recent" \in q.modes
           /\ \E span \in ToSet(RecentSpans(q)) : w = RecentWindow(q, span)
  <2>1. PICK span \in ToSet(RecentSpans(q)) : w = RecentWindow(q, span)
    BY <1>2
  <2>2. span \in Nat
    BY SpansAre DEF ToSet
  <2>3. w.rows = {d \in Between(q, 0, To(q)) : d + span >= To(q)}
    BY <2>1, <2>2, RecentIs, InsideIs DEF RecentRows
  <2>4. w.rows \in AskedRecent(q)
    BY <1>2, <2>1, <2>3 DEF AskedRecent
  <2> QED
    BY <2>4 DEF Asked
<1>3. CASE q.nPlus1 /\ "full" \in q.modes
           /\ \E y \in PlanYears(q) : w = YearWindow(Inside(q), y)
  <2>1. PICK y \in PlanYears(q) : w = YearWindow(Inside(q), y)
    BY <1>3
  <2>2. y \in Years
    BY <2>1, PlanYearsKnown
  <2>3. w.rows = Between(q, 2 * y, Min({To(q), 2 * y + 1}))
    BY <2>1, <2>2, YearAsked DEF YearWindow, KlineWindow
  <2>4. w.rows \in AskedYears(q)
    BY <1>3, <2>2, <2>3 DEF AskedYears
  <2> QED
    BY <2>4 DEF Asked
<1> QED
  BY <1>1, <1>2, <1>3, AutoWindowsAre

LEMMA AskedAreWindows ==
  ASSUME NEW q \in AutoRequests, NEW r \in Asked(q)
  PROVE  /\ r # {}
         /\ \E w \in ToSet(AutoWindows(q)) :
              w.rows = r /\ (w.kind = "recent" => r \in AskedRecent(q))
<1>1. r # {} /\ (r \in AskedWhole(q) \/ r \in AskedRecent(q) \/ r \in AskedYears(q))
  BY DEF Asked
<1>2. CASE r \in AskedWhole(q)
  <2>1. r = Whole(q).rows /\ Whole(q).kind = "whole"
    BY <1>2, WholeIs, InsideIs DEF AskedWhole
  <2>2. Whole(q) \in ToSet(AutoWindows(q))
    BY AutoWindowsAre
  <2> QED
    BY <1>1, <2>1, <2>2
<1>3. CASE r \in AskedRecent(q)
  <2>1. q.nPlus1 /\ "recent" \in q.modes
    BY <1>3 DEF AskedRecent
  <2>2. PICK span \in ToSet(RecentSpans(q)) : r = {d \in Between(q, 0, To(q)) : d + span >= To(q)}
    BY <1>3, <2>1 DEF AskedRecent
  <2>3. span \in Nat
    BY SpansAre DEF ToSet
  <2>4. r = RecentWindow(q, span).rows
    BY <2>2, <2>3, RecentIs, InsideIs DEF RecentRows
  <2>5. RecentWindow(q, span) \in ToSet(AutoWindows(q))
    BY <2>1, <2>2, AutoWindowsAre
  <2> QED
    BY <1>1, <1>3, <2>4, <2>5
<1>4. CASE r \in AskedYears(q)
  <2>1. q.nPlus1 /\ "full" \in q.modes
    BY <1>4 DEF AskedYears
  <2>2. PICK y \in Years : r = Between(q, 2 * y, Min({To(q), 2 * y + 1}))
    BY <1>4, <2>1 DEF AskedYears
  <2>3. r = {d \in Inside(q) : Year(d) = y} /\ y \in PlanYears(q)
    BY <1>1, <2>2, YearAsked
  <2>4. PICK w : w = YearWindow(Inside(q), y)
    OBVIOUS
  <2>5. w.rows = r /\ w.kind = "year"
    BY <2>3, <2>4 DEF YearWindow, KlineWindow
  <2>6. w \in ToSet(AutoWindows(q))
    BY <2>1, <2>3, <2>4, AutoWindowsAre
  <2> QED
    BY <1>1, <2>5, <2>6
<1> QED
  BY <1>1, <1>2, <1>3, <1>4

\* A recent window that gives way shares its first year with the one it gives way to.
LEMMA GivenWay ==
  ASSUME NEW q \in AutoRequests, NEW w \in ToSet(AutoWindows(q)), NEW v \in ToSet(AutoWindows(q)),
         w.rows # {}, v.rows # {}, w.kind = "recent", v.label = w.label, v.rows # w.rows
  PROVE  v.rows \in AskedWhole(q) \cup AskedRecent(q) /\ SharesYear(w.rows, v.rows)
<1>1. \A x \in ToSet(AutoWindows(q)) :
        x.kind = "recent" =>
          /\ q.nPlus1 /\ "recent" \in q.modes
          /\ \E span \in ToSet(RecentSpans(q)) : span \in Nat /\ x = RecentWindow(q, span)
  <2> SUFFICES ASSUME NEW x \in ToSet(AutoWindows(q)), x.kind = "recent"
      PROVE  /\ q.nPlus1 /\ "recent" \in q.modes
             /\ \E span \in ToSet(RecentSpans(q)) : span \in Nat /\ x = RecentWindow(q, span)
    OBVIOUS
  <2>1. x # Whole(q)
    BY WholeIs
  <2>2. \A y \in PlanYears(q) : x # YearWindow(Inside(q), y)
    BY DEF YearWindow, KlineWindow
  <2>3. \A span \in ToSet(RecentSpans(q)) : span \in Nat
    BY SpansAre DEF ToSet
  <2> QED
    BY <2>1, <2>2, <2>3, AutoWindowsAre
<1>2. \A x \in ToSet(AutoWindows(q)) :
        x.kind = "recent" /\ x.rows # {} =>
          /\ x.rows \in AskedRecent(q)
          /\ x.label = <<Year(Max(x.rows)), Year(Min(x.rows))>>
  <2> SUFFICES ASSUME NEW x \in ToSet(AutoWindows(q)), x.kind = "recent", x.rows # {}
      PROVE  /\ x.rows \in AskedRecent(q)
             /\ x.label = <<Year(Max(x.rows)), Year(Min(x.rows))>>
    OBVIOUS
  <2>1. PICK span \in ToSet(RecentSpans(q)) : span \in Nat /\ x = RecentWindow(q, span)
    BY <1>1
  <2>2. x.rows = {d \in Between(q, 0, To(q)) : d + span >= To(q)}
    BY <2>1, RecentIs, InsideIs DEF RecentRows
  <2>3. x.rows \in AskedRecent(q)
    BY <1>1, <2>1, <2>2 DEF AskedRecent
  <2> QED
    BY <2>1, <2>3, RecentIs
<1>3. w.label = <<Year(Max(w.rows)), Year(Min(w.rows))>>
  BY <1>2
<1>4. CASE v = Whole(q)
  <2>1. v.rows = Inside(q) /\ v.label = <<Year(To(q)), Year(From(q))>>
    BY <1>4, WholeIs
  <2>2. Year(Min(v.rows)) = Year(From(q))
    BY <2>1, InsideIs
  <2>3. v.rows \in AskedWhole(q)
    BY <2>1, InsideIs DEF AskedWhole
  <2> QED
    BY <1>3, <2>1, <2>2, <2>3 DEF SharesYear
<1>5. CASE v.kind = "recent"
  <2>1. v.rows \in AskedRecent(q) /\ v.label = <<Year(Max(v.rows)), Year(Min(v.rows))>>
    BY <1>2, <1>5
  <2> QED
    BY <1>3, <2>1 DEF SharesYear
<1>6. CASE v # Whole(q) /\ v.kind # "recent"
  <2>1. PICK span \in ToSet(RecentSpans(q)) : span \in Nat /\ w = RecentWindow(q, span)
    BY <1>1
  <2>2. \A s \in ToSet(RecentSpans(q)) : s \in Nat
    BY SpansAre DEF ToSet
  <2>3. \A s \in ToSet(RecentSpans(q)) : v # RecentWindow(q, s)
    BY <1>6, <2>2, RecentIs
  <2>4. PICK y \in PlanYears(q) : v = YearWindow(Inside(q), y)
    BY <1>6, <2>3, AutoWindowsAre
  <2>5. y \in Nat /\ v.label = <<y>>
    BY <2>4, PlanYearsFinite DEF YearWindow, KlineWindow
  <2>6. w.label # <<y>>
    BY <2>1, <2>5, RecentIs
  <2> QED
    BY <2>5, <2>6
<1> QED
  BY <1>4, <1>5, <1>6

\* The plan of a request that is not refused, by its parts.
AutoParts(q, p, reg, list) ==
  /\ reg = Registered(AutoWindows(q))
  /\ list = Combinations(q, reg.kept)
  /\ p.list = Deduplicated(q, reg.map, list)
  /\ p.map = reg.map

PlanParts(q, p, reg, list) ==
  /\ AutoParts(q, p, reg, list)
  /\ reg \in RegisterAcc(Labels)
  /\ RegisteredUpTo(AutoWindows(q), Len(AutoWindows(q)), reg)
  /\ Groups(q) \in Seq(Nat) /\ (q.service.groups = 0 => Groups(q) = <<0>>)
  /\ q.pairs \in Seq(ToSet(q.pairs))
  /\ list \in Seq(Combos(Labels, ToSet(q.pairs)))
  /\ \A c : c \in ToSet(list) <=>
       \E w \in ToSet(reg.kept), pr \in ToSet(q.pairs), g \in ToSet(Groups(q)) :
         c = Combo(w, pr, g)

LEMMA AutoPlanIs ==
  ASSUME NEW q \in AutoRequests, NEW p, p = AutoPlan(q), p.outcome = "plan"
  PROVE  \E reg, list : PlanParts(q, p, reg, list)
<1>1. PICK ws, reg : ws = AutoWindows(q) /\ reg = Registered(ws)
  OBVIOUS
<1>2. PICK list : list = Combinations(q, reg.kept)
  OBVIOUS
<1>3. p = Failed \/ p = Plan(Deduplicated(q, reg.map, list), reg.map)
  BY <1>1, <1>2 DEF AutoPlan
<1>4. p # Failed
  BY DEF Failed
<1>5. AutoParts(q, p, reg, list)
  BY <1>1, <1>2, <1>3, <1>4 DEF AutoParts, Plan
<1>6. ws \in Seq(KlineWindows(Labels)) /\ Fits(ws)
  BY <1>1, AutoWindowsAre
<1>7. reg \in RegisterAcc(Labels) /\ RegisteredUpTo(ws, Len(ws), reg)
  BY <1>1, <1>6, RegisteredIs
<1>8. Groups(q) \in Seq(Nat) /\ (q.service.groups = 0 => Groups(q) = <<0>>)
  <2>1. q.service.groups = 0 \/ q.service.groups = 2
    BY AutoIs DEF Services
  <2> QED
    BY <2>1 DEF Groups
<1>9. q.pairs \in Seq(ToSet(q.pairs))
  BY AutoIs, PlanAssumption
<1>10. reg.kept \in Seq(KlineWindows(Labels))
  BY <1>7 DEF RegisterAcc
<1>11. /\ list \in Seq(Combos(Labels, ToSet(q.pairs)))
       /\ \A c : c \in ToSet(list) <=>
            \E w \in ToSet(reg.kept), pr \in ToSet(q.pairs), g \in ToSet(Groups(q)) :
              c = Combo(w, pr, g)
  BY <1>2, <1>8, <1>9, <1>10, CombinationsAre
<1> QED
  <2>1. PlanParts(q, p, reg, list)
    BY <1>1, <1>5, <1>7, <1>8, <1>9, <1>11 DEF PlanParts
  <2> QED
    BY <2>1

Execution(map, c) == [rows |-> map[c.label], pair |-> c.pair, group |-> c.group]

\* Combinations with one signature are one execution, and the other way round
\* without random groups.
LEMMA SignaturesTell ==
  ASSUME NEW q \in AutoRequests, NEW map, NEW c, NEW e,
         c.group \in ToSet(Groups(q)), e.group \in ToSet(Groups(q))
  PROVE  /\ Signature(q, map, c) = Signature(q, map, e) => Execution(map, c) = Execution(map, e)
         /\ q.service.groups = 0 /\ Execution(map, c) = Execution(map, e)
              => Signature(q, map, c) = Signature(q, map, e)
<1>1. \/ q.service.groups = 0
      \/ q.service.groups = 2 /\ q.service.name = "c7"
  BY AutoIs DEF Services
<1>2. CASE q.service.groups = 0
  <2>1. Groups(q) = <<0>> /\ ToSet(<<0>>) = {0}
    BY <1>2 DEF Groups, ToSet
  <2>2. c.group = 0 /\ e.group = 0
    BY <2>1
  <2> QED
    BY <2>2 DEF Signature, Execution
<1>3. CASE q.service.groups = 2 /\ q.service.name = "c7"
  <2>1. Groups(q) = [g \in 1..2 |-> g]
    BY <1>3 DEF Groups
  <2>2. c.group # 0 /\ e.group # 0
    BY <2>1 DEF ToSet
  <2>3. Signature(q, map, c).extra = <<c.group, c.label>>
        /\ Signature(q, map, e).extra = <<e.group, e.label>>
    BY <1>3, <2>2 DEF Signature
  <2>4. Signature(q, map, c).pair = c.pair /\ Signature(q, map, e).pair = e.pair
        /\ Signature(q, map, c).rows = map[c.label] /\ Signature(q, map, e).rows = map[e.label]
    BY DEF Signature
  <2> QED
    BY <1>3, <2>3, <2>4 DEF Execution
<1> QED
  BY <1>1, <1>2, <1>3

LEMMA AutoExact ==
  ASSUME query \in AutoRequests, plan = AutoPlan(query)
  PROVE  EveryWindowPlanned
<1> SUFFICES ASSUME Planned PROVE EveryWindowPlanned
  BY DEF EveryWindowPlanned
<1>1. PICK q \in AutoRequests : q = query
  OBVIOUS
<1>2. plan.outcome = "plan"
  BY DEF Planned
<1>3. PICK reg, list : PlanParts(q, plan, reg, list)
  BY <1>1, <1>2, AutoPlanIs
<1>4. /\ AutoParts(q, plan, reg, list)
      /\ reg \in RegisterAcc(Labels)
      /\ RegisteredUpTo(AutoWindows(q), Len(AutoWindows(q)), reg)
      /\ Groups(q) \in Seq(Nat) /\ (q.service.groups = 0 => Groups(q) = <<0>>)
      /\ q.pairs \in Seq(ToSet(q.pairs))
      /\ list \in Seq(Combos(Labels, ToSet(q.pairs)))
      /\ \A c : c \in ToSet(list) <=>
           \E w \in ToSet(reg.kept), pr \in ToSet(q.pairs), g \in ToSet(Groups(q)) :
             c = Combo(w, pr, g)
  BY <1>3 DEF PlanParts
<1>5. PICK d, m : d = plan.list /\ m = plan.map
  OBVIOUS
<1>6. d = Deduplicated(q, m, list) /\ m = reg.map
  BY <1>4, <1>5 DEF AutoParts
<1>7. PICK n \in Nat : n = Len(d)
  <2>1. d \in Seq(Combos(Labels, ToSet(q.pairs)))
    BY <1>4, <1>6, DeduplicatedIs
  <2> QED
    BY <2>1
<1>8. /\ DOMAIN d = 1..n
      /\ ToSet(d) \subseteq ToSet(list)
      /\ \A c \in ToSet(list) : \E e \in ToSet(d) : Signature(q, m, e) = Signature(q, m, c)
      /\ \A i, j \in 1..n : Signature(q, m, d[i]) = Signature(q, m, d[j]) => i = j
  <2>1. /\ d \in Seq(Combos(Labels, ToSet(q.pairs)))
        /\ ToSet(d) \subseteq ToSet(list)
        /\ \A c \in ToSet(list) : \E e \in ToSet(d) : Signature(q, m, e) = Signature(q, m, c)
        /\ \A i, j \in 1..Len(d) : Signature(q, m, d[i]) = Signature(q, m, d[j]) => i = j
    BY <1>4, <1>6, DeduplicatedIs
  <2> QED
    BY <1>7, <2>1
<1>9. \A c \in ToSet(list) : c.group \in ToSet(Groups(q))
  BY <1>4 DEF Combo
<1> DEFINE ran == {Execution(m, d[i]) : i \in 1..n}
<1>10. \A e \in ToSet(d) : Execution(m, e) \in ran
  BY <1>8 DEF ToSet
<1> DEFINE combos(r) == {[rows |-> r, pair |-> p, group |-> g] :
                           p \in ToSet(q.pairs), g \in ToSet(Groups(q))}
<1>11. \A w \in ToSet(reg.kept) :
         /\ w.rows # {} /\ m[w.label] = w.rows
         /\ w \in ToSet(AutoWindows(q))
  <2> TAKE w \in ToSet(reg.kept)
  <2>1. w.rows # {} /\ m[w.label] = w.rows /\ \E i \in 1..Len(AutoWindows(q)) : w = AutoWindows(q)[i]
    BY <1>4, <1>6 DEF RegisteredUpTo
  <2>2. AutoWindows(q) \in Seq(KlineWindows(Labels))
    BY AutoWindowsAre
  <2>3. DOMAIN AutoWindows(q) = 1..Len(AutoWindows(q))
    BY <2>2
  <2> QED
    BY <2>1, <2>3 DEF ToSet
<1>12. \A w \in ToSet(reg.kept) : \A p, g : Execution(m, Combo(w, p, g)) = [rows |-> w.rows, pair |-> p, group |-> g]
  BY <1>11 DEF Execution, Combo
<1>13. ASSUME NEW w \in ToSet(reg.kept) PROVE combos(w.rows) \subseteq ran
  <2> SUFFICES ASSUME NEW p \in ToSet(q.pairs), NEW g \in ToSet(Groups(q))
      PROVE  [rows |-> w.rows, pair |-> p, group |-> g] \in ran
    OBVIOUS
  <2>1. PICK c : c = Combo(w, p, g)
    OBVIOUS
  <2>2. c \in ToSet(list)
    BY <1>4, <2>1
  <2>3. PICK e \in ToSet(d) : Signature(q, m, e) = Signature(q, m, c)
    BY <1>8, <2>2
  <2>4. Execution(m, e) = Execution(m, c)
    <3>1. e \in ToSet(list)
      BY <1>8
    <3> QED
      BY <1>9, <2>2, <2>3, <3>1, SignaturesTell
  <2>5. Execution(m, c) = [rows |-> w.rows, pair |-> p, group |-> g]
    BY <1>12, <2>1
  <2> HIDE DEF ran
  <2> QED
    BY <1>10, <2>4, <2>5
<1> DEFINE asked == (AskedYears(q) \cup AskedRecent(q) \cup AskedWhole(q)) \ {{}}
<1>14. asked = Asked(q)
  BY DEF Asked
<1>15. ASSUME NEW r \in asked
       PROVE  \/ combos(r) \subseteq ran
              \/ /\ r \in AskedRecent(q)
                 /\ \E v \in AskedWhole(q) \cup AskedRecent(q) : SharesYear(r, v)
  <2> HIDE DEF ran, combos
  <2>1. r # {} /\ \E w \in ToSet(AutoWindows(q)) :
                    w.rows = r /\ (w.kind = "recent" => r \in AskedRecent(q))
    BY <1>14, AskedAreWindows
  <2>2. PICK w \in ToSet(AutoWindows(q)) :
          w.rows = r /\ (w.kind = "recent" => r \in AskedRecent(q))
    BY <2>1
  <2>3. PICK i \in 1..Len(AutoWindows(q)) : w = AutoWindows(q)[i]
    <3>1. AutoWindows(q) \in Seq(KlineWindows(Labels))
      BY AutoWindowsAre
    <3>2. DOMAIN AutoWindows(q) = 1..Len(AutoWindows(q))
      BY <3>1
    <3> QED
      BY <3>2 DEF ToSet
  <2>4. w \in ToSet(reg.kept) \/ GivesWay(w, reg.kept)
    BY <1>4, <2>1, <2>2, <2>3 DEF RegisteredUpTo
  <2>5. CASE w \in ToSet(reg.kept)
    BY <1>13, <2>2, <2>5
  <2>6. CASE GivesWay(w, reg.kept)
    <3>1. PICK v \in ToSet(reg.kept) : v.label = w.label /\ v.rows # w.rows
      BY <2>6 DEF GivesWay
    <3>2. w.kind = "recent"
      BY <2>6 DEF GivesWay
    <3>3. v.rows # {} /\ v \in ToSet(AutoWindows(q))
      BY <1>11
    <3>4. v.rows \in AskedWhole(q) \cup AskedRecent(q) /\ SharesYear(w.rows, v.rows)
      BY <2>1, <2>2, <3>1, <3>2, <3>3, GivenWay
    <3> QED
      BY <2>2, <3>2, <3>4
  <2> QED
    BY <2>4, <2>5, <2>6
<1>16. ran \subseteq UNION {combos(r) : r \in asked}
  <2>1. ASSUME NEW i \in 1..n PROVE \E r \in asked : Execution(m, d[i]) \in combos(r)
    <3>1. d[i] \in ToSet(list)
      BY <1>8 DEF ToSet
    <3>2. PICK w \in ToSet(reg.kept), p \in ToSet(q.pairs), g \in ToSet(Groups(q)) : d[i] = Combo(w, p, g)
      BY <1>4, <3>1
    <3>3. Execution(m, d[i]) = [rows |-> w.rows, pair |-> p, group |-> g]
      BY <1>12, <3>2
    <3>4. w.rows \in asked
      BY <1>11, <1>14, WindowsAreAsked
    <3>5. [rows |-> w.rows, pair |-> p, group |-> g] \in combos(w.rows)
      OBVIOUS
    <3> HIDE DEF asked, combos
    <3> QED
      BY <3>3, <3>4, <3>5
  <2>2. \A e \in ran : \E i \in 1..n : e = Execution(m, d[i])
    OBVIOUS
  <2> HIDE DEF ran, asked, combos
  <2> QED
    BY <2>1, <2>2
<1>17. ASSUME q.service.groups = 0 PROVE Cardinality(ran) = n
  <2> DEFINE f == [i \in 1..n |-> Execution(m, d[i])]
  <2>1. f \in Surjection(1..n, ran)
    <3>1. f \in [1..n -> ran]
      OBVIOUS
    <3>2. \A r \in ran : \E i \in 1..n : f[i] = r
      OBVIOUS
    <3> HIDE DEF f, ran
    <3> QED
      BY <3>1, <3>2 DEF Surjection
  <2>2. \A i, j \in 1..n : f[i] = f[j] => i = j
    <3> SUFFICES ASSUME NEW i \in 1..n, NEW j \in 1..n, Execution(m, d[i]) = Execution(m, d[j])
        PROVE  i = j
      OBVIOUS
    <3>1. d[i] \in ToSet(list) /\ d[j] \in ToSet(list)
      BY <1>8 DEF ToSet
    <3>2. Signature(q, m, d[i]) = Signature(q, m, d[j])
      BY <1>9, <1>17, <3>1, SignaturesTell
    <3> QED
      BY <1>8, <3>2
  <2> HIDE DEF f, ran
  <2>3. f \in Injection(1..n, ran)
    BY <2>1, <2>2 DEF Surjection, Injection, IsInjective
  <2>4. IsFiniteSet(1..n) /\ Cardinality(1..n) = n
    BY FS_Interval
  <2> QED
    BY <2>1, <2>3, <2>4, FS_Surjection
<1>18. ran = {[rows |-> plan.map[plan.list[i].label], pair |-> plan.list[i].pair,
               group |-> plan.list[i].group] : i \in DOMAIN plan.list}
  BY <1>5, <1>8 DEF Execution
<1> QED
  <2> HIDE DEF ran
  <2> QED
    BY <1>1, <1>5, <1>7, <1>15, <1>16, <1>17, <1>18 DEF EveryWindowPlanned

-----------------------------------------------------------------------------
(* Training.                                                                 *)

DistinctLabels(ws) == \A i, j \in 1..Len(ws) : i # j => ws[i].label # ws[j].label

\* No window with a label of its own is left out.
LEMMA DistinctRegistered ==
  ASSUME NEW L, NEW ws \in Seq(KlineWindows(L)), DistinctLabels(ws), NEW reg, reg = Registered(ws)
  PROVE  \A i \in 1..Len(ws) : ws[i].rows # {} => reg.map[ws[i].label] = ws[i].rows
<1>1. PICK n \in Nat : n = Len(ws)
  OBVIOUS
<1>2. \A i, j \in 1..n : i # j => ws[i].label # ws[j].label
  BY <1>1 DEF DistinctLabels
<1>3. Fits(ws)
  BY <1>1, <1>2 DEF Fits
<1>4. RegisteredUpTo(ws, n, reg)
  BY <1>1, <1>3, RegisteredIs
<1> SUFFICES ASSUME NEW i \in 1..n, ws[i].rows # {} PROVE reg.map[ws[i].label] = ws[i].rows
  BY <1>1
<1>5. ws[i] \in ToSet(reg.kept) \/ GivesWay(ws[i], reg.kept)
  BY <1>4 DEF RegisteredUpTo
<1>6. ASSUME GivesWay(ws[i], reg.kept) PROVE FALSE
  <2>1. PICK v \in ToSet(reg.kept) : v.label = ws[i].label /\ v.rows # ws[i].rows
    BY <1>6 DEF GivesWay
  <2>2. PICK j \in 1..n : v = ws[j]
    BY <1>4 DEF RegisteredUpTo
  <2> QED
    BY <1>2, <2>1, <2>2
<1> QED
  BY <1>4, <1>5, <1>6 DEF RegisteredUpTo

LEMMA DistinctTogether ==
  ASSUME NEW L, NEW a \in Seq(KlineWindows(L)), NEW b \in Seq(KlineWindows(L)),
         DistinctLabels(a), DistinctLabels(b),
         \A v \in ToSet(a), w \in ToSet(b) : v.label # w.label
  PROVE  DistinctLabels(a \o b)
<1>1. PICK m, n : m = Len(a) /\ n = Len(b)
  OBVIOUS
<1>2. m \in Nat /\ n \in Nat /\ DOMAIN a = 1..m /\ DOMAIN b = 1..n
  BY <1>1
<1>3. PICK c : c = a \o b
  OBVIOUS
<1>4. /\ Len(c) = m + n
      /\ \A i \in 1..m : c[i] = a[i]
      /\ \A i \in (m + 1)..(m + n) : c[i] = b[i - m]
  BY <1>1, <1>3, ConcatProperties
<1>5. \A i \in 1..m : c[i] \in ToSet(a)
  BY <1>2, <1>4 DEF ToSet
<1>6. \A i \in (m + 1)..(m + n) : c[i] \in ToSet(b) /\ i - m \in 1..n
  <2>1. \A k \in 1..n : b[k] \in ToSet(b)
    BY <1>2 DEF ToSet
  <2>2. \A i \in (m + 1)..(m + n) : i - m \in 1..n
    BY <1>2
  <2> QED
    BY <1>4, <2>1, <2>2
<1> SUFFICES ASSUME NEW i \in 1..(m + n), NEW j \in 1..(m + n), i # j
    PROVE  c[i].label # c[j].label
  BY <1>3, <1>4 DEF DistinctLabels
<1>7. CASE i \in 1..m /\ j \in 1..m
  BY <1>1, <1>4, <1>7 DEF DistinctLabels
<1>8. CASE i \in 1..m /\ j \in (m + 1)..(m + n)
  BY <1>5, <1>6, <1>8
<1>9. CASE i \in (m + 1)..(m + n) /\ j \in 1..m
  BY <1>5, <1>6, <1>9
<1>10. CASE i \in (m + 1)..(m + n) /\ j \in (m + 1)..(m + n)
  <2>1. c[i] = b[i - m] /\ c[j] = b[j - m] /\ i - m \in 1..n /\ j - m \in 1..n /\ i - m # j - m
    BY <1>2, <1>4, <1>6, <1>10
  <2> QED
    BY <1>1, <2>1 DEF DistinctLabels
<1> QED
  BY <1>2, <1>7, <1>8, <1>9, <1>10

TrainingLabels ==
  {<<"last", n>> : n \in Nat} \cup {<<"years", a, b>> : a \in Nat, b \in Nat} \cup {<<y>> : y \in Nat}

LEMMA TrainingIs ==
  ASSUME NEW q \in TrainingRequests
  PROVE  /\ q.end \in Dates /\ q.end \in Nat /\ q.data \in Stretch
         /\ q.recent \in SUBSET {1, 2} /\ q.recent \in SUBSET Nat /\ IsFiniteSet(q.recent)
         /\ TrainingEnd(q) \in Nat
         /\ \E y \in SUBSET Nat : IsFiniteSet(y) /\ q.full = InOrder(y)
<1>1. /\ q.end \in Dates /\ q.data \in Stretch /\ q.recent \in SUBSET {1, 2}
      /\ q.full \in {InOrder(y) : y \in SUBSET Years}
  BY DEF TrainingRequests
<1>2. q.recent \in SUBSET Nat /\ IsFiniteSet(q.recent)
  <2>1. q.recent \in SUBSET Nat /\ \A x \in q.recent : x <= 2
    BY <1>1
  <2> QED
    BY <2>1, FS_BoundedSetOfNaturals
<1>3. q.end \in Nat /\ q.data.last \in Nat
  BY <1>1, RowsTyped, PlanAssumption
<1>4. TrainingEnd(q) \in Nat
  BY <1>3 DEF TrainingEnd
<1>5. Years \in SUBSET Nat /\ IsFiniteSet(Years)
  <2>1. Years \in SUBSET Nat
    BY YearIs, PlanAssumption DEF Years
  <2> DEFINE f == [d \in Dates |-> Year(d)]
  <2>2. f \in Surjection(Dates, Years)
    BY DEF Surjection, Years
  <2> QED
    BY <2>1, <2>2, PlanAssumption, FS_Surjection
<1>6. PICK y \in SUBSET Years : q.full = InOrder(y)
  BY <1>1
<1>7. y \in SUBSET Nat /\ IsFiniteSet(y)
  BY <1>5, FS_Subset
<1> QED
  BY <1>1, <1>2, <1>3, <1>4, <1>6, <1>7

\* Enough years are looked back for each calendar year that is asked for.
LEMMA YearsReach ==
  ASSUME NEW q \in TrainingRequests, NEW y \in ToSet(q.full), NEW d \in Nat, Year(d) = y
  PROVE  d + 2 * YearCount(q) >= q.end
<1>1. PICK F \in SUBSET Nat : IsFiniteSet(F) /\ q.full = InOrder(F)
  BY TrainingIs
<1>2. ToSet(q.full) = F /\ q.full \in Seq(F)
  BY <1>1, InOrderList
<1>3. q.full # <<>>
  BY <1>2 DEF ToSet
<1>4. PICK e \in Nat : e = Year(q.end) /\ q.end <= 2 * e + 1 /\ q.end \in Nat
  BY TrainingIs, YearIs
<1>5. PICK G : G = F \cup {e}
  OBVIOUS
<1>6. PICK g : g = Min(G)
  OBVIOUS
<1>7. g \in Nat /\ g <= e /\ g <= y /\ y \in Nat
  <2>1. G \in SUBSET Nat /\ G # {} /\ e \in G /\ y \in G
    BY <1>2, <1>4, <1>5
  <2>2. g \in G /\ \A x \in G : g <= x
    BY <1>6, <2>1, LeastExists
  <2> QED
    BY <2>1, <2>2
<1>8. PICK S : S = {1} \cup q.recent \cup {1 + e - g}
  OBVIOUS
<1>9. YearCount(q) = Max(S)
  BY <1>2, <1>3, <1>4, <1>5, <1>6, <1>8 DEF YearCount
<1>10. Max(S) \in Nat /\ 1 + e - g <= Max(S)
  <2>1. q.recent \in SUBSET {1, 2}
    BY TrainingIs
  <2>2. 1 + e - g \in Nat /\ 1 + e - g \in S /\ e + 2 \in Nat
    BY <1>4, <1>7, <1>8
  <2>3. S \in SUBSET Nat /\ S # {} /\ \A x \in S : x <= e + 2
    BY <1>4, <1>7, <1>8, <2>1, <2>2
  <2>4. Max(S) \in S /\ \A x \in S : x <= Max(S)
    BY <2>2, <2>3, GreatestBelow
  <2> QED
    BY <2>2, <2>3, <2>4
<1>11. 2 * y <= d
  BY YearIs
<1> QED
  BY <1>4, <1>7, <1>9, <1>10, <1>11

TrainingRecents(q, rs) == [i \in DOMAIN rs |-> TrainingRecent(q, rs[i])]
Served(q) == RowsBetween(q.data, q.data.first, TrainingEnd(q))

LEMMA ServedIs ==
  ASSUME NEW q \in TrainingRequests
  PROVE  /\ Served(q) \in SUBSET Dates /\ Served(q) \in SUBSET Nat
         /\ Served(q) = {d \in q.data.first..q.data.last : d <= TrainingEnd(q)}
<1>1. q.data \in Stretch
  BY TrainingIs
<1>2. q.data.first \in Nat /\ q.data.last \in Nat
  BY <1>1, RowsTyped
<1>3. Served(q) \in SUBSET Dates /\ Served(q) \in SUBSET Nat
  BY <1>1, RowsTyped DEF Served
<1> QED
  BY <1>2, <1>3 DEF Served, RowsBetween

LEMMA TrainingRecentsAre ==
  ASSUME NEW q \in TrainingRequests, NEW rs, rs = InOrder(q.recent),
         NEW ws, ws = TrainingRecents(q, rs)
  PROVE  /\ ws \in Seq(KlineWindows(TrainingLabels))
         /\ DistinctLabels(ws)
         /\ ToSet(ws) = {TrainingRecent(q, n) : n \in q.recent}
<1>1. rs \in Seq(q.recent) /\ ToSet(rs) = q.recent /\ \A i, j \in 1..Len(rs) : i # j => rs[i] # rs[j]
  BY TrainingIs, InOrderList
<1>2. PICK m \in Nat : m = Len(rs) /\ DOMAIN rs = 1..m
  BY <1>1
<1>3. \A i \in 1..m : rs[i] \in q.recent
  BY <1>1, <1>2
<1>4. ASSUME NEW n \in q.recent
      PROVE  /\ TrainingRecent(q, n) \in KlineWindows(TrainingLabels)
             /\ TrainingRecent(q, n).label = <<"last", n>>
  <2>1. n \in Nat
    BY TrainingIs
  <2>2. <<"last", n>> \in TrainingLabels
    BY <2>1 DEF TrainingLabels
  <2>3. PICK R : R = {d \in Served(q) : d + 2 * n >= TrainingEnd(q)}
    OBVIOUS
  <2>4. R \in SUBSET Dates
    BY <2>3, ServedIs
  <2>5. TrainingRecent(q, n) = [kind |-> "recent", label |-> <<"last", n>>, rows |-> R]
    BY <2>3 DEF TrainingRecent, KlineWindow, Served
  <2> QED
    BY <2>2, <2>4, <2>5 DEF KlineWindows
<1>5. ws = [i \in 1..m |-> TrainingRecent(q, rs[i])]
  BY <1>2 DEF TrainingRecents
<1>6. ws \in Seq(KlineWindows(TrainingLabels)) /\ Len(ws) = m /\ DOMAIN ws = 1..m
      /\ \A i \in 1..m : ws[i] = TrainingRecent(q, rs[i])
  BY <1>3, <1>4, <1>5
<1>7. DistinctLabels(ws)
  <2> SUFFICES ASSUME NEW i \in 1..m, NEW j \in 1..m, i # j PROVE ws[i].label # ws[j].label
    BY <1>6 DEF DistinctLabels
  <2>1. ws[i].label = <<"last", rs[i]>> /\ ws[j].label = <<"last", rs[j]>>
    BY <1>3, <1>4, <1>6
  <2>2. rs[i] # rs[j]
    BY <1>1, <1>2
  <2> QED
    BY <2>1, <2>2
<1>8. ToSet(ws) = {TrainingRecent(q, rs[i]) : i \in 1..m}
  BY <1>6 DEF ToSet
<1>9. q.recent = {rs[i] : i \in 1..m}
  BY <1>1, <1>2 DEF ToSet
<1>10. ToSet(ws) = {TrainingRecent(q, n) : n \in q.recent}
  BY <1>8, <1>9
<1> QED
  BY <1>6, <1>7, <1>10

LEMMA TrainingYearsAre ==
  ASSUME NEW q \in TrainingRequests, NEW ws, ws = TrainingYears(q)
  PROVE  /\ ws \in Seq(KlineWindows(TrainingLabels))
         /\ DistinctLabels(ws)
         /\ \A w \in ToSet(ws) : \E y \in Nat : w.label = <<y>>
         /\ \A y \in ToSet(q.full) : \E w \in ToSet(ws) : w.rows = {d \in Served(q) : Year(d) = y}
<1>1. PICK F \in SUBSET Nat : IsFiniteSet(F) /\ q.full = InOrder(F)
  BY TrainingIs
<1>2. PICK ys \in Seq(F) : ys = q.full /\ ToSet(ys) = F /\ \A i, j \in 1..Len(ys) : i # j => ys[i] # ys[j]
  BY <1>1, InOrderList
<1>3. PICK R : R = {d \in Served(q) : d + 2 * YearCount(q) >= q.end}
  OBVIOUS
<1>4. R \in SUBSET Dates
  BY <1>3, ServedIs
<1>5. ws = YearWindows(R, ys)
  BY <1>2, <1>3 DEF TrainingYears, YearWindows, Served
<1>6. \A y \in Nat : <<y>> \in TrainingLabels
  BY DEF TrainingLabels
<1>7. ws \in Seq(KlineWindows(TrainingLabels)) /\ ToSet(ws) = {YearWindow(R, y) : y \in F}
      /\ DOMAIN ws = DOMAIN ys
  <2>1. PICK Y, zs : Y = F /\ zs = InOrder(Y)
    OBVIOUS
  <2>2. PICK vs : vs = YearWindows(R, zs)
    OBVIOUS
  <2>3. Y \in SUBSET Nat /\ IsFiniteSet(Y)
    BY <1>1, <2>1
  <2>4. vs \in Seq(KlineWindows(TrainingLabels)) /\ ToSet(vs) = {YearWindow(R, y) : y \in Y} /\ Fits(vs)
    BY <1>4, <1>6, <2>1, <2>2, <2>3, YearWindowsFit
  <2>5. DOMAIN vs = DOMAIN zs
    BY <2>2 DEF YearWindows
  <2>6. zs = ys /\ vs = ws
    BY <1>1, <1>2, <1>5, <2>1, <2>2
  <2> QED
    BY <2>1, <2>4, <2>5, <2>6
<1>8. PICK m \in Nat : m = Len(ys) /\ DOMAIN ys = 1..m
  BY <1>2
<1>9. Len(ws) = m /\ \A i \in 1..m : ws[i] = YearWindow(R, ys[i]) /\ ws[i].label = <<ys[i]>>
  <2>1. DOMAIN ws = 1..m
    BY <1>7, <1>8
  <2>2. Len(ws) = m
    BY <1>7, <1>8, <2>1
  <2>3. \A i \in 1..m : ws[i] = YearWindow(R, ys[i])
    BY <1>5, <1>8 DEF YearWindows
  <2> QED
    BY <2>2, <2>3 DEF YearWindow, KlineWindow
<1>10. DistinctLabels(ws)
  <2> SUFFICES ASSUME NEW i \in 1..m, NEW j \in 1..m, i # j PROVE ws[i].label # ws[j].label
    BY <1>9 DEF DistinctLabels
  <2>1. ys[i] # ys[j]
    BY <1>2, <1>8
  <2> QED
    BY <1>9, <2>1
<1>11. \A w \in ToSet(ws) : \E y \in Nat : w.label = <<y>>
  BY <1>7 DEF YearWindow, KlineWindow
<1>12. ASSUME NEW y \in F PROVE YearWindow(R, y).rows = {d \in Served(q) : Year(d) = y}
  <2>1. YearWindow(R, y).rows = {d \in R : Year(d) = y}
    BY DEF YearWindow, KlineWindow
  <2>2. \A d \in Served(q) : Year(d) = y => d + 2 * YearCount(q) >= q.end
    <3>1. y \in ToSet(q.full)
      BY <1>2
    <3>2. \A d \in Served(q) : d \in Nat
      BY ServedIs
    <3> QED
      BY <3>1, <3>2, YearsReach
  <2> QED
    BY <1>3, <2>1, <2>2
<1>13. \A y \in ToSet(q.full) : \E w \in ToSet(ws) : w.rows = {d \in Served(q) : Year(d) = y}
  <2> TAKE y \in ToSet(q.full)
  <2>1. y \in F /\ YearWindow(R, y) \in ToSet(ws)
    BY <1>2, <1>7
  <2> QED
    BY <1>12, <2>1
<1> QED
  BY <1>7, <1>10, <1>11, <1>13

\* The window that begins with the first year; it is asked for with years only.
LEMMA TrainingWholeIs ==
  ASSUME NEW q \in TrainingRequests, q.full # <<>>, NEW ws, ws = <<TrainingWhole(q)>>
  PROVE  /\ ws \in Seq(KlineWindows(TrainingLabels))
         /\ DistinctLabels(ws)
         /\ \A w \in ToSet(ws) : \E a, b \in Nat : w.label = <<"years", a, b>>
<1>1. PICK F \in SUBSET Nat : IsFiniteSet(F) /\ q.full = InOrder(F)
  BY TrainingIs
<1>2. PICK ys \in Seq(F) : ys = q.full
  BY <1>1, InOrderList
<1>3. PICK a, b : a = ys[1] /\ b = ys[Len(ys)]
  OBVIOUS
<1>4. a \in Nat /\ b \in Nat
  <2>1. Len(ys) \in Nat /\ Len(ys) # 0
    BY <1>2
  <2>2. 1 \in 1..Len(ys) /\ Len(ys) \in 1..Len(ys)
    BY <2>1
  <2>3. ys[1] \in F /\ ys[Len(ys)] \in F
    BY <2>2
  <2> QED
    BY <1>3, <2>3
<1>5. PICK first : first = {d \in Served(q) : Year(d) = q.full[1]}
  OBVIOUS
<1>6. PICK R : R = IF first = {} THEN {} ELSE RowsBetween(q.data, Min(first), TrainingEnd(q))
  OBVIOUS
<1>7. R \in SUBSET Dates
  BY <1>6, TrainingIs, RowsTyped
<1>8. PICK w : w = TrainingWhole(q)
  OBVIOUS
<1>9. w = [kind |-> "whole", label |-> <<"years", a, b>>, rows |-> R]
  BY <1>2, <1>3, <1>5, <1>6, <1>8 DEF TrainingWhole, KlineWindow, Served
<1>10. w \in KlineWindows(TrainingLabels) /\ w.label = <<"years", a, b>>
  <2>1. <<"years", a, b>> \in TrainingLabels
    BY <1>4 DEF TrainingLabels
  <2> QED
    BY <1>7, <1>9, <2>1 DEF KlineWindows
<1>11. ws \in Seq(KlineWindows(TrainingLabels)) /\ Len(ws) = 1 /\ DOMAIN ws = {1} /\ ws[1] = w
  BY <1>8, <1>10
<1>12. DistinctLabels(ws)
  BY <1>11 DEF DistinctLabels
<1>13. \A v \in ToSet(ws) : v = w
  BY <1>11 DEF ToSet
<1> QED
  BY <1>4, <1>10, <1>11, <1>12, <1>13

LEMMA TrainingWindowsAre ==
  ASSUME NEW q \in TrainingRequests, q.whole => q.full # <<>>, NEW ws, ws = TrainingWindows(q)
  PROVE  /\ ws \in Seq(KlineWindows(TrainingLabels))
         /\ DistinctLabels(ws)
         /\ \A n \in q.recent : \E w \in ToSet(ws) :
              w.rows = {d \in Served(q) : d + 2 * n >= TrainingEnd(q)}
         /\ ~q.whole => \A y \in ToSet(q.full) : \E w \in ToSet(ws) :
              w.rows = {d \in Served(q) : Year(d) = y}
<1>1. PICK rs : rs = InOrder(q.recent)
  OBVIOUS
<1>2. PICK a : a = TrainingRecents(q, rs)
  OBVIOUS
<1>3. PICK b : b = IF q.whole THEN <<TrainingWhole(q)>> ELSE TrainingYears(q)
  OBVIOUS
<1>4. ws = a \o b
  BY <1>1, <1>2, <1>3 DEF TrainingWindows, TrainingRecents
<1>5. /\ a \in Seq(KlineWindows(TrainingLabels)) /\ DistinctLabels(a)
      /\ ToSet(a) = {TrainingRecent(q, n) : n \in q.recent}
  BY <1>1, <1>2, TrainingRecentsAre
<1>6. /\ b \in Seq(KlineWindows(TrainingLabels)) /\ DistinctLabels(b)
      /\ \A w \in ToSet(b) : (\E y \in Nat : w.label = <<y>>)
                             \/ (\E c, e \in Nat : w.label = <<"years", c, e>>)
      /\ ~q.whole => \A y \in ToSet(q.full) : \E w \in ToSet(b) :
           w.rows = {d \in Served(q) : Year(d) = y}
  <2>1. CASE q.whole
    <3>1. b = <<TrainingWhole(q)>> /\ q.full # <<>>
      BY <1>3, <2>1
    <3> QED
      BY <2>1, <3>1, TrainingWholeIs
  <2>2. CASE ~q.whole
    <3>1. b = TrainingYears(q)
      BY <1>3, <2>2
    <3> QED
      BY <3>1, TrainingYearsAre
  <2> QED
    BY <2>1, <2>2
<1>7. \A n \in q.recent : /\ TrainingRecent(q, n).label = <<"last", n>>
                          /\ TrainingRecent(q, n).rows = {d \in Served(q) : d + 2 * n >= TrainingEnd(q)}
  BY DEF TrainingRecent, KlineWindow, Served
<1>8. \A v \in ToSet(a), w \in ToSet(b) : v.label # w.label
  <2>1. \A v \in ToSet(a) : \E n : v.label = <<"last", n>>
    BY <1>5, <1>7
  <2>2. \A n, y : <<"last", n>> # <<y>>
    OBVIOUS
  <2>3. \A n, c, e : <<"last", n>> # <<"years", c, e>>
    OBVIOUS
  <2> QED
    BY <1>6, <2>1, <2>2, <2>3, ZenonT(40)
<1>9. ws \in Seq(KlineWindows(TrainingLabels)) /\ ToSet(ws) = ToSet(a) \cup ToSet(b)
  BY <1>4, <1>5, <1>6, MembersOfConcat
<1>10. DistinctLabels(ws)
  BY <1>4, <1>5, <1>6, <1>8, DistinctTogether
<1>11. \A n \in q.recent : \E w \in ToSet(ws) :
              w.rows = {d \in Served(q) : d + 2 * n >= TrainingEnd(q)}
  <2> TAKE n \in q.recent
  <2>1. TrainingRecent(q, n) \in ToSet(ws)
    BY <1>5, <1>9
  <2> QED
    BY <1>7, <2>1
<1>12. ~q.whole => \A y \in ToSet(q.full) : \E w \in ToSet(ws) :
              w.rows = {d \in Served(q) : Year(d) = y}
  BY <1>6, <1>9
<1> QED
  BY <1>9, <1>10, <1>11, <1>12

PlanRows(p) == {p.map[p.list[i].label] : i \in DOMAIN p.list}

LEMMA TrainingPlanIs ==
  ASSUME NEW q \in TrainingRequests, NEW p, p = TrainingPlan(q), p.outcome = "plan",
         NEW ws, ws = TrainingWindows(q)
  PROVE  /\ q.whole => q.full # <<>>
         /\ \A i \in DOMAIN ws : ws[i].rows # {}
         /\ PlanRows(p) = {w.rows : w \in ToSet(ws)}
<1>1. p # Failed
  BY DEF Failed
<1>2. ~TrainingFails(q)
  BY <1>1 DEF TrainingPlan
<1>3. q.whole => q.full # <<>>
  BY <1>2 DEF TrainingFails
<1>4. \A i \in DOMAIN ws : ws[i].rows # {}
  BY <1>1, <1>2 DEF TrainingPlan
<1>5. PICK reg : reg = Registered(ws)
  OBVIOUS
<1>6. PICK n \in Nat : n = Len(ws) /\ DOMAIN ws = 1..n
  BY <1>3, TrainingWindowsAre
<1>7. p = Plan([i \in DOMAIN ws |-> [label |-> ws[i].label, pair |-> 0, group |-> 0]], reg.map)
  BY <1>2, <1>4, <1>5 DEF TrainingPlan
<1>8. p.map = reg.map /\ DOMAIN p.list = 1..n /\ \A i \in 1..n : p.list[i].label = ws[i].label
  BY <1>6, <1>7 DEF Plan
<1>9. \A i \in 1..n : reg.map[ws[i].label] = ws[i].rows
  BY <1>3, <1>4, <1>5, <1>6, TrainingWindowsAre, DistinctRegistered
<1>10. PlanRows(p) = {ws[i].rows : i \in 1..n}
  BY <1>8, <1>9 DEF PlanRows
<1>11. ToSet(ws) = {ws[i] : i \in 1..n}
  BY <1>6 DEF ToSet
<1> QED
  BY <1>3, <1>4, <1>10, <1>11

LEMMA TrainingExact ==
  ASSUME query \in TrainingRequests, plan = TrainingPlan(query)
  PROVE  TrainingWindowsExact
<1> SUFFICES ASSUME Planned PROVE TrainingWindowsExact
  BY DEF TrainingWindowsExact
<1>1. PICK q \in TrainingRequests : q = query
  OBVIOUS
<1>2. plan.outcome = "plan"
  BY DEF Planned
<1>3. PICK ws : ws = TrainingWindows(q)
  OBVIOUS
<1>4. PICK ran : ran = PlanRows(plan)
  OBVIOUS
<1>5. /\ q.whole => q.full # <<>>
      /\ \A i \in DOMAIN ws : ws[i].rows # {}
      /\ ran = {w.rows : w \in ToSet(ws)}
  BY <1>1, <1>2, <1>3, <1>4, TrainingPlanIs
<1>6. /\ \A n \in q.recent : \E w \in ToSet(ws) :
            w.rows = {d \in Served(q) : d + 2 * n >= TrainingEnd(q)}
      /\ ~q.whole => \A y \in ToSet(q.full) : \E w \in ToSet(ws) :
            w.rows = {d \in Served(q) : Year(d) = y}
  <2>1. q.whole => q.full # <<>>
    BY <1>5
  <2> QED
    BY <1>3, <2>1, TrainingWindowsAre, ZenonT(30)
<1>7. PICK end, data : end = TrainingEnd(q) /\ data = q.data.first..q.data.last
  OBVIOUS
<1>8. Served(q) = {d \in data : d <= end}
  BY <1>7, ServedIs
<1>9. \A n \in q.recent : {d \in data : d <= end /\ d + 2 * n >= end} \in ran
  <2> TAKE n \in q.recent
  <2>1. {d \in data : d <= end /\ d + 2 * n >= end} = {d \in Served(q) : d + 2 * n >= TrainingEnd(q)}
    BY <1>7, <1>8
  <2> QED
    BY <1>5, <1>6, <2>1
<1>10. ~q.whole => \A y \in ToSet(q.full) : {d \in data : d <= end /\ Year(d) = y} \in ran
  <2> SUFFICES ASSUME ~q.whole, NEW y \in ToSet(q.full)
      PROVE  {d \in data : d <= end /\ Year(d) = y} \in ran
    OBVIOUS
  <2>1. {d \in data : d <= end /\ Year(d) = y} = {d \in Served(q) : Year(d) = y}
    BY <1>8
  <2> QED
    BY <1>5, <1>6, <2>1
<1>11. {} \notin ran
  <2>1. \A w \in ToSet(ws) : w.rows # {}
    BY <1>5 DEF ToSet
  <2> QED
    BY <1>5, <2>1
<1> QED
  BY <1>1, <1>4, <1>7, <1>9, <1>10, <1>11 DEF TrainingWindowsExact, PlanRows

-----------------------------------------------------------------------------
(* C4, and K-lines of the sheet itself.                                      *)

LEMMA C4WindowsAre ==
  ASSUME NEW q \in C4Requests, NEW all, all = RowsBetween(q.data, q.range.first, q.range.last),
         all # {}, NEW ws, ws = <<KlineWindow("whole", <<>>, all)>> \o C4Years(q)
  PROVE  /\ ws \in Seq(KlineWindows(Labels))
         /\ DistinctLabels(ws)
         /\ \A w \in ToSet(ws) : w.rows # {}
<1>1. q.data \in Stretch /\ q.range \in Stretch
  BY DEF C4Requests
<1>2. all \in SUBSET Dates /\ q.range.first \in Nat /\ q.range.last \in Nat
  BY <1>1, RowsTyped
<1>3. PICK first, last : first = Year(q.range.first) /\ last = Year(q.range.last)
  OBVIOUS
<1>4. first \in Nat /\ last \in Nat
  BY <1>2, <1>3, YearIs
<1>5. PICK Y : Y = {y \in first..last : Cardinality(YearWindow(all, y).rows) > MinYear}
  OBVIOUS
<1>6. Y \in SUBSET Nat /\ IsFiniteSet(Y)
  <2>1. Y \in SUBSET Nat /\ \A x \in Y : x <= last
    BY <1>4, <1>5
  <2> QED
    BY <1>4, <2>1, FS_BoundedSetOfNaturals
<1>7. \A y \in Y : YearWindow(all, y).rows # {}
  <2> SUFFICES ASSUME NEW y \in Y, YearWindow(all, y).rows = {} PROVE FALSE
    OBVIOUS
  <2>1. Cardinality({}) > MinYear
    BY <1>5
  <2>2. Cardinality({}) = 0
    BY FS_EmptySet
  <2> QED
    BY <2>1, <2>2, PlanAssumption
<1>8. PICK ys : ys = InOrder(Y)
  OBVIOUS
<1>9. PICK a, b, bs : /\ a = <<KlineWindow("whole", <<>>, all)>>
                      /\ b = C4Years(q) /\ bs = YearWindows(all, ys)
  OBVIOUS
<1>10. b = bs \/ b = <<>>
  BY <1>3, <1>5, <1>8, <1>9 DEF C4Years, YearWindows
<1>11. \A y \in Nat : <<y>> \in Labels
  BY DEF Labels
<1>12. bs \in Seq(KlineWindows(Labels)) /\ ToSet(bs) = {YearWindow(all, y) : y \in Y} /\ Fits(bs)
  BY <1>2, <1>6, <1>8, <1>9, <1>11, YearWindowsFit
<1>13. \A w \in ToSet(bs) : w.kind = "year" /\ w.rows # {} /\ \E y : w.label = <<y>>
  BY <1>7, <1>12 DEF YearWindow, KlineWindow
<1>14. DistinctLabels(bs)
  <2>1. PICK n \in Nat : n = Len(bs) /\ DOMAIN bs = 1..n
    BY <1>12
  <2>2. \A i \in 1..n : bs[i].kind # "recent"
    BY <1>13, <2>1 DEF ToSet
  <2> SUFFICES ASSUME NEW i \in 1..n, NEW j \in 1..n, i # j PROVE bs[i].label # bs[j].label
    BY <2>1 DEF DistinctLabels
  <2>3. i < j \/ j < i
    OBVIOUS
  <2> QED
    BY <1>12, <2>1, <2>2, <2>3 DEF Fits
<1>15. /\ b \in Seq(KlineWindows(Labels)) /\ DistinctLabels(b)
       /\ \A w \in ToSet(b) : w.rows # {} /\ \E y : w.label = <<y>>
  <2>1. CASE b = bs
    BY <1>12, <1>13, <1>14, <2>1
  <2>2. CASE b = <<>>
    BY <2>2 DEF ToSet, DistinctLabels
  <2> QED
    BY <1>10, <2>1, <2>2
<1>16. PICK v : v = KlineWindow("whole", <<>>, all)
  OBVIOUS
<1>17. v \in KlineWindows(Labels) /\ v.label = <<>> /\ v.rows = all
  <2>1. <<>> \in Labels
    BY DEF Labels
  <2> QED
    BY <1>2, <1>16, <2>1 DEF KlineWindow, KlineWindows
<1>18. a \in Seq(KlineWindows(Labels)) /\ ToSet(a) = {v} /\ DistinctLabels(a)
  <2>1. a = <<v>>
    BY <1>9, <1>16
  <2>2. a \in Seq(KlineWindows(Labels)) /\ Len(a) = 1 /\ DOMAIN a = {1} /\ a[1] = v
    BY <1>17, <2>1
  <2> QED
    BY <2>2 DEF ToSet, DistinctLabels
<1>19. ws = a \o b
  BY <1>9
<1>20. ws \in Seq(KlineWindows(Labels)) /\ ToSet(ws) = ToSet(a) \cup ToSet(b)
  <2>1. PICK W : W = KlineWindows(Labels)
    OBVIOUS
  <2>2. a \in Seq(W) /\ b \in Seq(W)
    BY <1>15, <1>18, <2>1
  <2>3. a \o b \in Seq(W) /\ ToSet(a \o b) = ToSet(a) \cup ToSet(b)
    BY <2>2, MembersOfConcat
  <2> QED
    BY <1>19, <2>1, <2>3
<1>21. DistinctLabels(ws)
  <2>1. \A u \in ToSet(a), w \in ToSet(b) : u.label # w.label
    <3> TAKE u \in ToSet(a), w \in ToSet(b)
    <3>1. u.label = <<>>
      BY <1>17, <1>18
    <3>2. PICK y : w.label = <<y>>
      BY <1>15
    <3>3. <<y>> # <<>>
      OBVIOUS
    <3> QED
      BY <3>1, <3>2, <3>3
  <2> QED
    BY <1>15, <1>18, <1>19, <2>1, DistinctTogether
<1>22. \A w \in ToSet(ws) : w.rows # {}
  BY <1>15, <1>17, <1>18, <1>20
<1> QED
  BY <1>20, <1>21, <1>22

\* The rows a plan names are dates, whatever it is made from.
Dated(p) == p = Failed \/ PlanRows(p) \subseteq SUBSET Dates

LEMMA LabelledRows ==
  ASSUME NEW L, NEW ws \in Seq(KlineWindows(L)), DistinctLabels(ws), \A w \in ToSet(ws) : w.rows # {},
         NEW p, p.map = Registered(ws).map, DOMAIN p.list = DOMAIN ws,
         \A i \in DOMAIN ws : p.list[i].label = ws[i].label
  PROVE  PlanRows(p) \subseteq SUBSET Dates
<1>1. PICK n \in Nat : n = Len(ws) /\ DOMAIN ws = 1..n
  OBVIOUS
<1>2. \A i \in 1..n : ws[i].rows # {} /\ ws[i].rows \in SUBSET Dates
  <2>1. \A i \in 1..n : ws[i] \in KlineWindows(L) /\ ws[i] \in ToSet(ws)
    BY <1>1 DEF ToSet
  <2> QED
    BY <2>1 DEF KlineWindows
<1>3. PICK reg : reg = Registered(ws)
  OBVIOUS
<1>4. \A i \in 1..n : ws[i].rows # {} => reg.map[ws[i].label] = ws[i].rows
  BY <1>1, <1>3, DistinctRegistered
<1> QED
  BY <1>1, <1>2, <1>3, <1>4 DEF PlanRows

LEMMA C4Dated ==
  ASSUME NEW q \in C4Requests, NEW p, p = C4Plan(q)
  PROVE  Dated(p)
<1>1. PICK all : all = RowsBetween(q.data, q.range.first, q.range.last)
  OBVIOUS
<1>2. PICK ws : ws = <<KlineWindow("whole", <<>>, all)>> \o C4Years(q)
  OBVIOUS
<1>3. p = Failed \/ /\ all # {}
                    /\ p = Plan([i \in DOMAIN ws |-> [label |-> ws[i].label, pair |-> 0, group |-> 0]],
                                Registered(ws).map)
  BY <1>1, <1>2 DEF C4Plan
<1> SUFFICES ASSUME p # Failed PROVE PlanRows(p) \subseteq SUBSET Dates
  BY DEF Dated
<1>4. /\ p.map = Registered(ws).map /\ DOMAIN p.list = DOMAIN ws
      /\ \A i \in DOMAIN ws : p.list[i].label = ws[i].label
  BY <1>3 DEF Plan
<1>5. /\ ws \in Seq(KlineWindows(Labels)) /\ DistinctLabels(ws)
      /\ \A w \in ToSet(ws) : w.rows # {}
  BY <1>1, <1>2, <1>3, C4WindowsAre
<1> QED
  BY <1>4, <1>5, LabelledRows

LEMMA TrainingDated ==
  ASSUME NEW q \in TrainingRequests, NEW p, p = TrainingPlan(q)
  PROVE  Dated(p)
<1> SUFFICES ASSUME p # Failed PROVE PlanRows(p) \subseteq SUBSET Dates
  BY DEF Dated
<1>1. p.outcome = "plan"
  BY DEF TrainingPlan, Plan
<1>2. PICK ws : ws = TrainingWindows(q)
  OBVIOUS
<1>3. (q.whole => q.full # <<>>) /\ PlanRows(p) = {w.rows : w \in ToSet(ws)}
  BY <1>1, <1>2, TrainingPlanIs
<1>4. ws \in Seq(KlineWindows(TrainingLabels))
  BY <1>2, <1>3, TrainingWindowsAre
<1>5. \A w \in ToSet(ws) : w.rows \in SUBSET Dates
  <2>1. \A w \in ToSet(ws) : w \in KlineWindows(TrainingLabels)
    BY <1>4 DEF ToSet
  <2> QED
    BY <2>1 DEF KlineWindows
<1> QED
  BY <1>3, <1>5

LEMMA AutoDated ==
  ASSUME NEW q \in AutoRequests, NEW p, p = AutoPlan(q)
  PROVE  Dated(p)
<1> SUFFICES ASSUME p # Failed PROVE PlanRows(p) \subseteq SUBSET Dates
  BY DEF Dated
<1>1. p.outcome = "plan"
  BY DEF AutoPlan, Plan
<1>2. PICK reg, list : PlanParts(q, p, reg, list)
  BY <1>1, AutoPlanIs
<1>3. /\ reg \in RegisterAcc(Labels)
      /\ RegisteredUpTo(AutoWindows(q), Len(AutoWindows(q)), reg)
      /\ list \in Seq(Combos(Labels, ToSet(q.pairs)))
      /\ \A c \in ToSet(list) : \E w \in ToSet(reg.kept) : c.label = w.label
  BY <1>2 DEF PlanParts, Combo
<1>4. p.list = Deduplicated(q, reg.map, list) /\ p.map = reg.map
  BY <1>2 DEF PlanParts, AutoParts
<1>5. PICK d : d = p.list
  OBVIOUS
<1>6. ToSet(d) \subseteq ToSet(list)
  BY <1>3, <1>4, <1>5, DeduplicatedIs
<1>7. \A w \in ToSet(reg.kept) : reg.map[w.label] = w.rows /\ w.rows \in SUBSET Dates
  <2>1. reg.kept \in Seq(KlineWindows(Labels))
    BY <1>3 DEF RegisterAcc
  <2>2. \A w \in ToSet(reg.kept) : w \in KlineWindows(Labels)
    BY <2>1 DEF ToSet
  <2> QED
    BY <1>3, <2>2 DEF RegisteredUpTo, KlineWindows
<1>8. \A i \in DOMAIN d : d[i] \in ToSet(list)
  BY <1>6 DEF ToSet
<1>9. \A i \in DOMAIN d : reg.map[d[i].label] \in SUBSET Dates
  BY <1>3, <1>7, <1>8
<1> QED
  BY <1>4, <1>5, <1>9 DEF PlanRows

CustomCombos(q) == [label : {<<"custom">>}, pair : {0} \cup ToSet(q.pairs), group : Nat]

LEMMA CustomListIs ==
  ASSUME NEW q \in CustomRequests, NEW list, list = CustomList(q)
  PROVE  /\ list \in Seq(CustomCombos(q))
         /\ Len(list) = Estimate(q)
         /\ q.service # "c1_1" => \A i \in 1..Len(list) : i \in DOMAIN q.pairs /\ list[i].pair = q.pairs[i]
<1>1. q.groups \in {1, 2} /\ q.pairs \in Parameters
  BY DEF CustomRequests
<1>2. q.pairs \in Seq(ToSet(q.pairs))
  BY <1>1, PlanAssumption
<1>3. CASE q.service = "c1_1"
  <2>1. list = [g \in 1..q.groups |-> [label |-> <<"custom">>, pair |-> 0, group |-> g]]
    BY <1>3 DEF CustomList
  <2>2. \A g \in 1..q.groups : [label |-> <<"custom">>, pair |-> 0, group |-> g] \in CustomCombos(q)
    BY <1>1 DEF CustomCombos
  <2>3. list \in Seq(CustomCombos(q)) /\ Len(list) = q.groups
    BY <1>1, <2>1, <2>2
  <2> QED
    BY <1>3, <2>3 DEF Estimate
<1>4. CASE q.service # "c1_1"
  <2>1. PICK n \in Nat : n = Len(q.pairs) /\ DOMAIN q.pairs = 1..n
    BY <1>2
  <2>2. list = [j \in 1..n |-> [label |-> <<"custom">>, pair |-> q.pairs[j], group |-> 0]]
    BY <1>4, <2>1 DEF CustomList
  <2>3. \A j \in 1..n : [label |-> <<"custom">>, pair |-> q.pairs[j], group |-> 0] \in CustomCombos(q)
    BY <2>1 DEF CustomCombos, ToSet
  <2>4. list \in Seq(CustomCombos(q)) /\ Len(list) = n
    BY <2>2, <2>3
  <2>5. \A i \in 1..n : list[i].pair = q.pairs[i]
    BY <2>2
  <2> QED
    BY <1>4, <2>1, <2>4, <2>5 DEF Estimate
<1> QED
  BY <1>3, <1>4

LEMMA CustomIs ==
  ASSUME NEW q \in CustomRequests, NEW p, p = CustomPlan(q), p # Failed
  PROVE  /\ p.list \in Seq(CustomCombos(q))
         /\ p.map = [l \in {<<"custom">>} |-> {0}]
         /\ Len(p.list) <= Estimate(q)
         /\ IsInjective(q.pairs) => Len(p.list) = Estimate(q)
<1>1. PICK list, map, r, d : /\ list = CustomList(q)
                             /\ map = [l \in {<<"custom">>} |-> {0}]
                             /\ r = [service |-> [name |-> q.service]]
                             /\ d = Deduplicated(r, map, list)
  OBVIOUS
<1>2. p = Plan(IF q.service = "c5" THEN d ELSE list, map)
  BY <1>1 DEF CustomPlan
<1>3. p.list = (IF q.service = "c5" THEN d ELSE list) /\ p.map = map
  BY <1>2 DEF Plan
<1>4. /\ list \in Seq(CustomCombos(q))
      /\ Len(list) = Estimate(q)
      /\ q.service # "c1_1" => \A i \in 1..Len(list) : i \in DOMAIN q.pairs /\ list[i].pair = q.pairs[i]
  BY <1>1, CustomListIs
<1>5. CASE q.service # "c5"
  <2>1. Len(list) \in Nat
    BY <1>4
  <2> QED
    BY <1>1, <1>3, <1>4, <1>5, <2>1
<1>6. CASE q.service = "c5"
  <2>1. /\ d \in Seq(CustomCombos(q))
        /\ Len(d) <= Len(list)
        /\ (\A i, j \in 1..Len(list) :
               Signature(r, map, list[i]) = Signature(r, map, list[j]) => i = j)
              => Len(d) = Len(list)
    BY <1>1, <1>4, DeduplicatedIs
  <2>2. ASSUME IsInjective(q.pairs) PROVE Len(d) = Len(list)
    <3> SUFFICES ASSUME NEW i \in 1..Len(list), NEW j \in 1..Len(list),
                        Signature(r, map, list[i]) = Signature(r, map, list[j])
        PROVE  i = j
      BY <2>1
    <3>1. list[i].pair = list[j].pair
      BY DEF Signature
    <3>2. i \in DOMAIN q.pairs /\ j \in DOMAIN q.pairs /\ q.pairs[i] = q.pairs[j]
      BY <1>4, <1>6, <3>1
    <3> QED
      BY <2>2, <3>2 DEF IsInjective
  <2> QED
    BY <1>1, <1>3, <1>4, <1>6, <2>1, <2>2
<1> QED
  BY <1>5, <1>6

LEMMA CustomDated ==
  ASSUME NEW q \in CustomRequests, NEW p, p = CustomPlan(q)
  PROVE  Dated(p)
<1> SUFFICES ASSUME p # Failed PROVE PlanRows(p) \subseteq SUBSET Dates
  BY DEF Dated
<1>1. PICK d : d = p.list
  OBVIOUS
<1>2. d \in Seq(CustomCombos(q)) /\ p.map = [l \in {<<"custom">>} |-> {0}]
  BY <1>1, CustomIs
<1>3. \A i \in DOMAIN d : d[i].label = <<"custom">>
  <2>1. \A i \in DOMAIN d : d[i] \in CustomCombos(q)
    BY <1>2
  <2> QED
    BY <2>1 DEF CustomCombos
<1>4. \A i \in DOMAIN d : p.map[d[i].label] = {0}
  BY <1>2, <1>3
<1>5. {0} \in SUBSET Dates
  BY PlanAssumption
<1> QED
  BY <1>1, <1>4, <1>5 DEF PlanRows

LEMMA CustomExact ==
  ASSUME query \in CustomRequests, plan = CustomPlan(query)
  PROVE  EstimateExact
<1> SUFFICES ASSUME Planned PROVE EstimateExact
  BY DEF EstimateExact
<1>1. PICK q \in CustomRequests : q = query
  OBVIOUS
<1>2. plan # Failed
  BY DEF Planned, Failed
<1>3. /\ Len(plan.list) <= Estimate(q)
      /\ IsInjective(q.pairs) => Len(plan.list) = Estimate(q)
  BY <1>1, <1>2, CustomIs
<1> QED
  BY <1>1, <1>3 DEF EstimateExact

-----------------------------------------------------------------------------
(* Every plan.                                                               *)

\* A request is planned once, by the expansion of its kind.
PlanInv ==
  \/ /\ query \in AutoRequests
     /\ plan = Unplanned \/ plan = AutoPlan(query)
  \/ /\ query \in C4Requests
     /\ plan = Unplanned \/ plan = C4Plan(query)
  \/ /\ query \in TrainingRequests
     /\ plan = Unplanned \/ plan = TrainingPlan(query)
  \/ /\ query \in CustomRequests
     /\ plan = Unplanned \/ plan = CustomPlan(query)

LEMMA KindsOf ==
  /\ \A q \in AutoRequests : q.kind = "auto"
  /\ \A q \in C4Requests : q.kind = "c4"
  /\ \A q \in TrainingRequests : q.kind = "training"
  /\ \A q \in CustomRequests : q.kind = "custom"
BY DEF AutoRequests, C4Requests, TrainingRequests, CustomRequests

LEMMA PlanInvHolds == PlanSpec => []PlanInv
<1>1. ASSUME PlanInit PROVE PlanInv
  <2>1. \A q \in {r \in AutoRequests : r.nPlus1 \/ (r.modes = {} /\ r.excluded = {})} : q \in AutoRequests
    OBVIOUS
  <2>2. \/ query \in {r \in AutoRequests : r.nPlus1 \/ (r.modes = {} /\ r.excluded = {})}
        \/ query \in C4Requests \/ query \in TrainingRequests \/ query \in CustomRequests
    BY <1>1 DEF PlanInit
  <2> QED
    BY <1>1, <2>1, <2>2 DEF PlanInit, PlanInv
<1>2. ASSUME PlanInv, [PlanNext]_planVars PROVE PlanInv'
  <2>1. CASE ExpandAuto
    <3>1. query \in AutoRequests
      BY <1>2, <2>1, KindsOf DEF PlanInv, ExpandAuto
    <3>2. query' = query /\ plan' = AutoPlan(query')
      BY <2>1 DEF ExpandAuto
    <3> QED
      BY <3>1, <3>2 DEF PlanInv
  <2>2. CASE ExpandC4
    <3>1. query \in C4Requests
      BY <1>2, <2>2, KindsOf DEF PlanInv, ExpandC4
    <3>2. query' = query /\ plan' = C4Plan(query')
      BY <2>2 DEF ExpandC4
    <3> QED
      BY <3>1, <3>2 DEF PlanInv
  <2>3. CASE ExpandTraining
    <3>1. query \in TrainingRequests
      BY <1>2, <2>3, KindsOf DEF PlanInv, ExpandTraining
    <3>2. query' = query /\ plan' = TrainingPlan(query')
      BY <2>3 DEF ExpandTraining
    <3> QED
      BY <3>1, <3>2 DEF PlanInv
  <2>4. CASE ExpandCustom
    <3>1. query \in CustomRequests
      BY <1>2, <2>4, KindsOf DEF PlanInv, ExpandCustom
    <3>2. query' = query /\ plan' = CustomPlan(query')
      BY <2>4 DEF ExpandCustom
    <3> QED
      BY <3>1, <3>2 DEF PlanInv
  <2>5. CASE UNCHANGED planVars
    <3>1. query' = query /\ plan' = plan
      BY <2>5 DEF planVars
    <3> QED
      BY <1>2, <3>1 DEF PlanInv
  <2> QED
    BY <1>2, <2>1, <2>2, <2>3, <2>4, <2>5 DEF PlanNext
<1> QED
  BY <1>1, <1>2, PTL DEF PlanSpec

\* The rows that a plan gives its labels are dates of the prices.
THEOREM PlanTypes == PlanSpec => []PlanTypeOK
<1>1. ASSUME PlanInv PROVE PlanTypeOK
  <2>1. plan = Unplanned \/ Dated(plan)
    <3>1. CASE query \in AutoRequests /\ plan = AutoPlan(query)
      BY <3>1, AutoDated
    <3>2. CASE query \in C4Requests /\ plan = C4Plan(query)
      BY <3>2, C4Dated
    <3>3. CASE query \in TrainingRequests /\ plan = TrainingPlan(query)
      BY <3>3, TrainingDated
    <3>4. CASE query \in CustomRequests /\ plan = CustomPlan(query)
      BY <3>4, CustomDated
    <3> QED
      BY <1>1, <3>1, <3>2, <3>3, <3>4 DEF PlanInv
  <2> QED
    BY <2>1 DEF Dated, PlanRows, PlanTypeOK
<1> QED
  BY <1>1, PlanInvHolds, PTL

\* For every stretch of dates, every price history and every list of parameters: what a
\* configuration asks for is what is executed (base.py _expand_auto_year_parameters and
\* _deduplicate_parameter_combinations, backtest_training_service, combination_estimate).
THEOREM PlansAreExact == PlanSpec => []PlanExact
<1>1. ASSUME PlanInv PROVE PlanExact
  <2>1. CASE plan = Unplanned
    BY <2>1 DEF Planned, PlanExact, EveryWindowPlanned, TrainingWindowsExact, EstimateExact
  <2>2. CASE query \in AutoRequests /\ plan = AutoPlan(query)
    <3>1. EveryWindowPlanned
      BY <2>2, AutoExact
    <3> QED
      BY <2>2, <3>1, KindsOf DEF PlanExact, TrainingWindowsExact, EstimateExact
  <2>3. CASE query \in C4Requests
    BY <2>3, KindsOf DEF PlanExact, EveryWindowPlanned, TrainingWindowsExact, EstimateExact
  <2>4. CASE query \in TrainingRequests /\ plan = TrainingPlan(query)
    <3>1. TrainingWindowsExact
      BY <2>4, TrainingExact
    <3> QED
      BY <2>4, <3>1, KindsOf DEF PlanExact, EveryWindowPlanned, EstimateExact
  <2>5. CASE query \in CustomRequests /\ plan = CustomPlan(query)
    <3>1. EstimateExact
      BY <2>5, CustomExact
    <3> QED
      BY <2>5, <3>1, KindsOf DEF PlanExact, EveryWindowPlanned, TrainingWindowsExact
  <2> QED
    BY <1>1, <2>1, <2>2, <2>3, <2>4, <2>5 DEF PlanInv
<1> QED
  BY <1>1, PlanInvHolds, PTL
=============================================================================
