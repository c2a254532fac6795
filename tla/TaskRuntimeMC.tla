--------------------------- MODULE TaskRuntimeMC ---------------------------
(***************************************************************************)
(* Instances of TaskRuntime for TLC.                                       *)
(***************************************************************************)
EXTENDS TaskRuntime, TLC

CONSTANTS t1, t2, t3, s1, s2, c1, c2

\* Two tasks that share a sheet; the second one needs another sheet as well.
TwoTasks  == {t1, t2}
TwoSheets == {s1, s2}
SheetsOfTwo == t1 :> {s1} @@ t2 :> {s1, s2}
RankOfTwo   == t1 :> 1 @@ t2 :> 2
OneType(T)  == [t \in T |-> "google_sheet"]
TypesOfTwo  == OneType(TwoTasks)
WideLimit   == [type \in {"google_sheet"} |-> 3]
\* One caller creates and restarts tasks while the other one cancels them.
RestartAndCancel == c1 :> {"create", "restart"} @@ c2 :> {"cancel"}

\* Two tasks with a sheet each, which compete for the places of the pool.
SheetsApart == t1 :> {s1} @@ t2 :> {s2}
StartFaults == FaultKinds \ {"stall"}
EveryRequest == c1 :> {"create", "restart"} @@ c2 :> {"cancel", "delete"}

\* Three tasks wait for one sheet.
ThreeTasks == {t1, t2, t3}
OneSheet   == {s1}
SheetShared == [t \in ThreeTasks |-> OneSheet]
RankOfThree == t1 :> 1 @@ t2 :> 2 @@ t3 :> 3
TypesOfThree == OneType(ThreeTasks)
OnlyCreate == c1 :> {"create"}

\* A task that holds two sheets, and one task that waits for each of them.
SheetsOfThree == t1 :> {s1, s2} @@ t2 :> {s1} @@ t3 :> {s2}

TwoStarters == [c \in {c1, c2} |-> {"create", "restart"}]
CreateThenCancel == c1 :> {"create", "cancel"}
CreateThenDelete == c1 :> {"create", "delete"}
=============================================================================
