--------------------------- MODULE TaskWatchdogMC ---------------------------
(***************************************************************************)
(* Instances of TaskWatchdog for TLC.                                      *)
(***************************************************************************)
EXTENDS TaskWatchdog, TLC

CONSTANTS t1, t2, s1, c1, dog

\* Two tasks that share their sheet.
TwoTasks    == {t1, t2}
OneSheet    == {s1}
SheetShared == [t \in TwoTasks |-> OneSheet]
RankOfTwo   == t1 :> 1 @@ t2 :> 2
TypesOfTwo  == [t \in TwoTasks |-> "google_sheet"]
WideLimit   == [type \in {"google_sheet"} |-> 3]
Creates     == c1 :> {"create"}
=============================================================================
