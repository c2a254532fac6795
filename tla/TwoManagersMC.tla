--------------------------- MODULE TwoManagersMC ---------------------------
(***************************************************************************)
(* An instance of TwoManagers for TLC.                                     *)
(***************************************************************************)
EXTENDS TwoManagers, TLC

CONSTANTS t1, t2, s1, c1

TwoTasks    == {t1, t2}
OneSheet    == {s1}
SheetShared == [t \in TwoTasks |-> OneSheet]
RankOfTwo   == t1 :> 1 @@ t2 :> 2
TypesOfTwo  == [t \in TwoTasks |-> "google_sheet"]
WideLimit   == [type \in {"google_sheet"} |-> 3]
OnlyCreate  == c1 :> {"create"}
=============================================================================
