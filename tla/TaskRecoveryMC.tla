--------------------------- MODULE TaskRecoveryMC ---------------------------
(***************************************************************************)
(* Instances of TaskRecovery for TLC.                                      *)
(***************************************************************************)
EXTENDS TaskRecovery, TLC

CONSTANTS t1, t2, t3, s1, c1, c2, boot

OneType(T)  == [t \in T |-> "google_sheet"]
WideLimit   == [type \in {"google_sheet"} |-> 3]

\* Three tasks wait for one sheet.
ThreeTasks   == {t1, t2, t3}
OneSheet     == {s1}
SheetShared  == [t \in ThreeTasks |-> OneSheet]
RankOfThree  == t1 :> 1 @@ t2 :> 2 @@ t3 :> 3
TypesOfThree == OneType(ThreeTasks)
BothCreate   == [c \in {c1, c2} |-> {"create"}]
=============================================================================
