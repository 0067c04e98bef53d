------------------------------ MODULE MCReports ------------------------------
(* Reports on a small calendar: days of two minutes of three instants, weeks  *)
(* of two days that begin on the even days, months of two days and of one.    *)
(* The clock starts in the last instant of day 2, a Monday; day 3 is a first, *)
(* day 4 a Monday and a first.                                                *)
EXTENDS Reports

CONSTANTS b1, b2, f1

TwoBots   == <<b1, b2>>
MCFill    == {f1}
MCBotOf   == [f \in MCFill |-> b1]
MCMondays == {0, 2, 4}
MCFirsts  == {1, 3, 4}
==============================================================================
