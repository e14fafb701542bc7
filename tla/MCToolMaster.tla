---------------------------- MODULE MCToolMaster ----------------------------
(* Instances of ToolMaster for TLC: two tool lists that order the same tools *)
(* differently, one with a T number twice, and a program that selects T2,    *)
(* changes to T1 and cuts.                                                   *)
EXTENDS ToolMaster

Row(n) == [num |-> n, cells |-> "all"]

MCLists == {<<Row(1), Row(2)>>, <<Row(2), Blank, Row(1)>>, <<Row(2), Row(2)>>}

MCPrograms == {<<[m6 |-> FALSE, tool |-> 2, works |-> FALSE],
                 [m6 |-> TRUE, tool |-> 1, works |-> TRUE]>>}
=============================================================================
