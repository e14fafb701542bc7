------------------------------ MODULE MCReset ------------------------------
(* Instance of Reset for TLC: one Job with a metadata file and a recording. *)
EXTENDS Reset

MCJobOf   == [f \in JobFiles |-> CHOOSE j \in Jobs : TRUE]
MCSelections == {{"db", "storage"}, {"tools", "storage"}}
=============================================================================
