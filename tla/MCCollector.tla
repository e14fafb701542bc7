---------------------------- MODULE MCCollector ----------------------------
(* Instances of Collector for TLC: one Job folder, people drop its files at *)
(* the top of it, reference files in etc/ and drawings at the part.         *)
EXTENDS Collector

MCJobOf == [f \in JobFiles \cup EtcFiles |-> CHOOSE j \in Jobs : TRUE]

DropRoot == (JobFiles \X {"root"}) \cup (EtcFiles \X {"sub"}) \cup (CadFiles \X {"cad"})
=============================================================================
