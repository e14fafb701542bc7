-------------------------- MODULE MCTdmsConverter --------------------------
(* Instances of TdmsConverter for TLC: one or two daemons, one or two Jobs. *)
EXTENDS TdmsConverter
=============================================================================
