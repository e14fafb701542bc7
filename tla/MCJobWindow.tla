---------------------------- MODULE MCJobWindow ----------------------------
(* Instances of JobWindow for TLC: a program of five blocks, one of which   *)
(* occurs twice.                                                            *)
EXTENDS JobWindow

FiveBlocks == <<"head", "a", "b", "c", "a">>

ClockErrors == {0, 1, -2}
=============================================================================
