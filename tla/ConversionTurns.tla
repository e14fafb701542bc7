-------------------------- MODULE ConversionTurns --------------------------
(***************************************************************************)
(* What job_conversion_lock (backend/tdms_visualizer.py) promises: a Job   *)
(* is converted by at most one process at a time.  A turn is taken only    *)
(* when nobody has it and is given back by the process that took it, or    *)
(* lost when that process dies.                                            *)
(***************************************************************************)
CONSTANTS Procs, Jobs, None

VARIABLE turn       \* the process converting each Job, or None

Init == turn = [j \in Jobs |-> None]

Begin(p, j) == /\ turn[j] = None
               /\ turn' = [turn EXCEPT ![j] = p]

End(p, j)   == /\ turn[j] = p
               /\ turn' = [turn EXCEPT ![j] = None]

Next == \E p \in Procs, j \in Jobs : Begin(p, j) \/ End(p, j)

Spec == Init /\ [][Next]_turn
=============================================================================
