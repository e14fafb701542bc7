---------------------------- MODULE MCSupervisor ----------------------------
(* Instances of Supervisor for TLC: two modules, two starts.                *)
EXTENDS Supervisor
=============================================================================
