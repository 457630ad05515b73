------------------------------ MODULE MCSupervisor ------------------------------
(* Instances of the supervisor for TLC: the configurations choose bounds. *)
EXTENDS SupervisorProperties
=============================================================================
