------------------------------ MODULE Lifecycle ------------------------------
(***************************************************************************)
(* The control states of a guest session and the transitions between them  *)
(* (crates/core/src/execution.rs).  The engine's Session refines this      *)
(* machine, and the worker's execution owner is modelled on top of it.     *)
(***************************************************************************)
EXTENDS Naturals

VARIABLES
    status,       (* control state of the session, pause reasons forgotten *)
    generation    (* number of successful resets                           *)

lifecycleVars == <<status, generation>>

Statuses == {"ready", "running", "paused", "terminated", "crashed"}
Events == {"start", "pause", "terminate", "reset", "crash"}

(* The states in which each control event is legal. *)
Legal(event) ==
    CASE event = "start"     -> {"ready", "paused"}
      [] event = "pause"     -> {"running"}
      [] event = "terminate" -> {"running", "ready", "paused"}
      [] event = "reset"     -> {"ready", "paused", "terminated"}
      [] event = "crash"     -> Statuses

(* The state each control event leads to. *)
Target(event) ==
    CASE event = "start"     -> "running"
      [] event = "pause"     -> "paused"
      [] event = "terminate" -> "terminated"
      [] event = "reset"     -> "ready"
      [] event = "crash"     -> "crashed"

(* Direct mutation of machine state is legal only here. *)
Patchable == {"ready", "paused"}

LifecycleInit == status = "ready" /\ generation = 0

(* A reset is the one event that starts a new generation. *)
Control(event) ==
    /\ status \in Legal(event)
    /\ status' = Target(event)
    /\ generation' = IF event = "reset" THEN generation + 1 ELSE generation

LifecycleNext == \E event \in Events : Control(event)

LifecycleSpec == LifecycleInit /\ [][LifecycleNext]_lifecycleVars
=============================================================================
