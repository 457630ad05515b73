--------------------------------- MODULE Owner ---------------------------------
(***************************************************************************)
(* The execution owner: the one thread that holds the guest machine        *)
(* (crates/runner/src/worker/execution.rs).  The dispatcher hands it a     *)
(* command and blocks for the answer, so each command is one step; between *)
(* commands a running guest advances by slices.  The engine session inside *)
(* is the Lifecycle machine, which Session refines.                        *)
(***************************************************************************)
EXTENDS Lifecycle

CONSTANTS
    MaxSequence,   (* the last observation sequence number, u64::MAX *)
    Configs,       (* breakpoint and watchpoint sets; 0 is the empty set *)
    ReadsFail      (* whether native reads may fail while observing  *)

ASSUME OwnerAssumption ==
    /\ MaxSequence \in Nat \ {0}
    /\ 0 \in Configs
    /\ ReadsFail \in BOOLEAN

VARIABLES
    session,       (* request id of the load that made the session, or 0  *)
    sequence,      (* sequence number of the last observation             *)
    config         (* breakpoints and watchpoints in force                *)

ownerVars == <<session, status, generation, sequence, config>>

Key == <<session, generation>>
Unloaded == session = 0

OwnerInit ==
    session = 0 /\ status = "none" /\ generation = 0 /\ sequence = 0 /\ config = 0

(* Dropping the session: on Close, and when the owner shuts down. *)
Unload == session' = 0 /\ status' = "none" /\ generation' = 0 /\ sequence' = 0 /\ config' = 0

(***************************************************************************)
(* Load replaces the session named by its exact key while it is not        *)
(* running, and takes the first observation of the replacement.            *)
(***************************************************************************)
Load(id) ==
    /\ status # "running"
    /\ session' = id /\ status' = "ready" /\ generation' = 0
    /\ sequence' = 1 /\ config' = 0

(* What a machine command does when it succeeds (apply). *)
Apply(command) ==
    \/ /\ command = "run" /\ Control("start")
       /\ UNCHANGED config
    \/ /\ command = "step" /\ status \in Legal("start")
       /\ status' \in {"running", "paused", "terminated", "crashed"}
       /\ UNCHANGED <<generation, config>>
    \/ /\ command = "pause" /\ Control("pause")
       /\ UNCHANGED config
    \/ /\ command = "cancel" /\ Control("terminate")
       /\ UNCHANGED config
    \/ /\ command = "reset" /\ Control("reset")
       /\ UNCHANGED config
    \/ /\ command = "edit" /\ status \in Patchable
       /\ \/ config' \in Configs /\ UNCHANGED <<status, generation>>
          \/ Control("crash") /\ UNCHANGED config
    \/ /\ command = "clear_trace" /\ status \notin {"running", "crashed"}
       /\ UNCHANGED <<status, generation, config>>
    \/ /\ command = "observe"
       /\ UNCHANGED <<status, generation, config>>

(* A command that succeeds answers with the next observation. *)
Observed(command, memory) ==
    /\ ~Unloaded
    /\ sequence < MaxSequence
    /\ Apply(command)
    /\ memory => status' # "crashed"
    /\ sequence' = sequence + 1
    /\ UNCHANGED session

(* The command took effect, and then the observation failed. *)
Unobserved(command) ==
    /\ ReadsFail
    /\ ~Unloaded /\ sequence < MaxSequence
    /\ Apply(command)
    /\ UNCHANGED <<session, sequence>>

(* One slice of a running guest. *)
Advance ==
    /\ status = "running"
    /\ status' \in {"running", "paused", "terminated", "crashed"}
    /\ UNCHANGED <<session, generation, sequence, config>>
=============================================================================
