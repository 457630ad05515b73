-------------------------------- MODULE Machine --------------------------------
(***************************************************************************)
(* The machine (crates/engine/src/machine.rs) around one runtime, and what *)
(* the session does with its failures: commands between calls, and a reset *)
(* that builds a second runtime before it gives the first one up.          *)
(***************************************************************************)
EXTENDS Runtime

CONSTANTS
    Regions,           (* the image's mappings, as a sequence of cells  *)
    LastGeneration     (* u64::MAX                                      *)

ASSUME MachineAssumption ==
    /\ Regions \in Seq(SUBSET Memory) /\ UNION Range(Regions) = Memory
    /\ LastGeneration \in Nat

VARIABLES
    rebuild,           (* the runtime being built, while one is         *)
    generation,        (* the session's count of resets                 *)
    crashed,           (* the session's state is Crashed                *)
    (* history, read by no action *)
    requested          (* watchpoints of the last request that succeeded*)

session == <<generation, crashed>>
native == <<cpu, watches, code, call>>
vars == <<native, rebuild, session, requested>>

NoRebuild == [stage |-> "none", mapped |-> 0, pc |-> 0, armed |-> <<>>]
Between == Idle /\ rebuild.stage = "none" /\ ~crashed

MachineInit ==
    /\ Init
    /\ rebuild = NoRebuild
    /\ generation = 0 /\ crashed = FALSE
    /\ requested = {}

-----------------------------------------------------------------------------
(* Running, and commands between two calls.                                *)

Run == Between /\ Execute /\ UNCHANGED <<rebuild, session, requested>>
Runs == Running /\ UNCHANGED <<rebuild, session, requested>>

(* run_slice takes the step; an error crashes the session. *)
Return ==
    /\ InCall("done")
    /\ call' = NoCall
    /\ crashed' = (call.outcome = "error")
    /\ UNCHANGED <<cpu, watches, code, rebuild, generation, requested>>

WatchRequest ==
    /\ Between
    /\ \E input \in Inputs : SetWatchpoints(input) /\ requested' = Range(input)
    /\ UNCHANGED <<rebuild, session>>

WriteMemory == Between /\ Write /\ UNCHANGED <<rebuild, session, requested>>
WriteRegister == Between /\ SetRegister /\ UNCHANGED <<rebuild, session, requested>>

(* accept_write: a native refusal of any write crashes the session. *)
WriteFails ==
    /\ Between
    /\ crashed' = TRUE
    /\ UNCHANGED <<native, rebuild, generation, requested>>

-----------------------------------------------------------------------------
(* Reset.                                                                  *)

(* Mutant of ResetBegins: the session counts the reset before it is made. *)
ResetCounted ==
    /\ Between /\ generation < LastGeneration
    /\ rebuild' = [NoRebuild EXCEPT !.stage = "map"]
    /\ generation' = generation + 1
    /\ UNCHANGED <<native, crashed, requested>>

ResetBegins ==
    /\ Between /\ generation < LastGeneration
    /\ rebuild' = [NoRebuild EXCEPT !.stage = "map"]
    /\ UNCHANGED <<native, session, requested>>

MapRegion ==
    /\ rebuild.stage = "map" /\ rebuild.mapped < Len(Regions)
    /\ rebuild' = [rebuild EXCEPT !.mapped = @ + 1]
    /\ UNCHANGED <<native, session, requested>>

SetEntry ==
    /\ rebuild.stage = "map" /\ rebuild.mapped = Len(Regions)
    /\ rebuild' = [rebuild EXCEPT !.stage = "watch", !.pc = Entry]
    /\ UNCHANGED <<native, session, requested>>

(* Mutant of Rearm: the new runtime starts without watchpoints. *)
RearmNothing ==
    /\ rebuild.stage = "watch"
    /\ rebuild' = [rebuild EXCEPT !.stage = "swap"]
    /\ UNCHANGED <<native, session, requested>>

Rearm ==
    /\ rebuild.stage = "watch"
    /\ rebuild' = [rebuild EXCEPT !.stage = "swap", !.armed = points]
    /\ UNCHANGED <<native, session, requested>>

(* Any stage may fail: what was built is dropped. *)
ResetFails ==
    /\ rebuild.stage \in {"map", "watch"}
    /\ rebuild' = NoRebuild
    /\ UNCHANGED <<native, session, requested>>

Swap ==
    /\ rebuild.stage = "swap"
    /\ memory' = Image /\ pc' = rebuild.pc /\ mode' = EntryMode
    /\ armed' = rebuild.armed /\ points' = rebuild.armed
    /\ cache' = Empty /\ linked' = Empty /\ sequence' = 0
    /\ rebuild' = NoRebuild
    /\ generation' = generation + 1
    /\ UNCHANGED <<call, crashed, requested>>

Next ==
    \/ Run \/ Runs \/ Return \/ WatchRequest \/ WriteMemory \/ WriteRegister \/ WriteFails
    \/ ResetBegins \/ MapRegion \/ SetEntry \/ Rearm \/ ResetFails \/ Swap

Spec == MachineInit /\ [][Next]_vars

(* execute loops until its budget is used, and its caller waits for it. *)
FairSpec == Spec /\ WF_vars(Runs) /\ WF_vars(Return)

=============================================================================
