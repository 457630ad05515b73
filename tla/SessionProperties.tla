--------------------------- MODULE SessionProperties ---------------------------
(***************************************************************************)
(* What the engine session promises a debugger, stated over Session.       *)
(***************************************************************************)
EXTENDS Session

OptionalAddress == Addresses \cup {NoAddress}
Reasons == {"none", "step", "requested", "breakpoint", "target", "watchpoint",
            "completed", "guest_fault", "cancelled", "budget", "environment"}
StateType == [status : Lifecycle!Statuses, reason : Reasons, at : OptionalAddress]

(* Every variable has its type. *)
TypeOK ==
    /\ state \in StateType
    /\ generation \in 0 .. MaxGeneration /\ instructions \in Nat
    /\ goal \in Goals /\ bypass \in OptionalAddress
    /\ pc \in Addresses /\ breakpoints \subseteq Addresses
    /\ pendingRepeat \in OptionalAddress /\ machineBypass \in OptionalAddress
    /\ trace \in [enabled : BOOLEAN, discarded : Nat,
                  entries : Seq([instruction : Nat, pc : Addresses])]
    /\ Len(trace.entries) <= TraceCapacity
    /\ slice \in [open : BOOLEAN, dispatches : Nat, instructions : Nat, limit : Nat,
                  remaining : Nat]
    /\ begun \in [at : OptionalAddress, instructions : Nat, repeating : BOOLEAN]
    /\ reported \in OptionalAddress

(***************************************************************************)
(* No more instructions start than the budget allows, whatever the slices, *)
(* interrupted REPs, watchpoint pauses and restarts in between             *)
(* (run.rs:58, session.rs:220-225).                                        *)
(***************************************************************************)
BudgetRespected == Started <= Budget

(***************************************************************************)
(* A breakpoint pass and a REP continuation always belong to the current   *)
(* instruction.  Each is kept across slices and pauses; a stale one would  *)
(* skip a breakpoint, or run an instruction uncounted (run.rs:38, :57).    *)
(***************************************************************************)
PassIsHere ==
    /\ bypass \in {pc, NoAddress}
    /\ machineBypass \in {pc, NoAddress}
    /\ pendingRepeat \in {pc, NoAddress}

(***************************************************************************)
(* An instruction at a user breakpoint starts only after the session has   *)
(* stopped there and reported the breakpoint, with nothing started and the *)
(* program counter not written since.                                      *)
(***************************************************************************)
BreakpointNotSkipped ==
    [][Started' = Started + 1 /\ pc \in breakpoints => reported = pc]_vars

(***************************************************************************)
(* The reason a run ends with says what happened.  A breakpoint met where  *)
(* the run began is met again only after progress ("resume bypasses the    *)
(* stop until admission", docs/engine.md).  A step executed exactly one    *)
(* instruction or, started inside a REP, finished it and started nothing   *)
(* (session.rs:266-272).  "Reaching completion on the last budgeted        *)
(* instruction yields Completed, not Budget", and the budget cuts no REP.  *)
(***************************************************************************)
ReasonIsTrue ==
    CASE state.reason = "breakpoint" ->
            begun.at = state.at => instructions > begun.instructions
      [] state.reason = "step" ->
            instructions = begun.instructions + (IF begun.repeating THEN 0 ELSE 1)
      [] state.reason = "budget" ->
            pc # Completion /\ instructions = Budget /\ pendingRepeat = NoAddress
      [] OTHER ->
            IsRunning /\ goal.kind = "step" => Started <= begun.instructions + 1

(***************************************************************************)
(* The trace lists instruction starts in order, each once even when a REP  *)
(* continued over many slices, none later than the count.  With the        *)
(* evicted entries it never holds more starts than happened.               *)
(***************************************************************************)
TraceIsHistory ==
    LET entries == trace.entries
    IN  state.status # "crashed" =>
          /\ \A i, j \in DOMAIN entries :
                i < j => entries[i].instruction < entries[j].instruction
          /\ \A i \in DOMAIN entries :
                i + trace.discarded <= entries[i].instruction /\ entries[i].instruction <= Started

(* The session is the control state machine of the core crate. *)
ImplementsLifecycle == Lifecycle!LifecycleSpec

(* A run that is not inside a REP cannot go on for ever. *)
RunEnds == IsRunning ~> ~IsRunning \/ pendingRepeat # NoAddress

(***************************************************************************)
(* docs/engine.md: "a user breakpoint at the same address retains its      *)
(* breakpoint reason" when a temporary target is reached.                  *)
(***************************************************************************)
BreakpointReasonRetained ==
    [][IsRunning /\ state'.reason = "target" => state'.at \notin breakpoints]_vars
=============================================================================
