-------------------------------- MODULE Session --------------------------------
(***************************************************************************)
(* The engine session (crates/engine/src/session.rs) with its machine's    *)
(* slice loop (machine/run.rs) and temporary goals (machine/debug.rs).     *)
(*                                                                         *)
(* A command is one step.  advance() is one step that opens a slice, then  *)
(* one step per pass of the loop in run_slice; no command is served inside *)
(* a slice, because the session is owned by one thread.  The guest decides *)
(* what an instruction does; the clock decides when a slice is over.       *)
(***************************************************************************)
EXTENDS Naturals, Sequences, FiniteSets

CONSTANTS
    Addresses,         (* guest instruction addresses                   *)
    NoAddress,         (* None                                          *)
    Entry, Completion, (* the declared start and end of the experiment  *)
    Budget,            (* instruction_budget                            *)
    SliceDispatches,   (* SLICE_DISPATCHES (1024)                       *)
    TraceCapacity,     (* TRACE_CAPACITY (512)                          *)
    BreakpointLimit,   (* 256                                           *)
    MaxGeneration      (* the last reset generation, u64::MAX           *)

ASSUME SessionAssumption ==
    /\ NoAddress \notin Addresses
    /\ Entry \in Addresses /\ Completion \in Addresses /\ Entry # Completion
    /\ Budget \in Nat \ {0} /\ SliceDispatches \in Nat \ {0}
    /\ TraceCapacity \in Nat \ {0} /\ BreakpointLimit \in Nat
    /\ MaxGeneration \in Nat

VARIABLES
    (* Session *)
    state,             (* control state, with its reason and address    *)
    generation,        (* number of resets                              *)
    instructions,      (* instructions started, as accepted             *)
    goal,              (* RunGoal                                       *)
    bypass,            (* breakpoint to pass when the next slice opens  *)
    (* Machine *)
    pc,                (* the native program counter                    *)
    breakpoints,
    pendingRepeat,     (* the address of an unfinished REP instruction  *)
    machineBypass,     (* breakpoint to pass until an instruction starts*)
    trace,
    (* run_slice *)
    slice,             (* the slice in progress, or NoSlice             *)
    (* history, read by no action *)
    begun,             (* when it was last started: the breakpoint it   *)
                       (* resumed from, the count, whether inside a REP *)
    reported           (* breakpoint reported with nothing started since*)

control == <<state, generation, goal, bypass>>
machine == <<pc, breakpoints, pendingRepeat, machineBypass, trace>>
history == <<begun, reported>>
vars == <<control, instructions, machine, slice, history>>

Lifecycle == INSTANCE Lifecycle WITH status <- state.status

State(status, reason, at) == [status |-> status, reason |-> reason, at |-> at]
Ready == State("ready", "none", NoAddress)
Running == State("running", "none", NoAddress)
Crashed == State("crashed", "none", NoAddress)
Paused(reason, at) == State("paused", reason, at)
Terminated(reason) == State("terminated", reason, NoAddress)

IsRunning == state.status = "running"
CanStart == state.status \in Lifecycle!Legal("start")
RequirePatchable == state.status \in Lifecycle!Patchable

NoSlice == [open |-> FALSE, dispatches |-> 0, instructions |-> 0, limit |-> 0, remaining |-> 0]
Between == ~slice.open
Started == instructions + slice.instructions    \* the running count

Continue == [kind |-> "continue", targets |-> {}]
StepOne == [kind |-> "step", targets |-> {}]
Goals == [kind : {"continue", "step", "until", "return"}, targets : SUBSET Addresses]

Init ==
    /\ state = Ready /\ generation = 0 /\ instructions = 0
    /\ goal = Continue /\ bypass = NoAddress
    /\ pc = Entry /\ breakpoints = {} /\ pendingRepeat = NoAddress /\ machineBypass = NoAddress
    /\ trace = [enabled |-> FALSE, entries |-> <<>>, discarded |-> 0]
    /\ slice = NoSlice
    /\ begun = [at |-> NoAddress, instructions |-> 0, repeating |-> FALSE]
    /\ reported = NoAddress

-----------------------------------------------------------------------------
(* Starting, and opening a slice.                                          *)

ResumedAnywhere == IF state.status = "paused" THEN pc ELSE NoAddress   \* mutant of Resumed
Resumed == IF state.reason = "breakpoint" THEN state.at ELSE NoAddress

(* begin: resuming from a breakpoint passes it once. *)
Begin(g) ==
    /\ Between /\ CanStart
    /\ state' = Running
    /\ goal' = g
    /\ begun' = [at |-> Resumed, instructions |-> instructions,
                 repeating |-> pendingRepeat # NoAddress]
    /\ UNCHANGED <<generation, instructions, pc, breakpoints, pendingRepeat, trace, reported>>

Remaining == Budget - instructions
Clamp(n, low, high) == IF n < low THEN low ELSE IF n > high THEN high ELSE n

(* Mutant of OpenSlice: a step is not limited to one dispatch. *)
OpenSliceFull(g, b) ==
    /\ slice' = [open |-> TRUE, dispatches |-> 0, instructions |-> 0, remaining |-> Remaining,
                 limit |-> Clamp(Remaining, 1, SliceDispatches)]
    /\ machineBypass' = IF b # NoAddress THEN b ELSE machineBypass
    /\ bypass' = NoAddress

OpenSlice(g, b) ==
    /\ slice' = [open |-> TRUE, dispatches |-> 0, instructions |-> 0, remaining |-> Remaining,
                 limit |-> IF g.kind = "step" THEN 1 ELSE Clamp(Remaining, 1, SliceDispatches)]
    /\ machineBypass' = IF b # NoAddress THEN b ELSE machineBypass
    /\ bypass' = NoAddress

Start ==
    /\ Begin(Continue)
    /\ bypass' = Resumed
    /\ UNCHANGED <<machineBypass, slice>>

UntilGoals == [kind : {"until"}, targets : SUBSET Addresses \ {{}}]

RunUntil ==
    /\ \E g \in UntilGoals : Begin(g)
    /\ bypass' = Resumed
    /\ UNCHANGED <<machineBypass, slice>>

(* Steps open their first slice at once. *)
Step == Begin(StepOne) /\ OpenSlice(StepOne, Resumed)

(* A call runs to its fallthrough; anything else is a step. *)
StepOverGoals == {StepOne} \cup [kind : {"return"}, targets : {{a} : a \in Addresses \ {pc}}]

StepOver ==
    \E g \in StepOverGoals :
        /\ pc = Completion => g = StepOne
        /\ Begin(g) /\ OpenSlice(g, Resumed)

Advance ==
    /\ Between /\ IsRunning
    /\ OpenSlice(goal, bypass)
    /\ UNCHANGED <<state, generation, instructions, goal, pc, breakpoints, pendingRepeat, trace,
                   history>>

-----------------------------------------------------------------------------
(* One pass of the slice loop: the first test that applies decides.        *)

Fresh == pendingRepeat # pc          \* not the continuation of a REP
Complete == pc = Completion
Limit == slice.dispatches = slice.limit
ExhaustedLate == Fresh /\ slice.instructions > slice.remaining   \* mutant of Exhausted
Exhausted == Fresh /\ slice.instructions = slice.remaining
AtBreakpoint == Fresh /\ machineBypass # pc /\ pc \in breakpoints
AtTarget == Fresh /\ pc \in goal.targets

(* Mutant of Leave: the slice's instructions are not added. *)
LeaveUncounted(next, count) ==
    /\ state' = next
    /\ slice' = NoSlice
    /\ UNCHANGED <<instructions, generation, goal, bypass, breakpoints, begun>>

(* accept: leave the slice in the given state. *)
Leave(next, count) ==
    /\ state' = next
    /\ instructions' = instructions + count
    /\ slice' = NoSlice
    /\ UNCHANGED <<generation, goal, bypass, breakpoints, begun>>

StopAt(next) ==
    /\ Leave(next, slice.instructions)
    /\ UNCHANGED <<pc, pendingRepeat, machineBypass, trace>>

(* accept for a yield: the budget may be used up, or the step done. *)
Yielded(count, dispatches, repeating) ==
    IF instructions + count = Budget /\ ~repeating THEN Terminated("budget")
    ELSE IF goal.kind = "step" /\ dispatches # 0 /\ ~repeating THEN Paused("step", NoAddress)
    ELSE Running

Completes ==
    /\ slice.open /\ Complete
    /\ StopAt(Terminated("completed"))
    /\ UNCHANGED reported

SliceEnds ==
    /\ slice.open /\ ~Complete
    /\ Limit \/ slice.dispatches # 0      \* or the deadline has passed
    /\ StopAt(Yielded(slice.instructions, slice.dispatches, pendingRepeat # NoAddress))
    /\ UNCHANGED reported

BudgetEnds ==
    /\ slice.open /\ ~Complete /\ ~Limit /\ Exhausted
    /\ StopAt(Terminated("budget"))
    /\ UNCHANGED reported

BreakpointStops ==
    /\ slice.open /\ ~Complete /\ ~Limit /\ ~Exhausted /\ AtBreakpoint
    /\ StopAt(Paused("breakpoint", pc))
    /\ reported' = pc

TargetStops ==
    /\ slice.open /\ ~Complete /\ ~Limit /\ ~Exhausted /\ ~AtBreakpoint /\ AtTarget
    /\ StopAt(Paused("target", pc))
    /\ UNCHANGED reported

(* A call's target is not reached at another stack depth. *)
Admitted ==
    /\ slice.open /\ ~Complete /\ ~Limit /\ ~Exhausted /\ ~AtBreakpoint
    /\ AtTarget => goal.kind = "return"

Recorded(number) ==
    IF ~trace.enabled THEN trace
    ELSE IF Len(trace.entries) = TraceCapacity
    THEN [trace EXCEPT !.entries = Append(Tail(@), [instruction |-> number, pc |-> pc]),
                       !.discarded = @ + 1]
    ELSE [trace EXCEPT !.entries = Append(@, [instruction |-> number, pc |-> pc])]

NewStarts == IF Fresh THEN 1 ELSE 0
Count == slice.instructions + NewStarts

(* Mutant of Starting: each slice of a REP is recorded. *)
StartingAgain(next, repeating) ==
    /\ pc' = next
    /\ pendingRepeat' = IF repeating THEN pc ELSE NoAddress
    /\ machineBypass' = NoAddress
    /\ trace' = Recorded(Started + NewStarts)
    /\ reported' = NoAddress

(* What every started instruction does to the machine. *)
Starting(next, repeating) ==
    /\ pc' = next
    /\ pendingRepeat' = IF repeating THEN pc ELSE NoAddress
    /\ machineBypass' = NoAddress
    /\ trace' = IF Fresh THEN Recorded(Started + 1) ELSE trace
    /\ reported' = NoAddress

(* The instruction finished within the slice, maybe after REP iterations. *)
InstructionFinishes ==
    /\ Admitted
    /\ \E next \in Addresses, n \in 1 .. slice.limit - slice.dispatches :
        /\ Starting(next, FALSE)
        /\ slice' = [slice EXCEPT !.dispatches = @ + n, !.instructions = Count]
    /\ UNCHANGED <<control, instructions, breakpoints, begun>>

(* A REP used all dispatches of the slice. *)
RepeatYields ==
    /\ Admitted
    /\ Starting(pc, TRUE)
    /\ Leave(Yielded(Count, slice.limit, TRUE), Count)

(* A watched access, after the instruction or one REP iteration. *)
WatchpointHits ==
    /\ Admitted
    /\ \/ \E next \in Addresses : Starting(next, FALSE)
       \/ Starting(pc, TRUE)
    /\ Leave(Paused("watchpoint", NoAddress), Count)

(* A fault or an environment request of a started instruction; a REP that  *)
(* overwrote itself with an instruction not lowered stays pending.         *)
InstructionTraps ==
    /\ Admitted
    /\ \/ \E next \in Addresses : Starting(next, FALSE)
       \/ Starting(pc, TRUE)
    /\ \E reason \in {"guest_fault", "environment"} : Leave(Terminated(reason), Count)

(* The instruction could not be fetched: it did not start. *)
FetchTraps ==
    /\ Admitted
    /\ pendingRepeat' = NoAddress
    /\ \E reason \in {"guest_fault", "environment"} :
        Leave(Terminated(reason), slice.instructions)
    /\ UNCHANGED <<pc, machineBypass, trace, reported>>

(* A native failure inside the slice; what it counted is lost. *)
SliceCrashes ==
    /\ slice.open
    /\ Leave(Crashed, 0)
    /\ UNCHANGED <<pc, pendingRepeat, machineBypass, trace, reported>>

-----------------------------------------------------------------------------
(* Commands between slices.                                                *)

Pause ==
    /\ Between /\ state.status \in Lifecycle!Legal("pause")
    /\ state' = Paused("requested", NoAddress)
    /\ UNCHANGED <<generation, instructions, goal, bypass, machine, slice, history>>

(* Mutant of Cancel: terminal and crashed sessions are cancelled too. *)
CancelAnytime ==
    /\ Between
    /\ state' = Terminated("cancelled")
    /\ UNCHANGED <<generation, instructions, goal, bypass, machine, slice, history>>

Cancel ==
    /\ Between /\ state.status \in Lifecycle!Legal("terminate")
    /\ state' = Terminated("cancelled")
    /\ UNCHANGED <<generation, instructions, goal, bypass, machine, slice, history>>

(* Breakpoints and the recording mode survive a reset. *)
Reset ==
    /\ Between /\ state.status \in Lifecycle!Legal("reset")
    /\ generation < MaxGeneration
    /\ state' = Ready /\ generation' = generation + 1 /\ instructions' = 0
    /\ goal' = Continue /\ bypass' = NoAddress
    /\ pc' = Entry /\ pendingRepeat' = NoAddress /\ machineBypass' = NoAddress
    /\ trace' = [trace EXCEPT !.entries = <<>>, !.discarded = 0]
    /\ reported' = NoAddress
    /\ UNCHANGED <<breakpoints, slice, begun>>

SetBreakpoints ==
    /\ Between /\ RequirePatchable
    /\ \E addresses \in SUBSET Addresses :
        breakpoints' \in {breakpoints \cup addresses, breakpoints \ addresses}
    /\ Cardinality(breakpoints') <= BreakpointLimit
    /\ UNCHANGED <<control, instructions, pc, pendingRepeat, machineBypass, trace, slice, history>>

(* Mutant of WritePc: the machine keeps its REP continuation. *)
WritePcInRepeat ==
    /\ Between /\ RequirePatchable
    /\ pc' \in Addresses
    /\ machineBypass' = NoAddress
    /\ bypass' = NoAddress /\ goal' = Continue
    /\ state' = IF state.status = "paused" THEN Paused("requested", NoAddress) ELSE state
    /\ reported' = NoAddress
    /\ UNCHANGED <<generation, instructions, breakpoints, pendingRepeat, trace, slice, begun>>

(* Writing the program counter, even to its current value, starts anew. *)
WritePc ==
    /\ Between /\ RequirePatchable
    /\ pc' \in Addresses
    /\ pendingRepeat' = NoAddress /\ machineBypass' = NoAddress
    /\ bypass' = NoAddress /\ goal' = Continue
    /\ state' = IF state.status = "paused" THEN Paused("requested", NoAddress) ELSE state
    /\ reported' = NoAddress
    /\ UNCHANGED <<generation, instructions, breakpoints, trace, slice, begun>>

(* Writing to an executable mapping abandons a REP. *)
PatchCode ==
    /\ Between /\ RequirePatchable
    /\ pendingRepeat' = NoAddress
    /\ UNCHANGED <<control, instructions, pc, breakpoints, machineBypass, trace, slice, history>>

(* A native write failed part way. *)
WriteCrashes ==
    /\ Between /\ RequirePatchable
    /\ state' = Crashed
    /\ UNCHANGED <<generation, instructions, goal, bypass, machine, slice, history>>

RecordTrace ==
    /\ Between /\ RequirePatchable
    /\ \E enabled \in BOOLEAN : trace' = [trace EXCEPT !.enabled = enabled]
    /\ UNCHANGED <<control, instructions, pc, breakpoints, pendingRepeat, machineBypass, slice,
                   history>>

ClearTrace ==
    /\ Between /\ state.status \notin {"running", "crashed"}
    /\ trace' = [trace EXCEPT !.entries = <<>>, !.discarded = 0]
    /\ UNCHANGED <<control, instructions, pc, breakpoints, pendingRepeat, machineBypass, slice,
                   history>>

-----------------------------------------------------------------------------
RunSlice ==
    \/ Completes \/ SliceEnds \/ BudgetEnds \/ BreakpointStops \/ TargetStops
    \/ InstructionFinishes \/ RepeatYields \/ WatchpointHits \/ InstructionTraps
    \/ FetchTraps \/ SliceCrashes

Commands ==
    \/ Start \/ RunUntil \/ Step \/ StepOver \/ Pause \/ Cancel \/ Reset
    \/ SetBreakpoints \/ WritePc \/ PatchCode \/ WriteCrashes \/ RecordTrace \/ ClearTrace

Next == Advance \/ RunSlice \/ Commands

Spec == Init /\ [][Next]_vars

(* The owner keeps advancing a running session (execution.rs:209-215). *)
FairSpec == Spec /\ WF_vars(Advance) /\ WF_vars(RunSlice)
=============================================================================
