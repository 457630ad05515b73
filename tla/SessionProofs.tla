----------------------------- MODULE SessionProofs -----------------------------
(***************************************************************************)
(* Proofs about the engine session for every set of addresses, budget,     *)
(* slice length, trace capacity and breakpoint limit.                      *)
(***************************************************************************)
EXTENDS SessionProperties, TLAPS

USE SessionAssumption

(***************************************************************************)
(* The strengthening.  The count is bounded with what an open slice was    *)
(* granted; a breakpoint that was reported, carried over a start, or being *)
(* passed is always the one at the program counter.                        *)
(***************************************************************************)
SliceGrant ==
    /\ slice.open => IsRunning /\ bypass = NoAddress /\ slice.remaining = Budget - instructions
    /\ ~slice.open => slice = NoSlice
    /\ Started <= Budget

PassIsReported ==
    /\ state.reason = "breakpoint" =>
         state.status = "paused" /\ state.at = pc /\ reported = pc
    /\ bypass # NoAddress => reported = bypass
    /\ machineBypass # NoAddress => reported = machineBypass

Inv == TypeOK /\ SliceGrant /\ PassIsReported /\ PassIsHere

(* A new session satisfies the invariant. *)
LEMMA InitInv == Init => Inv
  BY SMT DEF Init, Inv, SliceGrant, PassIsReported, PassIsHere, TypeOK, StateType, State, Ready,
             Reasons, OptionalAddress, Goals, Continue, NoSlice, Lifecycle!Statuses, Started

(* Starting a session, alone and with its first slice. *)
LEMMA BeginInv ==
  ASSUME Inv, NEW g \in Goals, Begin(g),
         \/ bypass' = Resumed /\ UNCHANGED <<machineBypass, slice>>
         \/ OpenSlice(g, Resumed)
  PROVE  Inv'
<1>1. TypeOK'
  <2>1. Running \in StateType
    BY DEF Running, State, StateType, Reasons, OptionalAddress, Lifecycle!Statuses
  <2>2. Resumed \in OptionalAddress
    BY DEF Resumed, Inv, TypeOK, StateType, OptionalAddress
  <2>3. Remaining \in Nat /\ Clamp(Remaining, 1, SliceDispatches) \in Nat
    BY DEF Remaining, Clamp, Inv, TypeOK, SliceGrant, Started, Between, NoSlice, Begin
  <2>4. slice' \in [open : BOOLEAN, dispatches : Nat, instructions : Nat, limit : Nat,
                   remaining : Nat]
    <3>1. CASE UNCHANGED slice
      BY <3>1 DEF Inv, TypeOK
    <3>2. CASE OpenSlice(g, Resumed)
      <4> DEFINE limit == IF g.kind = "step" THEN 1 ELSE Clamp(Remaining, 1, SliceDispatches)
      <4>1. limit \in Nat
        BY <2>3
      <4>2. slice' = [open |-> TRUE, dispatches |-> 0, instructions |-> 0,
                      remaining |-> Remaining, limit |-> limit]
        BY <3>2 DEF OpenSlice
      <4> HIDE DEF limit
      <4> QED BY <2>3, <4>1, <4>2
    <3> QED BY <3>1, <3>2
  <2>5. bypass' \in OptionalAddress /\ machineBypass' \in OptionalAddress
    BY <2>2 DEF OpenSlice, Inv, TypeOK, OptionalAddress
  <2>6. begun' \in [at : OptionalAddress, instructions : Nat, repeating : BOOLEAN]
    BY <2>2 DEF Begin, Inv, TypeOK
  <2> QED BY <2>1, <2>4, <2>5, <2>6 DEF Begin, Inv, TypeOK
<1>2. SliceGrant'
  BY SMT DEF Begin, OpenSlice, Remaining, Inv, SliceGrant, Started, Between, NoSlice, TypeOK,
             State, Running, IsRunning
<1>3. PassIsReported' /\ PassIsHere'
  BY SMT DEF Begin, Resumed, OpenSlice, Inv, PassIsReported, PassIsHere, TypeOK, OptionalAddress,
             State, Running
<1> QED BY <1>1, <1>2, <1>3 DEF Inv

(* Opening a slice of a running session hands the pass to the machine. *)
LEMMA AdvanceInv == Inv /\ Advance => Inv'
<1> SUFFICES ASSUME Inv, Advance PROVE Inv'
  OBVIOUS
<1>1. TypeOK'
  BY SMT DEF Advance, OpenSlice, Remaining, Clamp, Inv, SliceGrant, Started, Between, NoSlice,
             TypeOK, OptionalAddress, history
<1>2. SliceGrant'
  BY SMT DEF Advance, OpenSlice, Remaining, Inv, SliceGrant, Started, Between, NoSlice, TypeOK,
             IsRunning
<1>3. PassIsReported' /\ PassIsHere'
  BY SMT DEF Advance, OpenSlice, Inv, PassIsReported, PassIsHere, TypeOK, OptionalAddress, history
<1> QED BY <1>1, <1>2, <1>3 DEF Inv

(* Leaving a slice before an instruction starts. *)
LEMMA StopInv ==
  ASSUME Inv, slice.open, NEW next \in StateType, StopAt(next),
         next.reason = "breakpoint" =>
             next.status = "paused" /\ next.at = pc /\ reported' = pc,
         reported' \in {reported, pc}
  PROVE  Inv'
<1>1. TypeOK'
  BY SMT DEF StopAt, Leave, Inv, SliceGrant, TypeOK, OptionalAddress, NoSlice
<1>2. SliceGrant'
  BY SMT DEF StopAt, Leave, Inv, SliceGrant, Started, NoSlice, TypeOK
<1>3. PassIsReported' /\ PassIsHere'
  BY SMT DEF StopAt, Leave, Inv, SliceGrant, PassIsReported, PassIsHere, TypeOK, OptionalAddress
<1> QED BY <1>1, <1>2, <1>3 DEF Inv

(* Starting an instruction, whatever becomes of the slice. *)
LEMMA StartingInv ==
  ASSUME Inv, Admitted, NEW next \in Addresses, NEW repeating \in BOOLEAN,
         Starting(next, repeating), repeating => next = pc
  PROVE  /\ pc' \in Addresses /\ pendingRepeat' \in OptionalAddress
         /\ trace' \in [enabled : BOOLEAN, discarded : Nat,
                        entries : Seq([instruction : Nat, pc : Addresses])]
         /\ Len(trace'.entries) <= TraceCapacity
         /\ machineBypass' = NoAddress /\ reported' = NoAddress
         /\ pendingRepeat' \in {pc', NoAddress}
         /\ Count \in Nat /\ instructions + Count <= Budget
<1>1. Count \in Nat /\ instructions + Count <= Budget
  BY SMT DEF Inv, TypeOK, SliceGrant, Started, Count, NewStarts, Admitted, Exhausted
<1>2. /\ Recorded(Started + 1) \in [enabled : BOOLEAN, discarded : Nat,
                                   entries : Seq([instruction : Nat, pc : Addresses])]
      /\ Len(Recorded(Started + 1).entries) <= TraceCapacity
  <2> DEFINE e == [instruction |-> Started + 1, pc |-> pc]
             E == [instruction : Nat, pc : Addresses]
  <2>1. e \in E
    BY DEF Inv, TypeOK, Started
  <2>2. trace.entries \in Seq(E) /\ Len(trace.entries) <= TraceCapacity
    BY DEF Inv, TypeOK
  <2> HIDE DEF e, E
  <2>3. Append(trace.entries, e) \in Seq(E)
        /\ Len(Append(trace.entries, e)) = Len(trace.entries) + 1
    BY <2>1, <2>2
  <2>4. ASSUME Len(trace.entries) = TraceCapacity
        PROVE  Append(Tail(trace.entries), e) \in Seq(E)
               /\ Len(Append(Tail(trace.entries), e)) = TraceCapacity
    BY <2>1, <2>2, <2>4
  <2>5. /\ trace \in [enabled : BOOLEAN, discarded : Nat, entries : Seq(E)]
        /\ TraceCapacity \in Nat
    BY DEF Inv, TypeOK, E
  <2> DEFINE Traces == [enabled : BOOLEAN, discarded : Nat, entries : Seq(E)]
             result == Recorded(Started + 1)
  <2>6. trace.enabled \in BOOLEAN /\ trace.discarded \in Nat
    BY <2>5
  <2>7. result \in Traces /\ Len(result.entries) <= TraceCapacity
    <3>1. CASE ~trace.enabled
      <4>1. result = trace
        BY <3>1 DEF Recorded
      <4> QED BY <2>2, <2>5, <4>1
    <3>2. ASSUME NEW d \in Nat, NEW es \in Seq(E), Len(es) <= TraceCapacity,
                 result = [enabled |-> trace.enabled, discarded |-> d, entries |-> es]
          PROVE  result \in Traces /\ Len(result.entries) <= TraceCapacity
      BY <2>6, <3>2
    <3>3. CASE trace.enabled /\ Len(trace.entries) = TraceCapacity
      <4>1. result = [enabled |-> trace.enabled, discarded |-> trace.discarded + 1,
                      entries |-> Append(Tail(trace.entries), e)]
        BY <2>5, <3>3 DEF Recorded, e
      <4>2. /\ Append(Tail(trace.entries), e) \in Seq(E)
            /\ Len(Append(Tail(trace.entries), e)) <= TraceCapacity
        BY <2>4, <2>5, <3>3
      <4>3. trace.discarded + 1 \in Nat
        BY <2>6
      <4> HIDE DEF result, Traces
      <4> QED BY ONLY <3>2, <4>1, <4>2, <4>3
    <3>4. CASE trace.enabled /\ Len(trace.entries) # TraceCapacity
      <4>1. result = [enabled |-> trace.enabled, discarded |-> trace.discarded,
                      entries |-> Append(trace.entries, e)]
        BY <2>5, <3>4 DEF Recorded, e
      <4>2. /\ Append(trace.entries, e) \in Seq(E)
            /\ Len(Append(trace.entries, e)) <= TraceCapacity
        BY <2>2, <2>3, <2>5, <3>4
      <4> HIDE DEF result, Traces
      <4> QED BY ONLY <2>6, <3>2, <4>1, <4>2
    <3> QED BY <3>1, <3>3, <3>4
  <2> QED BY <2>7 DEF E
<1>3. /\ trace' \in [enabled : BOOLEAN, discarded : Nat,
                     entries : Seq([instruction : Nat, pc : Addresses])]
      /\ Len(trace'.entries) <= TraceCapacity
  BY <1>2 DEF Starting, Inv, TypeOK
<1>4. /\ pc' \in Addresses /\ pendingRepeat' \in OptionalAddress
      /\ machineBypass' = NoAddress /\ reported' = NoAddress
      /\ pendingRepeat' \in {pc', NoAddress}
  BY DEF Starting, Inv, TypeOK, OptionalAddress
<1> QED BY <1>1, <1>3, <1>4

(* Leaving a slice with an instruction started. *)
LEMMA LeaveStartedInv ==
  ASSUME Inv, Admitted, NEW next \in Addresses, NEW repeating \in BOOLEAN,
         Starting(next, repeating), repeating => next = pc,
         NEW after \in StateType, after.reason # "breakpoint", Leave(after, Count)
  PROVE  Inv'
<1>1. /\ pc' \in Addresses /\ pendingRepeat' \in OptionalAddress
      /\ trace' \in [enabled : BOOLEAN, discarded : Nat,
                     entries : Seq([instruction : Nat, pc : Addresses])]
      /\ Len(trace'.entries) <= TraceCapacity
      /\ machineBypass' = NoAddress /\ reported' = NoAddress
      /\ pendingRepeat' \in {pc', NoAddress}
      /\ Count \in Nat /\ instructions + Count <= Budget
  BY StartingInv
<1>2. slice.open
  BY DEF Admitted
<1>3. TypeOK'
  BY <1>1 DEF Leave, Inv, TypeOK, OptionalAddress, NoSlice
<1>4. SliceGrant'
  BY <1>1 DEF Leave, Inv, TypeOK, SliceGrant, Started, NoSlice
<1>5. PassIsReported' /\ PassIsHere'
  BY <1>1, <1>2 DEF Leave, Inv, SliceGrant, PassIsReported, PassIsHere
<1> QED BY <1>3, <1>4, <1>5 DEF Inv

(* The control states the actions build are control states. *)
LEMMA StateTypes ==
  /\ Running \in StateType /\ Crashed \in StateType /\ Ready \in StateType
  /\ \A reason \in Reasons : Terminated(reason) \in StateType
  /\ \A reason \in Reasons, at \in OptionalAddress : Paused(reason, at) \in StateType
  BY DEF State, StateType, Running, Crashed, Ready, Terminated, Paused, Reasons, OptionalAddress,
         Lifecycle!Statuses

(* A yield ends in a control state that reports no breakpoint. *)
LEMMA YieldedType ==
  ASSUME NEW count, NEW dispatches, NEW repeating
  PROVE  /\ Yielded(count, dispatches, repeating) \in StateType
         /\ Yielded(count, dispatches, repeating).reason # "breakpoint"
  BY StateTypes DEF Yielded, Reasons, OptionalAddress, Running, Terminated, Paused, State

(* One pass of the slice loop: one case per way it can go. *)
LEMMA RunSliceInv == Inv /\ RunSlice => Inv'
<1> SUFFICES ASSUME Inv, RunSlice PROVE Inv'
  OBVIOUS
<1>1. CASE Completes
  BY <1>1, StateTypes, StopInv DEF Completes, Reasons, Terminated, State
<1>2. CASE SliceEnds
  BY <1>2, YieldedType, StopInv DEF SliceEnds
<1>3. CASE BudgetEnds
  BY <1>3, StateTypes, StopInv DEF BudgetEnds, Reasons, Terminated, State
<1>4. CASE BreakpointStops
  <2>1. pc \in OptionalAddress
    BY DEF Inv, TypeOK, OptionalAddress
  <2> QED BY <1>4, <2>1, StateTypes, StopInv DEF BreakpointStops, Reasons, Paused, State
<1>5. CASE TargetStops
  <2>1. pc \in OptionalAddress
    BY DEF Inv, TypeOK, OptionalAddress
  <2> QED BY <1>5, <2>1, StateTypes, StopInv DEF TargetStops, Reasons, Paused, State
<1>6. CASE InstructionFinishes
  <2>1. PICK next \in Addresses, n \in 1 .. slice.limit - slice.dispatches :
          /\ Starting(next, FALSE)
          /\ slice' = [slice EXCEPT !.dispatches = @ + n, !.instructions = Count]
    BY <1>6 DEF InstructionFinishes
  <2>2. Admitted /\ UNCHANGED <<control, instructions, breakpoints, begun>>
    BY <1>6 DEF InstructionFinishes
  <2>3. /\ pc' \in Addresses /\ pendingRepeat' \in OptionalAddress
        /\ trace' \in [enabled : BOOLEAN, discarded : Nat,
                       entries : Seq([instruction : Nat, pc : Addresses])]
        /\ Len(trace'.entries) <= TraceCapacity
        /\ machineBypass' = NoAddress /\ reported' = NoAddress
        /\ pendingRepeat' \in {pc', NoAddress}
        /\ Count \in Nat /\ instructions + Count <= Budget
    BY <2>1, <2>2, StartingInv
  <2>4. /\ n \in Nat /\ slice.dispatches + n \in Nat
        /\ slice' = [open |-> TRUE, dispatches |-> slice.dispatches + n, instructions |-> Count,
                     limit |-> slice.limit, remaining |-> slice.remaining]
    <3>1. /\ slice \in [open : BOOLEAN, dispatches : Nat, instructions : Nat, limit : Nat,
                       remaining : Nat]
          /\ slice.open
      BY <2>2 DEF Inv, TypeOK, Admitted
    <3>2. slice.limit \in Nat /\ slice.dispatches \in Nat
      BY <3>1
    <3>3. n \in Nat
      BY <3>2
    <3>4. slice.dispatches + n \in Nat
      BY <3>2, <3>3
    <3> DEFINE spent == slice.dispatches + n
    <3>5. slice' = [slice EXCEPT !.dispatches = spent, !.instructions = Count]
      BY <2>1
    <3> HIDE DEF spent
    <3>6. slice' = [open |-> TRUE, dispatches |-> spent, instructions |-> Count,
                    limit |-> slice.limit, remaining |-> slice.remaining]
      BY <3>1, <3>5
    <3> QED BY <3>3, <3>4, <3>6 DEF spent
  <2>5. TypeOK'
    BY <2>2, <2>3, <2>4 DEF control, Inv, TypeOK, OptionalAddress
  <2>6. SliceGrant'
    BY <2>2, <2>3, <2>4 DEF control, Inv, TypeOK, SliceGrant, Started, Admitted, IsRunning
  <2>7. PassIsReported' /\ PassIsHere'
    BY <2>2, <2>3 DEF control, Inv, SliceGrant, PassIsReported, PassIsHere, Admitted, IsRunning
  <2> QED BY <2>5, <2>6, <2>7 DEF Inv
<1>7. CASE RepeatYields
  <2>1. pc \in Addresses
    BY DEF Inv, TypeOK
  <2> QED BY <1>7, <2>1, YieldedType, LeaveStartedInv DEF RepeatYields
<1>8. CASE WatchpointHits
  <2> DEFINE after == Paused("watchpoint", NoAddress)
  <2>1. after \in StateType /\ after.reason # "breakpoint"
    BY StateTypes DEF Reasons, OptionalAddress, Paused, State
  <2>2. Admitted /\ Leave(after, Count) /\ pc \in Addresses
    BY <1>8 DEF WatchpointHits, Inv, TypeOK
  <2> HIDE DEF after
  <2>3. ASSUME NEW next \in Addresses, Starting(next, FALSE) PROVE Inv'
    BY <2>1, <2>2, <2>3, LeaveStartedInv
  <2>4. ASSUME Starting(pc, TRUE) PROVE Inv'
    BY <2>1, <2>2, <2>4, LeaveStartedInv
  <2> QED BY <1>8, <2>3, <2>4 DEF WatchpointHits
<1>9. CASE InstructionTraps
  <2>1. PICK reason \in {"guest_fault", "environment"} : Leave(Terminated(reason), Count)
    BY <1>9 DEF InstructionTraps
  <2> DEFINE after == Terminated(reason)
  <2>2. after \in StateType /\ after.reason # "breakpoint"
    BY StateTypes DEF Reasons, Terminated, State
  <2>3. Admitted /\ Leave(after, Count) /\ pc \in Addresses
    BY <1>9, <2>1 DEF InstructionTraps, Inv, TypeOK
  <2> HIDE DEF after
  <2>4. ASSUME NEW next \in Addresses, Starting(next, FALSE) PROVE Inv'
    BY <2>2, <2>3, <2>4, LeaveStartedInv
  <2>5. ASSUME Starting(pc, TRUE) PROVE Inv'
    BY <2>2, <2>3, <2>5, LeaveStartedInv
  <2> QED BY <1>9, <2>4, <2>5 DEF InstructionTraps
<1>10. CASE FetchTraps
  <2>1. PICK reason \in {"guest_fault", "environment"} :
          Leave(Terminated(reason), slice.instructions)
    BY <1>10 DEF FetchTraps
  <2>2. Terminated(reason) \in StateType /\ Terminated(reason).reason # "breakpoint"
    BY StateTypes DEF Reasons, Terminated, State
  <2>3. /\ slice.open /\ pendingRepeat' = NoAddress
        /\ UNCHANGED <<pc, machineBypass, trace, reported>>
    BY <1>10 DEF FetchTraps, Admitted
  <2>4. TypeOK'
    BY <2>1, <2>2, <2>3 DEF Leave, Inv, TypeOK, OptionalAddress, NoSlice
  <2>5. SliceGrant'
    BY <2>1, <2>3 DEF Leave, Inv, TypeOK, SliceGrant, Started, NoSlice
  <2>6. PassIsReported' /\ PassIsHere'
    BY <2>1, <2>2, <2>3 DEF Leave, Inv, SliceGrant, PassIsReported, PassIsHere
  <2> QED BY <2>4, <2>5, <2>6 DEF Inv
<1>11. CASE SliceCrashes
  <2>1. Crashed \in StateType /\ Crashed.reason # "breakpoint"
    BY StateTypes DEF Crashed, State
  <2>2. /\ slice.open /\ Leave(Crashed, 0)
        /\ UNCHANGED <<pc, pendingRepeat, machineBypass, trace, reported>>
    BY <1>11 DEF SliceCrashes
  <2>3. TypeOK'
    BY <2>1, <2>2 DEF Leave, Inv, TypeOK, OptionalAddress, NoSlice
  <2>4. SliceGrant'
    BY <2>2 DEF Leave, Inv, TypeOK, SliceGrant, Started, NoSlice
  <2>5. PassIsReported' /\ PassIsHere'
    BY <2>1, <2>2 DEF Leave, Inv, SliceGrant, PassIsReported, PassIsHere
  <2> QED BY <2>3, <2>4, <2>5 DEF Inv
<1> QED BY <1>1, <1>2, <1>3, <1>4, <1>5, <1>6, <1>7, <1>8, <1>9, <1>10, <1>11 DEF RunSlice

(* Clearing the trace keeps its recording mode. *)
LEMMA ClearedTrace ==
  ASSUME TypeOK, trace' = [trace EXCEPT !.entries = <<>>, !.discarded = 0]
  PROVE  /\ trace' \in [enabled : BOOLEAN, discarded : Nat,
                        entries : Seq([instruction : Nat, pc : Addresses])]
         /\ Len(trace'.entries) <= TraceCapacity
<1>1. trace \in [enabled : BOOLEAN, discarded : Nat,
                 entries : Seq([instruction : Nat, pc : Addresses])]
  BY DEF TypeOK
<1>2. trace.enabled \in BOOLEAN
  BY <1>1
<1>3. trace' = [enabled |-> trace.enabled, discarded |-> 0, entries |-> <<>>]
  BY <1>1
<1> DEFINE E == [instruction : Nat, pc : Addresses]
<1>4. <<>> \in Seq(E) /\ Len(<<>>) = 0 /\ TraceCapacity \in Nat
  OBVIOUS
<1> HIDE DEF E
<1>5. trace' \in [enabled : BOOLEAN, discarded : Nat, entries : Seq(E)]
      /\ trace'.entries = <<>>
  BY ONLY <1>2, <1>3, <1>4
<1>6. Len(trace'.entries) <= TraceCapacity
  BY <1>4, <1>5
<1> QED BY <1>5, <1>6 DEF E

(* Commands between slices. *)
LEMMA CommandsInv == Inv /\ Commands => Inv'
<1> SUFFICES ASSUME Inv, Commands PROVE Inv'
  OBVIOUS
<1> USE DEF control, machine, history
<1>1. CASE Start
  BY <1>1, BeginInv DEF Start, Continue, Goals
<1>2. CASE RunUntil
  <2>1. PICK g \in UntilGoals : Begin(g)
    BY <1>2 DEF RunUntil
  <2>2. g \in Goals
    BY DEF UntilGoals, Goals
  <2>3. bypass' = Resumed /\ UNCHANGED <<machineBypass, slice>>
    BY <1>2 DEF RunUntil
  <2> QED BY <2>1, <2>2, <2>3, BeginInv
<1>3. CASE Step
  BY <1>3, BeginInv DEF Step, StepOne, Goals
<1>4. CASE StepOver
  <2>1. PICK g \in StepOverGoals : Begin(g) /\ OpenSlice(g, Resumed)
    BY <1>4 DEF StepOver
  <2>2. g \in Goals
    BY <2>1 DEF StepOverGoals, StepOne, Goals
  <2> QED BY <2>1, <2>2, BeginInv
<1>5. CASE Pause
  <2>1. Paused("requested", NoAddress) \in StateType
        /\ Paused("requested", NoAddress).reason # "breakpoint"
    BY StateTypes DEF Reasons, OptionalAddress, Paused, State
  <2>2. TypeOK'
    BY <1>5, <2>1 DEF Pause, Inv, TypeOK
  <2>3. SliceGrant'
    BY <1>5 DEF Pause, Inv, SliceGrant, Started, Between
  <2>4. PassIsReported' /\ PassIsHere'
    BY <1>5, <2>1 DEF Pause, Inv, PassIsReported, PassIsHere
  <2> QED BY <2>2, <2>3, <2>4 DEF Inv
<1>6. CASE Cancel
  <2>1. Terminated("cancelled") \in StateType /\ Terminated("cancelled").reason # "breakpoint"
    BY StateTypes DEF Reasons, Terminated, State
  <2>2. TypeOK'
    BY <1>6, <2>1 DEF Cancel, Inv, TypeOK
  <2>3. SliceGrant'
    BY <1>6 DEF Cancel, Inv, SliceGrant, Started, Between
  <2>4. PassIsReported' /\ PassIsHere'
    BY <1>6, <2>1 DEF Cancel, Inv, PassIsReported, PassIsHere
  <2> QED BY <2>2, <2>3, <2>4 DEF Inv
<1>7. CASE WriteCrashes
  <2>1. Crashed \in StateType /\ Crashed.reason # "breakpoint"
    BY StateTypes DEF Crashed, State
  <2>2. TypeOK'
    BY <1>7, <2>1 DEF WriteCrashes, Inv, TypeOK
  <2>3. SliceGrant'
    BY <1>7 DEF WriteCrashes, Inv, SliceGrant, Started, Between
  <2>4. PassIsReported' /\ PassIsHere'
    BY <1>7, <2>1 DEF WriteCrashes, Inv, PassIsReported, PassIsHere
  <2> QED BY <2>2, <2>3, <2>4 DEF Inv
<1>8. CASE Reset
  <2>1. TypeOK'
    <3>1. Ready \in StateType
      BY StateTypes
    <3>2. /\ trace' \in [enabled : BOOLEAN, discarded : Nat,
                         entries : Seq([instruction : Nat, pc : Addresses])]
          /\ Len(trace'.entries) <= TraceCapacity
      BY <1>8, ClearedTrace DEF Reset, Inv
    <3>3. generation' \in 0 .. MaxGeneration
      <4>1. generation \in Nat /\ generation < MaxGeneration /\ generation' = generation + 1
        BY <1>8 DEF Reset, Inv, TypeOK
      <4>2. MaxGeneration \in Nat
        BY SessionAssumption
      <4> QED BY <4>1, <4>2
    <3> QED BY <1>8, <3>1, <3>2, <3>3 DEF Reset, Inv, TypeOK, OptionalAddress, Continue, Goals
  <2>2. SliceGrant'
    BY <1>8 DEF Reset, Inv, SliceGrant, Started, Between, NoSlice
  <2>3. PassIsReported' /\ PassIsHere'
    BY <1>8 DEF Reset, Inv, PassIsReported, PassIsHere, Ready, State
  <2> QED BY <2>1, <2>2, <2>3 DEF Inv
<1>9. CASE SetBreakpoints
  <2>1. TypeOK'
    BY <1>9 DEF SetBreakpoints, Inv, TypeOK
  <2>2. SliceGrant' /\ PassIsReported' /\ PassIsHere'
    BY <1>9 DEF SetBreakpoints, Inv, SliceGrant, Started, IsRunning, PassIsReported, PassIsHere
  <2> QED BY <2>1, <2>2 DEF Inv
<1>10. CASE WritePc
  <2>1. state' \in StateType /\ state'.reason # "breakpoint"
    <3>1. Paused("requested", NoAddress) \in StateType
          /\ Paused("requested", NoAddress).reason # "breakpoint"
      BY StateTypes DEF Reasons, OptionalAddress, Paused, State
    <3> QED BY <1>10, <3>1 DEF WritePc, Inv, TypeOK, PassIsReported
  <2>2. TypeOK'
    BY <1>10, <2>1 DEF WritePc, Inv, TypeOK, OptionalAddress, Continue, Goals
  <2>3. SliceGrant'
    BY <1>10 DEF WritePc, Inv, SliceGrant, Started, Between
  <2>4. PassIsReported' /\ PassIsHere'
    BY <1>10, <2>1 DEF WritePc, Inv, PassIsReported, PassIsHere
  <2> QED BY <2>2, <2>3, <2>4 DEF Inv
<1>11. CASE PatchCode
  <2>1. TypeOK'
    BY <1>11 DEF PatchCode, Inv, TypeOK, OptionalAddress
  <2>2. SliceGrant' /\ PassIsReported' /\ PassIsHere'
    BY <1>11 DEF PatchCode, Inv, SliceGrant, Started, IsRunning, PassIsReported, PassIsHere
  <2> QED BY <2>1, <2>2 DEF Inv
<1>12. CASE RecordTrace
  <2>1. PICK enabled \in BOOLEAN : trace' = [trace EXCEPT !.enabled = enabled]
    BY <1>12 DEF RecordTrace
  <2>2. trace' = [enabled |-> enabled, discarded |-> trace.discarded, entries |-> trace.entries]
    BY <2>1 DEF Inv, TypeOK
  <2>3. TypeOK'
    BY <1>12, <2>2 DEF RecordTrace, Inv, TypeOK
  <2>4. SliceGrant' /\ PassIsReported' /\ PassIsHere'
    BY <1>12 DEF RecordTrace, Inv, SliceGrant, Started, IsRunning, PassIsReported, PassIsHere
  <2> QED BY <2>3, <2>4 DEF Inv
<1>13. CASE ClearTrace
  <2>1. /\ trace' \in [enabled : BOOLEAN, discarded : Nat,
                       entries : Seq([instruction : Nat, pc : Addresses])]
        /\ Len(trace'.entries) <= TraceCapacity
    BY <1>13, ClearedTrace DEF ClearTrace, Inv
  <2>2. TypeOK'
    BY <1>13, <2>1 DEF ClearTrace, Inv, TypeOK
  <2>3. SliceGrant' /\ PassIsReported' /\ PassIsHere'
    BY <1>13 DEF ClearTrace, Inv, SliceGrant, Started, IsRunning, PassIsReported, PassIsHere
  <2> QED BY <2>2, <2>3 DEF Inv
<1> QED BY <1>1, <1>2, <1>3, <1>4, <1>5, <1>6, <1>7, <1>8, <1>9, <1>10, <1>11, <1>12, <1>13
           DEF Commands

(* Every step keeps the invariant, and so does a stutter. *)
LEMMA StepInv == Inv /\ [Next]_vars => Inv'
<1> SUFFICES ASSUME Inv, [Next]_vars PROVE Inv'
  OBVIOUS
<1>1. CASE Advance
  BY <1>1, AdvanceInv
<1>2. CASE RunSlice
  BY <1>2, RunSliceInv
<1>3. CASE Commands
  BY <1>3, CommandsInv
<1>4. CASE UNCHANGED vars
  <2>1. TypeOK'
    BY <1>4 DEF vars, control, machine, history, Inv, TypeOK
  <2>2. SliceGrant' /\ PassIsReported' /\ PassIsHere'
    BY <1>4 DEF vars, control, machine, history, Inv, SliceGrant, Started, IsRunning,
                PassIsReported, PassIsHere
  <2> QED BY <2>1, <2>2 DEF Inv
<1> QED BY <1>1, <1>2, <1>3, <1>4 DEF Next

(***************************************************************************)
(* The strengthened invariant holds in every reachable state of the        *)
(* session, for every set of addresses and every limit.                    *)
(***************************************************************************)
THEOREM Invariance == Spec => []Inv
<1>1. Init => Inv
  BY InitInv
<1>2. Inv /\ [Next]_vars => Inv'
  BY StepInv
<1> QED BY <1>1, <1>2, PTL DEF Spec

(* Every variable of the session, its machine and its slice has its type;  *)
(* the trace never outgrows its ring (debug.rs:64).                        *)
THEOREM TypeCorrect == Spec => []TypeOK
<1>1. Inv => TypeOK
  BY DEF Inv
<1> QED BY <1>1, Invariance, PTL

(* No run, however it is sliced, paused, watched or resumed, starts more   *)
(* instructions than the budget (run.rs:58, session.rs:220-225).           *)
THEOREM BudgetIsRespected == Spec => []BudgetRespected
<1>1. Inv => BudgetRespected
  BY DEF Inv, SliceGrant, BudgetRespected
<1> QED BY <1>1, Invariance, PTL

(* A breakpoint pass and a REP continuation are never stale: they belong   *)
(* to the instruction at the program counter (run.rs:38, :57).             *)
THEOREM PassesAreHere == Spec => []PassIsHere
<1>1. Inv => PassIsHere
  BY DEF Inv
<1> QED BY <1>1, Invariance, PTL

(* Only a pass of the slice loop that admits an instruction raises the     *)
(* running count, and it was not stopped by a breakpoint test.             *)
LEMMA CountRises ==
  Inv /\ Next /\ Started' = Started + 1 => Admitted /\ Fresh
<1> SUFFICES ASSUME Inv, Next, Started' = Started + 1 PROVE Admitted /\ Fresh
  OBVIOUS
<1> USE DEF control, machine, history
<1>1. /\ instructions \in Nat /\ slice.instructions \in Nat
      /\ slice.open \/ slice = NoSlice
  BY DEF Inv, TypeOK, SliceGrant
<1>2. Started' # instructions + slice.instructions
  BY <1>1 DEF Started
<1>3. Started' # Started
  BY <1>2 DEF Started
<1>4. ASSUME UNCHANGED <<instructions, slice>> PROVE FALSE
  BY <1>3, <1>4 DEF Started
<1>5. ASSUME Between, slice'.instructions = 0, UNCHANGED instructions PROVE FALSE
  BY <1>1, <1>2, <1>5 DEF Between, NoSlice, Started
<1>6. ASSUME NEW next, NEW n \in Nat, Leave(next, n), n <= slice.instructions PROVE FALSE
  BY <1>1, <1>6 DEF Leave, Started, NoSlice
<1>7. CASE Advance
  BY <1>5, <1>7 DEF Advance, OpenSlice
<1>8. CASE Commands
  <2>1. CASE Start \/ RunUntil \/ Pause \/ Cancel \/ SetBreakpoints \/ WritePc \/ PatchCode
             \/ WriteCrashes \/ RecordTrace \/ ClearTrace
    BY <1>4, <2>1 DEF Start, RunUntil, Pause, Cancel, SetBreakpoints, WritePc, PatchCode,
                      WriteCrashes, RecordTrace, ClearTrace, Begin
  <2>2. CASE Step \/ StepOver
    BY <1>5, <2>2 DEF Step, StepOver, Begin, OpenSlice
  <2>3. CASE Reset
    <3>1. slice' = NoSlice /\ instructions' = 0
      BY <2>3, <1>1 DEF Reset, Between
    <3> QED BY <3>1, <1>1 DEF Started, NoSlice
  <2> QED BY <1>8, <2>1, <2>2, <2>3 DEF Commands
<1>9. CASE RunSlice
  <2>1. ASSUME NEW next, StopAt(next) PROVE FALSE
    BY <1>1, <1>6, <2>1 DEF StopAt
  <2>2. ~(Completes \/ SliceEnds \/ BudgetEnds \/ BreakpointStops \/ TargetStops)
    BY <2>1 DEF Completes, SliceEnds, BudgetEnds, BreakpointStops, TargetStops
  <2>3. ~FetchTraps
    BY <1>1, <1>6 DEF FetchTraps
  <2>4. ~SliceCrashes
    BY <1>1, <1>6 DEF SliceCrashes
  <2>5. Admitted
    BY <1>9, <2>2, <2>3, <2>4
       DEF RunSlice, InstructionFinishes, RepeatYields, WatchpointHits, InstructionTraps
  <2>6. Fresh \/ Count = slice.instructions
    BY <1>1 DEF Count, NewStarts
  <2>7. ASSUME Count = slice.instructions PROVE FALSE
    <3>1. ASSUME NEW next, Leave(next, Count) PROVE FALSE
      BY <1>1, <1>6, <2>7, <3>1
    <3>2. ~(RepeatYields \/ WatchpointHits \/ InstructionTraps)
      BY <3>1 DEF RepeatYields, WatchpointHits, InstructionTraps
    <3>3. CASE InstructionFinishes
      <4>1. PICK n \in 1 .. slice.limit - slice.dispatches :
              slice' = [slice EXCEPT !.dispatches = @ + n, !.instructions = Count]
        BY <3>3 DEF InstructionFinishes
      <4>2. slice'.instructions = Count /\ instructions' = instructions
        BY <3>3, <4>1 DEF InstructionFinishes, Inv, TypeOK
      <4> QED BY <1>2, <2>7, <4>2 DEF Started
    <3> QED BY <1>9, <2>2, <2>3, <2>4, <3>2, <3>3 DEF RunSlice
  <2> QED BY <2>5, <2>6, <2>7
<1> QED BY <1>7, <1>8, <1>9 DEF Next

(***************************************************************************)
(* No instruction at a user breakpoint starts before the session stopped   *)
(* there and reported it.  The pass that skips the test is, by the         *)
(* invariant, the one of the breakpoint reported at this very address.     *)
(***************************************************************************)
THEOREM BreakpointsHold == Spec => BreakpointNotSkipped
<1>1. ASSUME Inv, Next, Started' = Started + 1, pc \in breakpoints
      PROVE  reported = pc
  <2>1. Admitted /\ Fresh
    BY <1>1, CountRises
  <2>2. machineBypass = pc
    BY <1>1, <2>1 DEF Admitted, AtBreakpoint
  <2>3. pc # NoAddress
    BY <1>1 DEF Inv, TypeOK
  <2> QED BY <1>1, <2>2, <2>3 DEF Inv, PassIsReported
<1>2. Inv /\ [Next]_vars => [Started' = Started + 1 /\ pc \in breakpoints => reported = pc]_vars
  BY <1>1
<1> QED BY <1>2, Invariance, PTL DEF Spec, BreakpointNotSkipped

(***************************************************************************)
(* Every step of the session and its machine is a control event of the     *)
(* core crate, legal in the state it is applied to, or changes no control  *)
(* state (crates/core/src/execution.rs:122).                               *)
(***************************************************************************)
THEOREM RefinesLifecycle == Spec => ImplementsLifecycle
<1> USE DEF control, machine, history
<1>1. Init => Lifecycle!LifecycleInit
  BY DEF Init, Ready, State, Lifecycle!LifecycleInit
<1>2. ASSUME Inv, [Next]_vars
      PROVE  [Lifecycle!LifecycleNext]_(Lifecycle!lifecycleVars)
  <2>1. ASSUME IsRunning, state'.status \in {"paused", "terminated", "crashed"},
               UNCHANGED generation
        PROVE  Lifecycle!LifecycleNext
    <3>1. CASE state'.status = "paused"
      BY <2>1, <3>1 DEF IsRunning, Lifecycle!LifecycleNext, Lifecycle!Events, Lifecycle!Control,
                        Lifecycle!Legal, Lifecycle!Target
    <3>2. CASE state'.status = "terminated"
      BY <2>1, <3>2 DEF IsRunning, Lifecycle!LifecycleNext, Lifecycle!Events, Lifecycle!Control,
                        Lifecycle!Legal, Lifecycle!Target
    <3>3. CASE state'.status = "crashed"
      BY <2>1, <3>3 DEF IsRunning, Lifecycle!LifecycleNext, Lifecycle!Events, Lifecycle!Control,
                        Lifecycle!Legal, Lifecycle!Target, Lifecycle!Statuses
    <3> QED BY <2>1, <3>1, <3>2, <3>3
  <2>2. ASSUME state'.status = state.status, UNCHANGED generation
        PROVE  UNCHANGED Lifecycle!lifecycleVars
    BY <2>2 DEF Lifecycle!lifecycleVars
  <2>3. ASSUME NEW g, Begin(g) PROVE Lifecycle!LifecycleNext
    BY <2>3 DEF Begin, CanStart, Running, State, Lifecycle!LifecycleNext, Lifecycle!Events,
                Lifecycle!Control, Lifecycle!Legal, Lifecycle!Target
  <2>4. CASE RunSlice
    <3>1. IsRunning
      <4>1. slice.open
        BY <2>4 DEF RunSlice, Completes, SliceEnds, BudgetEnds, BreakpointStops, TargetStops,
                    Admitted, InstructionFinishes, RepeatYields, WatchpointHits,
                    InstructionTraps, FetchTraps, SliceCrashes
      <4> QED BY <1>2, <4>1 DEF Inv, SliceGrant
    <3>2. UNCHANGED generation
      BY <2>4 DEF RunSlice, Completes, SliceEnds, BudgetEnds, BreakpointStops, StopAt, Leave,
                  TargetStops, InstructionFinishes, RepeatYields, WatchpointHits,
                  InstructionTraps, FetchTraps, SliceCrashes
    <3>3. state'.status \in {"running", "paused", "terminated", "crashed"}
      <4>1. \A count, dispatches, repeating :
              Yielded(count, dispatches, repeating).status \in {"running", "paused", "terminated"}
        BY DEF Yielded, Running, Paused, Terminated, State
      <4>2. CASE Completes \/ SliceEnds \/ BudgetEnds \/ BreakpointStops \/ TargetStops
        BY <4>1, <4>2 DEF Completes, SliceEnds, BudgetEnds, BreakpointStops, TargetStops, StopAt,
                          Leave, Terminated, Paused, State
      <4>3. CASE InstructionFinishes
        BY <3>1, <4>3 DEF InstructionFinishes, IsRunning
      <4>4. CASE RepeatYields \/ WatchpointHits \/ InstructionTraps
        <5>1. CASE RepeatYields
          <6>1. state' = Yielded(Count, slice.limit, TRUE)
            BY <5>1 DEF RepeatYields, Leave
          <6> QED BY <4>1, <6>1
        <5>2. CASE WatchpointHits
          BY <5>2 DEF WatchpointHits, Leave, Paused, State
        <5>3. CASE InstructionTraps
          BY <5>3 DEF InstructionTraps, Leave, Terminated, State
        <5> QED BY <4>4, <5>1, <5>2, <5>3
      <4>5. CASE FetchTraps \/ SliceCrashes
        BY <4>5 DEF FetchTraps, SliceCrashes, Leave, Terminated, Crashed, State
      <4> QED BY <2>4, <4>2, <4>3, <4>4, <4>5 DEF RunSlice
    <3> QED BY <2>1, <2>2, <3>1, <3>2, <3>3 DEF IsRunning
  <2>5. CASE Commands
    <3>1. CASE Start \/ RunUntil \/ Step \/ StepOver
      BY <2>3, <3>1 DEF Start, RunUntil, Step, StepOver
    <3>2. CASE Pause
      BY <3>2 DEF Pause, Paused, State, Lifecycle!LifecycleNext, Lifecycle!Events,
                  Lifecycle!Control, Lifecycle!Legal, Lifecycle!Target
    <3>3. CASE Cancel
      BY <3>3 DEF Cancel, Terminated, State, Lifecycle!LifecycleNext, Lifecycle!Events,
                  Lifecycle!Control, Lifecycle!Legal, Lifecycle!Target
    <3>4. CASE Reset
      BY <3>4 DEF Reset, Ready, State, Lifecycle!LifecycleNext, Lifecycle!Events,
                  Lifecycle!Control, Lifecycle!Legal, Lifecycle!Target
    <3>5. CASE WriteCrashes
      <4>1. state.status \in Lifecycle!Statuses
        <5>1. state \in StateType
          BY <1>2 DEF Inv, TypeOK
        <5> QED BY <5>1 DEF StateType
      <4> QED BY <3>5, <4>1 DEF WriteCrashes, Crashed, State, Lifecycle!LifecycleNext,
                     Lifecycle!Events, Lifecycle!Control, Lifecycle!Legal, Lifecycle!Target
    <3>6. CASE WritePc
      BY <2>2, <3>6 DEF WritePc, Paused, State
    <3>7. CASE SetBreakpoints \/ PatchCode \/ RecordTrace \/ ClearTrace
      BY <2>2, <3>7 DEF SetBreakpoints, PatchCode, RecordTrace, ClearTrace
    <3> QED BY <2>5, <3>1, <3>2, <3>3, <3>4, <3>5, <3>6, <3>7 DEF Commands
  <2>6. CASE Advance
    BY <2>2, <2>6 DEF Advance
  <2>7. CASE UNCHANGED vars
    BY <2>2, <2>7 DEF vars
  <2> QED BY <1>2, <2>4, <2>5, <2>6, <2>7 DEF Next
<1> QED BY <1>1, <1>2, Invariance, PTL DEF Spec, ImplementsLifecycle, Lifecycle!LifecycleSpec

-----------------------------------------------------------------------------
(***************************************************************************)
(* The strengthening for the reason.  Since it was started, a running      *)
(* session has counted nothing yet and holds its pass, or has made         *)
(* progress; a step is before, inside or after its one instruction.        *)
(***************************************************************************)
Holds(reason) == state.reason = reason
StepDue == IF begun.repeating THEN begun.instructions ELSE begun.instructions + 1

Stopped ==
    /\ Holds("breakpoint") =>
          pendingRepeat = NoAddress /\ (begun.at = state.at => instructions > begun.instructions)
    /\ Holds("step") => state.status = "paused" /\ instructions = StepDue
    /\ Holds("budget") =>
          /\ state.status = "terminated" /\ pc # Completion
          /\ instructions = Budget /\ pendingRepeat = NoAddress

PassHeld ==
    /\ begun.at = pc /\ pendingRepeat = NoAddress
    /\ IF slice.open THEN machineBypass = pc ELSE pc \in {bypass, machineBypass}

Progress ==
    /\ begun.instructions <= Started
    /\ Started = begun.instructions /\ begun.at # NoAddress => PassHeld

StepProgress ==
    /\ slice.open => slice.limit = 1
    /\ \/ /\ slice.dispatches = 0 /\ Started = begun.instructions
          /\ begun.repeating <=> pendingRepeat # NoAddress
       \/ slice.dispatches = 0 /\ Started = StepDue /\ pendingRepeat # NoAddress
       \/ slice.dispatches = 1 /\ Started = StepDue /\ pendingRepeat = NoAddress

Reasoned ==
    /\ Stopped
    /\ IsRunning => Progress
    /\ IsRunning /\ goal.kind = "step" => StepProgress

(* Not running, and for none of the reasons that promise something.        *)
LEMMA QuietReasoned ==
  ASSUME state'.status # "running", state'.reason \notin {"breakpoint", "step", "budget"}
  PROVE  Reasoned'
BY DEF Reasoned, Stopped, Holds, IsRunning

(* The reason is kept, and so is what it is about.                         *)
LEMMA SameReasoned ==
  ASSUME Reasoned, ~IsRunning, UNCHANGED <<state, pc, instructions, begun>>,
         pendingRepeat' \in {pendingRepeat, NoAddress}
  PROVE  Reasoned'
BY DEF Reasoned, Stopped, Holds, IsRunning, StepDue

(* A session that begins has counted nothing, and holds its pass.          *)
LEMMA BeginReasoned ==
  ASSUME Inv, Reasoned, NEW g \in Goals, Begin(g),
         \/ g.kind # "step" /\ bypass' = Resumed /\ UNCHANGED <<machineBypass, slice>>
         \/ OpenSlice(g, Resumed)
  PROVE  Reasoned'
<1>1. slice = NoSlice /\ instructions \in Nat /\ pc \in Addresses
  BY DEF Begin, Between, Inv, SliceGrant, TypeOK
<1>2. /\ state' = Running /\ goal' = g /\ UNCHANGED <<instructions, pc, pendingRepeat>>
      /\ begun'.at = Resumed /\ begun'.instructions = instructions
      /\ begun' = [at |-> Resumed, instructions |-> instructions,
                   repeating |-> pendingRepeat # NoAddress]
  BY DEF Begin
<1>3. /\ slice'.dispatches = 0 /\ slice'.instructions = 0
      /\ ~slice'.open => bypass' = Resumed
      /\ slice'.open => machineBypass' = Resumed \/ Resumed = NoAddress
      /\ slice'.open /\ g.kind = "step" => slice'.limit = 1
  BY <1>1 DEF OpenSlice, NoSlice
<1>4. Started' = begun'.instructions
  BY <1>1, <1>2, <1>3 DEF Started
<1>5. Resumed # NoAddress => Resumed = pc /\ pendingRepeat = NoAddress
  BY DEF Resumed, Inv, PassIsReported, Reasoned, Stopped, Holds
<1>6. begun'.repeating <=> pendingRepeat' # NoAddress
  <2> DEFINE repeating == pendingRepeat # NoAddress
  <2>1. begun' = [at |-> Resumed, instructions |-> instructions, repeating |-> repeating]
    BY <1>2
  <2> HIDE DEF repeating
  <2>2. begun'.repeating = repeating
    BY <2>1, Zenon
  <2> QED BY <1>2, <2>2 DEF repeating
<1>7. Progress'
  BY <1>1, <1>2, <1>3, <1>4, <1>5 DEF Progress, PassHeld
<1>8. g.kind = "step" => StepProgress'
  BY <1>3, <1>4, <1>6 DEF StepProgress
<1>9. Stopped'
  BY <1>2 DEF Running, State, Stopped, Holds
<1> QED BY <1>2, <1>7, <1>8, <1>9 DEF Reasoned

(* Opening a slice moves the pass into the machine.                        *)
LEMMA AdvanceReasoned ==
  ASSUME Inv, Reasoned, Advance
  PROVE  Reasoned'
<1>1. /\ slice = NoSlice /\ IsRunning /\ instructions \in Nat
      /\ UNCHANGED <<state, goal, instructions, pc, pendingRepeat, begun>>
  BY DEF Advance, Between, Inv, SliceGrant, TypeOK, history
<1>2. /\ slice'.open /\ slice'.dispatches = 0 /\ slice'.instructions = 0
      /\ machineBypass' = IF bypass # NoAddress THEN bypass ELSE machineBypass
      /\ goal.kind = "step" => slice'.limit = 1
  BY DEF Advance, OpenSlice
<1>3. Started' = Started
  BY <1>1, <1>2 DEF Started, NoSlice
<1>4. Progress'
  <2>1. Progress /\ bypass \in {pc, NoAddress}
    BY <1>1 DEF Reasoned, Inv, PassIsHere
  <2> QED BY <1>1, <1>2, <1>3, <2>1 DEF Progress, PassHeld, NoSlice
<1>5. goal.kind = "step" => StepProgress'
  <2>1. goal.kind = "step" => StepProgress
    BY <1>1 DEF Reasoned
  <2>2. StepDue' = StepDue
    BY <1>1 DEF StepDue
  <2> QED BY <1>1, <1>2, <1>3, <2>1, <2>2 DEF StepProgress, NoSlice
<1>6. Stopped'
  <2>1. Stopped
    BY DEF Reasoned
  <2> QED BY <1>1, <2>1 DEF Stopped, Holds, StepDue
<1> QED BY <1>1, <1>4, <1>5, <1>6 DEF Reasoned, IsRunning

(* An instruction that starts or goes on: progress was made.               *)
LEMMA StartingReasoned ==
  ASSUME Inv, Reasoned, Admitted
  PROVE  /\ IsRunning /\ slice.open /\ ~begun.instructions > Started
         /\ instructions + Count \in Nat /\ begun.instructions \in Nat
         /\ Fresh => pendingRepeat = NoAddress
         /\ Fresh => instructions + Count = Started + 1
         /\ ~Fresh => instructions + Count = Started
         /\ begun.instructions <= instructions + Count
         /\ ~(instructions + Count = begun.instructions /\ begun.at # NoAddress)
         /\ goal.kind = "step" /\ slice.dispatches = 0 => instructions + Count = StepDue
         /\ goal.kind = "step" =>
               slice.limit = 1 /\ slice.dispatches \in {0, 1} /\ slice.dispatches # 1
<1>1. slice.open /\ IsRunning /\ ~Limit
  BY DEF Admitted, Inv, SliceGrant
<1>2. /\ pc \in Addresses /\ pendingRepeat \in {pc, NoAddress}
      /\ instructions \in Nat /\ slice.instructions \in Nat /\ begun.instructions \in Nat
  BY DEF Inv, PassIsHere, TypeOK
<1>3. Fresh <=> pendingRepeat = NoAddress
  BY <1>2 DEF Fresh
<1>4. Progress /\ (goal.kind = "step" => StepProgress)
  BY <1>1 DEF Reasoned
<1>5. /\ Fresh => instructions + Count = Started + 1
      /\ ~Fresh => instructions + Count = Started
      /\ instructions + Count \in Nat /\ Started \in Nat
  BY <1>2 DEF Count, NewStarts, Started
<1>6. /\ begun.instructions <= instructions + Count
      /\ ~(instructions + Count = begun.instructions /\ begun.at # NoAddress)
  BY <1>2, <1>3, <1>4, <1>5 DEF Progress, PassHeld
<1>7. ASSUME goal.kind = "step"
      PROVE  /\ slice.limit = 1 /\ slice.dispatches \in {0, 1} /\ slice.dispatches # 1
             /\ instructions + Count = StepDue
  <2>1. slice.limit = 1 /\ slice.dispatches # 1 /\ slice.dispatches = 0
    BY <1>1, <1>4, <1>7 DEF StepProgress, Limit
  <2>2. CASE Fresh
    <3>1. Started = begun.instructions /\ ~begun.repeating
      BY <1>3, <1>4, <1>7, <2>1, <2>2 DEF StepProgress
    <3>2. StepDue = begun.instructions + 1
      BY <3>1 DEF StepDue
    <3> QED BY <1>5, <2>1, <2>2, <3>1, <3>2
  <2>3. CASE ~Fresh
    <3>1. \/ Started = begun.instructions /\ begun.repeating
          \/ Started = StepDue
      BY <1>3, <1>4, <1>7, <2>1, <2>3 DEF StepProgress
    <3>2. begun.repeating => StepDue = begun.instructions
      BY DEF StepDue
    <3> QED BY <1>5, <2>1, <2>3, <3>1, <3>2
  <2> QED BY <2>2, <2>3
<1> QED BY <1>1, <1>2, <1>3, <1>4, <1>5, <1>6, <1>7 DEF Progress

LEMMA FinishReasoned ==
  ASSUME Inv, Reasoned, InstructionFinishes
  PROVE  Reasoned'
<1>1. PICK next \in Addresses, n \in 1 .. slice.limit - slice.dispatches :
        /\ Starting(next, FALSE)
        /\ slice' = [slice EXCEPT !.dispatches = @ + n, !.instructions = Count]
  BY DEF InstructionFinishes
<1>2. Admitted /\ UNCHANGED <<state, goal, bypass, instructions, begun>>
  BY DEF InstructionFinishes, control
<1>3. /\ slice \in [open : BOOLEAN, dispatches : Nat, instructions : Nat, limit : Nat,
                   remaining : Nat]
      /\ instructions \in Nat
  BY DEF Inv, TypeOK
<1>4. /\ slice'.open = slice.open /\ slice'.instructions = Count /\ slice'.limit = slice.limit
      /\ slice'.dispatches = slice.dispatches + n
  BY <1>1, <1>3
<1>5. Started' = instructions + Count
  BY <1>2, <1>4 DEF Started
<1>6. pendingRepeat' = NoAddress
  BY <1>1 DEF Starting
<1>7. Progress'
  BY <1>2, <1>5, StartingReasoned DEF Progress
<1>8. ASSUME goal.kind = "step" PROVE StepProgress'
  <2>1. slice.limit = 1 /\ slice.dispatches = 0 /\ Started' = StepDue
    BY <1>2, <1>5, <1>8, StartingReasoned
  <2>2. slice'.dispatches = 1 /\ slice'.limit = 1
    BY <1>4, <2>1
  <2>3. StepDue' = StepDue
    BY <1>2 DEF StepDue
  <2> QED BY <1>6, <2>1, <2>2, <2>3 DEF StepProgress
<1>9. Stopped'
  BY <1>2, StartingReasoned DEF Inv, PassIsReported, IsRunning, Reasoned, Stopped, Holds
<1> QED BY <1>2, <1>7, <1>8, <1>9 DEF Reasoned, IsRunning

(* What a yield comes to.                                                  *)
LEMMA YieldedIs ==
  ASSUME NEW count, NEW dispatches, NEW repeating \in BOOLEAN
  PROVE  \/ /\ instructions + count = Budget /\ ~repeating
            /\ Yielded(count, dispatches, repeating) = Terminated("budget")
         \/ /\ goal.kind = "step" /\ dispatches # 0 /\ ~repeating
            /\ Yielded(count, dispatches, repeating) = Paused("step", NoAddress)
         \/ /\ ~(goal.kind = "step" /\ dispatches # 0 /\ ~repeating)
            /\ Yielded(count, dispatches, repeating) = Running
BY DEF Yielded

LEMMA RepeatReasoned ==
  ASSUME Inv, Reasoned, RepeatYields
  PROVE  Reasoned'
<1>1. /\ Admitted /\ Starting(pc, TRUE)
      /\ Leave(Yielded(Count, slice.limit, TRUE), Count)
  BY DEF RepeatYields
<1>2. Yielded(Count, slice.limit, TRUE) = Running
  BY YieldedIs
<1>3. /\ state' = Running /\ slice' = NoSlice /\ instructions' = instructions + Count
      /\ UNCHANGED <<goal, begun>> /\ pendingRepeat' = pc /\ pc \in Addresses
  BY <1>1, <1>2 DEF Leave, Starting, Inv, TypeOK
<1>4. Started' = instructions + Count
  BY <1>3, StartingReasoned, <1>1 DEF Started, NoSlice
<1>5. Progress'
  BY <1>1, <1>3, <1>4, StartingReasoned DEF Progress
<1>6. goal.kind = "step" => StepProgress'
  <2>1. goal.kind = "step" => Started' = StepDue
    BY <1>1, <1>4, StartingReasoned
  <2>2. StepDue' = StepDue
    BY <1>3 DEF StepDue
  <2> QED BY <1>3, <2>1, <2>2 DEF StepProgress, NoSlice
<1>7. Stopped'
  BY <1>3 DEF Running, State, Stopped, Holds
<1> QED BY <1>3, <1>5, <1>6, <1>7 DEF Reasoned

LEMMA EndsReasoned ==
  ASSUME Inv, Reasoned, SliceEnds
  PROVE  Reasoned'
<1> DEFINE repeating == pendingRepeat # NoAddress
           next == Yielded(slice.instructions, slice.dispatches, repeating)
<1>1. /\ slice.open /\ ~Complete
      /\ Limit \/ slice.dispatches # 0
      /\ state' = next /\ instructions' = instructions + slice.instructions /\ slice' = NoSlice
      /\ UNCHANGED <<goal, bypass, begun, pc, pendingRepeat, machineBypass>>
  BY DEF SliceEnds, StopAt, Leave
<1>2. /\ IsRunning /\ bypass = NoAddress /\ pc \in Addresses
      /\ instructions \in Nat /\ slice.instructions \in Nat
  BY <1>1 DEF Inv, SliceGrant, TypeOK
<1>3. /\ Started' = Started /\ instructions' = Started /\ StepDue' = StepDue
  BY <1>1, <1>2 DEF Started, NoSlice, StepDue
<1>4. Progress /\ (goal.kind = "step" => StepProgress)
  BY <1>2 DEF Reasoned
<1>5. Progress'
  BY <1>1, <1>2, <1>3, <1>4 DEF Progress, PassHeld, NoSlice
<1>6. ASSUME goal.kind = "step"
      PROVE  /\ slice.dispatches = 1 /\ ~repeating /\ instructions' = StepDue'
    BY <1>1, <1>3, <1>4, <1>6 DEF StepProgress, Limit
<1>7. \/ instructions + slice.instructions = Budget /\ ~repeating /\ next = Terminated("budget")
      \/ goal.kind = "step" /\ next = Paused("step", NoAddress)
      \/ goal.kind # "step" /\ next = Running
  <2>1. repeating \in BOOLEAN
    OBVIOUS
  <2> HIDE DEF repeating
  <2> QED BY <1>6, <2>1, YieldedIs
<1> HIDE DEF next
<1>8. CASE instructions + slice.instructions = Budget /\ ~repeating /\ next = Terminated("budget")
  BY <1>1, <1>8 DEF Reasoned, Stopped, Holds, IsRunning, Terminated, State, Complete
<1>9. CASE goal.kind = "step" /\ next = Paused("step", NoAddress)
  BY <1>1, <1>6, <1>9 DEF Reasoned, Stopped, Holds, IsRunning, Paused, State
<1>10. CASE goal.kind # "step" /\ next = Running
  BY <1>1, <1>5, <1>10 DEF Reasoned, Stopped, Holds, Running, State
<1> QED BY <1>7, <1>8, <1>9, <1>10

LEMMA RunSliceReasoned == Inv /\ Reasoned /\ RunSlice => Reasoned'
<1> SUFFICES ASSUME Inv, Reasoned, RunSlice PROVE Reasoned'
  OBVIOUS
<1>1. CASE Completes
  BY <1>1, QuietReasoned DEF Completes, StopAt, Leave, Terminated, State
<1>2. CASE SliceEnds
  BY <1>2, EndsReasoned
<1>3. CASE BudgetEnds
  <2>1. /\ slice.open /\ ~Complete /\ Exhausted
        /\ state' = Terminated("budget") /\ instructions' = instructions + slice.instructions
        /\ pc' = pc /\ pendingRepeat' = pendingRepeat
    BY <1>3 DEF BudgetEnds, StopAt, Leave
  <2>2. /\ slice.instructions = Budget - instructions /\ pendingRepeat = NoAddress
        /\ instructions \in Nat
    BY <2>1 DEF Exhausted, Fresh, Inv, SliceGrant, PassIsHere, TypeOK
  <2>3. instructions' = Budget
    BY <2>1, <2>2
  <2> QED BY <2>1, <2>2, <2>3
             DEF Reasoned, Stopped, Holds, IsRunning, Terminated, State, Complete
<1>4. CASE BreakpointStops
  <2>1. /\ slice.open /\ AtBreakpoint
        /\ state' = Paused("breakpoint", pc) /\ instructions' = instructions + slice.instructions
        /\ pendingRepeat' = pendingRepeat /\ begun' = begun
    BY <1>4 DEF BreakpointStops, StopAt, Leave
  <2>2. pendingRepeat = NoAddress /\ machineBypass # pc /\ pc \in Addresses
    BY <2>1 DEF AtBreakpoint, Fresh, Inv, PassIsHere, TypeOK
  <2>3. Progress
    BY <2>1 DEF Reasoned, Inv, SliceGrant
  <2>4. begun.at = pc => instructions' > begun.instructions
    <3>1. /\ instructions \in Nat /\ slice.instructions \in Nat /\ begun.instructions \in Nat
          /\ instructions' = Started
      BY <2>1 DEF Inv, TypeOK, Started
    <3> QED BY <2>1, <2>2, <2>3, <3>1 DEF Progress, PassHeld, Started
  <2> QED BY <2>1, <2>2, <2>4 DEF Reasoned, Stopped, Holds, IsRunning, Paused, State
<1>5. CASE TargetStops
  BY <1>5, QuietReasoned DEF TargetStops, StopAt, Leave, Paused, State
<1>6. CASE InstructionFinishes
  BY <1>6, FinishReasoned
<1>7. CASE RepeatYields
  BY <1>7, RepeatReasoned
<1>8. CASE WatchpointHits
  BY <1>8, QuietReasoned DEF WatchpointHits, Leave, Paused, State
<1>9. CASE InstructionTraps \/ FetchTraps
  <2>1. PICK reason \in {"guest_fault", "environment"} : state' = Terminated(reason)
    BY <1>9 DEF InstructionTraps, FetchTraps, Leave
  <2> QED BY <2>1, QuietReasoned DEF Terminated, State
<1>10. CASE SliceCrashes
  BY <1>10, QuietReasoned DEF SliceCrashes, Leave, Crashed, State
<1> QED BY <1>1, <1>2, <1>3, <1>4, <1>5, <1>6, <1>7, <1>8, <1>9, <1>10 DEF RunSlice

LEMMA CommandsReasoned == Inv /\ Reasoned /\ Commands => Reasoned'
<1> SUFFICES ASSUME Inv, Reasoned, Commands PROVE Reasoned'
  OBVIOUS
<1>1. CASE Start
  BY <1>1, BeginReasoned DEF Start, Continue, Goals
<1>2. CASE RunUntil
  <2>1. PICK g \in UntilGoals : Begin(g)
    BY <1>2 DEF RunUntil
  <2>2. g \in Goals /\ g.kind # "step"
    BY DEF UntilGoals, Goals
  <2> QED BY <1>2, <2>1, <2>2, BeginReasoned DEF RunUntil
<1>3. CASE Step
  BY <1>3, BeginReasoned DEF Step, StepOne, Goals
<1>4. CASE StepOver
  <2>1. PICK g \in StepOverGoals : Begin(g) /\ OpenSlice(g, Resumed)
    BY <1>4 DEF StepOver
  <2>2. g \in Goals
    BY <2>1 DEF StepOverGoals, StepOne, Goals
  <2> QED BY <2>1, <2>2, BeginReasoned
<1>5. CASE Pause \/ Cancel
  BY <1>5, QuietReasoned DEF Pause, Cancel, Paused, Terminated, State
<1>6. CASE Reset \/ WriteCrashes
  BY <1>6, QuietReasoned DEF Reset, WriteCrashes, Ready, Crashed, State
<1>7. CASE SetBreakpoints \/ PatchCode \/ RecordTrace
  BY <1>7, SameReasoned DEF SetBreakpoints, PatchCode, RecordTrace, RequirePatchable, IsRunning,
                            Lifecycle!Patchable, control, history
<1>8. CASE ClearTrace
  BY <1>8, SameReasoned DEF ClearTrace, IsRunning, control, history
<1>9. CASE WritePc
  <2>1. CASE state.status = "paused"
    BY <1>9, <2>1, QuietReasoned DEF WritePc, Paused, State
  <2>2. CASE state.status # "paused"
    <3>1. state' = state /\ state.status = "ready"
      BY <1>9, <2>2 DEF WritePc, RequirePatchable, Lifecycle!Patchable
    <3> QED BY <3>1, QuietReasoned DEF Reasoned, Stopped, Holds, Inv, PassIsReported
  <2> QED BY <2>1, <2>2
<1> QED BY <1>1, <1>2, <1>3, <1>4, <1>5, <1>6, <1>7, <1>8, <1>9 DEF Commands

LEMMA ReasonedAlways == Spec => [](Inv /\ Reasoned)
<1>1. Init => Reasoned
  BY DEF Init, Ready, State, Reasoned, Stopped, Holds, IsRunning
<1>2. Inv /\ Reasoned /\ [Next]_vars => Reasoned'
  <2>1. ASSUME Reasoned, UNCHANGED vars PROVE Reasoned'
    BY <2>1 DEF vars, control, machine, history, Reasoned, Stopped, Holds, StepDue, Progress,
                PassHeld, StepProgress, Started, IsRunning
  <2>2. Inv /\ Reasoned /\ Advance => Reasoned'
    BY AdvanceReasoned
  <2> QED BY <2>1, <2>2, RunSliceReasoned, CommandsReasoned DEF Next
<1> QED BY <1>1, <1>2, Invariance, PTL DEF Spec

(***************************************************************************)
(* A run never ends with a reason that is not what happened: a breakpoint  *)
(* is met again only after progress, a step has executed its instruction   *)
(* and no other, and the budget ends neither a finished guest nor a REP    *)
(* (run.rs:38-75, session.rs:220-225, :266-272).                           *)
(***************************************************************************)
THEOREM ReasonsAreTrue == Spec => []ReasonIsTrue
<1>1. Inv /\ Reasoned => ReasonIsTrue
  <2> SUFFICES ASSUME Inv, Reasoned PROVE ReasonIsTrue
    OBVIOUS
  <2>1. CASE Holds("breakpoint")
    BY <2>1 DEF Holds, Reasoned, Stopped, ReasonIsTrue
  <2>2. CASE Holds("step")
    <3>1. instructions = StepDue /\ instructions \in Nat /\ begun.instructions \in Nat
      BY <2>2 DEF Reasoned, Stopped, Inv, TypeOK
    <3>2. instructions = begun.instructions + (IF begun.repeating THEN 0 ELSE 1)
      BY <3>1 DEF StepDue
    <3> QED BY <2>2, <3>2 DEF Holds, ReasonIsTrue
  <2>3. CASE Holds("budget")
    BY <2>3 DEF Holds, Reasoned, Stopped, ReasonIsTrue
  <2>4. CASE ~(Holds("breakpoint") \/ Holds("step") \/ Holds("budget"))
    <3>1. ASSUME IsRunning, goal.kind = "step" PROVE Started <= begun.instructions + 1
      <4>1. StepProgress /\ begun.instructions \in Nat
        BY <3>1 DEF Reasoned, Inv, TypeOK
      <4>2. StepDue \in Nat /\ StepDue <= begun.instructions + 1
        BY <4>1 DEF StepDue
      <4> QED BY <4>1, <4>2 DEF StepProgress
    <3> QED BY <2>4, <3>1 DEF Holds, ReasonIsTrue
  <2> QED BY <2>1, <2>2, <2>3, <2>4
<1> QED BY <1>1, ReasonedAlways, PTL

-----------------------------------------------------------------------------
(***************************************************************************)
(* The trace against the running count.  With the entries it evicted, it   *)
(* is no longer than the count; that is what keeps the next entry's place. *)
(***************************************************************************)
HistoryIn(t, count) ==
    /\ Len(t.entries) + t.discarded <= count
    /\ \A i, j \in DOMAIN t.entries :
          i < j => t.entries[i].instruction < t.entries[j].instruction
    /\ \A i \in DOMAIN t.entries :
          i + t.discarded <= t.entries[i].instruction /\ t.entries[i].instruction <= count

Traced == state.status # "crashed" => HistoryIn(trace, Started)

Entries == [instruction : Nat, pc : Addresses]
Traces == [enabled : BOOLEAN, discarded : Nat, entries : Seq(Entries)]

LEMMA LaterHistory ==
  ASSUME NEW t \in Traces, NEW n \in Nat, NEW m \in Nat, n <= m, HistoryIn(t, n)
  PROVE  HistoryIn(t, m)
<1>1. t.entries \in Seq(Entries) /\ t.discarded \in Nat /\ Len(t.entries) \in Nat
  BY DEF Traces
<1>2. \A i \in DOMAIN t.entries : t.entries[i].instruction \in Nat
  <2>1. \A i \in DOMAIN t.entries : t.entries[i] \in Entries
    BY <1>1
  <2> QED BY <2>1 DEF Entries
<1>3. Len(t.entries) + t.discarded <= m
  BY <1>1 DEF HistoryIn
<1> QED BY <1>2, <1>3 DEF HistoryIn

(* An entry with a later number keeps the trace a history.                 *)
LEMMA AppendedHistory ==
  ASSUME NEW t \in Traces, NEW u \in Traces, NEW n \in Nat, NEW e \in Entries,
         HistoryIn(t, n), e.instruction = n + 1, NEW drop \in {0, 1},
         u.discarded = t.discarded + drop, Len(u.entries) = Len(t.entries) + 1 - drop,
         \A i \in 1 .. Len(t.entries) - drop : u.entries[i] = t.entries[i + drop],
         u.entries[Len(u.entries)] = e
  PROVE  HistoryIn(u, n + 1)
<1> DEFINE T == t.entries
           U == u.entries
           l == Len(T)
<1>1. /\ DOMAIN T = 1 .. l /\ DOMAIN U = 1 .. l + 1 - drop /\ l \in Nat
      /\ t.discarded \in Nat /\ u.discarded \in Nat
  <2>1. T \in Seq(Entries) /\ U \in Seq(Entries) /\ t.discarded \in Nat /\ u.discarded \in Nat
    BY DEF Traces
  <2> QED BY <2>1
<1>2. \A i \in 1 .. l : T[i].instruction \in Nat
  <2>1. T \in Seq(Entries)
    BY DEF Traces
  <2>2. \A i \in 1 .. l : T[i] \in Entries
    BY <2>1
  <2> QED BY <2>2 DEF Entries
<1>3. /\ l + t.discarded <= n
      /\ \A i, j \in 1 .. l : i < j => T[i].instruction < T[j].instruction
      /\ \A i \in 1 .. l : i + t.discarded <= T[i].instruction /\ T[i].instruction <= n
  BY <1>1 DEF HistoryIn
<1>4. /\ u.discarded = t.discarded + drop /\ U[l + 1 - drop] = e /\ e.instruction = n + 1
      /\ \A i \in 1 .. l - drop : U[i] = T[i + drop]
  OBVIOUS
<1>5. Len(U) = l + 1 - drop
  OBVIOUS
<1> HIDE DEF T, U, l
<1>6. ASSUME NEW i \in 1 .. l + 1 - drop
      PROVE  /\ i + u.discarded <= U[i].instruction /\ U[i].instruction <= n + 1
             /\ U[i].instruction \in Nat
             /\ i < l + 1 - drop => U[i].instruction <= n /\ i + drop \in 1 .. l
                                    /\ U[i].instruction = T[i + drop].instruction
  <2>1. CASE i = l + 1 - drop
    <3>1. U[i].instruction = n + 1
      BY <1>4, <2>1
    <3>2. i + u.discarded <= n + 1
      BY <1>1, <1>3, <1>4, <2>1
    <3> QED BY <2>1, <3>1, <3>2
  <2>2. CASE i # l + 1 - drop
    <3>1. i \in 1 .. l - drop /\ i + drop \in 1 .. l
      BY <1>1, <2>2
    <3>2. U[i].instruction = T[i + drop].instruction
      BY <1>4, <3>1
    <3>3. (i + drop) + t.discarded <= T[i + drop].instruction /\ T[i + drop].instruction <= n
          /\ T[i + drop].instruction \in Nat
      BY <1>2, <1>3, <3>1
    <3>4. PICK x \in Nat : x = T[i + drop].instruction
      BY <3>3
    <3>5. PICK y \in Nat : y = t.discarded
      BY <1>1
    <3>6. i \in Nat /\ drop \in Nat
      BY <1>1
    <3>7. (i + drop) + y <= x /\ x <= n
      BY <3>3, <3>4, <3>5
    <3>8. i + (y + drop) <= x /\ x <= n + 1
      BY <3>6, <3>7
    <3> QED BY <1>4, <3>1, <3>2, <3>4, <3>5, <3>7, <3>8
  <2> QED BY <2>1, <2>2
<1>7. ASSUME NEW i \in 1 .. l + 1 - drop, NEW j \in 1 .. l + 1 - drop, i < j
      PROVE  U[i].instruction < U[j].instruction
  <2>0. i < l + 1 - drop
    BY <1>1, <1>7
  <2>1. /\ U[i].instruction <= n /\ i + drop \in 1 .. l
        /\ U[i].instruction = T[i + drop].instruction /\ U[i].instruction \in Nat
    BY <1>6, <2>0
  <2>2. CASE j = l + 1 - drop
    BY <1>4, <2>1, <2>2
  <2>3. CASE j # l + 1 - drop
    <3>1. j < l + 1 - drop
      BY <1>1, <2>3
    <3>2. j + drop \in 1 .. l /\ U[j].instruction = T[j + drop].instruction
      BY <1>6, <3>1
    <3>3. i + drop < j + drop
      BY <1>1, <1>7
    <3>4. T[i + drop].instruction < T[j + drop].instruction
      BY <1>3, <2>1, <3>2, <3>3
    <3> QED BY <2>1, <3>2, <3>4
  <2> QED BY <2>2, <2>3
<1>8. Len(U) + u.discarded <= n + 1
  BY <1>1, <1>3, <1>4, <1>5
<1> QED BY <1>1, <1>6, <1>7, <1>8 DEF HistoryIn, U

(* What recording a start does to the trace.                               *)
LEMMA RecordedHistory ==
  ASSUME Inv, HistoryIn(trace, Started)
  PROVE  HistoryIn(Recorded(Started + 1), Started + 1)
<1> DEFINE e == [instruction |-> Started + 1, pc |-> pc]
           u == Recorded(Started + 1)
<1>1. trace \in Traces /\ Started \in Nat /\ e \in Entries /\ e.instruction = Started + 1
  <2>1. trace \in Traces
    BY DEF Inv, TypeOK, Traces, Entries
  <2> QED BY <2>1 DEF Inv, TypeOK, Started, Entries
<1>2. /\ trace.entries \in Seq(Entries) /\ trace.discarded \in Nat /\ trace.enabled \in BOOLEAN
      /\ TraceCapacity \in Nat \ {0} /\ Len(trace.entries) \in Nat
      /\ trace = [enabled |-> trace.enabled, discarded |-> trace.discarded,
                  entries |-> trace.entries]
  BY <1>1 DEF Traces
<1> DEFINE s == Append(trace.entries, e)
           r == Append(Tail(trace.entries), e)
<1>3. CASE ~trace.enabled
  <2>1. u = trace
    BY <1>3 DEF Recorded
  <2> QED BY <1>1, <2>1, LaterHistory
<1>4. CASE trace.enabled /\ Len(trace.entries) = TraceCapacity
  <2>1. u = [enabled |-> trace.enabled, discarded |-> trace.discarded + 1, entries |-> r]
    BY <1>2, <1>4 DEF Recorded
  <2>2. /\ r \in Seq(Entries) /\ Len(r) = Len(trace.entries)
        /\ \A i \in 1 .. Len(trace.entries) - 1 : r[i] = trace.entries[i + 1]
        /\ r[Len(r)] = e
    <3>1. /\ Tail(trace.entries) \in Seq(Entries)
          /\ Len(Tail(trace.entries)) = Len(trace.entries) - 1
          /\ \A i \in 1 .. Len(trace.entries) - 1 : Tail(trace.entries)[i] = trace.entries[i + 1]
      BY <1>2, <1>4
    <3> DEFINE w == Tail(trace.entries)
    <3> HIDE DEF w, e
    <3>2. w \in Seq(Entries) /\ e \in Entries
      BY <1>1, <3>1 DEF w
    <3>3. /\ Append(w, e) \in Seq(Entries) /\ Len(Append(w, e)) = Len(w) + 1
          /\ \A i \in 1 .. Len(w) : Append(w, e)[i] = w[i]
          /\ Append(w, e)[Len(w) + 1] = e
      BY <3>2
    <3> QED BY <1>2, <3>1, <3>3 DEF w
  <2> HIDE DEF r, e, u
  <2>3. /\ u \in Traces /\ u.discarded = trace.discarded + 1 /\ u.entries = r
    BY <1>2, <2>1, <2>2 DEF Traces
  <2> DEFINE drop == 1
  <2> HIDE DEF drop
  <2>4. drop = 1
    BY DEF drop
  <2>5. /\ drop \in {0, 1} /\ u.discarded = trace.discarded + drop
        /\ Len(u.entries) = Len(trace.entries) + 1 - drop
        /\ \A i \in 1 .. Len(trace.entries) - drop : u.entries[i] = trace.entries[i + drop]
        /\ u.entries[Len(u.entries)] = e
    BY <1>2, <2>2, <2>3, <2>4
  <2>6. HistoryIn(u, Started + 1)
    BY <1>1, <2>3, <2>5, AppendedHistory
  <2> QED BY <2>6 DEF u
<1>5. CASE trace.enabled /\ Len(trace.entries) # TraceCapacity
  <2>1. u = [enabled |-> trace.enabled, discarded |-> trace.discarded, entries |-> s]
    BY <1>2, <1>5 DEF Recorded
  <2> HIDE DEF e
  <2>2. /\ s \in Seq(Entries) /\ Len(s) = Len(trace.entries) + 1
        /\ \A i \in 1 .. Len(trace.entries) : s[i] = trace.entries[i]
        /\ s[Len(s)] = e
    BY <1>1, <1>2
  <2> HIDE DEF s, u
  <2>3. /\ u \in Traces /\ u.discarded = trace.discarded /\ u.entries = s
    BY <1>2, <2>1, <2>2 DEF Traces
  <2> DEFINE drop == 0
  <2> HIDE DEF drop
  <2>4. drop = 0
    BY DEF drop
  <2>5. /\ drop \in {0, 1} /\ u.discarded = trace.discarded + drop
        /\ Len(u.entries) = Len(trace.entries) + 1 - drop
        /\ \A i \in 1 .. Len(trace.entries) - drop : u.entries[i] = trace.entries[i + drop]
        /\ u.entries[Len(u.entries)] = e
    BY <1>2, <2>2, <2>3, <2>4
  <2>6. HistoryIn(u, Started + 1)
    BY <1>1, <2>3, <2>5, AppendedHistory
  <2> QED BY <2>6 DEF u
<1> QED BY <1>2, <1>3, <1>4, <1>5

(* An emptied trace is the history of any count.                           *)
LEMMA EmptyHistory ==
  ASSUME NEW t, t.entries = <<>>, t.discarded = 0, NEW n \in Nat
  PROVE  HistoryIn(t, n)
<1>1. Len(t.entries) = 0 /\ DOMAIN t.entries = {}
  OBVIOUS
<1> QED BY <1>1 DEF HistoryIn

LEMMA TracedStart ==
  ASSUME Inv, Traced, Admitted, NEW next, NEW repeating, Starting(next, repeating),
         Started' = instructions + Count
  PROVE  Traced'
<1>1. HistoryIn(trace, Started)
  BY DEF Traced, Admitted, Inv, SliceGrant, IsRunning
<1>2. /\ Started \in Nat
      /\ Fresh => Started' = Started + 1
      /\ ~Fresh => Started' = Started
  BY DEF Inv, TypeOK, Started, Count, NewStarts
<1>3. CASE Fresh
  <2>1. trace' = Recorded(Started + 1)
    BY <1>3 DEF Starting
  <2>2. HistoryIn(trace', Started')
    BY <1>1, <1>2, <1>3, <2>1, RecordedHistory
  <2> QED BY <2>2 DEF Traced
<1>4. CASE ~Fresh
  <2>1. trace' = trace
    BY <1>4 DEF Starting
  <2>2. HistoryIn(trace', Started')
    BY <1>1, <1>2, <1>4, <2>1
  <2> QED BY <2>2 DEF Traced
<1> QED BY <1>3, <1>4

LEMMA TracedSame ==
  ASSUME Traced, state.status # "crashed", UNCHANGED <<trace, instructions, slice>>
  PROVE  Traced'
BY DEF Traced, Started

LEMMA SliceTraced == Inv /\ Traced /\ RunSlice => Traced'
<1> SUFFICES ASSUME Inv, Traced, RunSlice PROVE Traced'
  OBVIOUS
<1>1. instructions \in Nat /\ slice.instructions \in Nat
  BY DEF Inv, TypeOK
<1>2. ASSUME NEW next, Leave(next, Count) PROVE Started' = instructions + Count
  BY <1>1, <1>2 DEF Leave, Started, NoSlice, Count, NewStarts
<1>3. ASSUME NEW next, slice.open, Leave(next, slice.instructions), trace' = trace PROVE Traced'
  <2>1. Started' = Started
    BY <1>1, <1>3 DEF Leave, Started, NoSlice
  <2>2. HistoryIn(trace, Started)
    BY <1>3 DEF Traced, Inv, SliceGrant, IsRunning
  <2>3. HistoryIn(trace', Started')
    BY <1>3, <2>1, <2>2
  <2> QED BY <2>3 DEF Traced
<1>4. CASE Completes \/ SliceEnds \/ BudgetEnds \/ BreakpointStops \/ TargetStops
  <2>1. slice.open /\ \E next : StopAt(next)
    BY <1>4 DEF Completes, SliceEnds, BudgetEnds, BreakpointStops, TargetStops
  <2> QED BY <1>3, <2>1 DEF StopAt
<1>5. CASE InstructionFinishes
  <2>1. PICK next \in Addresses, n \in 1 .. slice.limit - slice.dispatches :
          /\ Starting(next, FALSE)
          /\ slice' = [slice EXCEPT !.dispatches = @ + n, !.instructions = Count]
    BY <1>5 DEF InstructionFinishes
  <2>2. slice'.instructions = Count
    BY <2>1 DEF Inv, TypeOK
  <2>3. Admitted /\ Started' = instructions + Count
    BY <1>5, <2>2 DEF InstructionFinishes, Started
  <2> QED BY <2>1, <2>3, TracedStart
<1>6. CASE RepeatYields
  BY <1>2, <1>6, TracedStart DEF RepeatYields
<1>7. CASE WatchpointHits \/ InstructionTraps
  <2>1. /\ Admitted /\ \E next, repeating : Starting(next, repeating)
        /\ \E next : Leave(next, Count)
    BY <1>7 DEF WatchpointHits, InstructionTraps
  <2> QED BY <1>2, <2>1, TracedStart
<1>8. CASE FetchTraps
  <2>1. slice.open /\ trace' = trace /\ \E next : Leave(next, slice.instructions)
    BY <1>8 DEF FetchTraps, Admitted
  <2> QED BY <1>3, <2>1
<1>9. CASE SliceCrashes
  BY <1>9 DEF SliceCrashes, Leave, Crashed, State, Traced
<1> QED BY <1>4, <1>5, <1>6, <1>7, <1>8, <1>9 DEF RunSlice

LEMMA CommandsTraced == Inv /\ Traced /\ (Advance \/ Commands) => Traced'
<1> SUFFICES ASSUME Inv, Traced, Advance \/ Commands PROVE Traced'
  OBVIOUS
<1>1. /\ instructions \in Nat /\ trace \in Traces /\ pc \in Addresses
      /\ Between => slice = NoSlice
  BY DEF Inv, TypeOK, SliceGrant, Between, Traces, Entries
<1>2. ASSUME slice = NoSlice, slice'.instructions = 0, state.status # "crashed",
             UNCHANGED <<trace, instructions>>
      PROVE  Traced'
  <2>1. Started' = Started
    BY <1>1, <1>2 DEF Started, NoSlice
  <2>2. HistoryIn(trace', Started')
    BY <1>2, <2>1 DEF Traced
  <2> QED BY <2>2 DEF Traced
<1>3. CASE Advance
  BY <1>1, <1>2, <1>3 DEF Advance, OpenSlice, IsRunning
<1>4. CASE Start \/ RunUntil \/ Step \/ StepOver
  <2>1. /\ \E g : Begin(g)
        /\ slice' = slice \/ slice'.instructions = 0
    BY <1>4 DEF Start, RunUntil, Step, StepOver, OpenSlice
  <2>2. state.status # "crashed"
    BY <2>1 DEF Begin, CanStart, Lifecycle!Legal
  <2> QED BY <1>1, <1>2, <2>1, <2>2 DEF Begin, NoSlice
<1>5. CASE Pause \/ Cancel
  <2>1. state.status # "crashed"
    BY <1>5 DEF Pause, Cancel, Lifecycle!Legal
  <2> QED BY <1>5, <2>1, TracedSame DEF Pause, Cancel, machine
<1>6. CASE SetBreakpoints \/ WritePc \/ PatchCode \/ WriteCrashes
  BY <1>6, TracedSame DEF SetBreakpoints, WritePc, PatchCode, WriteCrashes, RequirePatchable,
                          Lifecycle!Patchable, control, machine
<1>7. CASE RecordTrace
  <2>1. PICK enabled \in BOOLEAN : trace' = [trace EXCEPT !.enabled = enabled]
    BY <1>7 DEF RecordTrace
  <2>2. trace'.entries = trace.entries /\ trace'.discarded = trace.discarded
    BY <1>1, <2>1 DEF Traces
  <2>3. HistoryIn(trace, Started) /\ Started' = Started
    BY <1>7 DEF RecordTrace, RequirePatchable, Lifecycle!Patchable, Traced, Started
  <2>4. HistoryIn(trace', Started')
    BY <2>2, <2>3 DEF HistoryIn
  <2> QED BY <2>4 DEF Traced
<1>8. CASE Reset \/ ClearTrace
  <2>1. trace' = [trace EXCEPT !.entries = <<>>, !.discarded = 0]
    BY <1>8 DEF Reset, ClearTrace
  <2>2. trace'.entries = <<>> /\ trace'.discarded = 0
    BY <1>1, <2>1 DEF Traces
  <2>3. Started' \in Nat
    BY <1>1, <1>8 DEF Reset, ClearTrace, Started, NoSlice
  <2>4. HistoryIn(trace', Started')
    BY <2>2, <2>3, EmptyHistory
  <2> QED BY <2>4 DEF Traced
<1> QED BY <1>3, <1>4, <1>5, <1>6, <1>7, <1>8 DEF Commands

(***************************************************************************)
(* The trace never lists a start that did not happen, lists each once and  *)
(* in order, and accounts with its evicted entries for no more starts than *)
(* there were (machine/debug.rs:64, run.rs:80): only a fresh instruction   *)
(* is recorded, with the number the count is about to have.                *)
(***************************************************************************)
THEOREM TraceIsTheHistory == Spec => []TraceIsHistory
<1>1. Init => Traced
  <2> SUFFICES ASSUME Init PROVE HistoryIn(trace, Started)
    BY DEF Traced
  <2>1. trace.entries = <<>> /\ trace.discarded = 0 /\ Started \in Nat
    BY DEF Init, Started, NoSlice
  <2> QED BY <2>1, EmptyHistory
<1>2. Inv /\ Traced /\ [Next]_vars => Traced'
  <2>1. ASSUME Traced, UNCHANGED vars PROVE Traced'
    BY <2>1 DEF vars, control, machine, Traced, Started
  <2> QED BY <2>1, SliceTraced, CommandsTraced DEF Next
<1>3. Traced => TraceIsHistory
  BY DEF Traced, HistoryIn, TraceIsHistory
<1> QED BY <1>1, <1>2, <1>3, Invariance, PTL DEF Spec
=============================================================================
