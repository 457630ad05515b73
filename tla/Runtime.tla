-------------------------------- MODULE Runtime --------------------------------
(***************************************************************************)
(* One native runtime (crates/runtime): QEMU's CPU, the ORC compiler and   *)
(* the bounded cache of compiled instructions, driven by execute.          *)
(*                                                                         *)
(* The runtime is owned by one thread, so the steps of a call are never    *)
(* interleaved with another call; they are separate because the guest may  *)
(* rewrite its own code, and translation, compilation and execution may    *)
(* each fail, between any two of them.  Code is a cell per byte; what an   *)
(* instruction does is the guest's choice, except for what its first byte  *)
(* fixes: its length, whether it repeats and whether it can be compiled.   *)
(***************************************************************************)
EXTENDS Integers, Sequences, FiniteSets, Functions

CONSTANTS
    Cells,             (* guest memory is 0 .. Cells - 1                *)
    Bytes,             (* what a cell may hold                          *)
    Wide,              (* first bytes of two-byte instructions          *)
    Repeating,         (* first bytes of REP instructions               *)
    Unsupported,       (* first bytes of instructions not lowered       *)
    Modes,             (* cs_base and flags of the CPU                  *)
    Executable,        (* cells mapped with X                           *)
    Writable,          (* cells mapped with W                           *)
    Image,             (* the initial contents                          *)
    Entry, EntryMode,  (* the initial program counter and mode          *)
    Points,            (* watchpoints, numbered in their order          *)
    Covers,            (* the accesses <<cell, kind>> a watchpoint sees *)
    CacheLimit,        (* 128                                           *)
    DispatchLimit,     (* SLICE_DISPATCHES, 1024                        *)
    WatchLimit,        (* MAX_WATCHPOINTS, 32                           *)
    LastUnit           (* u64::MAX                                      *)

Memory == 0 .. Cells - 1
Kinds == {"read", "write"}

ASSUME RuntimeAssumption ==
    /\ Cells \in Nat \ {0} /\ Entry \in Memory /\ EntryMode \in Modes
    /\ Executable \subseteq Memory /\ Writable \subseteq Memory
    /\ Image \in [Memory -> Bytes]
    /\ Wide \subseteq Bytes /\ Repeating \subseteq Bytes /\ Unsupported \subseteq Bytes
    /\ Points \subseteq Nat /\ Covers \in [Points -> SUBSET (Memory \X Kinds)]
    /\ CacheLimit \in Nat \ {0} /\ DispatchLimit \in Nat \ {0}
    /\ WatchLimit \in Nat /\ LastUnit \in Nat

VARIABLES
    (* the native CPU *)
    memory, pc, mode,
    armed,             (* watchpoints inserted in QEMU, in order        *)
    (* Runtime *)
    points,            (* Runtime::watchpoints                          *)
    cache,             (* key -> unit                                   *)
    (* Compiler *)
    linked,            (* unit -> the key it was compiled from, for each*)
                       (* unit whose tracker still holds its code       *)
    sequence,          (* number of the next unit                       *)
    call               (* the execute in progress, or its result        *)

cpu == <<memory, pc, mode>>
watches == <<armed, points>>
code == <<cache, linked, sequence>>

NoUnit == -1
NoBlock == [pc |-> 0, mode |-> EntryMode, bytes |-> <<>>]
NoCall == [stage |-> "idle", budget |-> 0, dispatches |-> 0, started |-> FALSE, repeated |-> FALSE,
           block |-> NoBlock, unit |-> NoUnit, outcome |-> "none", point |-> 0, access |-> <<>>,
           from |-> 0]

Empty == [k \in {} |-> NoUnit]

-----------------------------------------------------------------------------
(* Keys.  A block's code is copied from memory when it is translated, its  *)
(* unused bytes zero.                                                      *)

Length(byte) == IF byte \in Wide THEN 2 ELSE 1

(* Mutant of Key: only the first byte is compared. *)
KeyByFirstByte(at, m, contents) == [pc |-> at, mode |-> m, bytes |-> <<contents[at]>>]

Key(at, m, contents) ==
    [pc |-> at, mode |-> m,
     bytes |-> [i \in 1 .. Length(contents[at]) |-> contents[at + i - 1]]]

Fetched(at, contents) == at .. at + Length(contents[at]) - 1
Fetchable(at, contents) == at \in Executable /\ Fetched(at, contents) \subseteq Executable

(* The instruction at the program counter, as it is now. *)
Current == [pc |-> pc, mode |-> mode,
            bytes |-> [i \in 1 .. Length(memory[pc]) |-> memory[pc + i - 1]]]

-----------------------------------------------------------------------------
(* The cache.  A Compiled owns its tracker: dropping one unlinks its code. *)

MakeRoom(key) ==
    IF Cardinality(DOMAIN cache) = CacheLimit /\ key \notin DOMAIN cache THEN Empty ELSE cache

Kept(entries) == Restrict(linked, Range(entries))

Insert(f, x, y) == [z \in DOMAIN f \cup {x} |-> IF z = x THEN y ELSE f[z]]

-----------------------------------------------------------------------------
(* execute.                                                                *)

InCall(stage) == call.stage = stage
Idle == InCall("idle")

Execute ==
    /\ Idle
    /\ \E budget \in 1 .. DispatchLimit :
        call' = [NoCall EXCEPT !.stage = "translate", !.budget = budget, !.from = pc]
    /\ UNCHANGED <<cpu, watches, code>>

Result(step) == call' = [step EXCEPT !.stage = "done", !.block = NoBlock, !.unit = NoUnit]

(* Fetching or decoding stops: nothing of this dispatch has started. *)
TranslateStops ==
    /\ InCall("translate")
    /\ \E outcome \in {"fault", "environment"} :
        Result([call EXCEPT !.repeated = FALSE, !.outcome = outcome])
    /\ UNCHANGED <<cpu, watches, code>>

Translate ==
    /\ InCall("translate") /\ Fetchable(pc, memory)
    /\ call' = [call EXCEPT !.stage = "prepare", !.started = TRUE, !.block = Key(pc, mode, memory)]
    /\ UNCHANGED <<cpu, watches, code>>

(* QEMU or its adapter fails; the error ends the call and the session. *)
NativeFails ==
    /\ call.stage \in {"translate", "run"}
    /\ Result([call EXCEPT !.outcome = "error"])
    /\ UNCHANGED <<cpu, watches, code>>

CacheHits ==
    /\ InCall("prepare") /\ call.block \in DOMAIN cache
    /\ call' = [call EXCEPT !.stage = "run", !.unit = cache[call.block]]
    /\ UNCHANGED <<cpu, watches, code>>

Misses == InCall("prepare") /\ call.block \notin DOMAIN cache

Compile ==
    /\ Misses /\ sequence < LastUnit
    /\ memory[pc] \notin Unsupported
    /\ LET room == MakeRoom(call.block) IN
        /\ cache' = Insert(room, call.block, sequence)
        /\ linked' = Insert(Kept(room), sequence, Current)
    /\ sequence' = sequence + 1
    /\ call' = [call EXCEPT !.stage = "run", !.unit = sequence]
    /\ UNCHANGED <<cpu, watches>>

(* An operation without a lowering is the guest's fault.  The call keeps   *)
(* what the dispatch before this one said about repetition.                *)
CompileRefuses ==
    /\ Misses /\ sequence < LastUnit
    /\ memory[pc] \in Unsupported
    /\ LET room == MakeRoom(call.block) IN cache' = room /\ linked' = Kept(room)
    /\ sequence' = sequence + 1
    /\ Result([call EXCEPT !.outcome = "fault"])
    /\ UNCHANGED <<cpu, watches>>

(* Mutant of CompileFails: linking failed, and the tracker is kept. *)
CompileLeaks ==
    /\ Misses
    /\ LET room == MakeRoom(call.block) IN
        cache' = room /\ linked' = Insert(Kept(room), sequence, Current)
    /\ sequence' = IF sequence < LastUnit THEN sequence + 1 ELSE sequence
    /\ Result([call EXCEPT !.outcome = "error"])
    /\ UNCHANGED <<cpu, watches>>

(* The IR, the passes or the linker fail, or the names are used up.        *)
CompileFails ==
    /\ Misses
    /\ LET room == MakeRoom(call.block) IN cache' = room /\ linked' = Kept(room)
    /\ sequence' = IF sequence < LastUnit THEN sequence + 1 ELSE sequence
    /\ Result([call EXCEPT !.outcome = "error"])
    /\ UNCHANGED <<cpu, watches>>

(* The armed watchpoints that see an access; QEMU reports one of them. *)
Seen(access) == {i \in DOMAIN armed : access \in Covers[armed[i]]}

(* Mutant of Settle: the budget is tested before the repetition. *)
SettleByBudget(step) ==
    IF step.dispatches = step.budget THEN Result([step EXCEPT !.outcome = "yield"])
    ELSE IF ~step.repeated THEN Result([step EXCEPT !.outcome = "finished"])
    ELSE call' = [step EXCEPT !.stage = "translate", !.block = NoBlock, !.unit = NoUnit]

(* After a dispatch without a watched access. *)
Settle(step) ==
    IF ~step.repeated THEN Result([step EXCEPT !.outcome = "finished"])
    ELSE IF step.dispatches = step.budget THEN Result([step EXCEPT !.outcome = "yield"])
    ELSE call' = [step EXCEPT !.stage = "translate", !.block = NoBlock, !.unit = NoUnit]

(* Mutant of Dispatched: a dispatch is not counted. *)
DispatchedUncounted == call

Dispatched == [call EXCEPT !.dispatches = @ + 1]

(* What a dispatch comes to: a hit ends the call with its watchpoint.       *)
Conclude(step) ==
    LET seen == Seen(step.access) IN
    \/ seen = {} /\ Settle(step)
    \/ \E i \in seen \cap DOMAIN points :
        Result([step EXCEPT !.outcome = "watchpoint", !.point = points[i]])
    \/ seen \ DOMAIN points # {} /\ Result([step EXCEPT !.outcome = "error"])

(* The compiled instruction runs: it may access a cell, and go elsewhere   *)
(* or repeat.  A store may change the code that is about to run again.     *)
Dispatch ==
    /\ InCall("run")
    /\ \E kind \in Kinds, cell \in Memory, repeated \in BOOLEAN :
        /\ kind = "write" => cell \in Writable
        /\ IF kind = "write" THEN \E byte \in Bytes : memory' = [memory EXCEPT ![cell] = byte]
           ELSE UNCHANGED memory
        /\ IF repeated
           THEN /\ linked[call.unit].bytes[1] \in Repeating
                /\ UNCHANGED <<pc, mode>>
           ELSE pc' \in Memory /\ mode' \in Modes
        /\ Conclude([Dispatched EXCEPT !.repeated = repeated, !.access = <<cell, kind>>])
    /\ UNCHANGED <<watches, code>>

(* The instruction faults or asks for an environment; partial effects stay. *)
DispatchTraps ==
    /\ InCall("run")
    /\ \/ UNCHANGED memory
       \/ \E cell \in Writable, byte \in Bytes : memory' = [memory EXCEPT ![cell] = byte]
    /\ \E outcome \in {"fault", "environment"} :
        Result([Dispatched EXCEPT !.repeated = FALSE, !.outcome = outcome])
    /\ UNCHANGED <<pc, mode, watches, code>>

-----------------------------------------------------------------------------
(* The other operations on a runtime.                                      *)

(* sort_unstable and dedup. *)
Sorted(input) ==
    LET distinct == Range(input) IN
    CHOOSE s \in [1 .. Cardinality(distinct) -> distinct] :
        \A i, j \in DOMAIN s : i < j => s[i] < s[j]

Inputs == UNION {[1 .. n -> Points] : n \in 0 .. WatchLimit}

(* The native set is replaced first; an equal set is left alone. *)
SetWatchpoints(input) ==
    /\ Idle
    /\ points' = Sorted(input)
    /\ armed' = IF points' = points THEN armed ELSE points'
    /\ UNCHANGED <<cpu, code, call>>

(* The debugger's write also empties the cache. *)
Write ==
    /\ Idle
    /\ \E cell \in Memory, byte \in Bytes : memory' = [memory EXCEPT ![cell] = byte]
    /\ cache' = Empty /\ linked' = Empty
    /\ UNCHANGED <<pc, mode, watches, sequence, call>>

SetRegister ==
    /\ Idle
    /\ pc' \in Memory /\ mode' \in Modes
    /\ UNCHANGED <<memory, watches, code, call>>

Init ==
    /\ memory = Image /\ pc = Entry /\ mode = EntryMode
    /\ armed = <<>> /\ points = <<>>
    /\ cache = Empty /\ linked = Empty /\ sequence = 0
    /\ call = NoCall

Running ==
    \/ TranslateStops \/ Translate \/ NativeFails \/ CacheHits
    \/ Compile \/ CompileRefuses \/ CompileFails \/ Dispatch \/ DispatchTraps
=============================================================================
