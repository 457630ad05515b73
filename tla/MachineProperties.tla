--------------------------- MODULE MachineProperties ---------------------------
(* What the native runtime and its machine promise. *)
EXTENDS Machine


(* Code that is about to run is linked, and was compiled from the bytes in *)
(* memory at the program counter in the mode in force: a store by the guest*)
(* clears nothing, the key alone keeps an old translation from running.    *)
(* (Runtime::execute, Key)                                                 *)
RunsCurrentCode ==
    InCall("run") => call.unit \in DOMAIN linked /\ linked[call.unit] = Current

(* The linker holds exactly the code of the cache, each unit once and under*)
(* a name of its own, and never more than the limit: whatever is evicted,  *)
(* patched over or fails to link is released. (Compiled::drop, execute)    *)
UnitsOwned ==
    /\ Cardinality(DOMAIN cache) <= CacheLimit
    /\ Range(cache) = DOMAIN linked
    /\ IsInjective(cache)
    /\ \A unit \in DOMAIN linked : unit < sequence

(* An access that a requested watchpoint covers is never passed over, and a*)
(* stop names a requested watchpoint that covers it, whatever the order and*)
(* repetitions of the request, the resets since and the code cached before.*)
(* (Runtime::set_watchpoints, Runtime::execute, Machine::reset)            *)
WatchedAccessStops ==
    LET covered == {p \in requested : call.access \in Covers[p]} IN
    call.access # <<>> =>
        /\ call.outcome = "watchpoint" => call.point \in covered
        /\ covered # {} => call.outcome \in {"watchpoint", "error"}

(* The results run_slice is written for: it adds up dispatches against its *)
(* limit, counts an instruction that started, and keeps the address of one *)
(* that goes on. (Runtime::execute, Machine::run_slice)                    *)
StepIsAdmissible ==
    InCall("done") =>
        /\ call.dispatches <= call.budget
        /\ call.dispatches > 0 => call.started
        /\ call.repeated => pc = call.from /\ call.dispatches > 0
        /\ call.outcome = "finished" => call.started /\ call.dispatches > 0 /\ ~call.repeated
        /\ call.outcome = "yield" => call.repeated /\ call.dispatches = call.budget
        /\ call.outcome = "watchpoint" => call.dispatches > 0
        /\ ~call.started => pc = call.from /\ call.outcome \in {"fault", "environment", "error"}

(* A reset that is counted leaves a fresh machine, and every other step of *)
(* a reset leaves the machine as it was. (Session::reset, Machine::reset)  *)
ResetAllOrNothing ==
    [][/\ generation' # generation =>
            memory' = Image /\ pc' = Entry /\ cache' = Empty /\ rebuild' = NoRebuild
       /\ rebuild # NoRebuild /\ generation' = generation => UNCHANGED native]_vars

(* Every execute returns: a guest that repeats without end uses its budget.*)
(* (Runtime::execute)                                                      *)
ExecuteReturns == call.stage # "idle" ~> call.stage = "idle"
=============================================================================
