# OpLab in TLA+

OpLab is a desktop workbench for small machine-code experiments: a Tauri host
with a Svelte interface, and one worker process that assembles source, loads
images and executes guest code natively under a debugger. This directory holds
its formal model: TLA+ modules translated from the Rust source, TLC
configurations that check them on small instances, and proofs checked by TLAPS.
Paths below are relative to `src/`.

## The system

```
 interface (src/lib/workbench)                     one per window
     | commands, delivery credit
 supervisor (src-tauri/src/supervisor)             writer, reader, watchdog threads
     | framed requests (stdin)       ^ replies and stream events (stdout)
     v                               |
 reader ----> event queue (16) ----> dispatcher ----> outbox ----> writer
 (crates/runner/src/worker)          |    ^   ^        4 control, 4 bulk,
                    jobs channel (1) |    |   |        1 sample, 1 final
                                     v    |   | blocking hand-off
                         assembly thread -+   v
                                        execution owner
                                          engine session (crates/engine/src/session.rs)
                                            slice loop (crates/engine/src/machine)
                                              native runtime (crates/runtime)
```

| Component | State | Operations | What makes it correct |
| --- | --- | --- | --- |
| Control lifecycle, `crates/core/src/execution.rs` | status, reset generation | start, pause, stop, terminate, crash, reset | only legal transitions; a reset is the only way back to Ready |
| Session and slice loop, `crates/engine/src/session.rs`, `machine/{run,debug}.rs` | control state with reason, count, goal, breakpoints, bypass, REP continuation, trace ring | start, run-until, step, step over, advance, pause, cancel, reset, edits | the budget is never exceeded; a breakpoint stops exactly once per arrival; a step is one instruction; a REP counts once; every run ends |
| Build queue, `worker/builds.rs` | queued builds, active build with its cancel latch | push, next, cancel, finish | one outcome per build, whichever of supersession, cancellation, completion comes first |
| Outbox, `worker/outbox.rs` | two lanes, sample slot, final reply, closed and failed flags | send, observe, finish, receive, drop | bounded; no reply lost; the active build's slot is kept; shutdown drains |
| Stream, `worker/stream.rs` | subscription, timer; in the writer, the baseline | subscribe, capture, encode, written | deltas can be applied; nothing follows an invalidation; a stop is always seen |
| Dispatcher and threads, `worker/dispatch.rs` | event queue, handshake, last id, closing, active subscription | one handler per event and command, scheduling, shutdown | exactly one reply per request; no lost wakeup; no deadlock |
| Execution owner, `worker/execution.rs` | the session, its sequence number | load, machine actions, observe, close, slices | views are coherent and numbered; a session never outlives its key |
| Supervisor, `src-tauri/src/supervisor*` | connections, views, pending table with deadlines, observation cache, delivery credit | request, write, settle, observe, watchdog, restart | every call settles once; a started write is never reported as not run; stale generations are ignored |
| Workbench, `src/lib/workbench` | attached session, subscription, builds, trace, delivery | subscribe, publish, build, read trace, reconnect | no late answer changes a newer session, document or trace |
| Native runtime, `crates/runtime/src/lib.rs`, `jit.rs`, with `crates/engine/src/machine.rs` | processor and memory, code cache, linked units, watchpoints, the runtime under construction of a reset | execute, set watchpoints, patch, read and write state, reset | only current code runs; no unit leaks; a watched access stops; a reset happens whole or not at all |
| Lowering, `crates/runtime/src/jit.rs`, `jit/integer.rs` | basic blocks, labels, insertion point | one per TCG operation | the native code computes what the operations mean, or the block is refused |
| Registers, `crates/core/src/registers`, `crates/engine/src/machine/registers.rs` | canonical storage of every bank | write a register, a vector, the rounding mode | an edit changes the bits it names, and no others |
| Documents, `src/lib/workbench/controller.svelte.ts` | documents with identity and source, the awaited build and load, the loaded image, the saved copy | edit, switch, open, close, build, load, recover | nothing is shown as the build of a source it was not assembled from |
| Framing, `crates/core/src/protocol/{transport,frame}.rs`, `src/lib/protocol/frames.ts` | the bytes in the pipe, the frame and payload being read or written | encode, write, read and decode a call, a reply, an event | messages arrive whole and in order, or the loss is noticed |
| Image loading, `crates/engine/src/load*`, `crates/core/src/{address,memory}.rs` | the segments, mappings and contents planned so far | one per program header or addition | no overflow or overlap; mappings that share a page must agree on its permissions; what is mapped is the image |
| Toolchain, command-line runner, interface, build tooling | see `PROJECT.json` | | external, sequential or presentation |

What is hard here: four threads with bounded queues in a cycle (dispatcher to
assembly to event queue to dispatcher, and dispatcher to outbox to writer to
event queue), announcements that may be dropped, cancellation racing completion,
replies that overtake one another in different lanes, samples that are coalesced
while the session they describe is replaced, loss of the writer in the middle of
a wait, and, in the engine, debugging state (a breakpoint pass, an unfinished
REP, a temporary goal) that is carried over slices, pauses and edits; in the
runtime, a cache of compiled code under a guest that rewrites itself, with
compilation failing at any stage; in the window, builds whose documents change,
close or are recovered before the answer comes; and a stream cut off at any byte.
`PROJECT.json` lists each as a hazard at its line.

## Modules

| Module | Models | Composed of |
| --- | --- | --- |
| `Lifecycle` | control state machine of the core crate; the abstract specification of a session | |
| `Session` | engine session, slice loop, temporary goals, trace | `INSTANCE Lifecycle` |
| `SessionProperties` | its invariants, action and liveness properties | extends `Session` |
| `SessionProofs` | its theorems | extends `SessionProperties` |
| `Builds`, `Outbox`, `Owner` | build queue, reply lanes, execution owner: operations as actions on their own variables | `Owner` extends `Lifecycle` |
| `Encoder` | writer-side delta encoder | extends `Outbox` |
| `Dispatch` | the worker process: reader, dispatcher, assembly and writer threads, guest slices | extends `Builds`, `Encoder`, `Owner` |
| `Service` | abstract specification of the worker: requests are accepted in order and answered once each | |
| `DispatchProperties` | its properties | extends `Dispatch`, `INSTANCE Service` |
| `DispatchProofs` | theorems about its requests, builds and subscriptions | extends `DispatchProperties`, `Counting` |
| `StreamProofs` | theorems about the order of its stream | extends `DispatchProofs` |
| `Delivery` | the supervisor's observation cache and delivery credit | |
| `Supervisor` | connections, leases, open calls, pipe threads and watchdog; the worker at its pipes | extends `Delivery` |
| `Calls` | abstract specification of the supervisor: what a caller may rely on | |
| `SupervisorProperties` | its properties | extends `Supervisor`, `INSTANCE Calls` |
| `SupervisorProofs` | its theorems | extends `SupervisorProperties`, `Counting` |
| `Workbench` | the window: connection, subscription task, stream, controls and trace reads; the supervisor as its environment | |
| `WorkbenchProperties` | its properties | extends `Workbench` |
| `WorkbenchProofs` | its theorems | extends `WorkbenchProperties` |
| `Runtime` | one native runtime: a call of execute step by step, its cache, its linker, its watchpoints | |
| `Machine` | the machine around a runtime: commands between calls, and a reset that builds a second runtime | extends `Runtime` |
| `MachineProperties` | its properties | extends `Machine` |
| `Lowering`, `LoweringProperties` | from TCG operations to native code, and running that code; what the operations mean | |
| `Registers`, `RegistersProperties` | edits of registers; what they promise | |
| `MachineProofs` | theorems about the machine and its registers | extends `MachineProperties`, `RegistersProperties`, `Counting` |
| `Documents`, `DocumentsProperties` | the source documents of the window and their builds, loads and recovery; what they promise | |
| `Conduit` | abstract specification of a framed stream | |
| `Framing`, `FramingProperties` | the framed stream in both directions, byte by byte | `INSTANCE Conduit` |
| `Loading`, `LoadingProperties` | the algorithm that turns an image into mappings; the same, declared byte by byte | |
| `BoundaryProofs` | theorems about images and documents | extends `LoadingProperties`, `DocumentsProperties`, `Counting` |
| `Counting` | lemmas several proofs use: positions of a sequence, removal from it, least elements | |
| `MCSession`, `MCDispatch`, `MCSupervisor`, `MCWorkbench` | instances for TLC | |
| `MCMachine` | `Machine`, `Lowering` and `Registers` in one instance | extends the three |
| `MCBoundary` | `Documents`, `Framing` and `Loading` in one instance | extends the three |

The parts of `MCMachine`, and those of `MCBoundary`, share no state. A behaviour
of these instances chooses one part at the start and leaves the others at rest.

Some definitions are marked "mutant of ...". They are plausible errors of the
code, used by no specification; substituting one for the definition it names
makes a property fail, which shows that the property observes that code.

### Atomicity in `Dispatch`

The dispatcher handles one event at a time on data only it owns, so what a
handler decides is one step. Each use of the shared outbox is a critical section
of its own mutex, so the calls of a handler are queued in `todo` in program order
and performed one per step, with the writer free to run in between. A call that
waits for room in the control lane is disabled until there is room. The sample
the code takes after a control command (`refresh`) is a call of the same queue.
`stage` is the position in the loop body: waiting for an event, the sample when
the timer is due, scheduling. Two pairs of adjacent calls are merged:
`can_start_build` is read in the step that starts the build, and the final reply
is sent in the step that ends the loop. Between the two calls of each pair the
writer can only free bulk slots or fail; freeing only enables the start, and
failure is the `OutputLost` action.

A guest command blocks the dispatcher until the execution owner has answered,
so it is one step. Slices of a running guest (`GuestAdvance`) interleave with
every other thread. Command operands (document, build id, memory window) are
chosen when the command is handled, because nothing reads them earlier; whether
an operand is valid is then a choice between the handler's branches. A clock
deadline is a nondeterministic choice: the observation timer may expire at any
time while it is armed.

The owner's session is reduced to `Lifecycle`'s control state, its key (load
request id and reset generation) and `config`, which stands for its breakpoint
and watchpoint sets, the part that decides whether a delta is possible.

A client that numbers its requests correctly is assumed unless `Faults` has
"input"; the faults are otherwise lost output, failing builds and end of input.
After the dispatcher has failed the writer may still drain what is queued until
the process exits.

### Atomicity in `Supervisor`

Everything the window, the pipe threads and the watchdog share is one mutex, so
each critical section is one step. What happens outside it is a step of its own:
a call is marked as begun (`WriterTakes`) before it is written (`WriterWrites`),
and the worker is killed (`Kill`) after the failure has been settled, so it may
still execute a call in between. The steps of `Drop for Connection` (ask for
shutdown, wait up to two seconds, fail, join) interleave with the threads; a
deadline or a time limit is a choice. A refused request (busy, stale, failed)
changes nothing and is a guard. A request that overlaps a restart only keeps the
old connection alive a little longer, and connections share nothing, so there is
one connection at a time. Joining always ends once the worker is dead, because
that closes the pipes.

The worker is what `Dispatch` allows at its pipes: it serves in order, a live
observation with memory may wait in the bulk lane while later replies overtake
it, and one sample waits to be written, in full or as a delta of the last one
written. Every command may also be refused. Its guest is a key, a sequence
number and a status; `paused` stands for every stopped status. `settled`,
`executed`, `delivered` and `refused` are history. `delivered` has what a channel
accepted. A channel may refuse any event. On the reading path the window is then
detached; an event released by an acknowledgement (`AcknowledgeLost`) is taken
from the delivery, lost, and the window stays, as in `delivery.rs:44-64`. `refused`
keeps the last event lost that way, until another takes its place.

### Atomicity in `Workbench`

The window has one thread, so the code between two awaits of a call is one step:
a click (`Connect`, `Execute`, `Load`, `Inspect`, `ReadTrace`), an answer
(`Answer`) or a message of the channel (`Message`). Each function of the
controller is an operator from its state to its state that appends the calls it
makes to `sends`; `Turn` puts them in flight. Calls are answered by the host in
any order, their answers are heard in any order, and the channel is ordered by
itself but not with them, which is how Tauri delivers the two. A promise that is
awaited is a phase of the awaiter: `connecting` and `controlling` return to "no"
when the subscription task or the trace read that they wait for ends.

The host is the supervisor of `Supervisor` with its worker behind it, reduced to
what a window can tell: the lease, the guest, the subscription, one event that
waits for its acknowledgement and the latest behind it. It refuses any command as
it likes, and a restarted worker numbers its sessions from one again. Only full
samples are sent, as the supervisor does; with them the baseline that
`applyObservation` keeps only repeats the order test of `publish`, and `resync`
cannot happen. The button that reconnects is there only while the window is not
connected (`Workbench.svelte:841`), which is the guard of `Connect`. Leaving the
page (`dispose`) is not modelled. `told` is history: the loss of a subscription
was reported.

### Atomicity in `Session`

The session is owned by one thread, so a command is one step. `advance` opens a
slice (`Advance`, or `Step`/`StepOver`, which open it at once) and each pass of
the loop in `run_slice` is one step. The order of the tests in the loop body
(completion, slice limit, budget, breakpoint, target) is the order of negated
guards in the actions. The guest is arbitrary: an admitted instruction may go to
any address, take any number of dispatches that fit, continue as a REP, hit a
watchpoint, trap or crash. Writes of registers, vectors, memory and watchpoints
change no modelled variable unless they crash the session (`WriteCrashes`),
write the program counter (`WritePc`) or patch an executable page (`PatchCode`).
Whether the stack pointer matches the return goal of a step over is a choice.
`begun` and `reported` are history: no action reads them.

### Atomicity in `Runtime` and `Machine`

A runtime is owned by one thread, so nothing interleaves with a call of
`execute`. Its stages (translate, look up or compile, dispatch, return) are
steps all the same, because each may fail with the cache, the linker and the
processor as they are then, and because the guest's stores fall between them.
A cell is one byte of guest memory. The first byte of an instruction fixes its
length, whether it repeats and whether it can be lowered; everything else it
does, stores to its own code included, is a choice. The key of the cache is what
`Key` holds: the bytes, the address, and the CPU mode. A write by the debugger
also empties the cache. With the key the model needs no such clearing to satisfy
`RunsCurrentCode`: it is a matter of room, not of correctness.

A reset maps the regions one by one into a second runtime, arms the watchpoints
and swaps; it may fail at each stage. `requested` and the access of a call are
history. A unit that is evicted, or whose link fails, leaves the linker in the
step that drops it.

### Atomicity in `Lowering` and `Registers`

Operations are emitted one at a time, as `lower` walks the block, into basic
blocks with terminators; verification is a step, and the result runs one native
instruction at a time. Widths are symbolic in the width of a byte: with a byte of
one bit a 32-bit value has four bits and all operand values can be tried. Local slots
and the carry start with an arbitrary value. QEMU's translator, the source of the
blocks, is external; the blocks tried use each operation within the operands TCG
defines it for (a masked shift count, a quotient that fits).

An edit of `Registers` is one step between slices. A word or a vector is the set
of its bits that are one, at its real width. `edit` is history.

### Atomicity in `Documents`, `Framing` and `Loading`

`Documents` has the awaits of the window's only thread as the boundaries of its
steps: a build and a load are awaited while edits, switches, closes, failures
and a reload of the page come in between. A document is an object; a used-up
revision replaces its identity in place. The source an artifact was assembled
from is history. A text or a setting may be too long to be kept (`Oversized`,
`Overlong`): nothing stops it from being edited in, so a save may fail on it, as it
may on the quota of the storage. The last copy then stays and the failure is shown
(`storageFailed`). What is stored is checked again when the page is loaded.
Names are left out: `renameDocument` keeps them within the bounds of `readWorkspace`.

`Framing` writes and reads cell by cell, and either process may stop at any
cell. A header is two cells, for the byte that is read by itself and the rest.
The text of metadata is readable or not; its fields are the kind and the lengths.

`Loading` takes one program header a step, as the loop over the headers does,
then plans. A byte of the file is its place in it.

## Runs

| Run | Question | Properties |
| --- | --- | --- |
| `dispatch_builds` | Do supersession, cancellation racing completion, bulk replies and one-slot backpressure keep one reply per request and the bulk lane shared as reserved? Is the worker the abstract service? | `ExactlyOneReply`, `ReservationHeld`, `ImplementsService` |
| `dispatch_stream` | Is the event stream ordered and decodable over resubscription, reset, load, close and failing input? | `StreamOrder`, `DeltaDecodable`, `SubscriptionFollowsSession` |
| `dispatch_liveness` | With failing builds and output and one-slot queues, is every accepted request answered until the writer is lost, and does a subscriber who was shown a running guest see it stop? | `EveryRequestAnswered`, `StopReported` |
| `supervisor_calls` | With a worker that exits, hangs or answers anything, full pipes, and limits and restarts racing it, does every call settle once, truthfully, and every drop end? | `ImplementsCalls`, `CallsSettle` |
| `supervisor_stream` | Over reattachment, resubscription and lost channels, does a window get only its own events and, but for one its channel refused, always the newest? After replies and samples overtook each other, does the supervisor agree with the worker? | `DeliveredToOwner`, `WindowCatchesUp`, `InStep` |
| `workbench_session` | While controls, inspections, trace reads, samples, failures of the worker and restarts overlap, does the window end subscribed to what it shows and owing no credit, does it never go back, show an older trace or a dead worker's machine, and do the controls come back? | `SubscribedWhenSettled`, `CreditKept`, `ShownIsOfWorker`, `SnapshotAdvances`, `TraceIsLatest`, `ControlsEnd` |
| `workbench_failure` | Does a dead worker leave the window disconnected, as documented? | `DeadWorkerLosesMachine`, violated (see Findings) |
| `workbench_credit` | Is the credit a window returns always credit of its present view, as documented? | `CreditAccepted`, violated (see Findings) |
| `session_safety` | Do budget, breakpoints, REP continuation, trace and lifecycle hold for every guest and every order of commands, is the reason of a stop true, and does the budget end every run? | `BudgetRespected`, `PassIsHere`, `ReasonIsTrue`, `TraceIsHistory`, `BreakpointNotSkipped`, `ImplementsLifecycle`, `RunEnds` |
| `session_target` | Does a breakpoint at a temporary target keep its reason, as documented? | `BreakpointReasonRetained`, violated (see Findings) |
| `machine_runtime` | Does a guest that rewrites its own code run only current code, with a full cache, failing compilations and resets in between, and stop where it is watched? Does lowered code compute what its operations mean? Do edits of registers touch only their bits? | `RunsCurrentCode`, `UnitsOwned`, `WatchedAccessStops`, `StepIsAdmissible`, `ResetAllOrNothing`, `ExecuteReturns`; `BlocksAreLowered`; `EditsAreExact` |
| `boundary_parts` | Is what the window shows of a document built from its source, whatever changed while it waited? With texts that cannot be stored and a storage that refuses, is the last copy always whole, and is the user told when it is behind? Does a stream cut off at any byte deliver whole messages or an error? Are exactly the legal images loaded, as the memory they describe? | `ShownIsOfSource`, `Recoverable`; `ImplementsConduit`, `CodecsAgree`; `LegalAccepted`, `PlanIsImage` |

The dispatch runs check deadlock: a state without a successor is an error unless
the process has exited (`Exited`, the only stuttering disjunct). So they also show
that the queues in a cycle never block each other, and that end of input alone
lets the process exit. The supervisor runs do not check deadlock, because the
connections are bounded and a dropped one need not be replaced. The workbench runs
do not either: a user need not act. The session runs do not check deadlock, because a crashed
session accepts only its replacement. `machine_runtime` and `boundary_parts` do not either:
their parts end with a block that has run, a plan, a closed pipe or their bounds.
`ReservationHeld` says that one build at a time is in flight and that the build
queue keeps its limit, so it also shows that the `BuildLost` error and the full
jobs channel in `dispatch.rs` cannot occur.

### Bounds

| Constant | Value | In the code | Why it is enough |
| --- | --- | --- | --- |
| `MaxRequest` | 4-5 | 64-bit ids | handshake plus three or four commands: two builds, a cancellation and a shutdown; or load, subscribe and two changes of the session |
| `EventCapacity` | 1-2 | 16 | full and non-full both occur; a full queue is where announcements are dropped |
| `ControlCapacity`, `BulkCapacity` | 1, 1-2 | 4, 4 | full lanes occur with few requests; two bulk slots separate "reserved" from "full" |
| `MaxPending`, `Documents` | 1, 1-2 | 8 | a full queue with replacement and with refusal |
| `MaxSequence` | 1-5 | 2^64-1 | delta chains; exhaustion of the sequence is reached too. In `dispatch_liveness` five numbers leave room after load, subscribe and run for the samples of the running and of the stopped guest |
| `Configs` | 1-2 | sets of addresses | equal and different breakpoint sets |
| `Addresses` | 3 | 64-bit | entry, completion, one more: loops, breakpoints and targets on or off the path |
| `Budget`, `SliceDispatches` | 3, 2 | configured, 1024 | the budget ends inside, at the end of and beyond a slice |
| `TraceCapacity`, `BreakpointLimit` | 2, 1 | 512, 256 | the ring evicts; the limit refuses |
| `MaxGeneration` | 1 | 2^64-1 | before and after a reset, and its exhaustion |
| `Capacity` (supervisor) | 2 | 16 | full and non-full tables and queues |
| `MaxCalls` (supervisor) | 4 | 64-bit ids | handshake, three or four commands, or a shutdown |
| `MaxConnections`, `MaxViews` | 1-2, 1-2 | 64-bit | a restart; a predecessor and its successor |
| `PipeCapacity` | 1-2 | kernel buffer | a full pipe; messages that a failure overtakes |
| `MaxCalls`, `MaxFlight` (workbench) | 4-6, 2-3 | none | the user acts while another call is in flight; what follows from an answer or an event is not limited |
| `MaxSequence`, `Actions` (workbench) | 3, seven of eight | none | an observation between two others; a patch, which the controller treats as a reset and the supervisor as a recording, is left to the proofs |
| `MaxConnections` (workbench) | 1-2 | none | a worker and its successor |
| `Cells`, `Bytes` | 2, 3 | 64-bit addresses, 256 | an instruction whose second byte is an instruction and can be rewritten; one that repeats; one that cannot be lowered |
| `CacheLimit`, `DispatchLimit` | 2, 2 | 128, 1024 | hits, eviction and reuse of a key; a REP inside and at the end of its budget |
| `Points`, `WatchLimit` | 2, 2 | sets, 32 | requests in any order and with repetitions; a longer one is refused and changes nothing |
| `LastUnit`, `LastGeneration` | 3, 1 | 2^64-1 | more units than the cache holds; the counters run out |
| `Byte` | 1 bit | 8 bits | "32-bit" values of four bits: every pair of operands is tried |
| `MCBlocks` | 94 blocks | any block of QEMU | every operation that is modelled, each condition and carry; a loop, dead code, refused blocks |
| `MaxEdits` | 2 | none | an edit after another one, of the same storage or of another; widths are the real ones |
| `LastRevision`, `MaxIds`, `MaxOpen` | 1, 2, 2 | 2^64-1, random, none | a document edited, replaced in place, closed and drawn again; exhausted revisions |
| `Oversized`, `Overlong` | one text of three, one setting | 256 KiB; 80 and 1024 characters | a text and a form that cannot be stored, before, after and beside ones that can |
| `MaxControl`, `MaxBinary`, `MaxObject`, `CallLimit` | 2, 2, 3, 11 | 1 MiB, 64 KiB, 1 MiB, twice 1 MiB and a little | bodies and payloads at, below and beyond each limit, and a payload of two chunks |
| `MaxMessages`, `Capacity` (framing) | 2, 2 | none, kernel buffer | a message after a complete, refused or cut one; a full pipe |
| `Top`, `Page` | 8, 2 | 2^64, 4096 | segments at each place of a page, across pages and up to the end of the address space |
| `MaxMapped`, `MaxRegions`, `MaxHeaders`, `FileLimit`, `Alignment` | 6, 3, 3, 4, 2 | see `limits.rs` | each limit is met and exceeded |

The documents of `dispatch_builds` are symmetric; that run checks safety only, and
neither `Spec` nor a property distinguishes them. The non-empty texts
of `boundary_parts` that can be stored are symmetric among themselves, and so are
those that cannot, for the same reason: they are only compared.
`Kinds` restricts a run to the commands its question is about;
`dispatch_liveness` and `dispatch_stream` between them enable the rest.
`ReadsFail` lets a control command take effect and then fail to observe: the
client sees an error, and the subscription is stale until its next capture.
`SubscriptionFollowsSession`, which speaks of that window, is checked with
`ReadsFail = FALSE`. `StopReported` is checked with `ReadsFail = TRUE`, and speaks of a
subscriber that was shown a running guest. A run that took effect and could not be
observed is answered by an error (`execution.rs:298`), nothing samples, and the
guest runs and stops without its subscriber ever having been told that it runs;
no document promises otherwise.

### Fairness

`Dispatch`: weak fairness of the dispatcher, the assembly thread and the writer.
Each is a loop that the operating system keeps scheduling; the writer's fairness
also assumes that the client drains the pipe, without which no bounded worker
can answer. The reader has none: the client need not send. Guest slices have
none: a guest may run for ever, and nothing but its own stop may be delayed by it.
`Supervisor`: weak fairness of the writer, the reader, the kill, the time limit of
a drop and, while the worker lives, the deadline of an open call. None of the
worker: it may hang with its pipes full.
`Workbench`: weak fairness of the event loop (an answer or a message that is there
is taken) and of the answers of the host, which `CallsSettle` shows of the
supervisor. None of the user, the samples or the failure.
`Session`: weak fairness of `Advance` and of the slice loop, from the owner's
loop (`worker/execution.rs:209-215`), which advances a running session whenever
no command is waiting.
`Machine`: weak fairness of the steps of a call and of its return: `execute` is a
loop, and its caller waits for it. None of the commands between calls.

## Proofs

A run shows a property on a small instance, a theorem for every value of the
constants. The theorems rest on the named assumptions of the modules they are
about, which constructors or types of the code justify and which TLC evaluates
in the runs, and where it is said on a hypothesis of their own. The safety
theorems have one form: an inductive invariant, a conjunction of named parts, holds at
the start, is kept by every action, and implies the property.

### Session

`SessionProofs` proves for every address set, budget, slice length, trace
capacity and breakpoint limit, from `SessionAssumption` alone (entry and
completion are different addresses, the budget and the capacities are positive,
as the constructors require):

| Theorem | Property |
| --- | --- |
| `TypeCorrect` | `TypeOK`, including the bound of the trace ring |
| `BudgetIsRespected` | `BudgetRespected` |
| `PassesAreHere` | `PassIsHere` |
| `BreakpointsHold` | `BreakpointNotSkipped` (an action property) |
| `RefinesLifecycle` | `ImplementsLifecycle` (refinement of `Lifecycle`) |
| `ReasonsAreTrue` | `ReasonIsTrue` |
| `TraceIsTheHistory` | `TraceIsHistory` |

The first five follow from `Invariance`, that `Inv` holds in every reachable state:

    Inv == TypeOK /\ SliceGrant /\ PassIsReported /\ PassIsHere

The budget bound is not inductive by itself: the loop compares its own count
with what it was granted when it opened, so `SliceGrant` says that an open slice
was granted exactly what the budget has left (and that the session is running
and its bypass was handed over). `BreakpointNotSkipped` needs to know which
breakpoint a bypass stands for. A bypass starts as the address in the pause
reason, moves from the session to the machine when a slice opens, and dies when
an instruction starts or the program counter is written; `PassIsReported` says
that at each of these stations it is the breakpoint last reported, and
`PassIsHere` that it is the one at the program counter, as is a REP continuation.
There is one lemma per group of actions (`BeginInv`, `AdvanceInv`, `RunSliceInv`,
`CommandsInv`), with `StartingInv` and `LeaveStartedInv` for what started
instructions have in common, and `CountRises` for the step that raises the count.

`ReasonsAreTrue` adds `Reasoned`, about where the session was started: a running
session has counted nothing since and still holds the pass for the place it
started from (`PassHeld`), or its count has risen; a step is before, inside or
after its one instruction (`StepProgress`). `TraceIsTheHistory` adds `Traced`:
besides what the property says, the entries held and evicted are together no
more than the count, which gives the next entry its place when the ring evicts.

`TypeCorrect` is proved of the session although no run lists `TypeOK`; it is part
of the inductive invariant.

### Machine and registers

`MachineProofs` proves, for every memory, instruction set, mapping, cache limit,
dispatch limit and set of watchpoints, from `RuntimeAssumption` and
`MachineAssumption`:

| Theorem | Property |
| --- | --- |
| `CodeIsCurrent` | `RunsCurrentCode` |
| `UnitsAreOwned` | `UnitsOwned` |
| `StepsAreAdmissible` | `StepIsAdmissible` |
| `ResetIsAtomic` | `ResetAllOrNothing` (an action property) |
| `WatchedAccessesStop` | `WatchedAccessStops` |

Four invariants carry them, and each is inductive with the shape of a call:
`CodeInv` says that cache and linker hold the same units under the same keys
(`Matched`), finitely many and within the limit, all with numbers already given
out, and that the block a call has translated is still the instruction in memory
(`CallCurrent`): nothing writes memory between translation and dispatch, while
cached code may be as stale as it likes because its key says so. `CountInv` says
that an unreturned call has dispatched once per repetition, has not used its
budget and is still where it started. `ResetInv` says that no call runs while a
runtime is being built, and that one ready to be swapped in is at the entry
point. `EmptyMatched`, `RoomMatched`, `InsertMatched` and `InsertBounded` are
the facts about the cache's operators. `WatchInv` says that QEMU holds the list
the runtime holds, that it names exactly the points last requested, that a
runtime ready to be swapped in has the same list, and that a call without an
outcome has touched nothing that is watched. That sorting and removing
duplicates loses and invents no point (`SortedNames`) needs induction over the
length of the request, which the library's rules cannot give here; it is done
with least elements (`Counting!Least`).

It also proves `EditsLeaveTheRest`, that is `EditsAreExact`, for every
bank, value, lane and pair of vector lengths. The invariant is `Sized`: every
storage holds bits of its native width only, whoever wrote it. `NameIsReplaced`
and `LaneIsReplaced` are the algorithms (shifts and masks; whole bytes) against
the field of bits.

### Worker

`DispatchProofs` and `StreamProofs` prove, for every capacity of the queues and
lanes, every number of requests, every set of documents, commands and faults,
from `DispatchAssumption`, `LanesAssumption`, `PendingAssumption` and
`OwnerAssumption` (capacities are positive, commands and faults are known ones):

| Theorem | Property |
| --- | --- |
| `ArtifactHasRoom` | `ReservationHeld` |
| `EveryRequestOnce` | `ExactlyOneReply` |
| `WorkerImplementsService` | `ImplementsService` (refinement of `Service`) |
| `SubscriptionFollows` | `SubscriptionFollowsSession` |
| `EventsInOrder` | `StreamOrder` |
| `DeltasApply` | `DeltaDecodable` |

`ReservationHeld` follows from

    Held == TypeOK /\ Planned /\ ArtifactRoom /\ Compiles /\ PendingLimit

`Planned` says which calls a handler can have left in `todo`: while a build is
in flight every bulk reply asks for a slot beyond the reserved one, and the
artifact is planned alone, when the build is over. `ArtifactRoom` is the
reservation; it speaks of `todo` because between the end of a build and the send
of its artifact the slot is held by nothing else. `Compiles` counts one
compilation wherever it is: in the jobs channel, in the assembly thread, or in
the event queue as a result.

`ExactlyOneReply` follows from

    Accounted == Held /\ RequestsInOrder /\ InputEnds /\ Ending /\ Balance

`Balance` counts, for each request, every place where its reply or its debt can
be (`Account`). An action moves one unit of one account; what that does to the
counts of positions in a sequence is in `Counting`. An account opens when its
request is accepted, and it must have been empty until then, so `RequestsInOrder`
says that the requests in the event queue continue the last accepted id in
steps of one. `Ending` and `InputEnds` say how the loop ends: if it ended well it
left no call and no build behind, and the final reply answers the shutdown when
nothing else is in the lanes. The refinement of `Service` follows from the same
invariant: an answer is the write of a reply, and by the account it is the only
one to its request and the one to a shutdown is the last.

The stream's order follows from `Accounted` and

    Streaming == /\ OnItsWay /\ Keyed /\ (Serving /\ ~failed => Dispatching)
                 /\ Chain /\ Based

The client will see the wire, then what the writer holds, then the control
lane. A sample in the slot is announced (`OnItsWay`) when the reply to its
subscription is in that order with nothing behind it that ends the subscription,
and the bulk lane, which may overtake, holds nothing that does. `Dispatching` is
what a handler owes while its calls are performed: a sample is put last, a reply
that ends what the slot holds is sent after the slot was cleared (`SlotSafe`),
and what is sent leaves the subscription in force announced (`ForceSafe`).
`Keyed` says that no key under way is newer than the present one. `Chain` orders
the samples of a subscription by number through the slot, the writer and the
wire, and `Based` says that the writer's baseline is the last event of the wire.
These proofs hold whether reads may fail or not; `SubscriptionFollowsSession`
itself speaks of runs without such failures only.

### Supervisor

`SupervisorProofs` proves, for every capacity, number of calls, windows and
connections and every set of commands, from `SupervisorAssumption`:

| Theorem | Property | Faults |
| --- | --- | --- |
| `EventsToTheirOwner` | `DeliveredToOwner` | any |
| `CreditHoldsNewest` | `WindowCatchesUp` | any |
| `SupervisorImplementsCalls` | `ImplementsCalls` (refinement of `Calls`) | any |
| `SupervisorInStep` | `InStep` | all but "garbage" and "resources" |

The first three follow from

    Told == Handling /\ Speaking /\ WindowCatchesUp

`WindowCatchesUp` has a case for the loss: the window's newest event was refused by
its channel when an acknowledgement released it, and the delivery then holds
nothing and waits for nothing, so the next event is sent at once. That is all such
a window can count on: if the guest has stopped there is no next event.

`Handling` says that calls go from the queue to the writer, the pipe and the
worker in order of their ids, so that none is executed twice, and that a call is
open or settled once, one settled as not run having never been started.
`Speaking` says that what comes out of the pipe was asked for: a reply that
subscribes is to an executed subscribe call, and precedes the events of that
subscription (`RepliesFirst`); and what a window was, is or will be sent is of a
call made under its lease (`Owned`). A predecessor's subscription may still be
answered after the attachment: it is not adopted.

`InStep` cannot hold with a worker that answers what was not asked, or writes
too much to its error output: the code then fails the connection as a protocol
error, as it should. The theorem's hypothesis `Sound` excludes these two
faults, as the run does; exits, deadlines and lost channels stay. It adds

    Synced == Awaited /\ Chained /\ Ordered /\ Followed

`Awaited`: every call on its way is open, and every reply on its way is to an
open call, once. `Chained`: a delta in the pipe extends the event before it, or
the cache. `Ordered`: no observation under way is ahead of the worker's guest,
and the sessions before it are closed or their closing is under way. `Followed`:
the key of the worker's guest, and its stream's subscription, are shown already
or carried by a message in the pipe with nothing behind it that undoes it; once
the pipe is empty, they are shown.

### Documents

`BoundaryProofs` proves, for every set of texts and settings and every bound,
from `DocumentsAssumption` (there is an empty text, which is not too long, and some
settings are neither unfinished nor too long: those of a new document):

| Theorem | Property |
| --- | --- |
| `ResultsAreOfSource` | `ShownIsOfSource` |
| `RecoverableOrTold` | `Recoverable` |

The window compares identities. That equal identities mean equal sources is
said by the invariant (`Inv`) of every result there is, shown, loaded or still
awaited, and every document: if the result names the document, its revision is
not later, and if it is the same, so is the source (`Agrees`). New identifiers
must then be fresh, also against those of results and of the saved copy
(`Numbered`, `Fits`, `Stored`), and no two documents alike (`Apart`).

`Recoverable` does not say that the documents can always be saved: a text over
256 KiB, a field that is too long, or the quota can prevent it. It says that nothing
else can (`Ordered`), that the last copy stored is read back whole (`Stored`), and
(`Kept`) that what is shown is that copy, or an edit waits for the timer, or a failed
save is shown, or nothing was ever edited. `Kept` is inductive with `Inv`: a build, a load
or a failure leaves the texts as they are (`SameWorkspace`), and a recovery shows
exactly what was stored (`RestoredDraft`).

### Images

`BoundaryProofs` proves, for every page size, address limit, limit of regions and
of memory, every sequence of program headers and every setup, from
`LoadingAssumption` and `InputsAssumption` (the types of the inputs: addresses and
lengths are natural numbers, and an additional mapping has a range that is not
empty, which `AddressRange::new` refuses, `address.rs:91-99`):

| Theorem | Property |
| --- | --- |
| `PlannedIsImage` | `PlanIsImage` |

The property says what every address holds, and knows no segments, no merging of
pages and no order. The invariant (`IInv`) carries it through the stages:

- `Parsed`, while headers are read: the segments are the headers that occupy memory,
  in the order of their addresses, and none overlaps another. The code compares a
  segment with the one before it only; that this is enough is `OrderAppends`.
- `Joined`, while segments are merged: the mappings so far are in order, the last
  may grow, each holds the whole of its segments' pages with their one set of
  permissions, and every page of a mapping belongs to a segment. A page shared by two
  segments is mapped once, because its second segment must agree with the mapping.
- `Imaged`, once memory is filled: every region is one of a mapping, with exactly the
  bytes of the file at their addresses and zeros elsewhere (`Built`), or an
  additional one as it was given; every header's pages are inside one region.
- `InOrder`, once planned: the regions, sorted by address, are apart. The code
  compares neighbours only (`NeighboursApart`); the sort is stable and a permutation
  (`SortedIs`).

The lemmas about pages (`PagesOfIs`, `WholePages`, `NextHolds`) say when rounding
to pages keeps what it rounds, also where the end of the last page is the end of
the address space.

### Window

`WorkbenchProofs` proves, for every set of actions, every number of calls, calls in
flight, connections and samples, and whether workers fail or not, from
`WorkbenchAssumption`:

| Theorem | Property |
| --- | --- |
| `SnapshotNeverGoesBack` | `SnapshotAdvances` (an action property) |
| `TraceNeverGoesBack` | `TraceIsLatest` (an action property) |
| `ShownBelongsToWorker` | `ShownIsOfWorker` |
| `FollowedWhenSettled` | `SubscribedWhenSettled` |
| `CreditComesBack` | `CreditKept` |
| `CreditIsReturned` | `CreditReturned`, as long as no event is held back while the window connects |

They follow from `Invariance`, that `IInv` holds in every reachable state:

    IInv == ui.sends = <<>> /\ \E b \in Nat : Whole(ui, calls, channel, host, made, b)

`b` is the last call made before the present attachment. Calls are numbered in the
order they are made, so a subscription, which has the number of its call, belongs
to the present view exactly if its number is above `b`: that is what separates the
events and answers of a dead worker from those of its successor, although session
numbers recur. The parts of `Whole`, beside the types:

- `Names`, `Link`: the window, the channel and the supervisor agree on the view, or the
  window is behind it while a connect is answered and not heard;
- `Calling`, `Tasks`, `Traces`, `Loads`: what the window awaits is in flight, once (the
  connect, the subscribe of the task, the trace read a control waits for, the control);
- `Pasts`: whatever is shown, in flight or in the channel was a state of the
  supervisor's guest, and no later one than the present;
- `Credit`: the event the supervisor waits for is in the channel, held back, or in an
  acknowledgement in flight, and in one place only;
- `Controlling`: what a control still awaits will come;
- `Following`: the subscription the window will have when all is heard is the
  supervisor's, or another subscribe is due, or the loss was reported;
- `Settled`: no event is held back, and no subscribe due, without a task under way.

The code between two awaits is one step, but calls several functions of the
controller (`receive`, `publish`, `subscribe`, `acknowledge`, `readTrace`). So there is
a lemma for each about a window in the middle of a turn, with the event that is in
hand; an answer or a click composes them. `SubscribedWhenSettled` needs `Following`
because a subscription is lost in many ways (reset, load, close, a failed
subscribe, an end of the stream), each of which must have asked for another.

`CreditIsReturned` has a hypothesis, `[][Connect => ui.pending = NoEvent]_vars`. It
is not an assumption about the code: `workbench_credit` shows a behaviour that
breaks it, and then `CreditAccepted` (see Findings). The theorem says that this is
the only way. Its invariant `CInv` adds that no event of an older view is held back
or acknowledged (`Clean`).

### Model-checked only

- `Framing`: `CodecsAgree` compares codecs that recurse over data;
  `ImplementsConduit` could be proved, and is not yet.
- `LegalAccepted` of `Loading`: that exactly the legal images are accepted needs
  the converse of the invariant at every refusal, and the sizes of sets of pages
  (`LegalSize`), summed over merged mappings; the run compares both sides.
- `BlocksAreLowered`: `Lowering` uses `Bitwise`, and is compared with a recursive
  meaning of blocks.
- All liveness (`EveryRequestAnswered`, `StopReported`, `CallsSettle`, `RunEnds`,
  `ExecuteReturns`, `ControlsEnd`), which is out of the prover's reach.
- What the runs `session_target`, `workbench_failure` and `workbench_credit` refute.

## Findings

`session_target`: `docs/engine.md:343-344` says that when a temporary target is
reached "a user breakpoint at the same address retains its breakpoint reason".
In `machine/run.rs:66` the breakpoint test is skipped while its bypass is set,
and the target test that follows it is not. So a run-until started on a reported
breakpoint, with that address among its targets, stops at once as Target although
the user breakpoint is there. The documentation does not state this exception.

`workbench_failure`: `docs/protocol.md:354` says that "a dead worker needs explicit
restart and loses its machine", and `docs/protocol.md:358` that replies and the
failure notice are independent. The notice may be heard before the answer of
`connect` (or of a control) of the same attachment. `failed` then clears the
window, and the answer restores it: `controller.svelte.ts:290` sets `connected`,
with the dead worker's session if it had one. The notice comes once, and the
button that restarts the worker is hidden while the window is connected.

`workbench_credit`: `src/lib/desktop/worker.ts:15` says "Return delivery credit after
consuming an event; detached views have no credit to return". An event that
arrives while a subscribe is awaited is held back in `pending`. If the worker
then fails and the user reconnects before the answer is heard, `connect` clears
the subscription but not `pending`. The old request is aborted, and the `finally`
of `updateSubscription` (`controller.svelte.ts:270-273`) gives the held event to
`receive`, which acknowledges it through the new attachment: credit of a detached
view is returned. `Delivery::acknowledge` refuses it as a protocol error, which
the reconnected window shows. No other behaviour does this: `CreditIsReturned`
is proved of all in which nothing is held back when the window connects.

## Not modelled

- Exhaustion of the engine's 64-bit dispatch counter (`session.rs:244-247`):
  it ends a session after 2^64 dispatches and no bound reaches it in a useful way.
- Vector operations, guest memory operations and helper calls of the lowering
  (`jit/vector.rs`, `jit/helpers.rs`): values of other shapes, or calls whose
  effect is in QEMU; the vector part is left for later (see Plan). QEMU's
  translator, LLVM and LLD are external: the models take their results, failures
  included, as choices.
- The fields of a message beyond its kind and payload lengths. JSON is readable
  or not.
- Memory windows, decoded instructions and `dispose` of the window, and its file
  dialogs.
- The toolchain, the command-line runner, the interface and developer tasks:
  external, sequential or presentation. `PROJECT.json` gives the reason for each.
- Two hazards have no property, because no document says what should happen: a
  command that took effect and could not be observed (`execution.rs:298`), which is
  in the model, and a report that overwrites another (`controller.svelte.ts:155`).
- The save when the page is left (`dispose`), and that nothing is saved over a copy
  that could not be read until the user edits (`recoveryWritable`): a copy that
  the code stored can always be read.
- The limit of an observation's memory: `Framing` bounds every binary body by
  `MaxBinary`, while the webview takes 1 MiB of it (`frames.ts:50`) and the worker
  sends at most 64 KiB.

## Plan

Done, in the order of their importance: the worker process, the engine session,
the supervisor that isolates both, the session side of the window; then the
runtime below the session, and the boundaries (documents, framing, loading,
registers, lowering); then the proofs over all of these but framing and
lowering. What is left:

1. Proofs of `ImplementsConduit` of `Framing`, and of `LegalAccepted` of `Loading`.
2. `Owner` and `Session` joined: the owner's control is an abstraction of the
   session's; the worker of `Supervisor` as an abstraction of `Dispatch`.
3. `Session` over `Machine`: `StepIsAdmissible` is what `Session` assumes of an
   instruction; the refinement would discharge it.
4. The vector lowering (`jit/vector.rs`), lane by lane, like `Lowering`.
5. Memory windows of the window, with their own staleness test.
