-------------------------------- MODULE Outbox --------------------------------
(***************************************************************************)
(* The bounded reply lanes between the dispatcher and the writer thread    *)
(* (crates/runner/src/worker/outbox.rs): control replies, bulk replies,    *)
(* the final reply and one slot for the newest observation.  Each operation*)
(* is one critical section of the shared mutex.                            *)
(***************************************************************************)
EXTENDS Naturals, Sequences

CONSTANTS
    ControlCapacity,   (* CONTROL_CAPACITY *)
    BulkCapacity       (* BULK_CAPACITY    *)

ASSUME LanesAssumption ==
    ControlCapacity \in Nat \ {0} /\ BulkCapacity \in Nat \ {0}

VARIABLES
    control, bulk,     (* the two reply lanes                              *)
    final,             (* the reply to Shutdown, sent after everything     *)
    observation,       (* the pending stream sample                        *)
    closed,            (* the dispatcher sends no more                     *)
    failed             (* the writer is gone                               *)

lanes == <<control, bulk, final, observation, closed, failed>>

(***************************************************************************)
(* A message names the request or subscription it answers.  Replies with a *)
(* session observation, and stream samples, carry its coherent "view".  A  *)
(* delta sample names the sequence number of its "base".                   *)
(***************************************************************************)
NoKey == <<0, 0>>
NoView == [key |-> NoKey, sequence |-> 0, status |-> "none", config |-> 0, memory |-> FALSE]
Message(id, kind, view) == [id |-> id, kind |-> kind, view |-> view, base |-> 0]
Reply(id, kind) == Message(id, kind, NoView)
NoMessage == Reply(0, "none")

Live(message) == message.view.status \in {"ready", "running"}

IsBulk(message) ==
    \/ message.kind \in {"assembled", "decoded"}
    \/ message.kind = "observed" /\ message.view.memory /\ Live(message)

(* Pending::priority: stopped samples and capture failures overtake bulk. *)
Priority(sample) == sample.kind = "ended" \/ (sample.kind = "capture" /\ ~Live(sample))

OutboxInit ==
    /\ control = <<>> /\ bulk = <<>>
    /\ final = NoMessage /\ observation = NoMessage
    /\ closed = FALSE /\ failed = FALSE

Open == ~failed /\ ~closed
CanStartBuild == Len(bulk) < BulkCapacity

(* observe: replace the pending sample, or clear it with NoMessage. *)
Observe(sample) ==
    /\ Open
    /\ observation' = sample
    /\ UNCHANGED <<control, bulk, final, closed, failed>>

(***************************************************************************)
(* send: a bulk reply needs a slot beyond the one reserved for the active  *)
(* build; without one it becomes an error in the control lane, which waits *)
(* for room.                                                               *)
(***************************************************************************)
FitsBulkUnreserved(reserve) == Len(bulk) < BulkCapacity   \* mutant of FitsBulk
FitsBulk(reserve) == Len(bulk) + (IF reserve THEN 1 ELSE 0) < BulkCapacity

SendBulk(message, reserve) ==
    /\ Open
    /\ IsBulk(message) /\ FitsBulk(reserve)
    /\ bulk' = Append(bulk, message)
    /\ UNCHANGED <<control, final, observation, closed, failed>>

SendControl(message, reserve) ==
    /\ Open
    /\ ~(IsBulk(message) /\ FitsBulk(reserve))
    /\ Len(control) < ControlCapacity
    /\ control' = Append(control, IF IsBulk(message)
                                  THEN Reply(message.id, "resource_limit") ELSE message)
    /\ UNCHANGED <<bulk, final, observation, closed, failed>>

SendFinal(message) ==
    /\ Open
    /\ final' = message /\ closed' = TRUE
    /\ UNCHANGED <<control, bulk, observation, failed>>

(* Drop for Sender: the dispatcher returned. *)
CloseOutbox == closed' = TRUE /\ UNCHANGED <<control, bulk, final, observation, failed>>

(***************************************************************************)
(* receive: control first, then a sample with priority, then bulk, then an *)
(* ordinary sample, and the final reply only when all else is written.     *)
(***************************************************************************)
ReceiveControl(message) ==
    /\ control # <<>>
    /\ message = Head(control)
    /\ control' = Tail(control)
    /\ UNCHANGED <<bulk, final, observation, closed, failed>>

ReceiveBulk(message) ==
    /\ control = <<>> /\ ~Priority(observation) /\ bulk # <<>>
    /\ message = Head(bulk)
    /\ bulk' = Tail(bulk)
    /\ UNCHANGED <<control, final, observation, closed, failed>>

ReceiveSample(message) ==
    /\ control = <<>> /\ observation # NoMessage
    /\ Priority(observation) \/ bulk = <<>>
    /\ message = observation
    /\ observation' = NoMessage
    /\ UNCHANGED <<control, bulk, final, closed, failed>>

ReceiveFinal(message) ==
    /\ control = <<>> /\ bulk = <<>> /\ observation = NoMessage
    /\ closed /\ final # NoMessage
    /\ message = final
    /\ final' = NoMessage
    /\ UNCHANGED <<control, bulk, observation, closed, failed>>

Drained ==
    closed /\ control = <<>> /\ bulk = <<>> /\ observation = NoMessage /\ final = NoMessage

(* Drop for Receiver: the writer failed; nothing queued will be written. *)
LoseOutbox ==
    /\ failed' = TRUE
    /\ control' = <<>> /\ bulk' = <<>>
    /\ final' = NoMessage /\ observation' = NoMessage
    /\ UNCHANGED closed
=============================================================================
