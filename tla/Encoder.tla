-------------------------------- MODULE Encoder --------------------------------
(***************************************************************************)
(* The writer's stream encoder (crates/runner/src/worker/stream.rs).  A    *)
(* sample is sent as a delta only against the last sample delivered; the   *)
(* baseline moves when the whole message has been written.                 *)
(***************************************************************************)
EXTENDS Outbox

VARIABLE
    baseline      (* the last sample delivered, or NoMessage *)

EncoderInit == baseline = NoMessage

(* Mutant of Extends: the subscription is not compared. *)
ExtendsAnySubscription(sample) ==
    /\ baseline.view.key = sample.view.key
    /\ baseline.view.memory = sample.view.memory
    /\ baseline.view.config = sample.view.config
    /\ baseline.view.sequence < sample.view.sequence

(* A delta leaves out what the baseline must already hold. *)
Extends(sample) ==
    /\ baseline.id = sample.id
    /\ baseline.view.key = sample.view.key
    /\ baseline.view.memory = sample.view.memory
    /\ baseline.view.config = sample.view.config
    /\ baseline.view.sequence < sample.view.sequence

Encoded(message) ==
    IF message.kind # "capture" THEN message
    ELSE IF Extends(message)
         THEN [message EXCEPT !.kind = "delta", !.base = baseline.view.sequence]
         ELSE [message EXCEPT !.kind = "full"]

(* The baseline after a message is written; replies leave it alone. *)
Baseline(message) ==
    CASE message.kind = "capture" -> message
      [] message.kind = "ended"   -> NoMessage
      [] OTHER                    -> baseline
=============================================================================
