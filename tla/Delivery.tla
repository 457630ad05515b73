-------------------------------- MODULE Delivery --------------------------------
(***************************************************************************)
(* The supervisor's end of the observation stream: the cache that turns    *)
(* deltas into full samples (src-tauri/src/supervisor/observations.rs) and *)
(* the delivery to the attached window, which holds one event awaiting     *)
(* acknowledgement and the latest sample (supervisor/delivery.rs).         *)
(***************************************************************************)
EXTENDS Naturals, Sequences

VARIABLES
    cache,        (* the last full sample reconstructed, or NoEvent         *)
    delivery,     (* the attached channel's credit, or Detached             *)
    delivered,    (* history: the events sent, with the view they went to   *)
    refused       (* history: the last event taken for an acknowledgement   *)
                  (* that the channel refused, or NoEvent                   *)

(* An event of the stream, with the observation of the guest it carries.   *)
NoGuest == [session |-> 0, generation |-> 0, sequence |-> 0, status |-> "none"]
Output(type, id, kind, guest) ==
    [type |-> type, id |-> id, kind |-> kind, base |-> 0, guest |-> guest]
NoEvent == Output("none", 0, "none", NoGuest)
SameKey(a, b) == a.session = b.session /\ a.generation = b.generation

Detached == [attached |-> FALSE, waiting |-> NoEvent, latest |-> NoEvent]
NewDelivery == [Detached EXCEPT !.attached = TRUE]

DeliveryInit ==
    cache = NoEvent /\ delivery = Detached /\ delivered = <<>> /\ refused = NoEvent

(* apply: a delta must extend the cached sample of its subscription. *)
Applicable(event) ==
    event.kind = "delta" =>
        /\ cache.id = event.id
        /\ event.base = cache.guest.sequence
        /\ SameKey(cache.guest, event.guest)
        /\ event.guest.sequence > event.base

Full(event) == IF event.kind = "delta" THEN [event EXCEPT !.kind = "full", !.base = 0] ELSE event
Cached(event) == IF event.kind = "ended" THEN NoEvent ELSE Full(event)

(* flush: without credit the latest sample waits. *)
Flush(d, view) ==
    IF d.waiting # NoEvent \/ d.latest = NoEvent
    THEN delivery' = d /\ UNCHANGED delivered
    ELSE /\ delivery' = [d EXCEPT !.waiting = d.latest, !.latest = NoEvent]
         /\ delivered' = Append(delivered, [view |-> view, event |-> d.latest])

Offer(event, view) == Flush([delivery EXCEPT !.latest = event], view)

(* Mutant of Acknowledge: the waiting sample is left for the next offer. *)
AcknowledgeOnly(view) ==
    /\ delivery.waiting # NoEvent
    /\ delivery' = [delivery EXCEPT !.waiting = NoEvent]
    /\ UNCHANGED <<delivered, refused>>

(* acknowledge: the window returns the credit of the event it was sent. *)
Acknowledge(view) ==
    /\ delivery.waiting # NoEvent
    /\ Flush([delivery EXCEPT !.waiting = NoEvent], view)
    /\ UNCHANGED refused

(* The channel refuses the event taken for an acknowledgement: no window   *)
(* gets it, whoever acknowledged is told, and the window stays attached,   *)
(* with its credit.                                                        *)
AcknowledgeLost ==
    /\ delivery.waiting # NoEvent /\ delivery.latest # NoEvent
    /\ delivery' = NewDelivery
    /\ refused' = delivery.latest
    /\ UNCHANGED delivered
=============================================================================
