-------------------------- MODULE SupervisorProperties --------------------------
(***************************************************************************)
(* What the desktop supervisor promises about the calls of the window and  *)
(* the observations it delivers.                                           *)
(***************************************************************************)
EXTENDS Supervisor

(* Calls are executed at most once, and settled exactly once, whichever of *)
(* the reader, the writer, the watchdog and a drop finds the connection    *)
(* failed: a call that is open and settled, settled twice, or neither open *)
(* nor settled has no outcome Calls allows.  One settled as not run is     *)
(* never executed, not even by a worker that outlives the failure until it *)
(* is killed (Pending::started, marked before the write; protocol.md, "any *)
(* request whose pipe write began").                                       *)
Results(id) == {i \in DOMAIN settled : settled[i].id = id}
Outcome(id) ==
    CASE id \in pending /\ Results(id) = {} -> "open"
      [] id \notin pending /\ Cardinality(Results(id)) = 1 ->
            settled[CHOOSE i \in Results(id) : TRUE].outcome
      [] OTHER -> "broken"
Promise == INSTANCE Calls WITH outcomes <- [id \in Ids |-> Outcome(id)]
ImplementsCalls == Promise!CallsSpec

-----------------------------------------------------------------------------
(* A window gets the observations it subscribed to itself: none of its     *)
(* predecessor's subscription, even when the reply to that subscription    *)
(* arrives after the attachment.  (read, connect)                          *)
DeliveredToOwner ==
    \A i \in DOMAIN delivered :
        calls[delivered[i].event.id] = [kind |-> "subscribe", view |-> delivered[i].view]

(* The newest sample is never withheld from a window that has its credit:  *)
(* the sample cached for its subscription was the last one sent to it, or  *)
(* waits for the credit of another one.  One is lost at most, when the     *)
(* channel refuses what an acknowledgement let go: the window that stays   *)
(* attached may never see that sample, but its credit is free, nothing is  *)
(* kept before the next one, and the acknowledgement was answered with an  *)
(* error.  (Delivery::offer, acknowledge, flush)                           *)
WindowCatchesUp ==
    delivery.attached /\ subscription # 0 /\ cache.id = subscription =>
        \/ delivery.latest = cache /\ delivery.waiting # NoEvent
        \/ delivery.latest = NoEvent /\ Last(delivered) = [view |-> view, event |-> cache]
        \/ delivery = NewDelivery /\ refused = cache

(* Replies and samples overtake each other, observations of a session      *)
(* outlive it in the pipes, and a delta is good only against the base the  *)
(* cache has: the supervisor never takes a working worker for a defective  *)
(* one, and once the pipes are empty it shows the session the worker has,  *)
(* and delivers the stream the worker has if the attached window asked for *)
(* it.  (State::observe, read, Cache::apply)                               *)
InStep ==
    /\ failure # "protocol"
    /\ failure = "none" /\ stdout = <<>> /\ held = NoEvent /\ stream.latest = NoEvent =>
          /\ SameKey(guest, machine)
          /\ IF stream.id # 0 /\ calls[stream.id].view = view /\ delivery.attached
             THEN subscription = stream.id
             ELSE TRUE

-----------------------------------------------------------------------------
(* Every call settles, even if the worker hangs or its pipes are full; and *)
(* no blocking pipe can prevent termination: a drop ends, with the worker  *)
(* dead.  (watch, Shared::fail, Drop for Connection)                       *)
CallsSettle ==
    /\ \A id \in 1 .. MaxCalls : id \in pending ~> id \notin pending
    /\ stage = "dropping" ~> stage # "dropping" /\ ~alive
=============================================================================
