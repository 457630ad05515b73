-------------------------- MODULE DispatchProperties --------------------------
(***************************************************************************)
(* What the worker promises its client, stated over Dispatch.              *)
(***************************************************************************)
EXTENDS Dispatch, FiniteSets, FiniteSetsExt

EventKinds == {"full", "delta", "ended"}

-----------------------------------------------------------------------------
(* Builds and replies.                                                     *)

Ids == 1 .. MaxRequest
IsEvent(message) == message.kind \in EventKinds \cup {"capture"}
Count(condition) == IF condition THEN 1 ELSE 0

(* The replies to a request, wherever the worker holds or has written them. *)
IsReplyTo(message, id) == message.id = id /\ ~IsEvent(message)
RepliesIn(messages, id) == Cardinality({i \in DOMAIN messages : IsReplyTo(messages[i], id)})
CallsTo(calls, id) ==
    Cardinality({i \in DOMAIN calls : calls[i].call = "send" /\ IsReplyTo(calls[i].message, id)})
RepliesTo(id) ==
    CallsTo(todo, id) + RepliesIn(control, id) + RepliesIn(bulk, id) + RepliesIn(wire, id)
      + Count(IsReplyTo(final, id)) + Count(IsReplyTo(writing, id))

(* A build or a shutdown whose answer is still to come. *)
Owed(id) ==
    Cardinality(OfRequest(id))
      + Count(active.id = id /\ ~active.cancelled)
      + Count(Serving /\ closing.id = id)

(***************************************************************************)
(* "Preserve every request outcome" (outbox.rs:65) and "Exactly one build  *)
(* outcome is published" (docs/protocol.md): until the connection fails,   *)
(* every accepted request has exactly one reply, written, on its way or    *)
(* owed by a build; a request not accepted has none.  Supersession,        *)
(* cancellation racing completion, bulk saturation and shutdown must all   *)
(* keep the count.                                                         *)
(***************************************************************************)
ExactlyOneReply ==
    ~failed /\ outcome # "failed" => \A id \in Ids : RepliesTo(id) + Owed(id) = Count(id <= last)

(***************************************************************************)
(* "Other bulk traffic cannot consume a build reservation": from the start *)
(* of a build until its artifact is in the bulk lane there is room for it, *)
(* whatever decoded windows and memory replies are sent meanwhile          *)
(* (outbox.rs:45, :79).  And what the assembly thread has is that build and*)
(* no other, so that jobs.try_send (dispatch.rs:190) never finds its slot  *)
(* full and builds.finish (dispatch.rs:173) never reports BuildLost; and   *)
(* replacing a queued build never makes the queue outgrow its limit.       *)
(***************************************************************************)
BuildResults == {i \in DOMAIN events : events[i].type = "build"}
Compilations == Len(jobs) + Count(compiling # 0) + Cardinality(BuildResults)
CompilesActive ==
    /\ \A i \in DOMAIN jobs : jobs[i] = active.id
    /\ compiling \in {0, active.id}
    /\ \A i \in BuildResults : events[i].id = active.id

ReservationHeld ==
    /\ Busy \/ (\E i \in DOMAIN todo : todo[i].message.kind = "assembled")
         => Len(bulk) < BulkCapacity
    /\ Serving => /\ CompilesActive
                  /\ Compilations <= Count(Busy)
                  /\ "build" \notin Faults => Compilations = Count(Busy)
    /\ Len(pending) <= MaxPending

(***************************************************************************)
(* The whole worker implements the abstract service: acceptance is the     *)
(* dispatcher's, an answer happens when its bytes are written.             *)
(***************************************************************************)
Answered == {wire[i].id : i \in {j \in DOMAIN wire : ~IsEvent(wire[j])}}
Abstract == INSTANCE Service WITH accepted <- last, answered <- Answered, stopping <- closing.id
ImplementsService == Abstract!ServiceSpec

-----------------------------------------------------------------------------
(* The observation stream.                                                 *)

Newer(key, other) == key[1] > other[1] \/ (key[1] = other[1] /\ key[2] > other[2])

(* A message after which no event of the subscription may follow. *)
Invalidates(message, event) ==
    \/ message.kind = "ended" /\ message.id = event.id
    \/ message.kind = "subscribed" /\ message.id # event.id
    \/ message.kind = "unsubscribed" /\ message.base = event.id
    \/ message.kind = "session_closed" /\ message.view.key = event.view.key
    \/ /\ message.kind = "observed" /\ event.kind # "ended"
       /\ Newer(message.view.key, event.view.key)

(***************************************************************************)
(* "subscribed precedes the first event", and "an in-flight event finishes *)
(* before the invalidating reply; none follows it" (docs/protocol.md).  The*)
(* reply and the sample travel in different lanes of the outbox, so the    *)
(* order rests on clearing the slot before the reply is sent               *)
(* (dispatch.rs:250-253, :264, :288).                                      *)
(***************************************************************************)
StreamOrder ==
    \A j \in DOMAIN wire : IsEvent(wire[j]) =>
        \E i \in 1 .. j - 1 :
            /\ wire[i].kind = "subscribed" /\ wire[i].id = wire[j].id
            /\ \A k \in i + 1 .. j - 1 : ~Invalidates(wire[k], wire[j])

(***************************************************************************)
(* A delta can be applied: its base is the event of the same subscription  *)
(* written just before it, with the same key, memory window and breakpoint *)
(* set, and a smaller sequence number.  Samples may have been coalesced    *)
(* away in between, and the subscription replaced (stream.rs:136-148).     *)
(***************************************************************************)
EventsBefore(j) == {i \in 1 .. j - 1 : wire[i].id = wire[j].id /\ IsEvent(wire[i])}

DeltaDecodable ==
    \A j \in DOMAIN wire : IsEvent(wire[j]) /\ wire[j].kind # "ended" =>
        LET before == EventsBefore(j)
            event == wire[j]
        IN  IF before = {} THEN event.kind = "full"
            ELSE LET base == wire[Max(before)]
                 IN  /\ base.view.sequence < event.view.sequence
                     /\ event.kind = "delta" =>
                          /\ base.kind \in {"full", "delta"}
                          /\ event.base = base.view.sequence
                          /\ base.view.key = event.view.key
                          /\ base.view.config = event.view.config
                          /\ base.view.memory = event.view.memory

(***************************************************************************)
(* A subscription never outlives its session: a reset, load, close or      *)
(* shutdown that took effect has ended it.  (When native reads may fail, a *)
(* reset can take effect and still be answered by an error; the stale      *)
(* subscription is then ended by its next capture.)                        *)
(***************************************************************************)
SubscriptionFollowsSession ==
    Serving /\ ~ReadsFail /\ subscription # NoSubscription => subscription.key = Key

-----------------------------------------------------------------------------
(* Liveness.                                                               *)

OnWire(id) == \E i \in DOMAIN wire : wire[i].id = id /\ ~IsEvent(wire[i])
Broken == failed \/ outcome = "failed"

(* Every accepted request is eventually answered, unless the connection    *)
(* breaks; backpressure and reservations never stop the worker for good.   *)
(* And a break is never absorbed: once the writer is lost the dispatcher   *)
(* ends, even when it was waiting for room or for an event.                *)
EveryRequestAnswered ==
    /\ \A id \in Ids : last >= id ~> OnWire(id) \/ Broken
    /\ failed ~> ~Serving

(***************************************************************************)
(* A subscriber who was shown a running guest learns that it stopped: the  *)
(* polling ends only with a sample of the stopped guest (stream.rs:82,     *)
(* dispatch.rs:178-185; protocol.md:240, "every 33 ms while the last sample*)
(* is Running"), and that sample reaches the client, unless the            *)
(* subscription ends or the guest runs again.  (A guest that a control     *)
(* started although its answer was an error is not polled until a sample   *)
(* shows it: its subscriber was never told that it runs.)                  *)
(***************************************************************************)
EventsOf(id) == {i \in DOMAIN wire : wire[i].id = id /\ IsEvent(wire[i])}
ShownRunning(id) == EventsOf(id) # {} /\ wire[Max(EventsOf(id))].view.status = "running"
Misled ==
    subscription # NoSubscription /\ ShownRunning(subscription.id) /\ status # "running"

StopReported == Misled ~> ~Misled \/ Broken
=============================================================================
