------------------------------- MODULE Workbench -------------------------------
(***************************************************************************)
(* The controller of a mounted workbench and its worker port               *)
(* (src/lib/workbench/controller.svelte.ts, src/lib/desktop/worker.ts):    *)
(* session, stream and trace.  The window has one thread, so what runs     *)
(* between two awaits is one step; calls in flight and the events of the   *)
(* channel reach it in any order.  Each function of the controller is an   *)
(* operator from its state to its state, with the calls it makes in sends. *)
(*                                                                         *)
(* The supervisor is the environment: it admits calls in any order, and    *)
(* has one event unacknowledged and the latest behind it.  It sends full   *)
(* samples only, so that the baseline of the controller only repeats the   *)
(* test of publish.  Sessions are numbered by their worker.                *)
(***************************************************************************)
EXTENDS Naturals, Sequences, FiniteSets, SequencesExt

CONSTANTS
    Actions,          (* what the user may do                               *)
    MaxCalls,         (* bound: calls made                                  *)
    MaxFlight,        (* bound: calls in flight when the user acts          *)
    MaxSequence,      (* bound: observations of one guest                   *)
    MaxConnections,   (* bound: workers                                     *)
    WorkerFails       (* the worker may fail                                *)

AllActions == {"load", "run", "reset", "patch", "record", "close", "inspect", "trace"}

ASSUME WorkbenchAssumption ==
    /\ Actions \subseteq AllActions
    /\ {MaxCalls, MaxFlight, MaxSequence, MaxConnections} \subseteq Nat
    /\ WorkerFails \in BOOLEAN

VARIABLES
    ui,               (* the controller and its port, see Mounted           *)
    made,             (* number of calls made: it names them                *)
    calls,            (* calls in flight                                    *)
    channel,          (* messages of the current attachment                 *)
    host              (* the supervisor and its worker, see Host            *)

vars == <<ui, made, calls, channel, host>>

Absent == [session |-> 0, generation |-> 0, sequence |-> 0, status |-> "none"]
NoEvent == [type |-> "none", id |-> 0, guest |-> Absent]
NoTrace == [guest |-> Absent, request |-> 0]
SameKey(a, b) == a.session = b.session /\ a.generation = b.generation

(* The controller as initialize leaves it, before it connects. *)
Mounted ==
    [epoch |-> 0, attachment |-> 0,
     connected |-> FALSE,
     connecting |-> "no",         \* or "attaching", or awaiting "subscribing"
     controlling |-> "no",        \* or "requested", "subscribing", "reading"
     snapshot |-> Absent,
     subscription |-> 0, subscribing |-> FALSE, refresh |-> FALSE, pending |-> NoEvent,
     trace |-> NoTrace, traceRequest |-> 0,
     awaited |-> 0,               \* the read that a recording control awaits
     problem |-> FALSE,
     told |-> FALSE,              \* history: a subscription lost was reported
     sends |-> <<>>]

-----------------------------------------------------------------------------
(* Calls through the port.  A call belongs to the epoch that made it.      *)

Unanswered == [type |-> "none", guest |-> Absent, view |-> 0]
Call(kind, guest, event) == [kind |-> kind, guest |-> guest, event |-> event]
Request(u, kind, guest) == [u EXCEPT !.sends = Append(@, Call(kind, guest, NoEvent))]

(* Ends a turn of the event loop: the calls it made are in flight. *)
Turn(u, left) ==
    /\ ui' = [u EXCEPT !.sends = <<>>]
    /\ made' = made + Len(u.sends)
    /\ calls' = left \cup
        {[call |-> u.sends[i], id |-> made + i, epoch |-> u.epoch, view |-> u.attachment,
          answer |-> Unanswered] : i \in DOMAIN u.sends}

(* scoped: an answer to an older epoch is an abort, reported to nobody. *)
(* Mutant of Aborted: an answer is taken whatever worker it comes from. *)
AbortedNever(c) == FALSE
Aborted(c) == c.epoch # ui.epoch
Succeeds(c) == ~Aborted(c) /\ c.answer.type = "ok"
Reported(c, u) == IF Aborted(c) THEN u ELSE [u EXCEPT !.problem = TRUE]

-----------------------------------------------------------------------------
(* The stream.                                                             *)

(* Mutant of Older: observations of the same session are not ordered. *)
OlderSession(next, current) == next.session < current.session
Older(next, current) ==
    \/ next.session < current.session
    \/ next.session = current.session /\ next.sequence <= current.sequence

Publish(u, next) ==
    IF u.snapshot # Absent /\ Older(next, u.snapshot) THEN u ELSE [u EXCEPT !.snapshot = next]

Acknowledge(u, event) ==
    IF u.attachment = 0 THEN u
    ELSE [u EXCEPT !.sends = Append(@, Call("ack", Absent, event))]

(* applyObservation, and what receive does with its result. *)
Applied(u, event) ==
    IF u.subscription # event.id \/ u.snapshot = Absent THEN u
    ELSE IF event.type = "ended" THEN [u EXCEPT !.problem = TRUE, !.told = TRUE, !.subscription = 0]
    ELSE IF SameKey(u.snapshot, event.guest) THEN Publish(u, event.guest)
    ELSE u

Receive(u, event) ==
    IF u.subscribing THEN [u EXCEPT !.pending = event]
    ELSE Acknowledge(Applied(u, event), event)

(* The call of updateSubscription, for the key shown now. *)
Ask(u) == Request([u EXCEPT !.refresh = FALSE, !.subscribing = TRUE], "subscribe", u.snapshot)

(* Mutant of Subscribe: the task under way is taken to be enough. *)
SubscribeShared(u) ==
    IF u.snapshot = Absent \/ u.subscribing THEN u
    ELSE IF u.attachment = 0 THEN [u EXCEPT !.refresh = FALSE, !.problem = TRUE, !.told = TRUE]
    ELSE Ask(u)

Subscribe(u) ==
    IF u.snapshot = Absent THEN u
    ELSE IF u.subscribing THEN [u EXCEPT !.refresh = TRUE]
    ELSE IF u.attachment = 0 THEN [u EXCEPT !.refresh = FALSE, !.problem = TRUE, !.told = TRUE]
    ELSE Ask(u)

(* The task ends: whoever awaits it goes on, the event held back is        *)
(* received, and a subscription asked for meanwhile starts another task.   *)
Freed(state) == IF state = "subscribing" THEN "no" ELSE state

(* Mutant of Ended: the event held back is forgotten. *)
EndedForgetful(u) ==
    LET idle == [u EXCEPT !.subscribing = FALSE, !.pending = NoEvent,
                          !.connecting = Freed(@), !.controlling = Freed(@)]
    IN  IF idle.refresh THEN Subscribe(idle) ELSE idle

Ended(u) ==
    LET idle == [u EXCEPT !.subscribing = FALSE, !.pending = NoEvent,
                          !.connecting = Freed(@), !.controlling = Freed(@)]
        after == IF u.pending = NoEvent THEN idle ELSE Receive(idle, u.pending)
    IN  IF after.refresh THEN Subscribe(after) ELSE after

Repeats(u) == u.refresh /\ u.snapshot # Absent

Answered(u, c) ==
    IF ~Succeeds(c) /\ (Aborted(c) \/ SameKey(u.snapshot, c.call.guest) \/ c.answer.type = "failed")
    THEN Ended([Reported(c, u) EXCEPT !.told = TRUE])
    ELSE LET v == IF SameKey(u.snapshot, c.call.guest)
                  THEN [u EXCEPT !.subscription = c.id, !.told = FALSE] ELSE u
         IN  IF Repeats(v) THEN Ask(v) ELSE Ended(v)

-----------------------------------------------------------------------------
(* Connection.                                                             *)

Failed(u) ==
    [u EXCEPT !.connected = FALSE, !.trace = NoTrace, !.traceRequest = 0,
              !.snapshot = Absent, !.subscription = 0, !.problem = TRUE]

Waiting(u, state) == IF u.subscribing THEN state ELSE "no"

Attached(u, c) ==
    LET v == [u EXCEPT !.attachment = c.answer.view, !.connected = TRUE,
                       !.subscription = 0, !.told = FALSE, !.snapshot = c.answer.guest]
        w == Subscribe(v)
    IN  [w EXCEPT !.connecting = Waiting(w, "subscribing")]

(* The user connects at first, or restarts a worker that is gone. *)
Connect ==
    /\ ui.connecting = "no" /\ ~ui.connected
    /\ made < MaxCalls /\ ui.epoch < MaxConnections
    /\ Turn(Request([ui EXCEPT !.epoch = @ + 1, !.attachment = 0, !.connecting = "attaching",
                               !.trace = NoTrace, !.traceRequest = 0, !.problem = FALSE],
                    "connect", Absent), calls)
    /\ channel' = <<>>          \* of the channel before, nothing is heard
    /\ UNCHANGED host

-----------------------------------------------------------------------------
(* Commands of the user.                                                   *)

MayAct ==
    /\ made < MaxCalls /\ Cardinality(calls) < MaxFlight
    /\ UNCHANGED <<channel, host>>

Shown == ui.snapshot # Absent /\ ui.connected

Execute(action) ==
    /\ MayAct
    /\ Shown /\ ui.controlling = "no"
    /\ Turn(Request([ui EXCEPT !.controlling = "requested", !.problem = FALSE], action,
                    ui.snapshot), calls)

Load ==
    /\ MayAct
    /\ ui.connected /\ ui.controlling = "no" /\ ui.snapshot.status # "running"
    /\ Turn(Request([ui EXCEPT !.controlling = "requested", !.problem = FALSE], "load",
                    ui.snapshot), calls)

Inspect ==
    /\ MayAct
    /\ Turn(Subscribe([ui EXCEPT !.problem = FALSE]), calls)

(* readTrace names its request; the name is that of the call. *)
Traced(u) ==
    IF u.snapshot = Absent \/ ~u.connected THEN u
    ELSE Request([u EXCEPT !.traceRequest = made + Len(u.sends) + 1], "trace", u.snapshot)

ReadTrace ==
    /\ MayAct
    /\ Shown
    /\ Turn(Traced(ui), calls)

-----------------------------------------------------------------------------
(* Answers.                                                                *)

(* What execute does with an observation, by action; it awaits the rest. *)
Observed(u, c) ==
    LET v == Publish(u, c.answer.guest)
        w == IF c.call.kind \in {"reset", "patch"} THEN Subscribe(v)
             ELSE IF c.call.kind = "record" THEN Traced(v) ELSE v
        reads == c.call.kind = "record" /\ w.sends # <<>>
    IN  [w EXCEPT !.controlling =
                      IF c.call.kind \in {"reset", "patch"} THEN Waiting(w, "subscribing")
                      ELSE IF reads THEN "reading" ELSE "no",
                  !.awaited = IF reads THEN w.traceRequest ELSE 0]

LoadAnswered(u, c) ==
    LET v == Subscribe([u EXCEPT !.snapshot = c.answer.guest])
    IN  [v EXCEPT !.controlling = Waiting(v, "subscribing")]

Closed(u) == [u EXCEPT !.snapshot = Absent, !.subscription = 0, !.controlling = "no"]

(* Mutant of Controlled: a control that failed is not ended. *)
ControlledForgetful(u, c) ==
    IF ~Succeeds(c) THEN Reported(c, u)
    ELSE IF c.call.kind = "load" THEN LoadAnswered(u, c)
    ELSE IF c.call.kind = "close" THEN Closed(u)
    ELSE Observed(u, c)

Controlled(u, c) ==
    IF ~Succeeds(c) THEN [Reported(c, u) EXCEPT !.controlling = "no"]
    ELSE IF c.call.kind = "load" THEN LoadAnswered(u, c)
    ELSE IF c.call.kind = "close" THEN Closed(u)
    ELSE Observed(u, c)

(* Mutant of Latest: an answer is taken for every key that is shown. *)
LatestKey(u, c) == SameKey(u.snapshot, c.call.guest)
Latest(u, c) == u.traceRequest = c.id /\ SameKey(u.snapshot, c.call.guest)

TraceAnswered(u, c) ==
    LET v == IF u.awaited = c.id THEN [u EXCEPT !.controlling = "no", !.awaited = 0] ELSE u
    IN  IF ~Latest(u, c) THEN v
        ELSE IF Succeeds(c)
        THEN [v EXCEPT !.trace = [guest |-> c.answer.guest, request |-> c.id]]
        ELSE Reported(c, v)

ConnectAnswered(u, c) ==
    IF Succeeds(c) THEN Attached(u, c) ELSE [Reported(c, u) EXCEPT !.connecting = "no"]

Continued(u, c) ==
    CASE c.call.kind = "connect" -> ConnectAnswered(u, c)
      [] c.call.kind = "subscribe" -> Answered(u, c)
      [] c.call.kind = "trace" -> TraceAnswered(u, c)
      [] c.call.kind = "ack" -> IF Succeeds(c) THEN u ELSE Reported(c, u)
      [] OTHER -> Controlled(u, c)

Answer ==
    \E c \in calls :
        /\ c.answer.type # "none"
        /\ Turn(Continued(ui, c), calls \ {c})
        /\ UNCHANGED <<channel, host>>

Message ==
    /\ channel # <<>>
    /\ channel' = Tail(channel)
    /\ Turn(IF Head(channel).type = "failed" THEN Failed(ui) ELSE Receive(ui, Head(channel)), calls)
    /\ UNCHANGED host

-----------------------------------------------------------------------------
(* The supervisor and its worker.                                          *)

Host ==
    [view |-> 0, sessions |-> 0, failed |-> FALSE, guest |-> Absent,
     subscription |-> 0,
     waiting |-> NoEvent,         \* sent and not acknowledged
     latest |-> NoEvent]          \* pending behind it

Reply(c, type, guest) ==
    calls' = (calls \ {c}) \cup {[c EXCEPT !.answer = [Unanswered EXCEPT !.type = type,
                                                                         !.guest = guest]]}
Kept == UNCHANGED <<host, channel>>

Sampled == [host.guest EXCEPT !.sequence = @ + 1]
Known(c) == SameKey(host.guest, c.call.guest)
Alive(c) == Known(c) /\ host.guest # Absent /\ host.guest.sequence < MaxSequence

(* The latest event follows when the one before it was acknowledged. *)
Deliver(h) ==
    IF h.waiting = NoEvent /\ h.latest # NoEvent
    THEN /\ channel' = Append(channel, h.latest)
         /\ host' = [h EXCEPT !.waiting = h.latest, !.latest = NoEvent]
    ELSE channel' = channel /\ host' = h

(* A control succeeds and leaves this guest; a new key ends the stream. *)
Becomes(c, guest) ==
    /\ host' = [host EXCEPT !.guest = guest,
                            !.sessions = IF guest.session > @ THEN guest.session ELSE @,
                            !.subscription = IF SameKey(guest, host.guest) THEN @ ELSE 0]
    /\ Reply(c, "ok", guest)
    /\ UNCHANGED channel

(* The worker that runs is attached to; another has to start, and may not. *)
HostConnects(c) ==
    \/ host.guest = Absent /\ Reply(c, "error", Absent) /\ Kept
    \/ LET guest == IF host.failed THEN Absent ELSE host.guest
       IN  /\ host' = [Host EXCEPT !.view = host.view + 1, !.guest = guest,
                                   !.sessions = IF host.failed THEN 0 ELSE host.sessions]
           /\ calls' = (calls \ {c}) \cup
                {[c EXCEPT !.answer = [type |-> "ok", guest |-> guest, view |-> host.view + 1]]}
           /\ UNCHANGED channel

HostAcknowledges(c) ==
    IF host.waiting = c.call.event
    THEN Reply(c, "ok", Absent) /\ Deliver([host EXCEPT !.waiting = NoEvent])
    ELSE Reply(c, "error", Absent) /\ Kept

HostServes(c) ==
    LET kind == c.call.kind IN
    \/ Reply(c, "error", Absent) /\ Kept
    \/ kind = "load" /\ Known(c) /\ host.guest.status # "running"
       /\ Becomes(c, [session |-> host.sessions + 1, generation |-> 0, sequence |-> 1, status |-> "ready"])
    \/ kind = "run" /\ Alive(c) /\ host.guest.status # "running"
       /\ Becomes(c, [Sampled EXCEPT !.status = "running"])
    \/ kind = "reset" /\ Alive(c) /\ host.guest.status # "running"
       /\ Becomes(c, [Sampled EXCEPT !.status = "ready", !.generation = @ + 1])
    \/ kind \in {"patch", "record"} /\ Alive(c) /\ Becomes(c, Sampled)
    \/ kind = "close" /\ Known(c) /\ Becomes(c, Absent)
    \/ kind = "trace" /\ Known(c) /\ Reply(c, "ok", host.guest) /\ Kept
    \/ /\ kind = "subscribe" /\ Known(c) /\ host.guest # Absent
       /\ host' = [host EXCEPT !.subscription = c.id]
       /\ Reply(c, "ok", Absent)
       /\ UNCHANGED channel

HostAnswers ==
    /\ \E c \in calls :
        /\ c.answer.type = "none"
        /\ IF c.call.kind = "connect" THEN HostConnects(c)
           ELSE IF c.view # host.view \/ host.failed THEN Reply(c, "failed", Absent) /\ Kept
           ELSE IF c.call.kind = "ack" THEN HostAcknowledges(c)
           ELSE HostServes(c)
    /\ UNCHANGED <<ui, made>>

(* The subscription observes the guest, which may have stopped, or ends. *)
HostSamples ==
    /\ ~host.failed /\ host.subscription # 0 /\ host.guest.sequence < MaxSequence
    /\ \E status \in {host.guest.status, "paused"} :
        /\ status = "paused" => host.guest.status \in {"running", "paused"}
        /\ LET guest == [Sampled EXCEPT !.status = status]
           IN  Deliver([host EXCEPT
                    !.guest = guest,
                    !.latest = [type |-> "full", id |-> host.subscription, guest |-> guest]])
    /\ UNCHANGED <<ui, made, calls>>

HostEnds ==
    /\ ~host.failed /\ host.subscription # 0
    /\ Deliver([host EXCEPT
           !.subscription = 0,
           !.latest = [type |-> "ended", id |-> host.subscription, guest |-> Absent]])
    /\ UNCHANGED <<ui, made, calls>>

(* Every open call is settled, and the attached window is told. *)
HostFails ==
    /\ WorkerFails /\ ~host.failed /\ host.view # 0
    /\ host' = [Host EXCEPT !.view = host.view, !.sessions = host.sessions, !.failed = TRUE]
    /\ calls' = {IF c.answer.type = "none" /\ c.call.kind # "connect"
                 THEN [c EXCEPT !.answer.type = "failed"] ELSE c : c \in calls}
    /\ channel' = Append(channel, [NoEvent EXCEPT !.type = "failed"])
    /\ UNCHANGED <<ui, made>>

-----------------------------------------------------------------------------
Init ==
    /\ ui = Mounted /\ made = 0 /\ calls = {} /\ channel = <<>>
    /\ \E guest \in {Absent, [session |-> 1, generation |-> 0, sequence |-> 1,
                              status |-> "ready"]} :
        host = [Host EXCEPT !.guest = guest, !.sessions = guest.session]

User ==
    \/ Connect
    \/ "load" \in Actions /\ Load
    \/ "inspect" \in Actions /\ Inspect
    \/ "trace" \in Actions /\ ReadTrace
    \/ \E action \in Actions \ {"load", "inspect", "trace"} : Execute(action)
Window == Answer \/ Message
Supervisor == HostAnswers \/ HostSamples \/ HostEnds \/ HostFails

Next == User \/ Window \/ Supervisor

Spec == Init /\ [][Next]_vars

(* The event loop runs, and the supervisor settles every call. *)
FairSpec == Spec /\ WF_vars(Window) /\ WF_vars(HostAnswers)
=============================================================================
