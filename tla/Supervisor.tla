------------------------------- MODULE Supervisor -------------------------------
(***************************************************************************)
(* The desktop supervisor (src-tauri/src/supervisor.rs, supervisor/*.rs):  *)
(* it owns one worker process at a time, numbers and tracks every call     *)
(* made to it, and delivers the observation stream to the attached window. *)
(* A writer and a reader thread own the pipes, a third drains the error    *)
(* output, and a watchdog enforces deadlines.  Every operation on the      *)
(* shared State is one critical section, so one step.                      *)
(*                                                                         *)
(* The worker is seen at its pipes: it serves requests in order, but a     *)
(* bulk reply or a sample may be overtaken by the replies after it, and    *)
(* samples are taken at any time.                                          *)
(***************************************************************************)
EXTENDS Delivery, FiniteSets, SequencesExt

CONSTANTS
    Capacity,         (* CAPACITY (16): open calls, and queued requests     *)
    MaxCalls,         (* bound: calls on one connection                     *)
    MaxViews,         (* bound: attachments to one connection               *)
    MaxConnections,   (* bound: connections                                 *)
    MaxSequence,      (* bound: observations of one guest                   *)
    PipeCapacity,     (* messages the pipe to the supervisor holds          *)
    Kinds,            (* the commands the window may send                   *)
    Faults            (* the failures that may happen                       *)

Actions == {"run", "reset", "observe", "close"}
AllKinds == {"assemble", "load", "subscribe", "unsubscribe"} \cup Actions
AllFaults == {"exit", "garbage", "deadline", "run deadline", "resources", "channel"}

ASSUME SupervisorAssumption ==
    /\ {Capacity, PipeCapacity, MaxCalls} \subseteq Nat \ {0}
    /\ {MaxViews, MaxConnections, MaxSequence} \subseteq Nat
    /\ Kinds \subseteq AllKinds
    /\ Faults \subseteq AllFaults

VARIABLES
    (* Service and Connection *)
    connection,       (* incarnation: connections made so far               *)
    stage,            (* "none", "hello", "active", or "dropping"           *)
    (* State *)
    calls,            (* [kind, view] of each admitted call: its id is its  *)
                      (* position, the counter their number                 *)
    pending,          (* the ids awaiting a reply                           *)
    started,          (* those whose write began                            *)
    view,             (* the lease of the window attached last              *)
    failure,          (* why the connection failed, or "none"               *)
    guest,            (* session: the newest observation                    *)
    closedSession,    (* the newest session known closed                    *)
    subscription,     (* the subscription events are delivered for, or 0    *)
    clock,            (* running_since is set                               *)
    (* threads and pipes *)
    queue,            (* ids queued for the writer thread                   *)
    writing,          (* the id being written, or 0                         *)
    stdin, stdout,    (* the pipes of the worker                            *)
    (* worker *)
    alive,            (* the process lives                                  *)
    machine,          (* its guest                                          *)
    stream,           (* its subscription, the sample of it that waits, and  *)
                      (* the last one written: [id, latest, base]           *)
    held,             (* a bulk reply in its outbox, or NoEvent             *)
    (* history *)
    settled,          (* results, in the order callers got them             *)
    executed          (* ids the worker has executed                        *)

serviceVars == <<connection, stage>>
callVars == <<calls, pending, started, settled, failure>>
viewVars == <<view, guest, closedSession, subscription, clock>>
deliveryVars == <<cache, delivery, delivered, refused>>
threadVars == <<queue, writing>>
workerVars == <<alive, machine, stream, held, executed>>
vars == <<serviceVars, callVars, viewVars, deliveryVars, threadVars, stdin, stdout, workerVars>>

NoStream == [id |-> 0, latest |-> NoEvent, base |-> NoEvent]
Ids == DOMAIN calls

(* A connection as spawn leaves it, with the given calls admitted. *)
FreshConnection(admitted) ==
    /\ calls' = admitted /\ pending' = DOMAIN admitted /\ started' = {}
    /\ queue' = [id \in DOMAIN admitted |-> id] /\ writing' = 0
    /\ settled' = <<>> /\ failure' = "none"
    /\ view' = 0 /\ guest' = NoGuest /\ closedSession' = 0 /\ subscription' = 0
    /\ clock' = FALSE
    /\ cache' = NoEvent /\ delivery' = Detached /\ delivered' = <<>> /\ refused' = NoEvent
    /\ stdin' = <<>> /\ stdout' = <<>>
    /\ machine' = NoGuest /\ stream' = NoStream /\ held' = NoEvent /\ executed' = {}

Init ==
    /\ connection = 0 /\ stage = "none"
    /\ calls = <<>> /\ pending = {} /\ started = {} /\ settled = <<>> /\ failure = "none"
    /\ view = 0 /\ guest = NoGuest /\ closedSession = 0 /\ subscription = 0 /\ clock = FALSE
    /\ queue = <<>> /\ writing = 0 /\ stdin = <<>> /\ stdout = <<>>
    /\ alive = FALSE /\ machine = NoGuest /\ stream = NoStream /\ held = NoEvent
    /\ executed = {}
    /\ DeliveryInit

-----------------------------------------------------------------------------
(* Failure of a connection: settle every call, tell the window, and kill   *)
(* the worker.  The first failure wins.                                    *)

Result(id, outcome) == [id |-> id, outcome |-> outcome]

(* Mutant of Uncertain: a call counts as begun once it is written. *)
UncertainWritten(id) == IF id \in started \ {writing} THEN "unknown" ELSE "not run"
Uncertain(id) == IF id \in started THEN "unknown" ELSE "not run"

(* Mutant of Outstanding: only calls that were begun are settled. *)
OutstandingStarted == pending \cap started
Outstanding == pending

Fail(code) ==
    /\ failure = "none"
    /\ failure' = code
    /\ \E order \in SetToSeqs(Outstanding) :
        /\ \A i, j \in DOMAIN order : i < j => order[i] < order[j]
        /\ settled' = settled \o [i \in DOMAIN order |-> Result(order[i], Uncertain(order[i]))]
    /\ pending' = pending \ Outstanding
    /\ delivery' = Detached
    /\ UNCHANGED <<calls, started, viewVars, cache, delivered, refused>>

Kill ==
    /\ failure # "none" /\ alive
    /\ alive' = FALSE
    /\ UNCHANGED <<serviceVars, callVars, viewVars, deliveryVars, threadVars, stdin, stdout,
                   machine, stream, held, executed>>

ThreadFails(code) ==
    /\ stage # "none"
    /\ Fail(code)
    /\ UNCHANGED <<serviceVars, threadVars, stdin, stdout, workerVars>>

-----------------------------------------------------------------------------
(* Commands of the window.                                                 *)

(* Connection::request *)
Admit(kind, lease) ==
    /\ failure = "none"
    /\ Cardinality(pending) < Capacity /\ Len(queue) < Capacity
    /\ Len(calls) < MaxCalls
    /\ calls' = Append(calls, [kind |-> kind, view |-> lease])
    /\ pending' = pending \cup {Len(calls) + 1}
    /\ queue' = Append(queue, Len(calls) + 1)
    /\ UNCHANGED <<started, settled, failure>>

Leased(lease) == lease = view /\ delivery.attached

Request ==
    /\ stage = "active"
    /\ \E kind \in Kinds, lease \in 1 .. view :
        Leased(lease) /\ Admit(kind, lease)
    /\ UNCHANGED <<serviceVars, viewVars, deliveryVars, writing, stdin, stdout, workerVars>>

(* connect: spawn a worker and wait for its hello. *)
Spawn ==
    /\ stage = "none" /\ connection < MaxConnections
    /\ connection' = connection + 1 /\ stage' = "hello"
    /\ FreshConnection(<<[kind |-> "hello", view |-> 0]>>)
    /\ alive' = TRUE

Connected ==
    /\ stage = "hello"
    /\ Result(1, "answered") \in ToSet(settled)
    /\ stage' = "active"
    /\ UNCHANGED <<connection, callVars, viewVars, deliveryVars, threadVars, stdin, stdout,
                   workerVars>>

(* connect: attach a window; the predecessor loses its lease. *)
Attach ==
    /\ stage = "active" /\ failure = "none" /\ view < MaxViews
    /\ view' = view + 1
    /\ delivery' = NewDelivery
    /\ subscription' = 0
    /\ UNCHANGED <<serviceVars, callVars, guest, closedSession, clock, cache, delivered,
                   refused, threadVars, stdin, stdout, workerVars>>

Detach ==
    /\ stage = "active" /\ delivery.attached
    /\ delivery' = Detached
    /\ subscription' = 0
    /\ UNCHANGED <<serviceVars, callVars, view, guest, closedSession, clock, cache, delivered,
                   refused, threadVars, stdin, stdout, workerVars>>

Ack ==
    /\ stage = "active"
    /\ \/ Acknowledge(view)
       \/ "channel" \in Faults /\ AcknowledgeLost
    /\ UNCHANGED <<serviceVars, callVars, viewVars, cache, threadVars, stdin, stdout, workerVars>>

(***************************************************************************)
(* Dropping a connection: a restart, the application's exit, or a failed   *)
(* handshake.  It asks the worker to shut down if it still can, waits two  *)
(* seconds at most for the answer, fails what is left, and joins threads.  *)
(***************************************************************************)
BeginDrop ==
    /\ stage = "active" \/ (stage = "hello" /\ settled # <<>>)
    /\ stage' = "dropping"
    /\ \/ Admit("shutdown", 0)
       \/ UNCHANGED <<callVars, queue>>    \* it has failed, or is full
    /\ UNCHANGED <<connection, viewVars, deliveryVars, writing, stdin, stdout, workerVars>>

DropFails ==
    /\ stage = "dropping"
    /\ Fail("disconnected")
    /\ UNCHANGED <<serviceVars, threadVars, stdin, stdout, workerVars>>

Dropped ==
    /\ stage = "dropping" /\ failure # "none" /\ ~alive
    /\ stage' = "none"
    /\ UNCHANGED <<connection, callVars, viewVars, deliveryVars, threadVars, stdin, stdout,
                   workerVars>>

-----------------------------------------------------------------------------
(* The writer thread: mark the call started, then write it.                *)

WriterTakes ==
    /\ failure = "none" /\ writing = 0 /\ queue # <<>>
    /\ Head(queue) \in pending
    /\ started' = started \cup {Head(queue)}
    /\ writing' = Head(queue) /\ queue' = Tail(queue)
    /\ UNCHANGED <<serviceVars, calls, pending, settled, failure, viewVars, deliveryVars, stdin,
                   stdout, workerVars>>

WriterRejects ==
    /\ writing = 0 /\ queue # <<>> /\ Head(queue) \notin pending
    /\ ThreadFails("protocol")

WriterWrites ==
    /\ writing # 0 /\ alive
    /\ Len(stdin) < PipeCapacity
    /\ stdin' = Append(stdin, writing) /\ writing' = 0
    /\ UNCHANGED <<serviceVars, callVars, viewVars, deliveryVars, queue, stdout, workerVars>>

WriterBreaks ==
    /\ writing # 0 /\ ~alive
    /\ ThreadFails("disconnected")

-----------------------------------------------------------------------------
(* The reader thread.                                                      *)

(* Mutant of Stale: closed sessions are forgotten. *)
StaleUnclosed(seen) ==
    \/ guest.session > seen.session
    \/ guest.session = seen.session /\ guest.sequence >= seen.sequence

(* State::observe: the newest observation, never one of a closed session.  *)
Stale(seen) ==
    \/ seen.session <= closedSession
    \/ guest.session > seen.session
    \/ guest.session = seen.session /\ guest.sequence >= seen.sequence

Seen(seen) ==
    IF Stale(seen)
    THEN UNCHANGED <<guest, clock>>
    ELSE guest' = seen /\ clock' = (seen.status = "running")

(* A new key, of a new session or after a reset, ends the subscription. *)
Kept(seen) ==
    IF ~Stale(seen) /\ guest # NoGuest /\ ~SameKey(guest, seen) THEN 0 ELSE subscription

Settle(id) ==
    /\ pending' = pending \ {id}
    /\ settled' = Append(settled, Result(id, "answered"))
    /\ UNCHANGED <<calls, started, failure>>

(* Mutant of Subscribed: the lease of the request is not compared. *)
SubscribedLate(reply) == reply.kind = "subscribed"
Subscribed(reply) == reply.kind = "subscribed" /\ calls[reply.id].view = view
Unsubscribed(reply) == reply.kind = "unsubscribed" /\ subscription = reply.base

Reading ==
    /\ failure = "none" /\ stdout # <<>>
    /\ stdout' = Tail(stdout)
    /\ UNCHANGED <<serviceVars, view, threadVars, stdin, workerVars>>

ReadReply ==
    /\ Reading
    /\ LET reply == Head(stdout) IN
        /\ reply.type = "reply" /\ reply.id \in pending
        /\ Settle(reply.id)
        /\ CASE reply.kind = "observed" ->
                  /\ Seen(reply.guest) /\ subscription' = Kept(reply.guest)
                  /\ UNCHANGED closedSession
             [] reply.kind = "session closed" ->
                  /\ closedSession' = IF closedSession > reply.guest.session
                                      THEN closedSession ELSE reply.guest.session
                  /\ guest' = NoGuest /\ clock' = FALSE /\ subscription' = 0
             [] OTHER ->
                  /\ subscription' = IF Subscribed(reply) THEN reply.id
                                     ELSE IF Unsubscribed(reply) THEN 0 ELSE subscription
                  /\ UNCHANGED <<guest, clock, closedSession>>
    /\ UNCHANGED deliveryVars

(* An event the window's channel refuses detaches the window. *)
ReadEvent ==
    /\ Reading
    /\ LET event == Head(stdout)
           kept == IF event.kind = "ended" THEN subscription ELSE Kept(event.guest)
       IN
        /\ event.type = "event" /\ Applicable(event)
        /\ cache' = Cached(event)
        /\ IF event.kind = "ended" THEN UNCHANGED <<guest, clock>> ELSE Seen(event.guest)
        /\ IF kept = event.id /\ delivery.attached
           THEN \/ Offer(Full(event), view) /\ subscription' = kept
                \/ /\ "channel" \in Faults /\ delivery.waiting = NoEvent
                   /\ delivery' = Detached /\ subscription' = 0
                   /\ UNCHANGED delivered
           ELSE subscription' = kept /\ UNCHANGED <<delivery, delivered>>
    /\ UNCHANGED <<callVars, closedSession, refused>>

(* A reply nobody waits for, a delta without its base, bytes that do not   *)
(* parse, or the end of the pipe.                                          *)
ReaderRejects ==
    /\ stdout # <<>>
    /\ LET output == Head(stdout) IN
        \/ output.type = "garbage"
        \/ output.type = "reply" /\ output.id \notin pending
        \/ output.type = "event" /\ ~Applicable(output)
    /\ ThreadFails("protocol")

ReaderEnds ==
    /\ stdout = <<>> /\ ~alive
    /\ ThreadFails("disconnected")

-----------------------------------------------------------------------------
(* The watchdog, and the thread that drains the error output.              *)

WatchdogCalls ==
    /\ "deadline" \in Faults
    /\ pending # {}
    /\ ThreadFails("deadline")

WatchdogRun ==
    /\ "run deadline" \in Faults
    /\ clock
    /\ ThreadFails("deadline")

(* Memory above the limit, or too much error output. *)
ResourcesExceeded ==
    /\ "resources" \in Faults
    /\ alive
    /\ \E code \in {"memory limit", "protocol"} : ThreadFails(code)

-----------------------------------------------------------------------------
(* The worker at its pipes.                                                *)

Working ==
    /\ alive /\ Len(stdout) < PipeCapacity
    /\ UNCHANGED <<serviceVars, callVars, viewVars, deliveryVars, threadVars, alive>>

Says(output) == stdout' = Append(stdout, output)
Replies(id, kind, seen) == Says(Output("reply", id, kind, seen))
Refuses(id) == Replies(id, "error", NoGuest) /\ UNCHANGED <<machine, stream, held>>

Live(seen) == seen.status \in {"ready", "running"}
Loaded == machine.session # 0 /\ machine.sequence < MaxSequence
Observed(m) == [m EXCEPT !.sequence = @ + 1]
NotObserved == [stream EXCEPT !.id = 0, !.latest = NoEvent]

(* A control answers with the next observation; a new key ends the stream. *)
Controls(id, m) ==
    /\ machine' = m
    /\ Replies(id, "observed", m)
    /\ stream' = IF SameKey(m, machine) THEN stream ELSE NotObserved
    /\ UNCHANGED held

Observes(id) ==
    /\ Loaded
    /\ machine' = Observed(machine)
    /\ \/ Replies(id, "observed", machine') /\ UNCHANGED held
       \/ /\ Live(machine) /\ held = NoEvent        \* with memory: a bulk reply
          /\ held' = Output("reply", id, "observed", machine') /\ UNCHANGED stdout
    /\ UNCHANGED stream

Closes(id) ==
    /\ machine.session # 0
    /\ Replies(id, "session closed", machine)
    /\ machine' = NoGuest /\ stream' = NotObserved
    /\ UNCHANGED held

Subscribes(id) ==
    /\ Loaded
    /\ machine' = Observed(machine)
    /\ stream' = [stream EXCEPT !.id = id, !.latest = Output("event", id, "full", machine')]
    /\ Replies(id, "subscribed", NoGuest)
    /\ UNCHANGED held

Unsubscribes(id) ==
    /\ stream.id # 0
    /\ stream' = NotObserved
    /\ Says([Output("reply", id, "unsubscribed", NoGuest) EXCEPT !.base = stream.id])
    /\ UNCHANGED <<machine, held>>

(* What a command does when it succeeds; every command may be refused. A   *)
(* paused guest stands for every stopped one.                              *)
Serves(id, kind) ==
    \/ kind \in {"hello", "assemble"} /\ Replies(id, kind, NoGuest)
       /\ UNCHANGED <<machine, stream, held>>
    \/ kind = "load" /\ machine.status # "running"
       /\ Controls(id, [session |-> id, generation |-> 0, sequence |-> 1, status |-> "ready"])
    \/ kind = "run" /\ Loaded /\ machine.status \in {"ready", "paused"}
       /\ Controls(id, [Observed(machine) EXCEPT !.status = "running"])
    \/ kind = "reset" /\ Loaded /\ machine.status # "running"
       /\ Controls(id, [Observed(machine) EXCEPT !.status = "ready", !.generation = @ + 1])
    \/ kind = "observe" /\ Observes(id)
    \/ kind = "close" /\ Closes(id)
    \/ kind = "subscribe" /\ Subscribes(id)
    \/ kind = "unsubscribe" /\ Unsubscribes(id)
    \/ kind # "hello" /\ Refuses(id)

WorkerServes ==
    /\ Working /\ stdin # <<>> /\ calls[Head(stdin)].kind # "shutdown"
    /\ stdin' = Tail(stdin)
    /\ executed' = executed \cup {Head(stdin)}
    /\ Serves(Head(stdin), calls[Head(stdin)].kind)

(* The answer to a shutdown is the last message, and the process exits.    *)
WorkerCloses ==
    /\ alive /\ Len(stdout) < PipeCapacity
    /\ stdin # <<>> /\ calls[Head(stdin)].kind = "shutdown"
    /\ held = NoEvent
    /\ stdin' = Tail(stdin)
    /\ executed' = executed \cup {Head(stdin)}
    /\ Replies(Head(stdin), "closed", NoGuest)
    /\ alive' = FALSE
    /\ UNCHANGED <<serviceVars, callVars, viewVars, deliveryVars, threadVars, machine, stream,
                   held>>

WorkerReleases ==
    /\ Working /\ held # NoEvent
    /\ Says(held) /\ held' = NoEvent
    /\ UNCHANGED <<stdin, machine, stream, executed>>

(* The next sample, or the failure to take it, replaces the one waiting.   *)
WorkerCaptures ==
    /\ Working /\ stream.id # 0
    /\ \/ /\ Loaded
          /\ machine' = Observed(machine)
          /\ stream' = [stream EXCEPT !.latest = Output("event", stream.id, "full", machine')]
       \/ /\ stream' = [stream EXCEPT !.id = 0,
                                       !.latest = Output("event", stream.id, "ended", NoGuest)]
          /\ UNCHANGED machine
    /\ UNCHANGED <<stdin, stdout, held, executed>>

(* It is written in full or, if it extends the last one written, as a delta. *)
WorkerSamples ==
    /\ Working /\ stream.latest # NoEvent
    /\ LET sample == stream.latest
           base == stream.base
       IN  /\ \/ Says(sample)
              \/ /\ sample.kind = "full" /\ base.id = sample.id /\ SameKey(base.guest, sample.guest)
                 /\ Says([sample EXCEPT !.kind = "delta", !.base = base.guest.sequence])
           /\ stream' = [stream EXCEPT !.latest = NoEvent,
                                       !.base = IF sample.kind = "ended" THEN NoEvent ELSE sample]
    /\ UNCHANGED <<stdin, machine, held, executed>>

GuestStops ==
    /\ alive /\ machine.status = "running"
    /\ machine' = [machine EXCEPT !.status = "paused"]
    /\ UNCHANGED <<serviceVars, callVars, viewVars, deliveryVars, threadVars, stdin, stdout,
                   alive, stream, held, executed>>

WorkerExits ==
    /\ alive /\ "exit" \in Faults
    /\ alive' = FALSE
    /\ UNCHANGED <<serviceVars, callVars, viewVars, deliveryVars, threadVars, stdin, stdout,
                   machine, stream, held, executed>>

(* A defective worker: it says anything, or answers any call. *)
WorkerErrs ==
    /\ Working /\ "garbage" \in Faults
    /\ \E output \in {Output("garbage", 0, "none", NoGuest)}
                       \cup {Output("reply", id, "error", NoGuest) : id \in 0 .. Len(calls)} :
        Says(output)
    /\ UNCHANGED <<stdin, machine, stream, held, executed>>

-----------------------------------------------------------------------------
Window == Request \/ Attach \/ Detach \/ Ack
Lifetime == Spawn \/ Connected \/ BeginDrop \/ DropFails \/ Dropped
Writer == WriterTakes \/ WriterRejects \/ WriterWrites \/ WriterBreaks
Reader == ReadReply \/ ReadEvent \/ ReaderRejects \/ ReaderEnds
Watchdog == WatchdogCalls \/ WatchdogRun \/ ResourcesExceeded
Worker ==
    \/ WorkerServes \/ WorkerCloses \/ WorkerReleases \/ WorkerCaptures \/ WorkerSamples
    \/ GuestStops \/ WorkerExits \/ WorkerErrs

Next == Window \/ Lifetime \/ Writer \/ Reader \/ Watchdog \/ Kill \/ Worker

Spec == Init /\ [][Next]_vars

(* Every thread runs, and a drop times out.  The worker may hang; while it *)
(* lives, an open call is found overdue.  The watchdog stops when it sees  *)
(* the worker dead, and leaves the failure to the reader.                  *)
Fairness ==
    /\ WF_vars(Writer) /\ WF_vars(Reader) /\ WF_vars(Kill) /\ WF_vars(alive /\ WatchdogCalls)
    /\ WF_vars(DropFails) /\ WF_vars(Dropped)

FairSpec == Spec /\ Fairness
=============================================================================
