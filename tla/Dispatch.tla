------------------------------- MODULE Dispatch -------------------------------
(***************************************************************************)
(* The worker process (crates/runner/src/worker/dispatch.rs): a dispatcher *)
(* thread that owns every reply decision, fed by a bounded event queue from*)
(* a reader thread, an assembly thread and a writer thread, and answering  *)
(* through the outbox.  Builds run on the assembly thread, guest commands  *)
(* on the execution owner.                                                 *)
(*                                                                         *)
(* The dispatcher takes one event at a time.  What the handler decides on  *)
(* its own data is one step; each use of the shared outbox it then makes   *)
(* is a step of its own, queued in "todo", so that the writer runs between *)
(* them.  "stage" is the place in the loop body after the handler.         *)
(***************************************************************************)
EXTENDS Builds, Encoder, Owner

CONSTANTS
    MaxRequest,      (* bound: request ids are at most this             *)
    EventCapacity,   (* slots of the event queue (16)                   *)
    Kinds,           (* the commands the client may send                *)
    Faults           (* the failures that may happen                    *)

Controls == {"run", "step", "pause", "cancel", "reset", "edit", "clear_trace"}
AllKinds == {"hello", "assemble", "cancel_assembly", "subscribe", "unsubscribe",
             "shutdown", "load", "observe", "read_trace", "close", "decode"} \cup Controls
AllFaults == {"input", "output", "build"}

ASSUME DispatchAssumption ==
    /\ MaxRequest \in Nat
    /\ EventCapacity \in Nat \ {0}
    /\ Kinds \subseteq AllKinds
    /\ Faults \subseteq AllFaults

VARIABLES
    input,           (* reader: "open" until its last event               *)
    sent,            (* the last request id the client has sent           *)
    events,          (* the event queue                                   *)
    stage, todo,     (* dispatcher: place in the loop, outbox calls to do *)
    negotiated,      (* dispatcher: the handshake succeeded               *)
    last,            (* dispatcher: last accepted request id              *)
    closing,         (* dispatcher: why it is stopping                    *)
    subscription,    (* dispatcher: the active subscription               *)
    outcome,         (* how the dispatcher loop ended                     *)
    jobs, compiling, (* assembly thread: its queue and its current job    *)
    writer, writing, (* writer thread: what it does, and with what        *)
    wire             (* the messages written, in order                    *)

readerVars == <<input, sent>>
assemblyVars == <<jobs, compiling>>
writerVars == <<writer, writing, wire, baseline>>
buildsVars == <<pending, active>>
loopVars == <<negotiated, last, closing, outcome>>
vars == <<readerVars, events, stage, todo, loopVars, subscription, assemblyVars,
          writerVars, buildsVars, lanes, ownerVars>>

Event(type, id, kind) == [type |-> type, id |-> id, kind |-> kind]
NoSubscription == [id |-> 0, key |-> NoKey, memory |-> FALSE, running |-> FALSE]
NotClosing == [reason |-> "none", id |-> 0]

Send(message, reserve) == [call |-> "send", message |-> message, reserve |-> reserve]
Put(sample) == [call |-> "observe", message |-> sample, reserve |-> FALSE]
Sample == [call |-> "sample", message |-> NoMessage, reserve |-> FALSE]
Answer(id, kind) == <<Send(Reply(id, kind), FALSE)>>
StopObservingLater == <<>>    \* mutant of StopObserving: the pending sample stays
StopObserving == <<Put(NoMessage)>>

Init ==
    /\ input = "open" /\ sent = 0
    /\ events = <<>>
    /\ stage = "receive" /\ todo = <<>>
    /\ negotiated = FALSE /\ last = 0 /\ closing = NotClosing
    /\ subscription = NoSubscription /\ outcome = "serving"
    /\ jobs = <<>> /\ compiling = 0
    /\ writer = "receive" /\ writing = NoMessage /\ wire = <<>>
    /\ BuildsInit /\ OutboxInit /\ EncoderInit /\ OwnerInit

-----------------------------------------------------------------------------
(* The reader thread.  Its sends block while the event queue is full and   *)
(* the dispatcher lives; Shutdown is the last request it reads.  A client  *)
(* numbers its requests in order; with faulty input a number may repeat.   *)

Serving == outcome = "serving"
Room == Len(events) < EventCapacity

ReadRequest ==
    /\ Serving /\ input = "open" /\ Room
    /\ \E id \in {sent + 1} \cup (IF "input" \in Faults THEN {sent} ELSE {}), kind \in Kinds :
        /\ id <= MaxRequest
        /\ sent' = id
        /\ events' = Append(events, Event("request", id, kind))
        /\ input' = IF kind = "shutdown" THEN "done" ELSE "open"
    /\ UNCHANGED <<stage, todo, loopVars, subscription, assemblyVars, writerVars,
                   buildsVars, lanes, ownerVars>>

ReadEnd ==
    /\ Serving /\ input = "open" /\ Room
    /\ \E type \in {"closed"} \cup (IF "input" \in Faults THEN {"failed"} ELSE {}) :
        events' = Append(events, Event(type, 0, "none"))
    /\ input' = "done"
    /\ UNCHANGED <<sent, stage, todo, loopVars, subscription, assemblyVars, writerVars,
                   buildsVars, lanes, ownerVars>>

-----------------------------------------------------------------------------
(* The dispatcher takes an event; a handler leaves its outbox calls in     *)
(* todo.  The operands of a command are chosen when it is handled, because *)
(* nothing reads them earlier.                                             *)

Receive(type) ==
    /\ Serving /\ stage = "receive" /\ events # <<>>
    /\ Head(events).type = type
    /\ events' = Tail(events)
    /\ UNCHANGED <<readerVars, assemblyVars, writerVars>>

Handled(calls) == todo' = calls /\ stage' = "due" /\ UNCHANGED <<outcome, lanes>>

(* The dispatcher returns an error and drops its ends of the channels.     *)
Fail == outcome' = "failed" /\ CloseOutbox /\ UNCHANGED <<stage, todo>>

Request == Head(events)

(* accept: correlation errors end the connection. *)
OutOfOrder == closing # NotClosing \/ Request.id = 0 \/ Request.id <= last

RefuseRequest ==
    /\ Receive("request")
    /\ OutOfOrder \/ "input" \in Faults    \* or its payload does not match
    /\ Fail
    /\ UNCHANGED <<negotiated, last, closing, subscription, buildsVars, ownerVars>>

Handshake ==
    /\ Receive("request")
    /\ ~OutOfOrder /\ ~negotiated
    /\ last' = Request.id
    /\ IF Request.kind = "hello"
       THEN /\ negotiated' = TRUE
            /\ Handled(Answer(Request.id, "hello"))
            /\ UNCHANGED closing
       ELSE /\ closing' = [reason |-> "rejected", id |-> 0]
            /\ Handled(Answer(Request.id, "protocol"))
            /\ UNCHANGED negotiated
    /\ UNCHANGED <<subscription, buildsVars, ownerVars>>

Command(kind) ==
    /\ Receive("request")
    /\ ~OutOfOrder /\ negotiated
    /\ Request.kind = kind
    /\ last' = Request.id
    /\ UNCHANGED negotiated

Assemble ==
    /\ Command("assemble")
    /\ \E document \in Documents :
        \/ /\ PushNew(Request.id, document)
           /\ Handled(<<>>)
        \/ \E i \in OfDocument(document) :
             /\ PushReplacing(Request.id, document, i)
             /\ Handled(Answer(pending[i].id, "superseded"))
        \/ \* the source is invalid, or the queue is full
           /\ Handled(Answer(Request.id, "error"))
           /\ UNCHANGED buildsVars
    /\ UNCHANGED <<closing, subscription, ownerVars>>

CancelAssembly ==
    /\ Command("cancel_assembly")
    /\ \E id \in 0 .. last :
        \/ /\ CancelActive(id) \/ \E i \in OfRequest(id) : CancelPending(id, i)
           /\ Handled(Answer(id, "cancelled") \o Answer(Request.id, "assembly_cancelled"))
        \/ /\ NotCancellable(id)
           /\ Handled(Answer(Request.id, "error"))
           /\ UNCHANGED buildsVars
    /\ UNCHANGED <<closing, subscription, ownerVars>>

(* Owner replies: what a guest command observed, with its coherent view. *)
View(memory) ==
    [key |-> Key, sequence |-> sequence, status |-> status, config |-> config, memory |-> memory]

Subscribe ==
    /\ Command("subscribe")
    /\ \/ \E memory \in BOOLEAN :
            /\ Observed("observe", memory)
            /\ subscription' = [id |-> Request.id, key |-> Key, memory |-> memory,
                                running |-> status = "running"]
            /\ Handled(StopObserving \o Answer(Request.id, "subscribed")
                         \o <<Put(Message(Request.id, "capture", View(memory)'))>>)
       \/ \* a stale key, or a failed capture
          /\ Handled(Answer(Request.id, "error"))
          /\ UNCHANGED <<subscription, ownerVars>>
    /\ UNCHANGED <<closing, buildsVars>>

Unsubscribe ==
    /\ Command("unsubscribe")
    /\ \/ /\ subscription # NoSubscription
          /\ subscription' = NoSubscription
          /\ Handled(StopObserving
                       \o <<Send([Reply(Request.id, "unsubscribed")
                                     EXCEPT !.base = subscription.id], FALSE)>>)
       \/ \* another subscription is named
          /\ Handled(Answer(Request.id, "error"))
          /\ UNCHANGED subscription
    /\ UNCHANGED <<closing, buildsVars, ownerVars>>

(***************************************************************************)
(* Any other command is performed and answered.  An answer that shows the  *)
(* subscribed session gone ends the subscription before it is sent; after  *)
(* a successful control a fresh sample is due.                             *)
(***************************************************************************)
EndsOnClose(reply) ==    \* mutant of Ends: a reset or load is not noticed
    /\ subscription # NoSubscription
    /\ reply.kind = "session_closed" /\ reply.view.key = subscription.key

Ends(reply) ==
    /\ subscription # NoSubscription
    /\ \/ reply.kind = "observed" /\ reply.view.key # subscription.key
       \/ reply.kind = "session_closed" /\ reply.view.key = subscription.key

Performed(reply, refresh) ==
    /\ subscription' = IF Ends(reply) THEN NoSubscription ELSE subscription
    /\ Handled((IF Ends(reply) THEN StopObserving ELSE <<>>)
                 \o <<Send(reply, Busy)>>
                 \o (IF refresh /\ reply.kind # "error" THEN <<Sample>> ELSE <<>>))

LoadImage ==
    /\ Command("load")
    /\ \/ /\ Load(Request.id)
          /\ Performed(Message(Request.id, "observed", View(FALSE)'), FALSE)
       \/ \* a stale key, a running session or a bad image
          /\ Performed(Reply(Request.id, "error"), FALSE)
          /\ UNCHANGED ownerVars
    /\ UNCHANGED <<closing, buildsVars>>

Execute ==
    /\ \E command \in Controls \cup {"observe"} :
        /\ Command(command)
        /\ \/ \E memory \in (IF command = "observe" THEN BOOLEAN ELSE {FALSE}) :
                /\ Observed(command, memory)
                /\ Performed(Message(Request.id, "observed", View(memory)'),
                             command # "observe")
           \/ /\ UNCHANGED ownerVars \/ Unobserved(command)
              /\ Performed(Reply(Request.id, "error"), command # "observe")
    /\ UNCHANGED <<closing, buildsVars>>

CloseSession ==
    /\ Command("close")
    /\ \/ /\ ~Unloaded
          /\ Unload
          /\ Performed(Message(Request.id, "session_closed", [NoView EXCEPT !.key = Key]), TRUE)
       \/ /\ Performed(Reply(Request.id, "error"), TRUE)
          /\ UNCHANGED ownerVars
    /\ UNCHANGED <<closing, buildsVars>>

(* Commands that read: their answers are bulk, a trace, or an error. *)
Inspect ==
    /\ \E kind \in {"hello", "decode", "read_trace"} :
        /\ Command(kind)
        /\ \E answer \in {"error"} \cup (CASE kind = "decode" -> {"decoded"}
                                          [] kind = "read_trace" /\ ~Unloaded -> {"trace"}
                                          [] OTHER -> {}) :
             Performed(Reply(Request.id, answer), FALSE)
    /\ UNCHANGED <<closing, buildsVars, ownerVars>>

(* Both ends of input stop the stream and the guest, and let builds finish. *)
Shutdown ==
    /\ Command("shutdown")
    /\ closing' = [reason |-> "shutdown", id |-> Request.id]
    /\ subscription' = NoSubscription
    /\ Handled(StopObserving)
    /\ Unload
    /\ UNCHANGED buildsVars

InputClosed ==
    /\ Receive("closed")
    /\ closing' = [reason |-> "end", id |-> 0]
    /\ subscription' = NoSubscription
    /\ Handled(StopObserving)
    /\ Unload
    /\ UNCHANGED <<negotiated, last, buildsVars>>

(* A build came back; a cancelled one has been answered already. *)
BuildFinished ==
    /\ Receive("build")
    /\ active.id = Request.id
    /\ FinishBuild
    /\ Handled(IF active.cancelled THEN <<>> ELSE Answer(Request.id, Request.kind))
    /\ UNCHANGED <<negotiated, last, closing, subscription, ownerVars>>

Writable ==
    /\ Receive("writable")
    /\ Handled(<<>>)
    /\ UNCHANGED <<negotiated, last, closing, subscription, buildsVars, ownerVars>>

ThreadFailed ==
    /\ Receive("failed")
    /\ Fail
    /\ UNCHANGED <<negotiated, last, closing, subscription, buildsVars, ownerVars>>

-----------------------------------------------------------------------------
(* The outbox calls of a handler, one critical section each.               *)

Calling(call) ==
    /\ Serving /\ todo # <<>>
    /\ Head(todo).call = call
    /\ UNCHANGED <<readerVars, events, loopVars, assemblyVars, writerVars, buildsVars>>

SendReply ==
    /\ Calling("send")
    /\ \/ SendBulk(Head(todo).message, Head(todo).reserve)
       \/ SendControl(Head(todo).message, Head(todo).reserve)
    /\ todo' = Tail(todo)
    /\ UNCHANGED <<stage, subscription, ownerVars>>

PutSample ==
    /\ Calling("observe")
    /\ Observe(Head(todo).message)
    /\ todo' = Tail(todo)
    /\ UNCHANGED <<stage, subscription, ownerVars>>

(* Mutant of Capture: the subscription is sampled once, then no longer. *)
CaptureOnce(rest) ==
    \/ /\ subscription.key = Key
       /\ Observed("observe", subscription.memory)
       /\ subscription' = [subscription EXCEPT !.running = FALSE]
       /\ todo' = <<Put(Message(subscription.id, "capture", View(subscription.memory)'))>> \o rest
    \/ /\ \/ subscription.key # Key \/ sequence = MaxSequence \/ ReadsFail
          \/ subscription.memory /\ status = "crashed"
       /\ subscription' = NoSubscription
       /\ todo' = <<Put(Reply(subscription.id, "ended"))>> \o rest
       /\ UNCHANGED ownerVars

(* Capture for the subscription and queue the sample; failure ends it. *)
Capture(rest) ==
    \/ /\ subscription.key = Key
       /\ Observed("observe", subscription.memory)
       /\ subscription' = [subscription EXCEPT !.running = status = "running"]
       /\ todo' = <<Put(Message(subscription.id, "capture", View(subscription.memory)'))>> \o rest
    \/ /\ \/ subscription.key # Key \/ sequence = MaxSequence \/ ReadsFail
          \/ subscription.memory /\ status = "crashed"
       /\ subscription' = NoSubscription
       /\ todo' = <<Put(Reply(subscription.id, "ended"))>> \o rest
       /\ UNCHANGED ownerVars

RefreshSample ==
    /\ Calling("sample")
    /\ IF subscription = NoSubscription
       THEN todo' = Tail(todo) /\ UNCHANGED <<subscription, ownerVars>>
       ELSE Capture(Tail(todo))
    /\ UNCHANGED <<stage, lanes>>

(***************************************************************************)
(* After the handler: a due sample, then scheduling.  The timer may expire *)
(* while the dispatcher waits for an event, or any time before.            *)
(***************************************************************************)
SampleDue ==
    /\ Serving /\ todo = <<>>
    /\ stage = "due" \/ (stage = "receive" /\ events = <<>>)
    /\ subscription.running
    /\ Capture(<<>>)
    /\ stage' = "schedule"
    /\ UNCHANGED <<readerVars, events, loopVars, assemblyVars, writerVars, buildsVars, lanes>>

Scheduling ==
    /\ Serving /\ todo = <<>>
    /\ stage \in {"due", "schedule"}
    /\ stage' = "receive"
    /\ UNCHANGED <<readerVars, events, todo, negotiated, last, closing, subscription,
                   compiling, writerVars, ownerVars>>

(* A build starts when its artifact has a bulk slot to itself. *)
StartBuild ==
    /\ Scheduling
    /\ Open /\ CanStartBuild
    /\ TakeBuild
    /\ jobs' = Append(jobs, active'.id)
    /\ UNCHANGED <<outcome, lanes>>

Conclude ==
    /\ Scheduling
    /\ Idle /\ closing # NotClosing
    /\ IF closing.reason = "shutdown"
       THEN SendFinal(Reply(closing.id, "closed"))
       ELSE Open /\ CloseOutbox
    /\ outcome' = IF closing.reason = "rejected" THEN "rejected" ELSE "complete"
    /\ UNCHANGED <<jobs, buildsVars>>

Continue ==
    /\ Scheduling
    /\ Busy \/ (Open /\ ~(pending # <<>> /\ CanStartBuild) /\ ~(Idle /\ closing # NotClosing))
    /\ UNCHANGED <<jobs, outcome, buildsVars, lanes>>

(* Every use of an outbox whose writer is gone fails the dispatcher. *)
OutputLost ==
    /\ Serving /\ failed
    /\ IF todo = <<>> THEN stage \in {"due", "schedule"} /\ ~Busy
                      ELSE Head(todo).call # "sample"
    /\ Fail
    /\ UNCHANGED <<readerVars, events, negotiated, last, closing, subscription,
                   assemblyVars, writerVars, buildsVars, ownerVars>>

-----------------------------------------------------------------------------
(* The assembly thread, and the guest on the execution owner.              *)

CompileTake ==
    /\ Serving /\ compiling = 0 /\ jobs # <<>>
    /\ compiling' = Head(jobs) /\ jobs' = Tail(jobs)
    /\ UNCHANGED <<readerVars, events, stage, todo, loopVars, subscription, writerVars,
                   buildsVars, lanes, ownerVars>>

(* The result is an artifact or a diagnostic; a panic is a thread failure. *)
CompileDone ==
    /\ Serving /\ compiling # 0 /\ Room
    /\ \/ \E kind \in {"assembled", "error"} :
            events' = Append(events, Event("build", compiling, kind))
       \/ /\ "build" \in Faults
          /\ events' = Append(events, Event("failed", 0, "none"))
    /\ compiling' = 0
    /\ UNCHANGED <<readerVars, stage, todo, loopVars, subscription, jobs, writerVars,
                   buildsVars, lanes, ownerVars>>

GuestAdvance ==
    /\ Serving
    /\ Advance
    /\ UNCHANGED <<readerVars, events, stage, todo, loopVars, subscription, assemblyVars,
                   writerVars, buildsVars, lanes>>

-----------------------------------------------------------------------------
(* The writer thread: take a message, announce the freed capacity if the   *)
(* event queue has room, write the message.                                *)

WriterStep ==
    /\ UNCHANGED <<readerVars, stage, todo, loopVars, subscription, assemblyVars,
                   buildsVars, ownerVars>>

WriterReceive ==
    /\ WriterStep /\ writer = "receive"
    /\ \/ ReceiveControl(writing') \/ ReceiveSample(writing')
       \/ ReceiveBulk(writing') \/ ReceiveFinal(writing')
    /\ writer' = "announce"
    /\ UNCHANGED <<events, wire, baseline>>

(* Mutant of WriterAnnounce: freed bulk slots are not announced. *)
WriterAnnounceControl ==
    /\ WriterStep /\ writer = "announce"
    /\ events' = IF Serving /\ Room /\ ~IsBulk(writing)
                 THEN Append(events, Event("writable", 0, "none")) ELSE events
    /\ writer' = "write"
    /\ UNCHANGED <<writing, wire, baseline, lanes>>

WriterAnnounce ==
    /\ WriterStep /\ writer = "announce"
    /\ events' = IF Serving /\ Room THEN Append(events, Event("writable", 0, "none")) ELSE events
    /\ writer' = "write"
    /\ UNCHANGED <<writing, wire, baseline, lanes>>

WriterWrite ==
    /\ WriterStep /\ writer = "write"
    /\ wire' = Append(wire, Encoded(writing))
    /\ baseline' = Baseline(writing)
    /\ writer' = "receive" /\ writing' = NoMessage
    /\ UNCHANGED <<events, lanes>>

WriterFinish ==
    /\ WriterStep /\ writer = "receive"
    /\ Drained
    /\ writer' = "done"
    /\ UNCHANGED <<events, writing, wire, baseline, lanes>>

(* A failed write loses the queued messages, then reports the failure. *)
WriterFails ==
    /\ WriterStep /\ writer = "write"
    /\ "output" \in Faults
    /\ LoseOutbox
    /\ writer' = "failing" /\ writing' = NoMessage
    /\ UNCHANGED <<events, wire, baseline>>

WriterReports ==
    /\ WriterStep /\ writer = "failing"
    /\ Serving => Room
    /\ events' = IF Serving THEN Append(events, Event("failed", 0, "none")) ELSE events
    /\ writer' = "done"
    /\ UNCHANGED <<writing, wire, baseline, lanes>>

-----------------------------------------------------------------------------
(* The process may have exited: a failed worker does not join its threads. *)
Exited == outcome = "failed" \/ (outcome # "serving" /\ writer = "done")

Handler ==
    \/ RefuseRequest \/ Handshake \/ Assemble \/ CancelAssembly \/ Subscribe \/ Unsubscribe
    \/ LoadImage \/ Execute \/ CloseSession \/ Inspect \/ Shutdown
    \/ InputClosed \/ BuildFinished \/ Writable \/ ThreadFailed

Dispatcher ==
    \/ Handler \/ SendReply \/ PutSample \/ RefreshSample \/ SampleDue
    \/ StartBuild \/ Conclude \/ Continue \/ OutputLost

Assembly == CompileTake \/ CompileDone

Writer ==
    \/ WriterReceive \/ WriterAnnounce \/ WriterWrite
    \/ WriterFinish \/ WriterFails \/ WriterReports

Next ==
    \/ ReadRequest \/ ReadEnd \/ Dispatcher \/ Assembly \/ GuestAdvance \/ Writer
    \/ Exited /\ UNCHANGED vars

Spec == Init /\ [][Next]_vars

(***************************************************************************)
(* Every worker thread keeps running until the process exits, and the      *)
(* client drains the output pipe; the client need not send anything.       *)
(***************************************************************************)
Fairness == WF_vars(Dispatcher) /\ WF_vars(Assembly) /\ WF_vars(Writer /\ ~Exited)
FairSpec == Spec /\ Fairness
=============================================================================
