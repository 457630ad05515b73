-------------------------- MODULE WorkbenchProperties --------------------------
(* What the controller of the workbench promises to its user. *)
EXTENDS Workbench

(* Nothing is on its way between the window and the supervisor. *)
Quiet == calls = {} /\ channel = <<>>

(* The machine that is shown is followed: once all is answered, the window     *)
(* and the worker agree on a subscription, unless its loss was reported        *)
(* (subscribe and updateSubscription, whatever controls they overlap).         *)
SubscribedWhenSettled ==
    Quiet /\ ui.connected /\ ~host.failed /\ ui.snapshot # Absent /\ ~ui.told =>
        /\ ui.subscription # 0
        /\ host.subscription = ui.subscription

(* Of the credit, the half that keeps the stream going: once all is answered   *)
(* the window owes none, or nothing would be sent to it again (receive).       *)
CreditKept == Quiet /\ ui.attachment # 0 /\ ~host.failed => host.waiting = NoEvent

(* worker.ts:15: "Return delivery credit after consuming an event; detached    *)
(* views have no credit to return."  The supervisor never refuses the credit   *)
(* that the attached view returns (acknowledge, Delivery::acknowledge).        *)
CreditAccepted ==
    \A c \in calls : c.call.kind = "ack" /\ c.view = host.view => c.answer.type # "error"

(* Credit is returned exactly once, though events are held back while a        *)
(* subscription is asked for: none is kept, or the stream would stop, and the  *)
(* supervisor refuses no acknowledgement of the attached window (receive,      *)
(* updateSubscription, Delivery::acknowledge).                                 *)
CreditReturned == CreditKept /\ CreditAccepted

(* What is shown never goes back: within one connection the machine shown is   *)
(* replaced by a later observation, a later session, or nothing (publish,      *)
(* while samples, control replies and loads arrive in any order).              *)
SnapshotAdvances ==
    [][ ui.epoch = ui'.epoch /\ ui.snapshot # Absent /\ ui'.snapshot # Absent =>
          \/ ui.snapshot = ui'.snapshot
          \/ ui.snapshot.session < ui'.snapshot.session
          \/ /\ ui.snapshot.session = ui'.snapshot.session
             /\ ui.snapshot.sequence < ui'.snapshot.sequence ]_vars

(* The machine that is shown is one of the worker connected to, as it was at   *)
(* most as late as it is now: no answer of a dead worker, whose sessions have  *)
(* the same numbers, comes after its successor's (scoped, connect, failed).    *)
ShownIsOfWorker ==
    ui.connected /\ ui.snapshot # Absent /\ ui.attachment = host.view /\ ~host.failed =>
        \/ ui.snapshot.session < host.sessions
        \/ /\ ui.snapshot.session = host.sessions
           /\ host.guest # Absent => ui.snapshot.sequence <= host.guest.sequence

(* A trace is replaced only by that of a later read: of two reads answered in  *)
(* any order the second stays, even if its answer is an error (readTrace).     *)
TraceIsLatest ==
    [][ ui'.trace # ui.trace => ui'.trace = NoTrace \/ ui'.trace.request > ui.trace.request ]_vars

(* The controls of the user come back, again and again: a control ends, and so *)
(* does connecting, whatever the worker answers and even if it fails (execute, *)
(* loadInput).                                                                 *)
ControlsEnd ==
    /\ []<>(ui.controlling = "no")
    /\ []<>(ui.connecting = "no")

(* docs/protocol.md: "A dead worker needs explicit restart and loses its       *)
(* machine."  Once all is answered, the workbench shows no machine of it, and  *)
(* offers to restart it, which it does when it is not connected (failed).      *)
DeadWorkerLosesMachine ==
    Quiet /\ host.failed => ~ui.connected /\ ui.snapshot = Absent
=============================================================================
