-------------------------------- MODULE Builds --------------------------------
(***************************************************************************)
(* The dispatcher's queue of assembly builds                               *)
(* (crates/runner/src/worker/builds.rs).  One build is active on the       *)
(* assembly thread; at most MaxPending wait, one per document.  Every      *)
(* operation here is called by the dispatcher thread only.                 *)
(***************************************************************************)
EXTENDS Naturals, Sequences, SequencesExt

CONSTANTS
    Documents,    (* the editor documents a build can belong to *)
    MaxPending    (* MAX_PENDING                                *)

ASSUME PendingAssumption == MaxPending \in Nat \ {0}

VARIABLES
    pending,      (* the builds waiting, oldest first                     *)
    active        (* the build on the assembly thread with its cancel     *)
                  (* latch, or NoBuild                                    *)

NoBuild == [id |-> 0, cancelled |-> FALSE]
Busy == active # NoBuild

(* Mutant: a build on the assembly thread is forgotten. *)
IdleWhenQueueEmpty == pending = <<>>
Idle == ~Busy /\ pending = <<>>

BuildsInit == pending = <<>> /\ active = NoBuild

(* Where a build of the document, or the build of a request, waits. *)
OfDocument(document) == {i \in DOMAIN pending : pending[i].document = document}
OfRequest(id) == {i \in DOMAIN pending : pending[i].id = id}

(* push: a new document takes a free slot. *)
PushNew(id, document) ==
    /\ OfDocument(document) = {}
    /\ Len(pending) < MaxPending
    /\ pending' = Append(pending, [id |-> id, document |-> document])
    /\ UNCHANGED active

(* push: a newer build of a queued document replaces the older one. *)
PushReplacing(id, document, i) ==
    /\ i \in OfDocument(document)
    /\ pending' = Append(RemoveAt(pending, i), [id |-> id, document |-> document])
    /\ UNCHANGED active

(* next: the oldest build moves to the assembly thread. *)
TakeBuild ==
    /\ ~Busy
    /\ pending # <<>>
    /\ active' = [id |-> Head(pending).id, cancelled |-> FALSE]
    /\ pending' = Tail(pending)

(* Mutant of CancelActive: the latch's old value is ignored. *)
CancelActiveAgain(id) ==
    /\ Busy /\ active.id = id
    /\ active' = [active EXCEPT !.cancelled = TRUE]
    /\ UNCHANGED pending

(* cancel: set the latch of the active build, once. *)
CancelActive(id) ==
    /\ Busy /\ active.id = id /\ ~active.cancelled
    /\ active' = [active EXCEPT !.cancelled = TRUE]
    /\ UNCHANGED pending

(* cancel: drop a build that has not started. *)
CancelPending(id, i) ==
    /\ ~(Busy /\ active.id = id)
    /\ i \in OfRequest(id)
    /\ pending' = RemoveAt(pending, i)
    /\ UNCHANGED active

(* cancel: no such build, or its latch is already set. *)
NotCancellable(id) == OfRequest(id) = {} /\ (Busy /\ active.id = id => active.cancelled)

(* finish: the active build's result arrived. *)
FinishBuild == active' = NoBuild /\ UNCHANGED pending
=============================================================================
