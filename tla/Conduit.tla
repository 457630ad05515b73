-------------------------------- MODULE Conduit --------------------------------
(* What a framed stream promises: messages arrive whole, once and in order,*)
(* a stream that breaks inside one says so, and only a crash or a foreign  *)
(* peer can break it there.                                                *)
EXTENDS Naturals, Sequences

CONSTANT Messages

VARIABLES
    sent,              (* messages written to their last byte *)
    torn,              (* what follows them is no message      *)
    writer,            (* open, closed or crashed              *)
    delivered,         (* messages the far end has             *)
    ended              (* none, eof or error                   *)

vars == <<sent, torn, writer, delivered, ended>>

Init == sent = <<>> /\ torn = FALSE /\ writer = "open" /\ delivered = <<>> /\ ended = "none"

Send ==
    /\ writer = "open" /\ ~torn
    /\ \E m \in Messages : sent' = Append(sent, m)
    /\ UNCHANGED <<torn, writer, delivered, ended>>

Close == writer = "open" /\ writer' = "closed" /\ UNCHANGED <<sent, torn, delivered, ended>>

(* The process ends between two bytes. *)
Crash ==
    /\ writer = "open" /\ writer' = "crashed"
    /\ torn' \in {torn, TRUE}
    /\ UNCHANGED <<sent, delivered, ended>>

(* A peer of another build writes something else. *)
Foreign == writer = "open" /\ torn' = TRUE /\ UNCHANGED <<sent, writer, delivered, ended>>

Deliver ==
    /\ ended = "none" /\ Len(delivered) < Len(sent)
    /\ delivered' = SubSeq(sent, 1, Len(delivered) + 1)
    /\ UNCHANGED <<sent, torn, writer, ended>>

End ==
    /\ ended = "none" /\ delivered = sent
    /\ \/ torn /\ ended' = "error"
       \/ ~torn /\ writer # "open" /\ ended' = "eof"
    /\ UNCHANGED <<sent, torn, writer, delivered>>

Next == Send \/ Close \/ Crash \/ Foreign \/ Deliver \/ End

Spec == Init /\ [][Next]_vars
=============================================================================
