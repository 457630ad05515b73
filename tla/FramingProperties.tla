--------------------------- MODULE FramingProperties ---------------------------
(* What the framed stream promises. *)
EXTENDS Framing

Shapes == Calls \cup Outputs
All == {Whole([m EXCEPT !.id = n]) : m \in Shapes, n \in 1 .. MaxMessages}
Channel == INSTANCE Conduit WITH
    Messages <- All, torn <- foreign \/ (writer # "open" /\ begun)

(* Whatever is written, refused, cut off or foreign: the far end gets the  *)
(* messages written to their last byte, each whole and in order; it reports*)
(* a clean end only when nothing is missing; and a writer that refuses a   *)
(* message has written no byte of it. (read_output, read_request,          *)
(* write_message, write_stream, write_request, decodeResponse)             *)
ImplementsConduit == Channel!Spec

(* Both ends of a buffer agree: the message that one may encode the other  *)
(* decodes to the same value, and it takes no buffer that ends early or has*)
(* more to it for a message. (encodeCall, decode, decodeResponse,          *)
(* decodeStream)                                                           *)
CodecsAgree ==
    current # Bad /\ pipe = <<>> =>
        LET buffer == Encode(current)
            kind == Kind(current.meta)
        IN  /\ Decode(buffer, kind) = current
            /\ IsRequest(current.meta) => DecodeCall(buffer) = current
            /\ \A n \in 0 .. Len(buffer) - 1 : Decode(SubSeq(buffer, 1, n), kind) = Bad
            /\ \A frame \in {Frame("binary", <<"more">>), Frame(kind, Json(current.meta))} :
                Decode(buffer \o Wire(frame), kind) = Bad
=============================================================================
