-------------------------------- MODULE Framing --------------------------------
(***************************************************************************)
(* The framed stream between the desktop shell and its worker, from the    *)
(* call the webview encodes to the worker's reader, and from the worker's  *)
(* writer to the response the webview decodes (core/protocol/transport.rs  *)
(* and frame.rs, lib/protocol/frames.ts, src-tauri/src/commands.rs).       *)
(*                                                                         *)
(* Bytes are cells.  A header is two of them, for the byte that is read by *)
(* itself and for the rest; a cell of a JSON body names the message whose  *)
(* metadata it belongs to, and a cell of a payload its place in it.  Both  *)
(* processes stop at any cell, and a peer may write what this build would  *)
(* not.  The route is chosen at the start.                                 *)
(***************************************************************************)
EXTENDS Integers, Sequences, SequencesExt

CONSTANTS
    Calls,             (* calls the webview may make                    *)
    Outputs,           (* replies and events the worker may write       *)
    Strange,           (* frame sequences of another build              *)
    MaxControl,        (* MAX_CONTROL_BYTES                             *)
    MaxBinary,         (* MAX_BINARY_BYTES                              *)
    MaxObject,         (* MAX_OBJECT_BYTES                              *)
    CallLimit,         (* 2 * MAX_OBJECT_BYTES + 1024, of a whole call    *)
    MaxMessages,       (* bound: messages per run                       *)
    Capacity           (* bound: cells in the pipe                      *)

ASSUME FramingAssumption ==
    /\ MaxControl \in Nat \ {0} /\ MaxBinary \in Nat \ {0} /\ MaxObject \in Nat \ {0}
    /\ CallLimit \in Nat /\ MaxMessages \in Nat \ {0} /\ Capacity \in Nat \ {0}

VARIABLES
    route,             (* "request" or "output"                         *)
    count,             (* messages so far, their identity               *)
    frames,            (* frames of the current message still to write  *)
    cells,             (* cells of the current frame still to write     *)
    current,           (* the message being written                     *)
    writer,            (* open, closed or crashed                       *)
    foreign,           (* the peer has written something else           *)
    pipe,
    reader,            (* read_frame, read_response and read_payload    *)
    ended,             (* none, eof or error                            *)
    delivered,
    (* history, read by no action *)
    sent,              (* messages written to their last cell           *)
    begun              (* the current one is written in part            *)

writing == <<frames, cells, current, writer>>
past == <<sent, begun>>
framingVars == <<route, count, writing, foreign, pipe, reader, ended, delivered, past>>

HeaderCells == 2
Kinds == {"control", "binary", "observation"}
NoMessage == [id |-> 0]
NoHeader == [kind |-> "none", length |-> 0]
FirstByte == [stage |-> "first", header |-> NoHeader, body |-> <<>>, meta |-> NoMessage,
              payloads |-> <<>>, bytes |-> <<>>]

-----------------------------------------------------------------------------
(* Messages.  "declared" are the lengths in the metadata, "carried" those  *)
(* of the buffers, "json" the size of the metadata.                        *)

Limit(m) == IF m.op \in {"load", "assembled"} THEN MaxObject ELSE MaxBinary

(* payload_lengths, request_payload_length, stream_length: a delta without *)
(* memory declares no payload.                                             *)
Lengths(m) == IF m.op = "delta" /\ m.declared = <<0>> THEN <<>> ELSE m.declared

Checked(m) == \A i \in DOMAIN Lengths(m) : Lengths(m)[i] \in 1 .. Limit(m)

Kind(m) == IF m.op \in {"full", "delta"} THEN "observation" ELSE "control"

Data(m, p) == [i \in 1 .. m.carried[p] |-> <<"data", m.id, p, i>>]
Whole(m) == [meta |-> m, payloads |-> [p \in DOMAIN m.carried |-> Data(m, p)]]
Json(m) == [i \in 1 .. m.json |-> <<"json", m, i>>]

IsJson(body) == body[1][1] = "json" /\ body = Json(body[1][2])
IsRequest(m) == m.op \in {"plain", "load", "write"}

-----------------------------------------------------------------------------
(* Frames.                                                                 *)

Maximum(kind) == IF kind = "binary" THEN MaxBinary ELSE MaxControl

Valid(header) == header.kind \in Kinds /\ header.length \in 1 .. Maximum(header.kind)

Frame(kind, bytes) == [kind |-> kind, bytes |-> bytes]
Header(frame) == [kind |-> frame.kind, length |-> Len(frame.bytes)]
Wire(frame) == <<<<"head", Header(frame)>>, <<"tail", Header(frame)>>>> \o frame.bytes

Least(a, b) == IF a < b THEN a ELSE b

Chunks(bytes) ==
    [n \in 1 .. (Len(bytes) + MaxBinary - 1) \div MaxBinary |->
        Frame("binary", SubSeq(bytes, (n - 1) * MaxBinary + 1, Least(n * MaxBinary, Len(bytes))))]

(* An event's memory is one frame, never chunked. *)
PayloadFrames(w) ==
    IF Kind(w.meta) = "observation" THEN [p \in DOMAIN w.payloads |-> Frame("binary", w.payloads[p])]
    ELSE FlattenSeq([p \in DOMAIN w.payloads |-> Chunks(w.payloads[p])])

FramesOf(w) == <<Frame(Kind(w.meta), Json(w.meta))>> \o PayloadFrames(w)

(* Mutant of Writable: a length within no limit is written. *)
WritableUnbounded(w) ==
    /\ Lengths(w.meta) = [p \in DOMAIN w.payloads |-> Len(w.payloads[p])]
    /\ w.meta.json <= MaxControl

(* What validate_request, write_message, write_stream and encodeCall check *)
(* before they write.                                                      *)
Writable(w) ==
    /\ Checked(w.meta)
    /\ Lengths(w.meta) = [p \in DOMAIN w.payloads |-> Len(w.payloads[p])]
    /\ w.meta.json <= MaxControl

-----------------------------------------------------------------------------
(* A message in one buffer: between the webview and the shell.             *)

Encode(w) == FlattenSeq([n \in DOMAIN FramesOf(w) |-> Wire(FramesOf(w)[n])])

Bad == [meta |-> NoMessage, payloads |-> <<>>]

IsHeader(head, tail) == head[1] = "head" /\ tail = <<"tail", head[2]>> /\ Valid(head[2])
IsFrame(buffer) ==
    /\ Len(buffer) >= HeaderCells /\ IsHeader(buffer[1], buffer[2])
    /\ Len(buffer) - HeaderCells >= buffer[1][2].length
Taken(buffer) == SubSeq(buffer, HeaderCells + 1, HeaderCells + buffer[1][2].length)
Rest(buffer) == SubSeq(buffer, HeaderCells + buffer[1][2].length + 1, Len(buffer))

(* Reader.payload: every chunk but the last is full. *)
RECURSIVE Payloads(_, _, _)
Payloads(buffer, lengths, bytes) ==
    IF lengths = <<>> THEN IF buffer = <<>> THEN <<<<>>>> ELSE <<>>
    ELSE IF Len(bytes) = Head(lengths)
    THEN LET rest == Payloads(buffer, Tail(lengths), <<>>) IN
         IF rest = <<>> THEN <<>> ELSE <<<<bytes>> \o rest[1]>>
    ELSE IF /\ IsFrame(buffer) /\ buffer[1][2].kind = "binary"
            /\ buffer[1][2].length = Least(MaxBinary, Head(lengths) - Len(bytes))
    THEN Payloads(Rest(buffer), lengths, bytes \o Taken(buffer))
    ELSE <<>>

(* decodeResponse and decodeStream in the webview, decode in the shell. *)
Decode(buffer, kind) ==
    IF IsFrame(buffer) /\ buffer[1][2].kind = kind /\ IsJson(Taken(buffer))
    THEN LET m == Taken(buffer)[1][2]
             payloads == Payloads(Rest(buffer), Lengths(m), <<>>)
         IN  IF Checked(m) /\ payloads # <<>> THEN [meta |-> m, payloads |-> payloads[1]] ELSE Bad
    ELSE Bad

(* Mutant of DecodeCall: the bound leaves no room for the headers. *)
DecodeCallTight(buffer) ==
    IF Len(buffer) <= MaxControl + MaxObject THEN Decode(buffer, "control") ELSE Bad

(* The shell bounds the whole call first. *)
DecodeCall(buffer) == IF Len(buffer) <= CallLimit THEN Decode(buffer, "control") ELSE Bad

-----------------------------------------------------------------------------
(* The writer.                                                             *)

Resting == writer = "open" /\ frames = <<>> /\ cells = <<>>

Begin(w) ==
    /\ frames' = FramesOf(w) /\ current' = w
    /\ UNCHANGED <<cells, writer>>

(* A call that the webview refuses goes no further; the shell decodes and  *)
(* checks it again, with the same result, before it is queued.             *)
Call ==
    /\ route = "request" /\ Resting /\ count < MaxMessages
    /\ \E c \in Calls :
        LET w == Whole([c EXCEPT !.id = count + 1]) IN
        Writable(w) /\ Begin(w)
    /\ count' = count + 1
    /\ UNCHANGED <<route, foreign, pipe, reader, ended, delivered, past>>

(* What the worker's writer refuses ends it. *)
Output ==
    /\ route = "output" /\ Resting /\ count < MaxMessages
    /\ \E o \in Outputs :
        LET w == Whole([o EXCEPT !.id = count + 1]) IN
        IF Writable(w) THEN Begin(w)
        ELSE writer' = "closed" /\ UNCHANGED <<frames, cells, current>>
    /\ count' = count + 1
    /\ UNCHANGED <<route, foreign, pipe, reader, ended, delivered, past>>

(* write_frame *)
NextFrame ==
    /\ writer = "open" /\ cells = <<>> /\ frames # <<>>
    /\ IF Valid(Header(Head(frames)))
       THEN cells' = Wire(Head(frames)) /\ frames' = Tail(frames) /\ UNCHANGED writer
       ELSE writer' = "closed" /\ UNCHANGED <<frames, cells>>
    /\ UNCHANGED <<route, count, current, foreign, pipe, reader, ended, delivered, past>>

WriteCell ==
    /\ writer = "open" /\ cells # <<>> /\ Len(pipe) < Capacity /\ ended = "none"
    /\ pipe' = Append(pipe, Head(cells))
    /\ cells' = Tail(cells)
    /\ sent' = IF Len(cells) = 1 /\ frames = <<>> /\ ~foreign THEN Append(sent, current) ELSE sent
    /\ begun' = (Len(cells) > 1 \/ frames # <<>>)
    /\ UNCHANGED <<route, count, frames, current, writer, foreign, reader, ended, delivered>>

(* The process ends, or its pipe fails, at any point. *)
Crash ==
    /\ writer = "open" /\ writer' = "crashed"
    /\ UNCHANGED <<route, count, frames, cells, current, foreign, pipe, reader, ended, delivered, past>>

Close ==
    /\ Resting /\ writer' = "closed"
    /\ UNCHANGED <<route, count, frames, cells, current, foreign, pipe, reader, ended, delivered, past>>

Foreign ==
    /\ Resting /\ ~foreign /\ Len(pipe) < Capacity /\ ended = "none"
    /\ \E s \in Strange : cells' = Tail(s) /\ pipe' = Append(pipe, Head(s))
    /\ foreign' = TRUE
    /\ UNCHANGED <<route, count, frames, current, writer, reader, ended, delivered, past>>

-----------------------------------------------------------------------------
(* The reader: read_request in the worker, read_output in the shell.       *)

Fail == ended' = "error" /\ UNCHANGED <<reader, delivered>>

Expect(next) == reader' = next /\ UNCHANGED <<ended, delivered>>

Received(w) == delivered' = Append(delivered, w) /\ reader' = FirstByte /\ UNCHANGED ended

Part == Len(reader.payloads) + 1
Missing == Lengths(reader.meta)[Part] - Len(reader.bytes)

(* A payload's chunk is compared with what is missing before it is read. *)
HeaderRead(cell) ==
    LET header == reader.body[1][2] IN
    IF /\ IsHeader(reader.body[1], cell)
       /\ reader.meta # NoMessage =>
            header.kind = "binary" /\ header.length = Least(MaxBinary, Missing)
    THEN Expect([reader EXCEPT !.stage = "body", !.header = header, !.body = <<>>])
    ELSE Fail

(* A complete metadata frame. *)
MetaRead(body) ==
    LET kind == reader.header.kind IN
    IF /\ kind \in (IF route = "request" THEN {"control"} ELSE {"control", "observation"})
       /\ IsJson(body) /\ Kind(body[1][2]) = kind /\ Checked(body[1][2])
       /\ IsRequest(body[1][2]) = (route = "request")
    THEN IF Lengths(body[1][2]) = <<>> THEN Received([meta |-> body[1][2], payloads |-> <<>>])
         ELSE Expect([FirstByte EXCEPT !.meta = body[1][2]])
    ELSE Fail

(* A complete chunk. *)
ChunkRead(chunk) ==
    LET bytes == reader.bytes \o chunk
        payloads == Append(reader.payloads, bytes)
    IN  IF Len(chunk) < Missing THEN Expect([reader EXCEPT !.stage = "first", !.body = <<>>, !.bytes = bytes])
        ELSE IF Len(payloads) < Len(Lengths(reader.meta))
        THEN Expect([FirstByte EXCEPT !.meta = reader.meta, !.payloads = payloads])
        ELSE Received([meta |-> reader.meta, payloads |-> payloads])

BodyRead(cell) ==
    LET body == Append(reader.body, cell) IN
    IF Len(body) < reader.header.length THEN Expect([reader EXCEPT !.body = body])
    ELSE IF reader.meta = NoMessage THEN MetaRead(body)
    ELSE ChunkRead(body)

Read ==
    /\ ended = "none" /\ pipe # <<>>
    /\ LET cell == Head(pipe) IN
        \/ reader.stage = "first" /\ Expect([reader EXCEPT !.stage = "tail", !.body = <<cell>>])
        \/ reader.stage = "tail" /\ HeaderRead(cell)
        \/ reader.stage = "body" /\ BodyRead(cell)
    /\ pipe' = Tail(pipe)
    /\ UNCHANGED <<route, count, writing, foreign, past>>

(* A clean end only before the first byte of a message. *)
ReadEnd ==
    /\ ended = "none" /\ pipe = <<>> /\ writer # "open"
    /\ ended' = IF reader = FirstByte THEN "eof" ELSE "error"
    /\ UNCHANGED <<route, count, writing, foreign, pipe, reader, delivered, past>>

FramingInit ==
    /\ route \in {"request", "output"}
    /\ count = 0 /\ frames = <<>> /\ cells = <<>> /\ current = Bad /\ writer = "open"
    /\ foreign = FALSE
    /\ pipe = <<>> /\ reader = FirstByte /\ ended = "none"
    /\ delivered = <<>> /\ sent = <<>> /\ begun = FALSE

FramingNext ==
    \/ Call \/ Output \/ NextFrame \/ WriteCell \/ Crash \/ Close \/ Foreign
    \/ Read \/ ReadEnd

FramingSpec == FramingInit /\ [][FramingNext]_framingVars
=============================================================================
