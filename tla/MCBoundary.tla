------------------------------- MODULE MCBoundary -------------------------------
(***************************************************************************)
(* An instance for TLC of three parts that share no state: the documents of*)
(* the workbench, the framed stream, and the loading of images.  A         *)
(* behaviour is one of them, with the others at rest.                      *)
(***************************************************************************)
EXTENDS DocumentsProperties, FramingProperties, LoadingProperties

VARIABLE part

Init ==
    /\ part \in {"documents", "framing", "loading"}
    /\ DocumentsInit /\ FramingInit /\ LoadingInit
    /\ part # "framing" => route = "request"

Next ==
    \/ part = "documents" /\ DocumentsNext /\ UNCHANGED <<part, framingVars, loadingVars>>
    \/ part = "framing" /\ FramingNext /\ UNCHANGED <<part, documentsVars, loadingVars>>
    \/ part = "loading" /\ LoadingNext /\ UNCHANGED <<part, documentsVars, framingVars>>

Spec == Init /\ [][Next]_<<part, documentsVars, framingVars, loadingVars>>

(* Texts are only compared; the empty and the oversized are told apart. *)
TextSymmetry == Permutations(Sources \ ({Blank} \cup Oversized)) \cup Permutations(Oversized)

(* An address is told from another, not parsed. *)
MCPlace == [settings \in Settings |-> settings]

-----------------------------------------------------------------------------
(* The framed stream.                                                      *)

Shape(op, declared, carried, json) ==
    [id |-> 0, op |-> op, declared |-> declared, carried |-> carried, json |-> json]
Exact(op, lengths, json) == Shape(op, lengths, lengths, json)

(* Payloads at, below and beyond a chunk, an object and the metadata limit,*)
(* and metadata that disagrees with what is carried.                       *)
MCCalls ==
    {Exact("plain", <<>>, j) : j \in 1 .. 3} \cup {Exact("load", <<n>>, 1) : n \in 1 .. 4}
        \cup {Exact("write", <<n>>, 2) : n \in 1 .. 3} \cup {Shape("load", <<3>>, <<2>>, 1)}

MCOutputs ==
    {Exact("reply", <<>>, j) : j \in {1, 3}}
        \cup {Exact("assembled", <<a, b>>, 1) : a \in {1, 3}, b \in {2, 4}}
        \cup {Exact("observed", <<n>>, 2) : n \in {2, 3}}
        \cup {Exact("full", <<n>>, 1) : n \in {1, 2, 3}}
        \cup {Shape("delta", <<0>>, <<>>, 2), Shape("delta", <<2>>, <<1>>, 1), Exact("delta", <<2>>, 1)}

(* Headers of no kind, of no length and of too much; a payload first; text *)
(* that is no metadata; metadata with a length out of bounds, or followed  *)
(* by a chunk of another length or by another message.                     *)
Cut(kind, length) == <<<<"head", [kind |-> kind, length |-> length]>>,
                       <<"tail", [kind |-> kind, length |-> length]>>>>
Meta(op, declared) ==
    LET m == [Shape(op, declared, declared, 1) EXCEPT !.id = 9] IN Wire(Frame(Kind(m), Json(m)))
Noise(n) == [i \in 1 .. n |-> <<"data", 9, 1, i>>]
MCStrange ==
    {Cut("other", 1), Cut("control", 0), Cut("control", 3),
     Wire(Frame("binary", Noise(1))), Wire(Frame("control", Noise(2))),
     Meta("assembled", <<1, 4>>), Meta("full", <<3>>),
     Meta("load", <<3>>) \o Wire(Frame("binary", Noise(1))),
     Meta("observed", <<2>>) \o Meta("reply", <<>>)}
-----------------------------------------------------------------------------
(* Images.                                                                 *)

LoadHeader(start, offset, size, filesize, align, flags) ==
    [type |-> "load", start |-> start, offset |-> offset, size |-> size,
     filesize |-> filesize, align |-> align, flags |-> flags]

(* Segments of up to three bytes at every address, with and without a zero *)
(* tail, of code or of data; one more than the file has, one that is not   *)
(* congruent to its place in the file, one of an unknown permission; and   *)
(* headers of other types.                                                 *)
MCHeaders ==
    {h \in {LoadHeader(a, a % 2, size, filesize, 0, flags) :
                a \in Addresses, size \in 0 .. 3, filesize \in 0 .. 3, flags \in {{"r", "x"}, {"r", "w"}}} :
        h.filesize \in {1, h.size}}
    \cup {LoadHeader(2, 4, 2, 2, 1, {"r"}), LoadHeader(2, 1, 1, 1, 2, {"r"}), LoadHeader(2, 0, 1, 1, 3, {"r"}),
          LoadHeader(2, 0, 1, 1, 1, {"r", "other"}), LoadHeader(6, 0, 2, 1, 4, {"r"})}
    \cup {[type |-> t, start |-> 0, offset |-> 0, size |-> n, filesize |-> 0, align |-> 1, flags |-> f] :
            t \in {"note", "stack", "dynamic"}, n \in {0}, f \in {{"r"}, {"r", "x"}}}

MCEntries == {2, 3}
MCRaws == {[base |-> b, length |-> n] : b \in Addresses, n \in 0 .. 5}
Addition(a, n, k) ==
    [range |-> AddressRange(a, n), permissions |-> {}, initial |-> [i \in 1 .. k |-> 9]]
MCAdditions == {Addition(2, 4, 3), Addition(3, 2, 1), Addition(4, 2, 2), Addition(4, 2, 3)}
=============================================================================
