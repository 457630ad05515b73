-------------------------- MODULE DocumentsProperties --------------------------
(* What the workbench promises about its documents and their builds. *)
EXTENDS Documents

(* The document of the identity, as loadedCurrent finds it. *)
Open(identity) == {i \in DOMAIN documents : Matches(identity, documents[i])}

(* Whatever is presented as the build of a document, or as loaded from it, *)
(* was assembled from the source that it shows: a late answer, an answer   *)
(* for a document switched away from, changed, closed or replaced since,   *)
(* and a copy recovered without its last edits never pass for it.          *)
(* (matches, artifactCurrent, loadedCurrent, diagnostic; sourceMap and     *)
(* runToSource translate lines by them)                                    *)
ShownIsOfSource ==
    \A i \in DOMAIN documents :
        LET d == documents[i] IN
        \A result \in {d.candidate, d.failure, loaded, loading} :
            result # Nothing /\ Matches(result.identity, d) => result.source = d.source

(* Nothing but the size of a source, the length of a field or the quota of *)
(* the storage can stop the documents from being saved: they are never     *)
(* empty, no two have the same identity, and the one shown is one of them. *)
(* The copy that is kept can always be read back whole, whatever was edited*)
(* since it was written.  And what is on the screen is that copy, unless it*)
(* is still to be saved, a failure to save it is reported, or nothing was  *)
(* ever edited.  (setSource, closeDocument, save, initialize;              *)
(* architecture.md:258-262, "Invalid or oversized edits and quota failures *)
(* preserve the last recoverable copy")                                    *)
Untouched ==
    saved = NeverSaved /\ Workspace.drafts = <<Draft(NewDocument(active, Default))>>

Recoverable ==
    /\ active \in Objects /\ Ordered(Workspace)
    /\ saved # NeverSaved => Readable(saved)
    /\ unsaved \/ storageFailed \/ saved = Workspace \/ Untouched
=============================================================================
