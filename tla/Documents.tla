------------------------------- MODULE Documents -------------------------------
(***************************************************************************)
(* The source documents of the workbench (workbench/controller.svelte.ts), *)
(* their builds, what is loaded, and the copy kept for recovery.           *)
(*                                                                         *)
(* A document is an object that keeps its place while its identity may     *)
(* change.  One build and one load are awaited at a time; edits, switches, *)
(* closes, failures of the connection and reloads of the page come in      *)
(* between.  An artifact carries the identity it was asked for and, as     *)
(* history, the source it was assembled from.                              *)
(***************************************************************************)
EXTENDS Naturals, Sequences, FiniteSets, SequencesExt

CONSTANTS
    Sources,           (* texts; Blank is the empty one                 *)
    Blank,
    Oversized,         (* texts of more than 256 KiB                    *)
    Settings,          (* target, base, completion and budget: the form *)
    Place,             (* the target and the base address each names    *)
    Unfinished,        (* settings whose base is not an address yet     *)
    Overlong,          (* settings with a text too long to be kept      *)
    LastRevision,      (* 2^64 - 1                                      *)
    MaxIds,            (* bound: identifiers ever drawn                 *)
    MaxOpen            (* bound: documents open at once                 *)

ASSUME DocumentsAssumption ==
    /\ Blank \in Sources /\ Oversized \subseteq Sources \ {Blank}
    /\ Unfinished \subseteq Settings /\ Overlong \subseteq Settings
    /\ Unfinished \cup Overlong # Settings
    /\ LastRevision \in Nat \ {0} /\ MaxIds \in Nat \ {0} /\ MaxOpen \in Nat \ {0}

VARIABLES
    documents,         (* SourceDocument objects, in order              *)
    active,            (* the object shown                              *)
    building,          (* the assemble awaited, or NoBuild              *)
    loading,           (* the source load awaited, or Nothing           *)
    loaded,            (* what the machine was loaded from, or Nothing  *)
    connected,         (* connected to a worker                         *)
    saved,             (* localStorage                                  *)
    unsaved,           (* the save timer is running                     *)
    storageFailed,     (* the last save, or the recovery, failed        *)
    drawn              (* identifiers and objects drawn so far          *)

worker == <<building, loading, loaded, connected>>
storage == <<saved, unsaved, storageFailed>>
documentsVars == <<documents, active, worker, storage, drawn>>

Nothing == [identity |-> <<>>, source |-> Blank]
NoBuild == [object |-> 0, identity |-> <<>>, source |-> Blank]

(* newDocument and SourceDocument. *)
NewDocument(id, settings) ==
    [object |-> id, id |-> id, revision |-> 0, source |-> Blank, settings |-> settings,
     candidate |-> Nothing, failure |-> Nothing]

Objects == {documents[i].object : i \in DOMAIN documents}
Index(object) == CHOOSE i \in DOMAIN documents : documents[i].object = object
Document(object) == documents[Index(object)]
Active == Document(active)

(* identity() needs an address for the base. *)
HasIdentity(d) == d.settings \notin Unfinished

Identity(d) == [document |-> d.id, revision |-> d.revision, place |-> Place[d.settings]]
Matches(identity, d) == HasIdentity(d) /\ identity = Identity(d)

With(object, d) == [documents EXCEPT ![Index(object)] = d]

-----------------------------------------------------------------------------
(* Editing.  Every edit schedules a save.                                  *)

Persist == unsaved' = TRUE /\ UNCHANGED <<saved, storageFailed>>

(* Mutant of Revised: the revision starts again in the same document. *)
RevisedWrapped(d) ==
    IF d.revision = LastRevision THEN [d EXCEPT !.revision = 0]
    ELSE [d EXCEPT !.revision = @ + 1]

(* A document that used up its revisions becomes another one. *)
Revised(d) ==
    IF d.revision = LastRevision THEN [d EXCEPT !.id = drawn + 1, !.revision = 0]
    ELSE [d EXCEPT !.revision = @ + 1]

SetSource ==
    /\ \E text \in Sources \ {Active.source} :
        documents' = With(active, [Revised(Active) EXCEPT !.source = text])
    /\ IF Active.revision = LastRevision THEN drawn < MaxIds /\ drawn' = drawn + 1
       ELSE UNCHANGED drawn
    /\ Persist
    /\ UNCHANGED <<active, worker>>

(* A field of the form is set, or the document is renamed: names, which    *)
(* are kept within their bounds, are left out.                             *)
Configure ==
    /\ \E settings \in Settings :
        documents' = With(active, [Active EXCEPT !.settings = settings])
    /\ Persist
    /\ UNCHANGED <<active, worker, drawn>>

SelectDocument ==
    /\ \E object \in Objects \ {active} : active' = object
    /\ Persist
    /\ UNCHANGED <<documents, worker, drawn>>

Defaults == Settings \ (Unfinished \cup Overlong)
Default == CHOOSE s \in Defaults : TRUE

(* The new document takes over the target that was shown. *)
CreateDocument ==
    /\ drawn < MaxIds /\ Len(documents) < MaxOpen
    /\ \E settings \in Defaults :
        documents' = Append(documents, NewDocument(drawn + 1, settings))
    /\ active' = drawn + 1 /\ drawn' = drawn + 1
    /\ Persist
    /\ UNCHANGED worker

Lesser(a, b) == IF a < b THEN a ELSE b

(* Closing the shown document shows its neighbour; a last one is replaced. *)
(* The filter by identity leaves out one document: no two have the same.   *)
CloseDocument ==
    /\ \E object \in Objects :
        LET rest == RemoveAt(documents, Index(object)) IN
        IF rest = <<>>
        THEN /\ drawn < MaxIds /\ drawn' = drawn + 1
             /\ documents' = <<NewDocument(drawn + 1, Default)>>
             /\ active' = drawn + 1
        ELSE /\ documents' = rest
             /\ active' = IF object = active
                          THEN rest[Lesser(Index(object), Len(rest))].object ELSE active
             /\ UNCHANGED drawn
    /\ Persist
    /\ UNCHANGED worker

-----------------------------------------------------------------------------
(* Building: the document and its identity are taken before the call.      *)

Building == building # NoBuild

Assemble ==
    /\ connected /\ ~Building
    /\ HasIdentity(Active)
    /\ building' = [object |-> active, identity |-> Identity(Active), source |-> Active.source]
    /\ documents' = With(active, [Active EXCEPT !.failure = Nothing])
    /\ UNCHANGED <<active, loading, loaded, connected, storage, drawn>>

(* The answer still belongs to its document.  The worker refuses to        *)
(* assemble an oversized source.                                           *)
Wanted(object) == object \in Objects /\ Matches(building.identity, Document(object))

Result(object) == [identity |-> building.identity, source |-> building.source]

Assembled ==
    /\ Building
    /\ LET object == building.object IN
        IF Wanted(object)
        THEN \/ /\ building.source \notin Oversized
                /\ documents' = With(object, [Document(object) EXCEPT !.candidate = Result(object)])
             \/ documents' = With(object, [Document(object) EXCEPT !.failure = Result(object)])
        ELSE UNCHANGED documents
    /\ building' = NoBuild
    /\ UNCHANGED <<active, loading, loaded, connected, storage, drawn>>

(* The call fails, or the reply is not about this build: it is reported. *)
BuildFails ==
    /\ Building
    /\ building' = NoBuild
    /\ UNCHANGED <<documents, active, loading, loaded, connected, storage, drawn>>

-----------------------------------------------------------------------------
(* Loading, and the connection.                                            *)

Load ==
    /\ connected /\ loading = Nothing
    /\ Active.candidate # Nothing
    /\ Matches(Active.candidate.identity, Active)
    /\ loading' = Active.candidate
    /\ UNCHANGED <<documents, active, building, loaded, connected, storage, drawn>>

Loaded ==
    /\ loading # Nothing
    /\ loaded' \in {loading, loaded}      \* or the worker refuses
    /\ loading' = Nothing
    /\ UNCHANGED <<documents, active, building, connected, storage, drawn>>

(* The session is closed. *)
Unload ==
    /\ connected /\ loading = Nothing
    /\ loaded' = Nothing
    /\ UNCHANGED <<documents, active, building, loading, connected, storage, drawn>>

(* The worker is lost: its calls fail, and so does what it had loaded. *)
Failed ==
    /\ connected
    /\ connected' = FALSE /\ loaded' = Nothing /\ building' = NoBuild /\ loading' = Nothing
    /\ UNCHANGED <<documents, active, storage, drawn>>

(* A session the worker retained is not taken for a known source. *)
Connect ==
    /\ ~connected
    /\ connected' = TRUE /\ loaded' = Nothing
    /\ documents' = With(active, [Active EXCEPT !.failure = Nothing])
    /\ UNCHANGED <<active, building, loading, storage, drawn>>

-----------------------------------------------------------------------------
(* Recovery.                                                               *)

Draft(d) == [id |-> d.id, revision |-> d.revision, source |-> d.source, settings |-> d.settings]
NeverSaved == [active |-> 0, drafts |-> <<>>]
Workspace == [active |-> Active.id, drafts |-> [i \in DOMAIN documents |-> Draft(documents[i])]]

(* Some document, each once, the active one among them. *)
Ordered(workspace) ==
    LET ids == {workspace.drafts[i].id : i \in DOMAIN workspace.drafts} IN
    /\ workspace.drafts # <<>>
    /\ Cardinality(ids) = Len(workspace.drafts)
    /\ workspace.active \in ids

(* readScratch: nothing bounds what is edited, but a draft has bounds. *)
InBounds(draft) == draft.source \notin Oversized /\ draft.settings \notin Overlong

(* readWorkspace, when it is written and when it is read. *)
Readable(workspace) ==
    Ordered(workspace) /\ \A i \in DOMAIN workspace.drafts : InBounds(workspace.drafts[i])

(* Mutant of Save: the workspace is written as it is. *)
SaveUnchecked ==
    /\ unsaved /\ unsaved' = FALSE
    /\ \/ saved' = Workspace /\ storageFailed' = FALSE
       \/ saved' = saved /\ storageFailed' = TRUE
    /\ UNCHANGED <<documents, active, worker, drawn>>

(* The timer fires.  An unreadable workspace is not written, and the quota *)
(* of the storage may refuse any: the last copy stays, and it is reported. *)
Save ==
    /\ unsaved /\ unsaved' = FALSE
    /\ \/ Readable(Workspace) /\ saved' = Workspace /\ storageFailed' = FALSE
       \/ saved' = saved /\ storageFailed' = TRUE
    /\ UNCHANGED <<documents, active, worker, drawn>>

Restored(draft) ==
    [NewDocument(draft.id, draft.settings) EXCEPT !.revision = draft.revision,
                                                  !.source = draft.source]

(* The page is loaded again, perhaps before the last edits were saved, and *)
(* recovers the whole copy or, if it is damaged, nothing of it.            *)
Recovered == saved # NeverSaved /\ Readable(saved)

Reload ==
    /\ building' = NoBuild /\ loading' = Nothing /\ loaded' = Nothing /\ connected' = FALSE
    /\ unsaved' = FALSE /\ storageFailed' = (saved # NeverSaved /\ ~Recovered)
    /\ IF Recovered
       THEN /\ documents' = [i \in DOMAIN saved.drafts |-> Restored(saved.drafts[i])]
            /\ active' = saved.active
            /\ UNCHANGED drawn
       ELSE /\ drawn < MaxIds /\ drawn' = drawn + 1
            /\ documents' = <<NewDocument(drawn + 1, Default)>>
            /\ active' = drawn + 1
    /\ UNCHANGED saved

DocumentsInit ==
    /\ documents = <<NewDocument(1, Default)>> /\ active = 1 /\ drawn = 1
    /\ building = NoBuild /\ loading = Nothing /\ loaded = Nothing /\ connected = FALSE
    /\ saved = NeverSaved /\ unsaved = FALSE /\ storageFailed = FALSE

DocumentsNext ==
    \/ SetSource \/ Configure \/ SelectDocument \/ CreateDocument \/ CloseDocument
    \/ Assemble \/ Assembled \/ BuildFails \/ Load \/ Loaded \/ Unload \/ Failed \/ Connect
    \/ Save \/ Reload

DocumentsSpec == DocumentsInit /\ [][DocumentsNext]_documentsVars
=============================================================================
