------------------------------ MODULE Documents ------------------------------
(***************************************************************************)
(* One document of the document service (services/document): its row, its  *)
(* version rows, the objects in storage and the presigned PUT URLs that    *)
(* clients hold.  Every repository or storage call is a step of its own.   *)
(*                                                                         *)
(* The storage key of version v is determined by v, so v stands for it.    *)
(* An upload is identified by its number, which also stands for the size   *)
(* Stat reports: no two uploads have the same size, and none is empty.     *)
(***************************************************************************)
EXTENDS Integers, FiniteSets

CONSTANTS
    Callers,      \* calls in progress
    Folders,      \* the tenant's folders
    MaxVersion,   \* bound on version numbers
    MaxUploads    \* bound on PUTs

ASSUME DocumentsAssumption ==
    /\ MaxVersion \in Nat \ {0} /\ MaxUploads \in Nat
    /\ "none" \notin Folders

VARIABLES
    doc,        \* the documents row
    deleted,    \* its deleted_at is set
    versions,   \* document_versions: the row of each version, NoVersion if none
    objects,    \* the upload each storage key holds, 0 for none
    urls,       \* presigned PUT URLs held for each key, not used or expired yet
    uploads,    \* PUTs so far
    caller,     \* the calls in progress
    reissued,   \* history: keys for which more than one PUT URL was handed out
    behind      \* history: why the row may lag behind the newest version

docVars == <<doc, deleted, versions, objects, urls, uploads, caller, reissued, behind>>

Versions == 1 .. MaxVersion
NoVersion == [key |-> 0, size |-> 0]
Document == [size : 0 .. MaxUploads, folder : Folders \union {"none"},
             key : 0 .. MaxVersion, version : 0 .. MaxVersion]
NoDocument == [size |-> 0, folder |-> "none", key |-> 0, version |-> 0]

\* A call that is about to take step op, for a version, with the row it has read.
Working(op, d, version) == [op |-> op, doc |-> d, version |-> version, size |-> 0, stale |-> FALSE]
Resting == Working("none", NoDocument, 0)

Call == [op : {"none", "uploadStat", "uploadUpdate", "uploadVersion", "moveUpdate", "softDelete",
               "versionStat", "versionInsert", "versionUpdate", "restoreUpdate"},
         doc : Document, version : 0 .. MaxVersion, size : 0 .. MaxUploads, stale : BOOLEAN]

DocumentsTypeOK ==
    /\ doc \in Document /\ (doc # NoDocument => {doc.version, doc.key} \subseteq Versions)
    /\ deleted \in BOOLEAN
    /\ versions \in [Versions -> [key : 0 .. MaxVersion, size : 0 .. MaxUploads]]
    /\ objects \in [Versions -> 0 .. MaxUploads] /\ uploads \in 0 .. MaxUploads
    /\ urls \in [Versions -> 0 .. 2]
    /\ caller \in [Callers -> Call]
    /\ reissued \subseteq Versions /\ behind \subseteq {"restored", "stopped", "overtaken"}

DocumentsInit ==
    /\ doc = NoDocument /\ deleted = FALSE
    /\ versions = [v \in Versions |-> NoVersion]
    /\ objects = [v \in Versions |-> 0] /\ urls = [v \in Versions |-> 0] /\ uploads = 0
    /\ caller = [c \in Callers |-> Resting]
    /\ reissued = {} /\ behind = {}

Recorded == {v \in Versions : versions[v] # NoVersion}

\* GetDocument: the row, unless it is deleted.
GetDocument(c, op, version) ==
    /\ caller[c].op = "none" /\ doc # NoDocument /\ ~deleted
    /\ caller' = [caller EXCEPT ![c] = Working(op, doc, version)]

Move(c, op) == caller' = [caller EXCEPT ![c].op = op]
Return(c) == caller' = [caller EXCEPT ![c] = Resting]

PresignedPutURL(key) ==
    /\ urls[key] < 2
    /\ urls' = [urls EXCEPT ![key] = @ + 1]
    /\ reissued' = IF urls[key] > 0 \/ objects[key] > 0 THEN reissued \union {key} ELSE reissued

\* UpdateDocument writes every mutable column of the row the call read before.
\* Other calls now hold a row that is older than the one stored.
UpdateDocument(c, new, next) ==
    /\ doc' = new
    /\ caller' = [d \in Callers |->
                    IF d = c THEN next
                    ELSE [caller[d] EXCEPT !.stale = @ \/ (caller[d].op # "none" /\ new # doc)]]
    /\ behind' = IF caller[c].stale THEN behind \union {"overtaken"} ELSE behind

-----------------------------------------------------------------------------
(* Uploading                                                               *)

InitiateUpload(folder) ==
    /\ doc = NoDocument
    /\ doc' = [size |-> 0, folder |-> folder, key |-> 1, version |-> 1]
    /\ PresignedPutURL(1)
    /\ UNCHANGED <<deleted, versions, objects, uploads, caller, behind>>

\* The client uses a URL, once.
Put(key) ==
    /\ urls[key] > 0 /\ uploads < MaxUploads
    /\ uploads' = uploads + 1
    /\ objects' = [objects EXCEPT ![key] = uploads + 1]
    /\ urls' = [urls EXCEPT ![key] = @ - 1]
    /\ UNCHANGED <<doc, deleted, versions, caller, reissued, behind>>

URLExpires(key) ==
    /\ urls[key] > 0
    /\ urls' = [urls EXCEPT ![key] = @ - 1]
    /\ UNCHANGED <<doc, deleted, versions, objects, uploads, caller, reissued, behind>>

ConfirmUpload(c) ==
    /\ GetDocument(c, "uploadStat", 1)
    /\ UNCHANGED <<doc, deleted, versions, objects, urls, uploads, reissued, behind>>

\* Stat fails when there is no object.
Stat(c, key, next) ==
    /\ caller' = IF objects[key] = 0 THEN [caller EXCEPT ![c] = Resting]
                 ELSE [caller EXCEPT ![c].size = objects[key], ![c].op = next]
    /\ UNCHANGED <<doc, deleted, versions, objects, urls, uploads, reissued, behind>>

UploadStat(c) == caller[c].op = "uploadStat" /\ Stat(c, caller[c].doc.key, "uploadUpdate")

UploadUpdate(c) ==
    LET new == [caller[c].doc EXCEPT !.size = caller[c].size] IN
    /\ caller[c].op = "uploadUpdate"
    /\ UpdateDocument(c, new, [caller[c] EXCEPT !.op = "uploadVersion", !.doc = new])
    /\ UNCHANGED <<deleted, versions, objects, urls, uploads, reissued>>

\* UNIQUE (document_id, version): a row that exists makes the call fail.
InsertVersion(version, key, size) ==
    versions' = IF versions[version] = NoVersion
                THEN [versions EXCEPT ![version] = [key |-> key, size |-> size]] ELSE versions

UploadVersion(c) ==
    /\ caller[c].op = "uploadVersion"
    /\ InsertVersion(1, caller[c].doc.key, caller[c].size)
    /\ Return(c)
    /\ UNCHANGED <<doc, deleted, objects, urls, uploads, reissued, behind>>

-----------------------------------------------------------------------------
(* Moving, deleting                                                        *)

\* GetFolder finds the folder: folders are never deleted.
MoveDocument(c, folder) ==
    /\ caller[c].op = "none" /\ doc # NoDocument /\ ~deleted
    /\ caller' = [caller EXCEPT ![c] = Working("moveUpdate", [doc EXCEPT !.folder = folder], 0)]
    /\ UNCHANGED <<doc, deleted, versions, objects, urls, uploads, reissued, behind>>

MoveUpdate(c) ==
    /\ caller[c].op = "moveUpdate"
    /\ UpdateDocument(c, caller[c].doc, Resting)
    /\ UNCHANGED <<deleted, versions, objects, urls, uploads, reissued>>

DeleteDocument(c) ==
    /\ GetDocument(c, "softDelete", 0)
    /\ UNCHANGED <<doc, deleted, versions, objects, urls, uploads, reissued, behind>>

SoftDeleteDocument(c) ==
    /\ caller[c].op = "softDelete"
    /\ deleted' = TRUE /\ Return(c)
    /\ UNCHANGED <<doc, versions, objects, urls, uploads, reissued, behind>>

-----------------------------------------------------------------------------
(* Versions                                                                *)

\* Reads the row and signs a URL; nothing is stored, so one step.
CreateVersion ==
    /\ doc.size # 0 /\ ~deleted /\ doc.version < MaxVersion
    /\ PresignedPutURL(doc.version + 1)
    /\ UNCHANGED <<doc, deleted, versions, objects, uploads, caller, behind>>

\* The client names the version; any but the next one is refused.
ConfirmVersion(c, version) ==
    /\ version = doc.version + 1
    /\ GetDocument(c, "versionStat", version)
    /\ UNCHANGED <<doc, deleted, versions, objects, urls, uploads, reissued, behind>>

VersionStat(c) == caller[c].op = "versionStat" /\ Stat(c, caller[c].version, "versionInsert")

\* Mutant: the new row is given the storage key of the current version.
VersionInsertOldKey(c) ==
    /\ caller[c].op = "versionInsert"
    /\ versions' = [versions EXCEPT ![caller[c].version] = [key |-> caller[c].doc.key, size |-> caller[c].size]]
    /\ Move(c, "versionUpdate")
    /\ UNCHANGED <<doc, deleted, objects, urls, uploads, reissued, behind>>

VersionInsert(c) ==
    /\ caller[c].op = "versionInsert"
    /\ InsertVersion(caller[c].version, caller[c].version, caller[c].size)
    /\ IF versions[caller[c].version] = NoVersion THEN Move(c, "versionUpdate") ELSE Return(c)
    /\ UNCHANGED <<doc, deleted, objects, urls, uploads, reissued, behind>>

VersionUpdate(c) ==
    LET k == caller[c] IN
    /\ k.op = "versionUpdate"
    /\ UpdateDocument(c, [k.doc EXCEPT !.version = k.version, !.key = k.version, !.size = k.size], Resting)
    /\ UNCHANGED <<deleted, versions, objects, urls, uploads, reissued>>

\* The current version again is a no-op, and an unrecorded one is not found.
RestoreVersion(c, version) ==
    /\ version # doc.version /\ versions[version] # NoVersion
    /\ caller[c].op = "none" /\ doc # NoDocument /\ ~deleted
    /\ caller' = [caller EXCEPT ![c] = Working("restoreUpdate",
                    [doc EXCEPT !.version = version, !.key = versions[version].key,
                                !.size = versions[version].size], 0)]
    /\ UNCHANGED <<doc, deleted, versions, objects, urls, uploads, reissued, behind>>

RestoreUpdate(c) ==
    /\ caller[c].op = "restoreUpdate"
    /\ doc' = caller[c].doc
    /\ caller' = [d \in Callers |-> IF d = c THEN Resting
                    ELSE [caller[d] EXCEPT !.stale = caller[d].op # "none"]]
    /\ behind' = behind \union {"restored"}
    /\ UNCHANGED <<deleted, versions, objects, urls, uploads, reissued>>

\* A database or storage error, or the process dies, between two calls.
CallStops(c) ==
    /\ caller[c].op # "none"
    /\ Return(c)
    /\ behind' = IF caller[c].op \in {"uploadVersion", "versionUpdate"} THEN behind \union {"stopped"} ELSE behind
    /\ UNCHANGED <<doc, deleted, versions, objects, urls, uploads, reissued>>

DocumentsNext ==
    \/ \E f \in Folders \union {"none"} : InitiateUpload(f)
    \/ \E v \in Versions : Put(v) \/ URLExpires(v)
    \/ CreateVersion
    \/ \E c \in Callers :
         \/ ConfirmUpload(c) \/ UploadStat(c) \/ UploadUpdate(c) \/ UploadVersion(c)
         \/ \E f \in Folders : MoveDocument(c, f)
         \/ MoveUpdate(c) \/ DeleteDocument(c) \/ SoftDeleteDocument(c)
         \/ \E v \in Versions : ConfirmVersion(c, v) \/ RestoreVersion(c, v)
         \/ VersionStat(c) \/ VersionInsert(c) \/ VersionUpdate(c) \/ RestoreUpdate(c)
         \/ CallStops(c)

DocumentsSpec == DocumentsInit /\ [][DocumentsNext]_docVars

-----------------------------------------------------------------------------
(* Properties                                                              *)

\* A version row goes on naming the object that was confirmed as that version:
\* its object is still the upload whose size the row records, however calls
\* interleave, fail and are retried, unless a second URL for the same key had
\* been handed out.
VersionObjectKept ==
    \A v \in Recorded : versions[v].key \notin reissued => objects[versions[v].key] = versions[v].size

\* The row points below the newest version only because of a restore, of a
\* confirmation that stopped between its writes or is still between them, or
\* of a call that wrote back a row it had read before another call changed it.
\* Otherwise the version that CreateVersion "initiates" is a new one; after a
\* restore its URL overwrites one that is recorded.
PointerFollows ==
    \/ \A v \in Recorded : v <= doc.version
    \/ behind # {}
    \/ \E c \in Callers : caller[c].op = "versionUpdate"
=============================================================================
