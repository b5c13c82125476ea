------------------------------ MODULE RagIndex ------------------------------
(***************************************************************************)
(* Documents of a RAG collection: api/routers/rag.py and the index_document*)
(* and delete_document_points of services/rag.py.                          *)
(*                                                                         *)
(* A document lives in three places that no transaction spans: its row in  *)
(* PostgreSQL, its points in Qdrant and its file on disk.  The Qdrant      *)
(* client and the file calls are synchronous, so they are one step with    *)
(* the code around them; every SELECT, COMMIT and embedding is an await,   *)
(* and a delete of the document, a failure or a restart may come there.    *)
(* chunk_text has no await: while it cuts, the event loop does nothing     *)
(* else.                                                                   *)
(***************************************************************************)
EXTENDS Integers

CONSTANTS
    Docs,       \* documents, each submitted once (fresh uuid4)
    Deletes,    \* DELETE requests in flight at the same time
    None,
    Extents,    \* lengths of a text; 0: it has nothing but blanks
    Chunkings,  \* CHUNK_SIZE and CHUNK_OVERLAP, which nothing compares
    CutBound    \* bound: chunks that are counted of one text

ASSUME NoneAssumption == None \notin Docs

ASSUME ChunkingAssumption ==
    /\ Extents \subseteq Nat
    /\ Chunkings \subseteq [size : Nat \ {0}, overlap : Nat]
    /\ CutBound \in Nat
    /\ \A n \in Extents : n < CutBound

VARIABLES
    row,        \* documents.status, "none" where there is no row
    points,     \* documents with points in Qdrant
    files,      \* documents with a file under settings.upload_dir
    collection, \* the Qdrant collection exists
    creation,   \* where the request that creates the collection is
    chunking,   \* settings.chunk_size and chunk_overlap
    extent,     \* length of a document's text
    start,      \* where its next chunk starts
    covered,    \* the positions of its text that its chunks hold
    kind,       \* "upload" or "path" (index-path: the file is not ours)
    idx,        \* where the request that submits a document is
    del,        \* where a DELETE request is
    victim,     \* the document it deletes
    (***********************************************************************)
    (* History, read by no action.                                         *)
    (***********************************************************************)
    cuts,       \* chunks that have been cut, counted up to CutBound
    overlapped, \* a DELETE found the row while the document was indexed
    interrupted,\* a restart or a failing database hit the submission
    purged,     \* a DELETE has removed the points
    deleted     \* a DELETE has answered 204

store == <<row, points, files, collection>>
ghosts == <<overlapped, interrupted, purged, deleted>>
text == <<chunking, extent, kind>>
chunks == <<start, covered, cuts>>
vars == <<store, creation, text, chunks, idx, del, victim, ghosts>>

Indexing == {"refresh", "chunk", "cut", "embed", "upsert", "commit", "commitEmpty", "handle"}
Submitting == Indexing \cup {"store", "insert"}
Settled == {"done", "rejected", "failed"}

TypeOK ==
    /\ row \in [Docs -> {"none", "processing", "indexed", "empty", "error"}]
    /\ points \subseteq Docs
    /\ files \subseteq {d \in Docs : kind[d] = "upload"}
    /\ collection \in BOOLEAN
    /\ creation \in {"new", "ensure", "done", "failed"}
    /\ chunking \in Chunkings
    /\ extent \in [Docs -> Extents]
    /\ start \in [Docs -> Nat]
    /\ covered \in [Docs -> SUBSET Nat]
    /\ cuts \in [Docs -> 0..CutBound]
    /\ kind \in [Docs -> {"upload", "path"}]
    /\ idx \in [Docs -> Submitting \cup Settled \cup {"new"}]
    /\ del \in [Deletes -> {"idle", "purge", "commit"}]
    /\ victim \in [Deletes -> Docs \cup {None}]
    /\ \A x \in Deletes : del[x] # "idle" => victim[x] \in Docs
    /\ overlapped \subseteq Docs
    /\ interrupted \subseteq Docs
    /\ purged \subseteq Docs
    /\ deleted \subseteq Docs

Init ==
    /\ row = [d \in Docs |-> "none"]
    /\ points = {}
    /\ files = {}
    /\ collection = FALSE
    /\ creation = "new"
    /\ chunking \in Chunkings
    /\ extent \in [Docs -> Extents]
    /\ start = [d \in Docs |-> 0]
    /\ covered = [d \in Docs |-> {}]
    /\ cuts = [d \in Docs |-> 0]
    /\ kind \in [Docs -> {"upload", "path"}]
    /\ idx = [d \in Docs |-> "new"]
    /\ del = [x \in Deletes |-> "idle"]
    /\ victim = [x \in Deletes |-> None]
    /\ overlapped = {}
    /\ interrupted = {}
    /\ purged = {}
    /\ deleted = {}

Goto(d, label) ==
    /\ idx' = [idx EXCEPT ![d] = label]
    /\ UNCHANGED <<creation, text, del, victim>>

SetRow(d, status) == row' = [row EXCEPT ![d] = status]

(***************************************************************************)
(* POST /api/rag/collections commits the collection's row and only then    *)
(* creates the Qdrant collection; if that fails the caller gets a 500 and  *)
(* the row stays (index_document creates the missing collection).          *)
(***************************************************************************)
InsertCollection ==
    /\ creation = "new"
    /\ creation' = "ensure"
    /\ UNCHANGED <<store, text, chunks, idx, del, victim, ghosts>>

EnsureCollectionLater ==
    /\ creation = "ensure"
    /\ creation' = "done"
    /\ UNCHANGED <<store, text, chunks, idx, del, victim, ghosts>>

EnsureCollection ==
    /\ creation = "ensure"
    /\ creation' = "done"
    /\ collection' = TRUE
    /\ UNCHANGED <<row, points, files, text, chunks, idx, del, victim, ghosts>>

\* db.refresh or Qdrant raises.
EnsureRaises ==
    /\ creation = "ensure"
    /\ creation' = "failed"
    /\ UNCHANGED <<store, text, chunks, idx, del, victim, ghosts>>

(***************************************************************************)
(* upload_document and index_git_path, up to the row.                      *)
(***************************************************************************)
SubmitStoringAlways(d) ==
    /\ idx[d] = "new"
    /\ creation # "new"
    /\ Goto(d, "store")
    /\ UNCHANGED <<store, chunks, ghosts>>

Submit(d) ==
    /\ idx[d] = "new"
    /\ creation # "new"
    /\ Goto(d, IF kind[d] = "upload" THEN "store" ELSE "insert")
    /\ UNCHANGED <<store, chunks, ghosts>>

\* The file is written before its type is looked at and before it is parsed.
StoreFile(d) ==
    /\ idx[d] = "store"
    /\ files' = files \cup {d}
    /\ \E label \in {"insert", "rejected"} : Goto(d, label)
    /\ UNCHANGED <<row, points, collection, chunks, ghosts>>

InsertRow(d) ==
    /\ idx[d] = "insert"
    /\ SetRow(d, "processing")
    /\ Goto(d, "refresh")
    /\ UNCHANGED <<points, files, collection, chunks, ghosts>>

\* db.refresh raises if the row is gone; this is outside the try block.
RefreshRow(d) ==
    /\ idx[d] = "refresh"
    /\ Goto(d, IF row[d] = "none" THEN "failed" ELSE "chunk")
    /\ UNCHANGED <<store, chunks, ghosts>>

(***************************************************************************)
(* index_document                                                          *)
(***************************************************************************)
Chunk(d) ==
    /\ idx[d] = "chunk"
    /\ Goto(d, IF extent[d] = 0 THEN "commitEmpty" ELSE "cut")
    /\ UNCHANGED <<store, chunks, ghosts>>

(***************************************************************************)
(* One round of chunk_text: the next chunk starts overlap characters       *)
(* before the end of this one.                                             *)
(***************************************************************************)
Least(m, n) == IF m < n THEN m ELSE n

End(d) == Least(start[d] + chunking.size, extent[d])

FollowingEarlier(d) == LET s == End(d) - chunking.overlap - 1 IN IF s < 0 THEN 0 ELSE s

Following(d) == LET s == End(d) - chunking.overlap IN IF s < 0 THEN 0 ELSE s

Cut(d) ==
    /\ idx[d] = "cut"
    /\ covered' = [covered EXCEPT ![d] = @ \cup start[d]..(End(d) - 1)]
    /\ cuts' = [cuts EXCEPT ![d] = Least(@ + 1, CutBound)]
    /\ IF End(d) = extent[d]
       THEN Goto(d, "embed") /\ UNCHANGED start
       ELSE /\ start' = [start EXCEPT ![d] = Following(d)]
            /\ Goto(d, "cut")
    /\ UNCHANGED <<store, ghosts>>

\* The first vector, then ensure_collection, then the other vectors.
Embed(d) ==
    /\ idx[d] = "embed"
    /\ collection' = TRUE
    /\ Goto(d, "upsert")
    /\ UNCHANGED <<row, points, files, chunks, ghosts>>

Upsert(d) ==
    /\ idx[d] = "upsert"
    /\ points' = points \cup {d}
    /\ Goto(d, "commit")
    /\ UNCHANGED <<row, files, collection, chunks, ghosts>>

\* The UPDATE of a row that a DELETE took away matches nothing: the ORM
\* raises, and the handler's own commit raises again.
CommitReinserting(d, status) ==
    /\ SetRow(d, status)
    /\ Goto(d, "done")

CommitStatus(d, status) ==
    IF row[d] = "none"
    THEN Goto(d, "failed") /\ UNCHANGED row
    ELSE SetRow(d, status) /\ Goto(d, IF status = "error" THEN "failed" ELSE "done")

CommitIndexed(d) ==
    /\ idx[d] = "commit"
    /\ CommitStatus(d, "indexed")
    /\ UNCHANGED <<points, files, collection, chunks, ghosts>>

CommitEmpty(d) ==
    /\ idx[d] = "commitEmpty"
    /\ CommitStatus(d, "empty")
    /\ UNCHANGED <<points, files, collection, chunks, ghosts>>

(***************************************************************************)
(* Failures.  Ollama or Qdrant raise: upload_document catches it and       *)
(* records the error, index_git_path does not.  An upsert may have been    *)
(* applied although it raised.                                             *)
(***************************************************************************)
IndexRaisesUncaught(d) ==
    /\ idx[d] \in {"embed", "upsert"}
    /\ points' \in IF idx[d] = "upsert" THEN {points, points \cup {d}} ELSE {points}
    /\ Goto(d, "failed")
    /\ UNCHANGED <<row, files, collection, chunks, ghosts>>

IndexRaisesSwallowed(d) ==
    /\ idx[d] \in {"embed", "upsert"}
    /\ Goto(d, "commit")
    /\ UNCHANGED <<store, chunks, ghosts>>

IndexRaises(d) ==
    /\ idx[d] \in {"embed", "upsert"}
    /\ points' \in IF idx[d] = "upsert" THEN {points, points \cup {d}} ELSE {points}
    /\ Goto(d, IF kind[d] = "upload" THEN "handle" ELSE "failed")
    /\ UNCHANGED <<row, files, collection, chunks, ghosts>>

RecordError(d) ==
    /\ idx[d] = "handle"
    /\ CommitStatus(d, "error")
    /\ UNCHANGED <<points, files, collection, chunks, ghosts>>

\* A commit or a refresh raises.  Where index_document's commit failed the
\* session needs a rollback first, so the handler's commit fails as well.
DatabaseFails(d) ==
    /\ idx[d] \in {"insert", "refresh", "commit", "commitEmpty", "handle"}
    /\ interrupted' = interrupted \cup {d}
    /\ Goto(d, "failed")
    /\ UNCHANGED <<store, chunks, overlapped, purged, deleted>>

(***************************************************************************)
(* delete_document: SELECT the row, then remove points and file, then      *)
(* delete the row.                                                         *)
(***************************************************************************)
DeleteRead(x, d) ==
    /\ del[x] = "idle"
    /\ row[d] # "none"
    /\ del' = [del EXCEPT ![x] = "purge"]
    /\ victim' = [victim EXCEPT ![x] = d]
    /\ overlapped' = IF idx[d] \in Indexing THEN overlapped \cup {d} ELSE overlapped
    /\ UNCHANGED <<store, creation, text, chunks, idx, interrupted, purged, deleted>>

Purge(x, itsPoints, itsFile) ==
    /\ del[x] = "purge"
    /\ collection
    /\ points' = points \ itsPoints
    /\ files' = files \ itsFile
    /\ purged' = purged \cup {victim[x]}
    /\ del' = [del EXCEPT ![x] = "commit"]
    /\ UNCHANGED <<row, collection, creation, text, chunks, idx, victim,
                   overlapped, interrupted, deleted>>

DeletePurgeFileOnly(x) == Purge(x, {}, {victim[x]})

DeletePurgePointsOnly(x) == Purge(x, {victim[x]}, {})

DeletePurge(x) == Purge(x, {victim[x]}, {victim[x]})

\* Qdrant raises, before or after it removed the points; it always does
\* where the collection is missing.
DeletePurgeRaises(x) ==
    /\ del[x] = "purge"
    /\ \E gone \in SUBSET {victim[x]} :
        /\ points' = points \ gone
        /\ purged' = purged \cup gone
    /\ del' = [del EXCEPT ![x] = "idle"]
    /\ UNCHANGED <<row, files, collection, creation, text, chunks, idx, victim,
                   overlapped, interrupted, deleted>>

DeleteCommit(x) ==
    LET d == victim[x]
    IN  /\ del[x] = "commit"
        /\ SetRow(d, "none")
        /\ deleted' = deleted \cup {d}
        /\ del' = [del EXCEPT ![x] = "idle"]
        /\ UNCHANGED <<points, files, collection, creation, text, chunks, idx, victim,
                       overlapped, interrupted, purged>>

DeleteCommitFails(x) ==
    /\ del[x] = "commit"
    /\ del' = [del EXCEPT ![x] = "idle"]
    /\ UNCHANGED <<store, creation, text, chunks, idx, victim, ghosts>>

(***************************************************************************)
(* The backend restarts.  Nothing resumes or repairs what was under way.   *)
(***************************************************************************)
Crash ==
    LET hit == {d \in Docs : idx[d] \in Submitting}
    IN  /\ idx' = [d \in Docs |-> IF d \in hit THEN "failed" ELSE idx[d]]
        /\ del' = [x \in Deletes |-> "idle"]
        /\ creation' = IF creation = "ensure" THEN "failed" ELSE creation
        /\ start' = [d \in Docs |-> IF idx[d] = "cut" THEN 0 ELSE start[d]]
        /\ covered' = [d \in Docs |-> IF idx[d] = "cut" THEN {} ELSE covered[d]]
        /\ cuts' = [d \in Docs |-> IF idx[d] = "cut" THEN 0 ELSE cuts[d]]
        /\ interrupted' = interrupted \cup hit
        /\ UNCHANGED <<store, text, victim, overlapped, purged, deleted>>

Submission(d) ==
    \/ Submit(d)
    \/ StoreFile(d)
    \/ InsertRow(d)
    \/ RefreshRow(d)
    \/ Chunk(d)
    \/ Embed(d)
    \/ Upsert(d)
    \/ CommitIndexed(d)
    \/ CommitEmpty(d)
    \/ IndexRaises(d)
    \/ RecordError(d)
    \/ DatabaseFails(d)

Deletion(x) ==
    \/ \E d \in Docs : DeleteRead(x, d)
    \/ DeletePurge(x)
    \/ DeletePurgeRaises(x)
    \/ DeleteCommit(x)
    \/ DeleteCommitFails(x)

Creation ==
    \/ InsertCollection
    \/ EnsureCollection
    \/ EnsureRaises

\* No handler runs while chunk_text does.
LoopIsFree == \A d \in Docs : idx[d] # "cut"

Next ==
    \/ LoopIsFree /\ \E d \in Docs : Submission(d)
    \/ LoopIsFree /\ \E x \in Deletes : Deletion(x)
    \/ LoopIsFree /\ Creation
    \/ \E d \in Docs : Cut(d)
    \/ Crash

Spec == Init /\ [][Next]_vars

-----------------------------------------------------------------------------
(***************************************************************************)
(* Properties                                                              *)
(***************************************************************************)

\* Points that no row accounts for (search would go on quoting the document)
\* come only from deleting a document while it was being indexed: neither a
\* restart nor a failure at any other moment leaves points behind a completed
\* delete (delete_document, index_document).
OrphansNeedOverlap ==
    \A d \in points : row[d] # "none" \/ d \in overlapped

\* A document shown as indexed can be found, by every part of its text, unless
\* a delete of it has begun and did not complete: status is committed only
\* after the upsert, and the chunks leave no gap (index_document, chunk_text).
IndexedIsSearchable ==
    \A d \in Docs : row[d] = "indexed" =>
        /\ collection
        /\ d \in points \/ d \in purged
        /\ covered[d] = 0..(extent[d] - 1)

\* With an overlap below the chunk size, a text is not cut into more chunks
\* than it has characters, so chunk_text gives the event loop back.  (With
\* CHUNK_OVERLAP >= CHUNK_SIZE a text longer than a chunk is cut for ever.)
ChunksAreBounded ==
    chunking.overlap < chunking.size => \A d \in Docs : cuts[d] <= extent[d]

\* While the Qdrant collection is missing, so that every delete in it fails,
\* its creation did not succeed and no document of it is or will be found:
\* what a failed create_collection left behind, index_document repairs.
MissingHoldsNothing ==
    ~collection =>
        /\ creation # "done"
        /\ points = {}
        /\ \A d \in Docs : row[d] # "indexed" /\ idx[d] # "commit"

\* An upload that is no longer being worked on has left `processing', unless
\* a restart or a failing database interrupted it.  (index-path has no such
\* handler: any failure of Ollama or Qdrant leaves it in `processing'.)
StuckOnlyIfInterrupted ==
    \A d \in Docs :
        row[d] = "processing" /\ idx[d] \in Settled =>
            d \in interrupted \/ kind[d] = "path"

\* A stored file that no row points to belongs to a rejected upload or to an
\* interrupted one: no order of upload and deletes leaves another one behind.
StrayFilesExplained ==
    \A d \in files :
        row[d] = "none" /\ idx[d] \in Settled =>
            idx[d] = "rejected" \/ d \in interrupted

(***************************************************************************)
(* What the users of the API see of a document, as DocumentLife has it.    *)
(***************************************************************************)
Shown ==
    [d \in Docs |-> IF row[d] = "none" /\ d \in deleted THEN "gone" ELSE row[d]]

Life == INSTANCE DocumentLife WITH status <- Shown

\* The row of a document goes through its statuses as DocumentLife says: it
\* is settled at most once, and a deleted document does not come back, even
\* if its indexing commits later (index_document, delete_document).
LifecyclePromise == Life!Spec
=============================================================================
