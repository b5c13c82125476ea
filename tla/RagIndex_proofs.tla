--------------------------- MODULE RagIndex_proofs ---------------------------
(***************************************************************************)
(* Proofs about RagIndex, for any documents and any number of deletes.     *)
(***************************************************************************)
EXTENDS RagIndex, TLAPS

Early == {"new", "store", "insert", "rejected"}

(***************************************************************************)
(* The inductive invariant.  A document that has no row yet is known to    *)
(* nobody (Unknown).  A delete that found it settled will find it settled  *)
(* until it commits, so nothing can add points between its purge and its   *)
(* commit (Quiet, Purged); if the row goes while the document is being     *)
(* indexed, then a delete overlapped it and has taken the file (Overtaken).*)
(***************************************************************************)
Unknown ==
    \A d \in Docs : idx[d] \in Early =>
        /\ row[d] = "none"
        /\ d \notin points
        /\ d \notin deleted
        /\ \A x \in Deletes : del[x] # "idle" => victim[x] # d

Kept ==
    \A d \in Docs :
        /\ idx[d] = "store" => kind[d] = "upload"
        /\ idx[d] = "new" => d \notin files

Quiet ==
    \A x \in Deletes :
        del[x] # "idle" /\ victim[x] \notin overlapped => idx[victim[x]] \in Settled

Purged ==
    \A x \in Deletes : del[x] = "commit" =>
        /\ victim[x] \notin files
        /\ victim[x] \in points => victim[x] \in overlapped

Overtaken ==
    \A d \in Docs : idx[d] \in Indexing /\ row[d] = "none" =>
        d \in overlapped /\ d \notin files

Upserted ==
    \A d \in Docs :
        /\ idx[d] \in {"upsert", "commit"} => collection
        /\ idx[d] = "commit" => d \in points \cup purged

\* A delete holds a document whose row is there or has been deleted since.
Known ==
    \A x \in Deletes :
        del[x] # "idle" => row[victim[x]] # "none" \/ victim[x] \in deleted

Unsettled ==
    \A d \in Docs :
        idx[d] \in Indexing => row[d] \in {"none", "processing"}

DeletedIsGone == \A d \in deleted : row[d] = "none"

\* While a text is being cut, its chunks hold all of it up to the start of
\* the next one; there have been no more of them than that is long.
Sliced ==
    \A d \in Docs :
        /\ idx[d] \in Early \cup {"refresh", "chunk"} =>
              start[d] = 0 /\ covered[d] = {} /\ cuts[d] = 0
        /\ idx[d] = "cut" =>
              /\ start[d] < extent[d]
              /\ covered[d] \subseteq 0..(extent[d] - 1)
              /\ 0..(start[d] - 1) \subseteq covered[d]
              /\ chunking.overlap < chunking.size => cuts[d] <= start[d]
        /\ idx[d] \in {"embed", "upsert", "commit"} =>
              covered[d] = 0..(extent[d] - 1)

\* The two halves of TypeOK and of IndexedIsSearchable: the course of a
\* document, and the chunks of its text.
TypeFlow ==
    /\ row \in [Docs -> {"none", "processing", "indexed", "empty", "error"}]
    /\ points \subseteq Docs
    /\ files \subseteq {d \in Docs : kind[d] = "upload"}
    /\ collection \in BOOLEAN
    /\ creation \in {"new", "ensure", "done", "failed"}
    /\ kind \in [Docs -> {"upload", "path"}]
    /\ idx \in [Docs -> Submitting \cup Settled \cup {"new"}]
    /\ del \in [Deletes -> {"idle", "purge", "commit"}]
    /\ victim \in [Deletes -> Docs \cup {None}]
    /\ \A x \in Deletes : del[x] # "idle" => victim[x] \in Docs
    /\ overlapped \subseteq Docs
    /\ interrupted \subseteq Docs
    /\ purged \subseteq Docs
    /\ deleted \subseteq Docs

TypeText ==
    /\ chunking \in Chunkings
    /\ extent \in [Docs -> Extents]
    /\ start \in [Docs -> Nat]
    /\ covered \in [Docs -> SUBSET Nat]
    /\ cuts \in [Docs -> 0..CutBound]

Found ==
    \A d \in Docs : row[d] = "indexed" => collection /\ (d \in points \/ d \in purged)

Whole ==
    \A d \in Docs : row[d] = "indexed" => covered[d] = 0..(extent[d] - 1)

Flow ==
    /\ TypeFlow
    /\ Unknown
    /\ Kept
    /\ Quiet
    /\ Purged
    /\ Overtaken
    /\ Upserted
    /\ Known
    /\ Unsettled
    /\ OrphansNeedOverlap
    /\ Found
    /\ MissingHoldsNothing
    /\ StuckOnlyIfInterrupted
    /\ DeletedIsGone
    /\ StrayFilesExplained

Slices ==
    /\ TypeText
    /\ Sliced
    /\ ChunksAreBounded
    /\ Whole

Inv == Flow /\ Slices

-----------------------------------------------------------------------------

\* The initial states satisfy the invariant.
LEMMA InitInv == Init => Inv
<1> SUFFICES ASSUME Init PROVE Inv
  OBVIOUS
<1>1. Flow
  BY DEF Init, Flow, TypeFlow, Unknown, Kept, Quiet, Purged, Overtaken, Upserted, Known,
        Unsettled, OrphansNeedOverlap, Found, MissingHoldsNothing,
        StuckOnlyIfInterrupted, DeletedIsGone, StrayFilesExplained,
        Early, Indexing, Submitting, Settled, store, ghosts, text, chunks
<1>2. Slices
  <2>1. TypeText
    BY ChunkingAssumption DEF Init, TypeText
  <2>2. Sliced /\ Whole
    <3>1. ASSUME NEW d \in Docs
          PROVE  /\ idx[d] = "new" /\ row[d] = "none"
                 /\ start[d] = 0 /\ covered[d] = {} /\ cuts[d] = 0
      BY DEF Init
    <3>2. Sliced
      BY <3>1 DEF Sliced
    <3>3. Whole
      BY <3>1 DEF Whole
    <3>4. QED
      BY <3>2, <3>3
  <2>3. ChunksAreBounded
    <3>1. ASSUME NEW d \in Docs PROVE cuts[d] <= extent[d]
      <4>1. extent[d] \in Nat
        BY ChunkingAssumption DEF Init
      <4>2. cuts[d] = 0
        BY DEF Init
      <4>3. QED
        BY <4>1, <4>2
    <3>2. QED
      BY <3>1 DEF ChunksAreBounded
  <2>4. QED
    BY <2>1, <2>2, <2>3 DEF Slices
<1>3. QED
  BY <1>1, <1>2 DEF Inv

\* One step of the submission of a document.
LEMMA SubmissionFlow ==
    ASSUME Flow, NEW d \in Docs, Submission(d)
    PROVE  Flow'
<1> USE NoneAssumption
    DEF Flow, TypeFlow, Unknown, Kept, Quiet, Purged, Overtaken, Upserted, Known,
        Unsettled, OrphansNeedOverlap, Found, MissingHoldsNothing,
        StuckOnlyIfInterrupted, DeletedIsGone, StrayFilesExplained,
        Early, Indexing, Submitting, Settled, store, ghosts, text, chunks,
        Goto, SetRow
<1>1. CASE Submit(d)
  BY <1>1 DEF Submit
<1>2. CASE StoreFile(d)
  BY <1>2 DEF StoreFile
<1>3. CASE InsertRow(d)
  BY <1>3 DEF InsertRow
<1>4. CASE RefreshRow(d)
  BY <1>4 DEF RefreshRow
<1>5. CASE Chunk(d)
  BY <1>5 DEF Chunk
<1>6. CASE Embed(d)
  BY <1>6 DEF Embed
<1>7. CASE Upsert(d)
  BY <1>7 DEF Upsert
<1>8. CASE CommitIndexed(d)
  BY <1>8 DEF CommitIndexed, CommitStatus
<1>9. CASE CommitEmpty(d)
  BY <1>9 DEF CommitEmpty, CommitStatus
<1>10. CASE IndexRaises(d)
  BY <1>10 DEF IndexRaises
<1>11. CASE RecordError(d)
  BY <1>11 DEF RecordError, CommitStatus
<1>12. CASE DatabaseFails(d)
  BY <1>12 DEF DatabaseFails
<1>13. QED
  BY <1>1, <1>2, <1>3, <1>4, <1>5, <1>6, <1>7, <1>8, <1>9, <1>10, <1>11,
     <1>12 DEF Submission

\* Steps that cut nothing: a document enters chunk_text with its whole text
\* before it, and what follows chunk_text leaves the chunks alone.
LEMMA SlicesKept ==
    ASSUME Slices, UNCHANGED <<text, chunks>>,
           \A d \in Docs :
               \/ idx'[d] = idx[d]
               \/ {idx[d], idx'[d]} \subseteq Early \cup {"refresh", "chunk"}
               \/ idx[d] = "chunk" /\ idx'[d] = "cut" /\ extent[d] # 0
               \/ {idx[d], idx'[d]} \subseteq {"embed", "upsert", "commit"}
               \/ idx'[d] \in {"commitEmpty", "handle", "done", "failed"},
           \A d \in Docs : row'[d] = "indexed" => row[d] = "indexed" \/ idx[d] = "commit"
    PROVE  Slices'
<1>1. TypeText' /\ ChunksAreBounded'
  BY DEF Slices, TypeText, ChunksAreBounded, text, chunks
<1>2. Whole'
  BY DEF Slices, Sliced, Whole, text, chunks
<1>3. ASSUME NEW d \in Docs, idx[d] = "chunk", idx'[d] = "cut", extent[d] # 0
      PROVE  /\ start'[d] < extent'[d]
             /\ covered'[d] \subseteq 0..(extent'[d] - 1)
             /\ 0..(start'[d] - 1) \subseteq covered'[d]
             /\ cuts'[d] <= start'[d]
  <2>1. start'[d] = 0 /\ covered'[d] = {} /\ cuts'[d] = 0 /\ extent'[d] \in Nat \ {0}
    BY <1>3, ChunkingAssumption DEF Slices, Sliced, TypeText, text, chunks
  <2>2. QED
    BY <2>1
<1>4. Sliced'
  BY <1>3 DEF Slices, Sliced, Early, text, chunks
<1>5. QED
  BY <1>1, <1>2, <1>4 DEF Slices

LEMMA SubmissionSlices ==
    ASSUME Inv, NEW d \in Docs, Submission(d)
    PROVE  Slices'
<1> USE DEF Flow, TypeFlow, Goto, SetRow, CommitStatus
<1>1. UNCHANGED <<text, chunks>>
  BY DEF Submission, Submit, StoreFile, InsertRow, RefreshRow, Chunk, Embed, Upsert,
         CommitIndexed, CommitEmpty, IndexRaises, RecordError, DatabaseFails
<1>2. \A e \in Docs : e # d => idx'[e] = idx[e] /\ row'[e] = row[e]
  BY DEF Inv, Submission, Submit, StoreFile, InsertRow, RefreshRow, Chunk, Embed, Upsert,
         CommitIndexed, CommitEmpty, IndexRaises, RecordError, DatabaseFails, store
<1>3. \/ idx'[d] = idx[d]
      \/ {idx[d], idx'[d]} \subseteq Early \cup {"refresh", "chunk"}
      \/ idx[d] = "chunk" /\ idx'[d] = "cut" /\ extent[d] # 0
      \/ {idx[d], idx'[d]} \subseteq {"embed", "upsert", "commit"}
      \/ idx'[d] \in {"commitEmpty", "handle", "done", "failed"}
  BY DEF Inv, Submission, Submit, StoreFile, InsertRow, RefreshRow, Chunk, Embed, Upsert,
         CommitIndexed, CommitEmpty, IndexRaises, RecordError, DatabaseFails, Early
<1>4. row'[d] = "indexed" => row[d] = "indexed" \/ idx[d] = "commit"
  BY DEF Inv, Submission, Submit, StoreFile, InsertRow, RefreshRow, Chunk, Embed, Upsert,
         CommitIndexed, CommitEmpty, IndexRaises, RecordError, DatabaseFails, store
<1>5. QED
  BY <1>1, <1>2, <1>3, <1>4, SlicesKept DEF Inv

\* A round of chunk_text leaves the course of the document alone.
LEMMA CutFlow ==
    ASSUME Flow, NEW d \in Docs, Cut(d)
    PROVE  Flow'
<1>1. /\ UNCHANGED <<store, creation, text, del, victim, ghosts>>
      /\ idx[d] = "cut" /\ idx'[d] \in {"cut", "embed"}
      /\ \A e \in Docs : e # d => idx'[e] = idx[e]
      /\ idx' \in [Docs -> Submitting \cup Settled \cup {"new"}]
  BY DEF Cut, Goto, Flow, TypeFlow, Submitting, Indexing
<1>2. QED
  BY <1>1 DEF Flow, TypeFlow, Unknown, Kept, Quiet, Purged, Overtaken, Upserted, Known,
        Unsettled, OrphansNeedOverlap, Found, MissingHoldsNothing,
        StuckOnlyIfInterrupted, DeletedIsGone, StrayFilesExplained,
        Early, Indexing, Submitting, Settled, store, ghosts, text, chunks

\* A round of chunk_text covers what lies between its start and the next one.
LEMMA CutSlices ==
    ASSUME Inv, NEW d \in Docs, Cut(d)
    PROVE  Slices'
<1> USE ChunkingAssumption DEF Inv, Slices, TypeText, Flow, TypeFlow
<1>1. /\ start[d] \in Nat /\ extent[d] \in Nat /\ start[d] < extent[d]
      /\ chunking.size \in Nat \ {0} /\ chunking.overlap \in Nat
      /\ cuts[d] \in 0..CutBound /\ CutBound \in Nat /\ extent[d] < CutBound
      /\ covered[d] \subseteq 0..(extent[d] - 1)
      /\ 0..(start[d] - 1) \subseteq covered[d]
      /\ chunking.overlap < chunking.size => cuts[d] <= start[d]
  BY DEF Sliced, Cut
<1>2. /\ End(d) \in Nat /\ start[d] < End(d) /\ End(d) <= extent[d]
      /\ End(d) # extent[d] => End(d) = start[d] + chunking.size
  BY <1>1 DEF End, Least
<1>3. /\ Following(d) \in Nat /\ Following(d) <= End(d)
      /\ End(d) # extent[d] /\ chunking.overlap < chunking.size => start[d] < Following(d)
  BY <1>1, <1>2 DEF Following
<1>4. cuts'[d] \in 0..CutBound /\ cuts'[d] <= cuts[d] + 1
  BY <1>1 DEF Cut, Least
<1>5. /\ covered'[d] = covered[d] \cup start[d]..(End(d) - 1)
      /\ covered'[d] \subseteq 0..(extent[d] - 1)
      /\ 0..(End(d) - 1) \subseteq covered'[d]
  BY <1>1, <1>2 DEF Cut
<1>6. /\ chunking' = chunking /\ extent' = extent /\ row' = row
      /\ \A e \in Docs : e # d => /\ idx'[e] = idx[e] /\ start'[e] = start[e]
                                  /\ covered'[e] = covered[e] /\ cuts'[e] = cuts[e]
      /\ idx[d] = "cut"
  BY DEF Cut, Goto, text, store
<1>7. \/ End(d) = extent[d] /\ idx'[d] = "embed" /\ start' = start
      \/ End(d) # extent[d] /\ idx'[d] = "cut" /\ start'[d] = Following(d)
  BY DEF Cut, Goto
<1>8. TypeText'
  <2>1. start' \in [Docs -> Nat]
    BY <1>3 DEF Cut
  <2>2. covered' \in [Docs -> SUBSET Nat]
    BY <1>1, <1>2 DEF Cut
  <2>3. cuts' \in [Docs -> 0..CutBound]
    BY <1>4 DEF Cut
  <2>4. QED
    BY <1>6, <2>1, <2>2, <2>3
<1>9. Sliced'
  <2>1. CASE End(d) = extent[d]
    <3>1. covered'[d] = 0..(extent[d] - 1)
      BY <1>5, <2>1
    <3>2. QED
      BY <1>6, <1>7, <2>1, <3>1 DEF Sliced, Early
  <2>2. CASE End(d) # extent[d]
    <3>1. Following(d) < extent[d] /\ 0..(Following(d) - 1) \subseteq covered'[d]
      BY <1>1, <1>2, <1>3, <1>5, <2>2
    <3>2. chunking.overlap < chunking.size => cuts'[d] <= Following(d)
      BY <1>1, <1>3, <1>4, <2>2
    <3>3. QED
      BY <1>5, <1>6, <1>7, <2>2, <3>1, <3>2 DEF Sliced, Early
  <2>3. QED
    BY <2>1, <2>2
<1>10. ChunksAreBounded'
  BY <1>1, <1>4, <1>6 DEF ChunksAreBounded
<1>11. Whole'
  BY <1>6 DEF Whole, Unsettled, Indexing
<1>12. QED
  BY <1>8, <1>9, <1>10, <1>11

\* One step of a delete.
LEMMA DeletionFlow ==
    ASSUME Flow, NEW x \in Deletes, Deletion(x)
    PROVE  Flow'
<1> USE NoneAssumption
    DEF Flow, TypeFlow, Unknown, Kept, Quiet, Purged, Overtaken, Upserted, Known,
        Unsettled, OrphansNeedOverlap, Found, MissingHoldsNothing,
        StuckOnlyIfInterrupted, DeletedIsGone, StrayFilesExplained,
        Early, Indexing, Submitting, Settled, store, ghosts, text, chunks,
        SetRow, Purge
<1>1. ASSUME NEW d \in Docs, DeleteRead(x, d)  PROVE Flow'
  BY <1>1 DEF DeleteRead
<1>2. CASE DeletePurge(x)
  BY <1>2 DEF DeletePurge
<1>3. CASE DeletePurgeRaises(x)
  BY <1>3 DEF DeletePurgeRaises
<1>4. CASE DeleteCommit(x)
  BY <1>4 DEF DeleteCommit
<1>5. CASE DeleteCommitFails(x)
  BY <1>5 DEF DeleteCommitFails
<1>6. QED
  BY <1>1, <1>2, <1>3, <1>4, <1>5 DEF Deletion

LEMMA DeletionSlices ==
    ASSUME Inv, NEW x \in Deletes, Deletion(x)
    PROVE  Slices'
<1>1. UNCHANGED <<text, chunks, idx>>
  BY DEF Deletion, DeleteRead, DeletePurge, Purge, DeletePurgeRaises, DeleteCommit,
         DeleteCommitFails
<1>2. \A d \in Docs : row'[d] = "indexed" => row[d] = "indexed"
  BY DEF Deletion, DeleteRead, DeletePurge, Purge, DeletePurgeRaises, DeleteCommit,
         DeleteCommitFails, SetRow, store, Inv, Flow, TypeFlow
<1>3. QED
  BY <1>1, <1>2, SlicesKept DEF Inv

\* The collection is created, or nothing changes.
LEMMA CreationInv ==
    ASSUME Inv, Creation \/ UNCHANGED vars
    PROVE  Inv'
<1>1. Flow'
  <2> USE DEF Inv, Flow,
        TypeFlow, Unknown, Kept, Quiet, Purged, Overtaken, Upserted, Known,
        Unsettled, OrphansNeedOverlap, Found, MissingHoldsNothing,
        StuckOnlyIfInterrupted, DeletedIsGone, StrayFilesExplained,
        Early, Indexing, Submitting, Settled, store, ghosts, text, chunks
  <2>1. CASE InsertCollection
    BY <2>1 DEF InsertCollection
  <2>2. CASE EnsureCollection
    BY <2>2 DEF EnsureCollection
  <2>3. CASE EnsureRaises
    BY <2>3 DEF EnsureRaises
  <2>4. CASE UNCHANGED vars
    BY <2>4 DEF vars
  <2>5. QED
    BY <2>1, <2>2, <2>3, <2>4 DEF Creation
<1>2. UNCHANGED <<text, chunks, idx, row>>
  BY DEF Creation, InsertCollection, EnsureCollection, EnsureRaises, vars, store
<1>3. Slices'
  BY <1>2, SlicesKept DEF Inv
<1>4. QED
  BY <1>1, <1>3 DEF Inv

\* The backend restarts, and with it ends every request.
LEMMA CrashInv ==
    ASSUME Inv, Crash
    PROVE  Inv'
<1>1. Flow'
  BY DEF Inv, Crash, Flow,
        TypeFlow, Unknown, Kept, Quiet, Purged, Overtaken, Upserted, Known,
        Unsettled, OrphansNeedOverlap, Found, MissingHoldsNothing,
        StuckOnlyIfInterrupted, DeletedIsGone, StrayFilesExplained,
        Early, Indexing, Submitting, Settled, store, ghosts, text, chunks
<1>2. /\ \A d \in Docs : idx'[d] \in {"failed", "new"} \cup Settled
      /\ \A d \in Docs : idx'[d] \in Early => idx'[d] = idx[d]
      /\ \A d \in Docs : row[d] = "indexed" => idx[d] # "cut"
  BY DEF Inv, Crash, Flow, TypeFlow, Unsettled, Submitting, Indexing, Settled, Early
<1>3. TypeText'
  BY ChunkingAssumption DEF Inv, Slices, TypeText, Crash, text
<1>4. ChunksAreBounded'
  <2> SUFFICES ASSUME NEW d \in Docs, chunking.overlap < chunking.size
               PROVE  cuts'[d] <= extent[d]
    BY DEF Crash, text, ChunksAreBounded
  <2>1. extent[d] \in Nat /\ cuts[d] <= extent[d]
    BY ChunkingAssumption DEF Inv, Slices, TypeText, ChunksAreBounded
  <2>2. cuts'[d] \in {0, cuts[d]}
    BY DEF Crash
  <2>3. QED
    BY <2>1, <2>2
<1>5. Whole'
  BY <1>2 DEF Inv, Slices, Whole, Crash, text, store
<1>6. Sliced'
  BY <1>2 DEF Inv, Slices, Sliced, Crash, text, Early, Settled
<1>7. QED
  BY <1>1, <1>3, <1>4, <1>5, <1>6 DEF Inv, Slices

\* The inductive invariant holds in every reachable state.
THEOREM InvHolds == Spec => []Inv
<1>1. Inv /\ [Next]_vars => Inv'
  BY SubmissionFlow, SubmissionSlices, CutFlow, CutSlices, DeletionFlow, DeletionSlices,
     CreationInv, CrashInv DEF Next, Inv
<1>2. QED
  BY InitInv, <1>1, PTL DEF Spec

\* Every reachable state is well typed.
THEOREM TypeCorrect == Spec => []TypeOK
<1>1. Inv => TypeOK
  BY DEF Inv, Flow, Slices, TypeFlow, TypeText, TypeOK
<1>2. QED
  BY <1>1, InvHolds, PTL

\* Points without a row come only from deleting during indexing.
THEOREM NoOtherOrphans == Spec => []OrphansNeedOverlap
  BY InvHolds, PTL DEF Inv, Flow

\* What is shown as indexed can be found (index_document).
THEOREM IndexedIsFound == Spec => []IndexedIsSearchable
<1>1. Inv => IndexedIsSearchable
  BY DEF Inv, Flow, Slices, Found, Whole, IndexedIsSearchable
<1>2. QED
  BY <1>1, InvHolds, PTL

\* chunk_text ends where the overlap is below the chunk size.
THEOREM CuttingIsBounded == Spec => []ChunksAreBounded
  BY InvHolds, PTL DEF Inv, Slices

\* What a failed create_collection left behind hides no document.
THEOREM MissingIsHarmless == Spec => []MissingHoldsNothing
  BY InvHolds, PTL DEF Inv, Flow

\* Uploads leave `processing' unless they were interrupted.
THEOREM UploadsSettle == Spec => []StuckOnlyIfInterrupted
  BY InvHolds, PTL DEF Inv, Flow

\* Files without a row are those of rejected or interrupted uploads.
THEOREM NoOtherStrayFiles == Spec => []StrayFilesExplained
  BY InvHolds, PTL DEF Inv, Flow

\* A step sets the status of at most one document that has not been deleted.
LEMMA ShownStep ==
    ASSUME Inv, NEW d \in Docs, NEW status, row' = [row EXCEPT ![d] = status],
           deleted' = deleted, d \notin deleted
    PROVE  Shown' = [Shown EXCEPT ![d] = status]
  BY DEF Inv, Flow, TypeFlow, Shown

\* The steps of a submission that write the row insert it or settle it.
LEMMA SubmissionIsLife ==
    ASSUME Inv, NEW d \in Docs, Submission(d)
    PROVE  [Life!Next]_(Life!vars)
<1> USE DEF Inv, Flow, TypeFlow, Life!vars
<1>1. CASE UNCHANGED <<row, deleted>>
  BY <1>1 DEF Shown
<1>2. CASE InsertRow(d)
  <2>1. d \notin deleted /\ row[d] = "none" /\ row' = [row EXCEPT ![d] = "processing"] /\ deleted' = deleted
    BY <1>2 DEF InsertRow, SetRow, Unknown, Early, ghosts
  <2>2. Shown' = [Shown EXCEPT ![d] = "processing"] /\ Shown[d] = "none"
    BY <2>1, ShownStep DEF Shown
  <2>3. Life!Appear(d)
    BY <2>2 DEF Life!Appear
  <2>4. QED
    BY <2>3 DEF Life!Next
<1>3. ASSUME NEW status \in Life!Outcomes, idx[d] \in Indexing, row[d] # "none",
             row' = [row EXCEPT ![d] = status], deleted' = deleted
      PROVE  [Life!Next]_(Life!vars)
  <2>1. d \notin deleted /\ row[d] = "processing"
    BY <1>3 DEF Unsettled, DeletedIsGone
  <2>2. Shown' = [Shown EXCEPT ![d] = status] /\ Shown[d] = "processing"
    BY <1>3, <2>1, ShownStep DEF Shown
  <2>3. Life!Settle(d)
    BY <2>2 DEF Life!Settle
  <2>4. QED
    BY <2>3 DEF Life!Next
<1>4. CASE CommitIndexed(d)
  BY <1>1, <1>3, <1>4 DEF CommitIndexed, CommitStatus, SetRow, Indexing, Life!Outcomes, ghosts
<1>5. CASE CommitEmpty(d)
  BY <1>1, <1>3, <1>5 DEF CommitEmpty, CommitStatus, SetRow, Indexing, Life!Outcomes, ghosts
<1>6. CASE RecordError(d)
  BY <1>1, <1>3, <1>6 DEF RecordError, CommitStatus, SetRow, Indexing, Life!Outcomes, ghosts
<1>7. QED
  BY <1>1, <1>2, <1>4, <1>5, <1>6 DEF Submission, Submit, StoreFile, RefreshRow, Chunk,
     Embed, Upsert, IndexRaises, DatabaseFails, store, ghosts

\* Only the commit of a delete removes a row, and then the document is gone.
LEMMA DeletionIsLife ==
    ASSUME Inv, NEW x \in Deletes, Deletion(x)
    PROVE  [Life!Next]_(Life!vars)
<1> USE DEF Inv, Flow, TypeFlow, Life!vars
<1>1. CASE UNCHANGED <<row, deleted>>
  BY <1>1 DEF Shown
<1>2. CASE DeleteCommit(x)
  <2> DEFINE d == victim[x]
  <2>1. d \in Docs /\ row' = [row EXCEPT ![d] = "none"] /\ deleted' = deleted \cup {d}
    BY <1>2 DEF DeleteCommit, SetRow
  <2>2. Shown' = [Shown EXCEPT ![d] = "gone"]
    BY <2>1 DEF Shown
  <2>3. CASE d \in deleted
    BY <1>1, <2>1, <2>3 DEF DeletedIsGone
  <2>4. CASE d \notin deleted
    <3>1. Shown[d] \in Life!Outcomes \cup {"processing"}
      BY <1>2, <2>1, <2>4 DEF Shown, DeleteCommit, Known, Life!Outcomes
    <3>2. Life!Vanish(d)
      BY <2>2, <3>1 DEF Life!Vanish
    <3>3. QED
      BY <2>1, <3>2 DEF Life!Next
  <2>5. QED
    BY <2>3, <2>4
<1>3. QED
  BY <1>1, <1>2 DEF Deletion, DeleteRead, DeletePurge, Purge, DeletePurgeRaises,
     DeleteCommitFails, store, ghosts

\* RagIndex implements DocumentLife: a document is settled at most once and
\* a deleted document does not come back (index_document, delete_document).
THEOREM ImplementsLife == Spec => LifecyclePromise
<1>1. Init => Life!Init
  BY DEF Init, Life!Init, Shown
<1>2. Inv /\ [Next]_vars => [Life!Next]_(Life!vars)
  <2> SUFFICES ASSUME Inv, [Next]_vars PROVE [Life!Next]_(Life!vars)
    OBVIOUS
  <2>1. CASE UNCHANGED <<row, deleted>>
    BY <2>1 DEF Shown, Life!vars
  <2>2. QED
    BY <2>1, SubmissionIsLife, DeletionIsLife DEF Next, Creation, InsertCollection,
       EnsureCollection, EnsureRaises, Cut, Crash, vars, store, ghosts
<1>3. QED
  BY <1>1, <1>2, InvHolds, PTL DEF Spec, LifecyclePromise, Life!Spec
=============================================================================
