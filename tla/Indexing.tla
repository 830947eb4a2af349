------------------------------ MODULE Indexing ------------------------------
(***************************************************************************)
(* The indexing core of the workspace: a document is uploaded, queued,     *)
(* taken by the worker thread through parse, chunk, embed and index, and   *)
(* may be deleted at any moment.  What is shared is the document records   *)
(* (SQLite), the uploaded files, and one corpus's three index files; no    *)
(* lock covers any of them together.                                       *)
(*                                                                         *)
(* Two threads touch that state.  The event loop runs one request handler  *)
(* at a time to its end (upload and delete are `async def` without an      *)
(* await); the worker thread runs one job at a time.  Their steps          *)
(* interleave freely.  The process may die between any two steps and is    *)
(* started again, when it requeues what its records say is unfinished.     *)
(*                                                                         *)
(* One corpus is modelled: records and files of different corpora are      *)
(* disjoint, and only the queue is common to them.  A document contributes *)
(* one chunk, so a row of a file is the id of its document.  A file is     *)
(* absent, half written (Torn) or holds a sequence of rows; writing one    *)
(* truncates it first and fills it afterwards.  How a job chunks and what  *)
(* else a row says are left out.                                           *)
(***************************************************************************)
EXTENDS Naturals, Sequences, FiniteSets

CONSTANTS
  Docs,              \* generated document ids
  Contents,          \* the distinct byte strings a user may upload
  Content,           \* the bytes each generated id would be created for
  None,              \* no document, no file
  Torn,              \* a file truncated and not yet filled
  DurableQueue,      \* TRUE: RedisQueue, FALSE: InProcessQueue
  LockedFiles,       \* TRUE: an open file cannot be unlinked (Windows)
  DeletesRace,       \* TRUE: a delete may arrive while jobs are in flight
  MaxFaults          \* bound: process deaths and failed writes

ASSUME DocsAssumption ==
  /\ None \notin Docs
  /\ None # Torn /\ {None, Torn} \cap Seq(Docs) = {}
  /\ Content \in [Docs -> Contents]
  /\ MaxFaults \in Nat

VARIABLES
  phase,      \* "down", "scan", "requeue" (startup) or "up" (serving)
  records,    \* document id -> its status, "none" without a record
  born,       \* ids already generated; an id is never generated twice
  uploads,    \* ids whose uploaded file is on disk
  disk,       \* the corpus's index files
  queue,      \* jobs waiting
  stranded,   \* startup: documents still to requeue
  pc,         \* where each thread is
  cur,        \* the document each thread works on
  ret,        \* where it goes once its planned writes are done
  mem,        \* what it holds in memory: rows read, writes planned
  faults      \* faults so far

vars == <<phase, records, born, uploads, disk, queue, stranded,
          pc, cur, ret, mem, faults>>

-----------------------------------------------------------------------------
(* Documents, files and threads.                                           *)

Stages == <<"QUEUED", "PARSING", "CHUNKING", "EMBEDDING", "INDEXING", "READY">>
Terminal == {"READY", "FAILED"}
Working == {"QUEUED", "PARSING", "CHUNKING", "EMBEDDING", "INDEXING"}
Statuses == Working \cup Terminal \cup {"none"}

Files == {"vectors", "metadata", "faiss"}
Worker == "worker"      \* the thread running DocumentIndexer.handle
Loop == "loop"          \* the event loop running upload and delete
Threads == {Worker, Loop}

Present(f) == disk[f] # None
Readable(f) == disk[f] \notin {None, Torn}

\* layout.exists: metadata and faiss; the vectors file is not asked for.
CorpusExists == Present("metadata") /\ Present("faiss")

\* UPDATE ... WHERE document_id = ?: no row, no effect.
SetStatus(d, s) ==
  IF records[d] = "none" THEN records ELSE [records EXCEPT ![d] = s]

\* Mutant of LiveDuplicate: only an indexed document counts as a duplicate.
ReadyDuplicate(d) == \E e \in Docs : Content[e] = Content[d] /\ records[e] = "READY"

\* find_by_hash: the same bytes in a record that has not failed.
LiveDuplicate(d) ==
  \E e \in Docs : Content[e] = Content[d] /\ records[e] \notin {"none", "FAILED"}

\* Mutants of Unfinished: failed documents are tried again; queued ones are
\* believed to be still in the queue.
UnfinishedOrFailed == {d \in Docs : records[d] \notin {"none", "READY"}}
UnfinishedNotQueued == {d \in Docs : records[d] \in Working \ {"QUEUED"}}

\* unfinished(): status NOT IN (READY, FAILED).
Unfinished == {d \in Docs : records[d] \in Working}

EmptyMem == [vecs |-> <<>>, recs |-> <<>>, plan |-> <<>>]

\* One planned file operation: write `data`, or unlink when it is None.
Put(f, data) == [file |-> f, data |-> data]

-----------------------------------------------------------------------------
(* Moving a thread.                                                        *)

Goto(t, label) == pc' = [pc EXCEPT ![t] = label]

Rest(t) ==
  /\ Goto(t, "idle")
  /\ cur' = [cur EXCEPT ![t] = None]
  /\ ret' = [ret EXCEPT ![t] = "idle"]
  /\ mem' = [mem EXCEPT ![t] = EmptyMem]

\* Mutant of Abort: the failure is logged and the record left as it is.
AbortSilently(t) == Rest(t) /\ UNCHANGED records

\* An exception in the thread's current operation.  In a job it lands on the
\* record, except from _discard, which runs outside handle()'s try; in a
\* delete it becomes a 409 or 500 and the record stays.
Abort(t) ==
  /\ records' = IF t = Worker /\ ret[t] # "removed"
                  THEN SetStatus(cur[t], "FAILED") ELSE records
  /\ Rest(t)

\* The writes of a save, a removal or a FAISS rebuild, in order, then `label`;
\* `rows` is what the metadata file held when it was read.
Write(t, rows, plan, label) ==
  /\ Goto(t, "write")
  /\ mem' = [mem EXCEPT ![t].recs = rows, ![t].plan = plan]
  /\ ret' = [ret EXCEPT ![t] = label]

Advance(t) ==
  /\ mem' = [mem EXCEPT ![t].plan = Tail(@)]
  /\ Goto(t, IF Len(mem[t].plan) = 1 THEN ret[t] ELSE "write")

-----------------------------------------------------------------------------
Init ==
  /\ phase = "down"
  /\ records = [d \in Docs |-> "none"]
  /\ born = {}
  /\ uploads = {}
  /\ disk = [f \in Files |-> None]
  /\ queue = <<>>
  /\ stranded = {}
  /\ pc = [t \in Threads |-> "idle"]
  /\ cur = [t \in Threads |-> None]
  /\ ret = [t \in Threads |-> "idle"]
  /\ mem = [t \in Threads |-> EmptyMem]
  /\ faults = 0

-----------------------------------------------------------------------------
(* The process: start_indexing_worker, and dying.                          *)

\* queue.start(): from here on the worker thread runs.
StartWorker ==
  /\ phase = "down"
  /\ phase' = "scan"
  /\ UNCHANGED <<records, born, uploads, disk, queue, stranded,
                 pc, cur, ret, mem, faults>>

ScanUnfinished ==
  /\ phase = "scan"
  /\ phase' = "requeue"
  /\ stranded' = Unfinished
  /\ UNCHANGED <<records, born, uploads, disk, queue, pc, cur, ret, mem, faults>>

Requeue(d) ==
  /\ phase = "requeue"
  /\ d \in stranded
  /\ stranded' = stranded \ {d}
  /\ records' = SetStatus(d, "QUEUED")
  /\ queue' = Append(queue, d)
  /\ UNCHANGED <<phase, born, uploads, disk, pc, cur, ret, mem, faults>>

Serve ==
  /\ phase = "requeue"
  /\ stranded = {}
  /\ phase' = "up"
  /\ UNCHANGED <<records, born, uploads, disk, queue, stranded,
                 pc, cur, ret, mem, faults>>

\* Mutant of QueueLeft: the in-process queue outlives its process.
QueueKept == queue

\* What another process finds in the queue: Redis keeps its list.
QueueLeft == IF DurableQueue THEN queue ELSE <<>>

\* The process dies: threads and their memory go, and the in-process queue
\* with them; records and files stay as the last step left them.
Crash ==
  /\ phase # "down"
  /\ faults < MaxFaults
  /\ faults' = faults + 1
  /\ phase' = "down"
  /\ stranded' = {}
  /\ queue' = QueueLeft
  /\ pc' = [t \in Threads |-> "idle"]
  /\ cur' = [t \in Threads |-> None]
  /\ ret' = [t \in Threads |-> "idle"]
  /\ mem' = [t \in Threads |-> EmptyMem]
  /\ UNCHANGED <<records, born, uploads, disk>>

-----------------------------------------------------------------------------
(* POST /documents.  A duplicate is answered with the existing record and  *)
(* changes nothing.  The id is fresh, the bytes are Content[d].            *)

UploadStore(d) ==
  /\ phase = "up"
  /\ pc[Loop] = "idle"
  /\ d \notin born
  /\ ~LiveDuplicate(d)
  /\ born' = born \cup {d}
  /\ uploads' = uploads \cup {d}
  /\ cur' = [cur EXCEPT ![Loop] = d]
  /\ Goto(Loop, "add")
  /\ UNCHANGED <<phase, records, disk, queue, stranded, ret, mem, faults>>

UploadAdd ==
  /\ pc[Loop] = "add"
  /\ records' = [records EXCEPT ![cur[Loop]] = "QUEUED"]
  /\ Goto(Loop, "enqueue")
  /\ UNCHANGED <<phase, born, uploads, disk, queue, stranded,
                 cur, ret, mem, faults>>

\* Mutants of UploadEnqueue: the call is repeated after it succeeded; the id
\* is read after the handler is done with it.
UploadEnqueueTwice ==
  /\ pc[Loop] = "enqueue"
  /\ queue' = queue \o <<cur[Loop], cur[Loop]>>
  /\ Rest(Loop)
  /\ UNCHANGED <<phase, records, born, uploads, disk, stranded, faults>>

UploadEnqueueNone ==
  /\ pc[Loop] = "enqueue"
  /\ queue' = Append(queue, None)
  /\ Rest(Loop)
  /\ UNCHANGED <<phase, records, born, uploads, disk, stranded, faults>>

UploadEnqueue ==
  /\ pc[Loop] = "enqueue"
  /\ queue' = Append(queue, cur[Loop])
  /\ Rest(Loop)
  /\ UNCHANGED <<phase, records, born, uploads, disk, stranded, faults>>

-----------------------------------------------------------------------------
(* DELETE /documents/{id}: unlink the upload, remove_document, then drop   *)
(* the record.                                                             *)

ParserHasOpen(d) == LockedFiles /\ pc[Worker] = "parse" /\ cur[Worker] = d

\* A client that waits for its jobs first, when deletes do not race.
DeleteAllowed == DeletesRace \/ (queue = <<>> /\ pc[Worker] = "idle")

\* Mutant of DeleteStart: the chunks are not removed.
DeleteStartKeepingChunks(d) ==
  /\ phase = "up"
  /\ pc[Loop] = "idle"
  /\ records[d] # "none"
  /\ DeleteAllowed
  /\ uploads' = uploads \ {d}
  /\ cur' = [cur EXCEPT ![Loop] = d]
  /\ Goto(Loop, "removed")
  /\ UNCHANGED <<phase, records, born, disk, queue, stranded,
                 ret, mem, faults>>

DeleteStart(d) ==
  /\ phase = "up"
  /\ pc[Loop] = "idle"
  /\ records[d] # "none"
  /\ DeleteAllowed
  /\ uploads' = IF ParserHasOpen(d) THEN uploads ELSE uploads \ {d}
  /\ cur' = [cur EXCEPT ![Loop] = d]
  /\ ret' = [ret EXCEPT ![Loop] = "removed"]
  /\ Goto(Loop, "remove")
  /\ UNCHANGED <<phase, records, born, disk, queue, stranded, mem, faults>>

DeleteRecord ==
  /\ pc[Loop] = "removed"
  /\ records' = [records EXCEPT ![cur[Loop]] = "none"]
  /\ Rest(Loop)
  /\ UNCHANGED <<phase, born, uploads, disk, queue, stranded, faults>>

-----------------------------------------------------------------------------
(* remove_document, run by either thread.                                  *)

RemoveBegin(t) ==
  /\ pc[t] = "remove"
  /\ Goto(t, IF CorpusExists THEN "removeRecs" ELSE "removed")
  /\ UNCHANGED <<phase, records, born, uploads, disk, queue, stranded,
                 cur, ret, mem, faults>>

RemoveReadRecords(t) ==
  /\ pc[t] = "removeRecs"
  /\ IF Readable("metadata")
       THEN /\ mem' = [mem EXCEPT ![t].recs = disk["metadata"]]
            /\ Goto(t, "removeVecs")
            /\ UNCHANGED <<records, cur, ret>>
       ELSE Abort(t)
  /\ UNCHANGED <<phase, born, uploads, disk, queue, stranded, faults>>

\* keep: the positions, in order, of the rows that are not the document's.
Keep(rows, d) ==
  LET stay == {i \in DOMAIN rows : rows[i] # d}
      Before(i) == {j \in stay : j <= i}
  IN  [k \in 1 .. Cardinality(stay) |->
        CHOOSE i \in stay : Cardinality(Before(i)) = k]

KeptRows(rows, d) == [k \in DOMAIN Keep(rows, d) |-> rows[Keep(rows, d)[k]]]

\* Mutant of KeptVectors: the first vectors are kept, whichever the rows.
KeptFirstVectors(rows, vecs, d) == SubSeq(vecs, 1, Len(KeptRows(rows, d)))

KeptVectors(rows, vecs, d) ==
  [k \in DOMAIN Keep(rows, d) |-> vecs[Keep(rows, d)[k]]]

\* Mutant of RemovalPlan: the corpus is deleted with its first document.
RemovalPlanDeletingAll(rows, vecs, d) ==
  <<Put("vectors", None), Put("metadata", None), Put("faiss", None)>>

RemovalPlan(rows, vecs, d) ==
  LET keptRows == KeptRows(rows, d)
      keptVecs == KeptVectors(rows, vecs, d)
  IN  IF keptRows = <<>>
        THEN <<Put("vectors", None), Put("metadata", None), Put("faiss", None)>>
        ELSE <<Put("vectors", keptVecs), Put("metadata", keptRows),
               Put("faiss", keptVecs)>>

RemoveReadVectors(t) ==
  /\ pc[t] = "removeVecs"
  /\ LET rows == mem[t].recs  vecs == disk["vectors"] IN
       IF ~Readable("vectors")
         THEN Abort(t)
         ELSE IF Len(rows) # Len(vecs)
                THEN Abort(t)
                ELSE /\ IF KeptRows(rows, cur[t]) = rows
                          THEN Goto(t, "removed") /\ UNCHANGED <<mem, ret>>
                          ELSE Write(t, rows, RemovalPlan(rows, vecs, cur[t]), "removed")
                     /\ UNCHANGED <<records, cur>>
  /\ UNCHANGED <<phase, born, uploads, disk, queue, stranded, faults>>

-----------------------------------------------------------------------------
(* The file operations of a plan, run by either thread.                    *)

Truncate(t) ==
  /\ pc[t] = "write"
  /\ Head(mem[t].plan).data # None
  /\ disk' = [disk EXCEPT ![Head(mem[t].plan).file] = Torn]
  /\ Goto(t, "fill")
  /\ UNCHANGED <<phase, records, born, uploads, queue, stranded,
                 cur, ret, mem, faults>>

\* What the path holds once the bytes are out: nothing, if the other thread
\* unlinked it meanwhile; and the bytes may land over longer ones, if the other
\* thread filled it meanwhile.
Filled(f, data) ==
  CASE disk[f] = None -> {None}
    [] disk[f] = Torn -> {data}
    [] OTHER -> {data, Torn}

Fill(t) ==
  /\ pc[t] = "fill"
  /\ LET put == Head(mem[t].plan) IN
       \E content \in Filled(put.file, put.data) :
         disk' = [disk EXCEPT ![put.file] = content]
  /\ Advance(t)
  /\ UNCHANGED <<phase, records, born, uploads, queue, stranded,
                 cur, ret, faults>>

Unlink(t) ==
  /\ pc[t] = "write"
  /\ Head(mem[t].plan).data = None
  /\ disk' = [disk EXCEPT ![Head(mem[t].plan).file] = None]
  /\ Advance(t)
  /\ UNCHANGED <<phase, records, born, uploads, queue, stranded,
                 cur, ret, faults>>

\* The disk is full, or the file cannot be opened or unlinked.
WriteFails(t) ==
  /\ pc[t] \in {"write", "fill"}
  /\ faults < MaxFaults
  /\ faults' = faults + 1
  /\ Abort(t)
  /\ UNCHANGED <<phase, born, uploads, disk, queue, stranded>>

-----------------------------------------------------------------------------
(* DocumentIndexer.handle.                                                 *)

\* A job whose record is gone is dropped; otherwise _parse begins.
TakeJob ==
  /\ phase # "down"
  /\ pc[Worker] = "idle"
  /\ queue # <<>>
  /\ queue' = Tail(queue)
  /\ LET d == Head(queue) IN
       IF records[d] = "none"
         THEN UNCHANGED <<records, pc, cur>>
         ELSE /\ records' = SetStatus(d, "PARSING")
              /\ cur' = [cur EXCEPT ![Worker] = d]
              /\ Goto(Worker, "parse")
  /\ UNCHANGED <<phase, born, uploads, disk, stranded, ret, mem, faults>>

\* One stage is done; the next one first says so on the record.
NextStage(from, to, status) ==
  /\ pc[Worker] = from
  /\ records' = SetStatus(cur[Worker], status)
  /\ Goto(Worker, to)
  /\ UNCHANGED <<phase, born, uploads, disk, queue, stranded,
                 cur, ret, mem, faults>>

\* Mutant of Chunked: a stage is skipped on the record.
ChunkedTooFar == NextStage("chunk", "embed", "INDEXING")

Parsed == cur[Worker] \in uploads /\ NextStage("parse", "chunk", "CHUNKING")
Chunked == NextStage("chunk", "embed", "EMBEDDING")
Embedded == NextStage("embed", "index", "INDEXING")

\* No file, a corrupt or empty one, no chunks, an embedder that raises.
StageFails ==
  /\ pc[Worker] \in {"parse", "chunk", "embed"}
  /\ Abort(Worker)
  /\ UNCHANGED <<phase, born, uploads, disk, queue, stranded, faults>>

\* _index: append to an index that is there, else save a new one.
IndexBegin ==
  /\ pc[Worker] = "index"
  /\ IF Present("vectors") /\ Present("metadata")
       THEN Goto(Worker, "appendVecs") /\ UNCHANGED <<ret, mem>>
       ELSE LET rows == <<cur[Worker]>> IN
              Write(Worker, <<>>, <<Put("vectors", rows), Put("metadata", rows)>>,
                    "reloadVecs")
  /\ UNCHANGED <<phase, records, born, uploads, disk, queue, stranded, cur, faults>>

\* VectorStorage.load, first half: both files must exist, vectors are read.
LoadVectors(from, to) ==
  /\ pc[Worker] = from
  /\ IF Readable("vectors") /\ Present("metadata")
       THEN /\ mem' = [mem EXCEPT ![Worker].vecs = disk["vectors"]]
            /\ Goto(Worker, to)
            /\ UNCHANGED <<records, cur, ret>>
       ELSE Abort(Worker)
  /\ UNCHANGED <<phase, born, uploads, disk, queue, stranded, faults>>

AppendLoadVectors == LoadVectors("appendVecs", "appendRecs")
ReloadVectors == LoadVectors("reloadVecs", "reloadRecs")

\* Second half, in append(): save() refuses lists of different lengths.
AppendRecords ==
  /\ pc[Worker] = "appendRecs"
  /\ LET vecs == Append(mem[Worker].vecs, cur[Worker])
         rows == Append(disk["metadata"], cur[Worker])
     IN IF Readable("metadata") /\ Len(mem[Worker].vecs) = Len(disk["metadata"])
          THEN /\ Write(Worker, disk["metadata"],
                        <<Put("vectors", vecs), Put("metadata", rows)>>,
                        "reloadVecs")
               /\ UNCHANGED <<records, cur>>
          ELSE Abort(Worker)
  /\ UNCHANGED <<phase, born, uploads, disk, queue, stranded, faults>>

\* Second half, in _index(): FAISS is built from the vectors alone.
ReloadRecords ==
  /\ pc[Worker] = "reloadRecs"
  /\ IF Readable("metadata")
       THEN /\ Write(Worker, mem[Worker].recs, <<Put("faiss", mem[Worker].vecs)>>, "check")
            /\ UNCHANGED <<records, cur>>
       ELSE Abort(Worker)
  /\ UNCHANGED <<phase, born, uploads, disk, queue, stranded, faults>>

\* Was the document deleted while its job was in flight?
CheckRecord ==
  /\ pc[Worker] = "check"
  /\ IF records[cur[Worker]] = "none"
       THEN Goto(Worker, "remove") /\ ret' = [ret EXCEPT ![Worker] = "removed"]
       ELSE Goto(Worker, "ready") /\ UNCHANGED ret
  /\ UNCHANGED <<phase, records, born, uploads, disk, queue, stranded,
                 cur, mem, faults>>

MarkReady ==
  /\ pc[Worker] = "ready"
  /\ records' = SetStatus(cur[Worker], "READY")
  /\ Rest(Worker)
  /\ UNCHANGED <<phase, born, uploads, disk, queue, stranded, faults>>

\* _discard, once remove_document returned: the upload goes too.
DiscardUpload ==
  /\ pc[Worker] = "removed"
  /\ uploads' = uploads \ {cur[Worker]}
  /\ Rest(Worker)
  /\ UNCHANGED <<phase, records, born, disk, queue, stranded, faults>>

-----------------------------------------------------------------------------
Startup == StartWorker \/ ScanUnfinished \/ (\E d \in Docs : Requeue(d)) \/ Serve

FileStep(t) ==
  \/ RemoveBegin(t) \/ RemoveReadRecords(t) \/ RemoveReadVectors(t)
  \/ Truncate(t) \/ Fill(t) \/ Unlink(t)

Request ==
  \/ \E d \in Docs : UploadStore(d)
  \/ \E d \in Docs : DeleteStart(d)

Respond == UploadAdd \/ UploadEnqueue \/ DeleteRecord \/ FileStep(Loop)

Work ==
  \/ TakeJob \/ Parsed \/ Chunked \/ Embedded \/ StageFails
  \/ IndexBegin \/ AppendLoadVectors \/ AppendRecords
  \/ ReloadVectors \/ ReloadRecords
  \/ CheckRecord \/ MarkReady \/ DiscardUpload \/ FileStep(Worker)

Fault == Crash \/ \E t \in Threads : WriteFails(t)

Next == Startup \/ Request \/ Respond \/ Work \/ Fault

Spec == Init /\ [][Next]_vars

\* A thread that can go on does, and a dead process is started again
\* (docker-compose: restart unless-stopped).  No request has to arrive.
Fairness == WF_vars(Startup) /\ WF_vars(Respond) /\ WF_vars(Work)
FairSpec == Spec /\ Fairness

-----------------------------------------------------------------------------
(* Properties.                                                             *)

Labels == {"idle", "add", "enqueue", "remove", "removeRecs", "removeVecs",
           "write", "fill", "removed", "parse", "chunk", "embed", "index",
           "appendVecs", "appendRecs", "reloadVecs", "reloadRecs",
           "check", "ready"}

ReturnLabels == {"idle", "reloadVecs", "check", "removed"}

\* The control state has its type: phases, statuses, jobs and labels.
ControlTypeOK ==
  /\ phase \in {"down", "scan", "requeue", "up"}
  /\ records \in [Docs -> Statuses]
  /\ born \subseteq Docs
  /\ uploads \subseteq Docs
  /\ queue \in Seq(Docs)
  /\ stranded \subseteq Docs
  /\ pc \in [Threads -> Labels]
  /\ cur \in [Threads -> Docs \cup {None}]
  /\ pc[Loop] \in {"add", "enqueue"} => cur[Loop] \in Docs
  /\ ret \in [Threads -> ReturnLabels]
  /\ faults \in Nat

\* Every variable has its type, the files and the threads' memory included.
TypeOK ==
  /\ ControlTypeOK
  /\ DOMAIN disk = Files
  /\ \A f \in Files : disk[f] \in {None, Torn} \cup Seq(Docs)
  /\ \A t \in Threads :
       /\ mem[t].vecs \in Seq(Docs)
       /\ mem[t].recs \in Seq(Docs)
       /\ \A i \in DOMAIN mem[t].plan : mem[t].plan[i].file \in Files

Quiet == \A t \in Threads : pc[t] = "idle"
RowsOf(d, rows) == {i \in DOMAIN rows : rows[i] = d}

\* When no thread is writing, the three files describe the same chunks in the
\* same order, or none of them is there (index_manager.py: "the two files are
\* index-aligned by construction").
FilesAligned ==
  Quiet =>
    \/ \A f \in Files : disk[f] = None
    \/ /\ \A f \in Files : Readable(f)
       /\ disk["vectors"] = disk["metadata"]
       /\ disk["faiss"] = disk["vectors"]

\* A document that reports READY can be retrieved: READY is what a client polls
\* for before it queries (documents.py, upload_document).
ReadyIndexed ==
  Quiet => \A d \in Docs :
             records[d] = "READY" =>
               Readable("metadata") /\ RowsOf(d, disk["metadata"]) # {}

\* No document's chunk is in the index twice, where it would take two of the
\* top-K slots; running a job again gives what the first run gave
\* (start_indexing_worker: "safe by construction").
NoDuplicateChunks ==
  Quiet /\ Readable("metadata") =>
    \A d \in Docs : Cardinality(RowsOf(d, disk["metadata"])) <= 1

\* No chunk outlives its document: whatever is in the index belongs to a
\* record, so a deleted document is not retrievable (indexer.py, handle).
NoOrphanChunks ==
  Quiet /\ Readable("metadata") =>
    \A i \in DOMAIN disk["metadata"] : records[disk["metadata"][i]] # "none"

\* Two index files that can both be read have a row for each other's, so that a
\* removal may pair them by position (index_manager.py, remove_document).
IndexAligned ==
  Quiet /\ Readable("vectors") /\ Readable("metadata") =>
    Len(disk["vectors"]) = Len(disk["metadata"])

InQueue(d) == \E i \in DOMAIN queue : queue[i] = d

\* Work is pending for d: a job, a thread, or the startup scan has it.
Pending(d) ==
  \/ InQueue(d)
  \/ cur[Worker] = d
  \/ cur[Loop] = d /\ pc[Loop] = "enqueue"
  \/ phase \in {"down", "scan"}
  \/ d \in stranded

\* No document is left between stages with nothing coming to move it, whatever
\* was deleted, failed or interrupted (start_indexing_worker).
NothingStranded == \A d \in Docs : records[d] \in Working => Pending(d)

\* The same bytes are never live twice in the corpus: the duplicate check of an
\* upload is not undone by failures, restarts and requeues.
OneLiveRecordPerContent ==
  \A d, e \in Docs :
    /\ Content[d] = Content[e]
    /\ records[d] \notin {"none", "FAILED"}
    /\ records[e] \notin {"none", "FAILED"}
    => d = e

\* A document is never queued twice, nor queued while the worker has it.
OneJobPerDocument ==
  \A i \in DOMAIN queue :
    /\ queue[i] # cur[Worker]
    /\ \A j \in DOMAIN queue : queue[i] = queue[j] => i = j

\* A record that was deleted never comes back, and READY and FAILED are final
\* (models.py: "statuses from which nothing further happens on its own").
TerminalIsFinal ==
  [][\A d \in Docs :
       /\ records[d] \in Terminal => records'[d] \in {records[d], "none"}
       /\ records[d] = "none" /\ d \in born /\ pc[Loop] # "add"
            => records'[d] = "none"]_vars

Rank(s) == CHOOSE i \in DOMAIN Stages : Stages[i] = s

\* A status moves along STAGE_ORDER one stage at a time; the only other moves
\* are to FAILED, to deletion, and back to QUEUED while the process starts.
StagesInOrder ==
  [][\A d \in Docs :
       records[d] \in Working /\ records'[d] # records[d] =>
         \/ records'[d] \in {"FAILED", "none"}
         \/ records'[d] = "QUEUED" /\ phase = "requeue"
         \/ Rank(records'[d]) = Rank(records[d]) + 1]_vars

\* Every accepted upload reaches READY or FAILED or is deleted, across
\* restarts: no client polls a status for ever.
UploadsSettle ==
  \A d \in Docs : records[d] \in Working ~> records[d] \in Terminal \cup {"none"}

-----------------------------------------------------------------------------
(* The inductive invariant of the records and the in-process queue.        *)

LoopLabels == {"idle", "add", "enqueue", "remove", "removeRecs", "removeVecs",
               "write", "fill", "removed"}
WorkerLabels == Labels \ {"add", "enqueue"}
RemoveLabels == {"remove", "removeRecs", "removeVecs", "removed"}
WriteLabels == {"write", "fill"}

\* The stage a job's document reports while the worker is at a label.
StageAt(label) ==
  CASE label = "parse" -> "PARSING"
    [] label = "chunk" -> "CHUNKING"
    [] label = "embed" -> "EMBEDDING"
    [] OTHER -> "INDEXING"

\* No request is served and no job runs before startup has come that far.
PhaseInv ==
  /\ phase # "up" => pc[Loop] = "idle"
  /\ phase \in {"down", "scan"} => queue = <<>> /\ pc[Worker] = "idle"
  /\ phase # "requeue" => stranded = {}

\* Where each thread is, and for which document.
ThreadInv ==
  /\ \A t \in Threads : cur[t] = None <=> pc[t] = "idle"
  /\ pc[Loop] \in LoopLabels
  /\ pc[Worker] \in WorkerLabels
  /\ pc[Loop] \in RemoveLabels \cup WriteLabels => ret[Loop] = "removed"
  /\ pc[Worker] \in RemoveLabels => ret[Worker] = "removed"
  /\ pc[Worker] \in WriteLabels => ret[Worker] \in {"reloadVecs", "check", "removed"}
  /\ pc[Worker] \notin RemoveLabels \cup WriteLabels => ret[Worker] # "removed"

\* Every job, thread and startup entry is for a document of its own.
JobInv ==
  /\ OneJobPerDocument
  /\ \A i \in DOMAIN queue : queue[i] \in born \ stranded
  /\ cur[Worker] # None => cur[Worker] \in born \ stranded
  /\ pc[Loop] \in {"add", "enqueue"} =>
       /\ cur[Loop] \in born
       /\ cur[Loop] # cur[Worker]
       /\ ~InQueue(cur[Loop])

\* What the record of a document says, given who has it.
StatusInv ==
  /\ \A d \in Docs \ born : records[d] = "none"
  /\ \A d \in stranded : records[d] \in Working
  /\ \A i \in DOMAIN queue : records[queue[i]] \in {"none", "QUEUED"}
  /\ cur[Worker] # None =>
       IF ret[Worker] = "removed" THEN records[cur[Worker]] = "none"
       ELSE records[cur[Worker]] \in {"none", StageAt(pc[Worker])}
  /\ pc[Loop] = "add" => records[cur[Loop]] = "none" /\ ~LiveDuplicate(cur[Loop])
  /\ pc[Loop] = "enqueue" => records[cur[Loop]] = "QUEUED"

\* Together these are preserved by every step when the queue dies with its
\* process: no document has two owners, and its status follows its owner's pc.
ControlInv ==
  /\ ControlTypeOK
  /\ PhaseInv
  /\ ThreadInv
  /\ JobInv
  /\ StatusInv
  /\ NothingStranded
  /\ OneLiveRecordPerContent

-----------------------------------------------------------------------------
(* The inductive invariant of the files, while the threads take turns at    *)
(* them: a thread uses the index from its first read to its last write.    *)

DocsOf(rows) == {rows[i] : i \in DOMAIN rows}
Distinct(rows) == \A i, j \in DOMAIN rows : rows[i] = rows[j] => i = j

\* A thread has some of the index files written and others still to write.
Rewriting(t) ==
  pc[t] \in {"write", "fill", "reloadVecs", "reloadRecs"}

\* A thread holds rows of the index, or has files of it still to write.
UsesFiles(t) ==
  \/ pc[t] \in {"appendVecs", "appendRecs", "removeRecs", "removeVecs"}
  \/ Rewriting(t)

TakesTurns == ~(UsesFiles(Worker) /\ UsesFiles(Loop))

\* Turns that are held longer: a delete from before it looks for the corpus until
\* the record is gone, a job until it knows whether the record still is there.
HoldsIndex(t) == UsesFiles(t) \/ pc[t] \in {"remove", "removed", "check"}
TakesLongTurns == ~(HoldsIndex(Worker) /\ HoldsIndex(Loop))

\* An index without rows has no files.
FileOf(rows) == IF rows = <<>> THEN None ELSE rows
Rows == IF Present("metadata") THEN disk["metadata"] ELSE <<>>

\* The rows that are served: until the last file is written, the old ones.
IndexRows ==
  IF \E t \in Threads : Rewriting(t)
    THEN mem[CHOOSE t \in Threads : Rewriting(t)].recs ELSE Rows

\* Nobody rewrites the index: its files hold the same rows.
RestInv ==
  (\A t \in Threads : ~Rewriting(t)) =>
    Rows \in Seq(Docs) /\ \A f \in Files : disk[f] = FileOf(Rows)

\* What a thread that rewrites the index will leave in it, and the files it has
\* not written yet; after a save the last one is planned later.
NewRows(t) == IF ret[t] = "removed" THEN KeptRows(mem[t].recs, cur[t])
                                    ELSE Append(mem[t].recs, cur[t])
Unwritten(t) == {mem[t].plan[i].file : i \in DOMAIN mem[t].plan}
                  \cup (IF ret[t] = "removed" THEN {} ELSE {"faiss"})

\* A thread rewrites it: each file holds the old rows or the new, or is the one
\* that is being filled.
RewriteOK(t) ==
  Rewriting(t) =>
    \A f \in Files :
      disk[f] = IF f \notin Unwritten(t) THEN FileOf(NewRows(t))
                ELSE IF pc[t] = "fill" /\ f = mem[t].plan[1].file THEN Torn
                ELSE FileOf(mem[t].recs)

\* Its plan writes files of their own, all with the new rows.
PlanOK(t) ==
  /\ pc[t] \notin WriteLabels => mem[t].plan = <<>>
  /\ pc[t] \in WriteLabels =>
       /\ \A i, j \in DOMAIN mem[t].plan :
            mem[t].plan[i].file = mem[t].plan[j].file => i = j
       /\ \A i \in DOMAIN mem[t].plan :
            /\ mem[t].plan[i].data = FileOf(NewRows(t))
            /\ pc[t] = "fill" => mem[t].plan[i].data # None
            /\ ret[t] = "reloadVecs" => mem[t].plan[i].file # "faiss"
            /\ ret[t] = "check" => mem[t].plan[i].file = "faiss"

\* What a thread read is still there when it reads on.
ReadOK(t) ==
  /\ pc[t] \in {"appendVecs", "appendRecs", "removeRecs", "removeVecs"} => Rows # <<>>
  /\ pc[t] \in {"appendRecs", "reloadRecs"} => mem[t].vecs = disk["vectors"]
  /\ pc[t] = "removeVecs" => mem[t].recs = Rows

\* Together these are preserved by every step that is taken in turns and does
\* not fail amid a rewrite.
TurnsInv ==
  /\ TypeOK /\ ThreadInv /\ TakesTurns
  /\ RestInv /\ \A t \in Threads : RewriteOK(t) /\ PlanOK(t) /\ ReadOK(t)

\* The documents whose chunks are in the index, going by where the threads are.
Served ==
  {d \in Docs :
    \/ records[d] = "READY" /\ ~(pc[Loop] = "removed" /\ cur[Loop] = d)
    \/ pc[Worker] \in {"check", "ready"} /\ cur[Worker] = d}

\* A delete runs alone, and no document under way is deleted.
AloneInv ==
  /\ phase # "up" => born = {}
  /\ pc[Loop] \in RemoveLabels \cup WriteLabels =>
       queue = <<>> /\ pc[Worker] = "idle" /\ records[cur[Loop]] # "none"
  /\ \A i \in DOMAIN queue : records[queue[i]] # "none"
  /\ cur[Worker] # None => records[cur[Worker]] # "none"

\* Together these are preserved by every step that is not a fault, for a client
\* whose deletes do not race: then the threads do take turns.
FilesInv ==
  faults = 0 =>
    /\ ControlInv /\ TurnsInv /\ AloneInv
    /\ Distinct(IndexRows) /\ DocsOf(IndexRows) = Served

-----------------------------------------------------------------------------
(* What the files and threads implement.                                   *)

\* The index a query should see: until the last file is written, what the
\* rewriting thread read.
IndexedDocs ==
  IF \E t \in Threads : Rewriting(t)
    THEN DocsOf(mem[CHOOSE t \in Threads : Rewriting(t)].recs)
    ELSE IF Readable("metadata") THEN DocsOf(disk["metadata"]) ELSE {}

Promised == INSTANCE WorkspaceCorpus WITH
  status <- records, index <- IndexedDocs, known <- born

\* The pipeline keeps the workspace's promise: every step of it is a step of
\* the abstract corpus, or invisible there.
ImplementsCorpus == Promised!Spec

=============================================================================
