# A TLA+ development of rag_evaluation

This directory models the parts of the repository whose correctness depends on
the order in which things happen, and the algorithms that are easy to get
subtly wrong: the indexing of uploaded documents, the caches that serve them,
the life of the worker threads, the answering of questions with its retries
and streams, the rate limiter, the benchmark matrix, retrieval and chunking.
TLC checks the models on small instances; TLAPS proves the theorems for every
value of the constants. Paths below are relative to the repository.

## The system

| Part | State | Operations | Interacts with |
|---|---|---|---|
| Document records (`documents/`) | one SQLite row per upload: status, hash, stored path | add, set_status, delete, find_by_hash, unfinished, close | written by the event loop and the worker, each on its own connection |
| Upload storage (`documents/storage.py`) | one file per upload | store, remove_stored_file | written by upload, removed by delete and by the worker's discard |
| Job queues (`jobs/queue.py`) | a list of jobs, in memory or in Redis; worker threads | enqueue, start, stop | filled by upload and by startup, drained by the worker |
| Indexer (`jobs/indexer.py`) | none between jobs | handle: parse, chunk, embed, index, check, mark READY or discard | records, uploads, index files, caches |
| Corpus index (`embeddings/storage.py`, `corpora/`) | `vectors.npy`, `metadata.json` and the FAISS file, aligned by position | save, append, load, remove_document | written by worker and event loop without a lock, read by retrievers |
| Document API (`api/routers/documents.py`) | none | upload, delete, list, status | all of the above |
| Service caches (`api/dependencies.py`) | two `lru_cache(maxsize=8)`: retrievers and services by corpus | resolve, invalidate, start and stop of the worker | queries, pool threads, worker |
| Rate limiter (`api/rate_limit.py`) | one token bucket per client key | check | guards `/query` and `/stream` |
| Query and stream endpoints (`api/routers/`) | what each client has received | resolve, answer, stream, map errors | services |
| Answering (`services/`) | the counters of each service object | answer, stream | retriever, generator, `/metrics` |
| LLM generator (`generation/`) | the model it asks for | retry with backoff, fallback, stream | Groq |
| Retrieval (`retrieval/`) | a loaded index | dense, sparse, hybrid search, fusion, reranking, pipeline report | read only once loaded |
| Evaluation (`api/routers/evaluation.py`, `evaluation/`) | results by configuration, in memory | evaluate, benchmark within a budget, resolve labels | the default corpus's retriever and index files |
| Chunking (`chunking/`) | none | cut, locate, merge short chunks | the indexer and the offline scripts |
| Ingestion, embedding | none | pure conversions | the indexer and the offline scripts |
| Configuration and metrics endpoints | none | format | settings, counters |
| Browser client, scripts, deployment | per tab or none | | the HTTP API |

What makes them hard:

* **Concurrency.** `upload_document`, `delete_document`, `/query` and `/stream`
  are `async def` without an `await`: they run one at a time on the event loop,
  to their end. The worker thread interleaves with them, and so do pool threads
  that resolve plain `def` dependencies or pull the next event of a stream.
  Nothing locks the three index files, the two caches together, the counters or
  the generator's model.
* **Failure.** The process may die between any two writes; the records and
  files stay, the in-process queue does not. A write may fail, a file another
  thread has open may refuse to be unlinked, a call to Groq may be refused or
  time out, the connection to Redis may break, a client may leave.
* **Restart.** Startup requeues what the records call unfinished, while the
  worker already runs. A second start in the same process finds the old queue.
* **Boundaries.** Buckets that are nearly empty, waits that are not whole
  seconds, caches at their bound, candidate windows, budgets used up, text that
  repeats, chunks at the minimum.

The properties that make each part correct are listed with the modules; the
hazards they answer to, each at its line, are in `PROJECT.json`.

## Modules

Every component has its module; the `MC` module of the same name gives its
constants values for TLC, and a `Proofs` module, where there is one, holds its
theorems. `Evaluation` extends `Retrieval`, and `Indexing` instantiates
`WorkspaceCorpus`.

### Indexing

`Indexing.tla` models one corpus with its records, uploads, files, queue and
the two threads that change them. A thread is a label in `pc`, its document in
`cur`, where to return after writing in `ret`, and what it has read and
plans to write in `mem`.

| Model | Code |
|---|---|
| `UploadStore`, `UploadAdd`, `UploadEnqueue` | `upload_document`: store the file, add the record, enqueue. A duplicate is answered without a change and is no step |
| `DeleteStart`, `RemoveBegin` .. `Unlink`, `DeleteRecord` | `delete_document`: unlink the upload, `remove_document`, drop the record |
| `TakeJob`, `Parsed`, `Chunked`, `Embedded`, `StageFails` | `handle` up to `_embed`; each stage writes its status first |
| `IndexBegin`, `AppendLoadVectors`, `AppendRecords`, `ReloadVectors`, `ReloadRecords` | `_index`: append or save, load again, build FAISS |
| `Truncate`, `Fill`, `Unlink` | each file write, in two steps, and each unlink |
| `CheckRecord`, `MarkReady`, `DiscardUpload` | the check after the write, READY, and `_discard` |
| `Abort` | an exception: FAILED on the record in a job, a 409 or 500 in a delete |
| `StartWorker`, `ScanUnfinished`, `Requeue`, `Serve` | `start_indexing_worker`, the worker running from the first of them on |
| `Crash`, `WriteFails` | the process dies; a write raises |

`DurableQueue` selects `RedisQueue` (a list that survives the process),
`LockedFiles` the Windows unlink rule, and `DeletesRace` whether clients delete
while jobs are in flight. `MaxFaults` bounds deaths and failed writes.

Abstractions: corpora share only the queue, so one is modelled; a document has
one chunk, so a row is a document id; stages other than indexing succeed or
fail as a whole; startup requeues in any order where the code goes by creation
time; directories, the chunking a job asks for and the labels of a chunk are
left out; `enqueue` and `set_status` do not fail.

`WorkspaceCorpus.tla` is what the workspace promises, without files, threads
or queue: stages advance one by one, a document's chunks appear in one step
while it is INDEXING and disappear in one step before its record does.
`Indexing!ImplementsCorpus` states the refinement: the abstract index is the
set of documents in `metadata.json`, or, while a thread is rewriting the files,
what that thread read before it began.

### ServiceCache

`ServiceCache.tla` models `_build_service_for` and `_build_retriever_for` with
the `lru_cache` under them: a hit moves the entry to the end, a miss computes
and inserts, evicting the oldest, and the insertion of a computation that was
overtaken is dropped. A thread resolving a corpus looks up the service, then
the retriever, then reads the FAISS file, the metadata and the metadata again,
and keeps what it built in the caches on the way back. A thread changing an
index writes its files one at a time, then clears the services and then the
retrievers. A file's content is the number of the change that wrote it.

Left out: `vectors.npy`, which no query reads; two threads changing one corpus
at once, which is `Indexing`'s subject; and a job that fails after it wrote,
which does not invalidate at all.

### WorkerLifecycle

`WorkerLifecycle.tla` models `start`, `_consume` and `stop` of both queues
inside `start_indexing_worker` and `stop_indexing_worker`, over several starts
in one process; `backend` says which queue `REDIS_URL` chose. Thread `<<g, i>>`
is the i-th of start g and writes through repository g.

| Model | Code |
|---|---|
| `Start`, `Scan`, `Requeue`, `Serve` | `start_indexing_worker`: the threads first, then the unfinished records, each reset and queued |
| `Upload`, `UploadUnqueued` | the record and its job; a record whose `rpush` raised |
| `StopQueue`, `Join`, `StopReturns`, `CloseRepository` | sentinels or the stop event, the joins, `cache_clear` and `close` |
| `Take` | `InProcessQueue._consume`: a job, or a sentinel that ends the thread |
| `LookAtEvent`, `Pop`, `PopTimesOut`, `ConnectionLost` | `RedisQueue._consume`: the event, `blpop`, its timeout of a second, its exception outside the `try` |
| `Begin`, `Settle` | `handle`'s uses of the repository; with a closed one the RuntimeError loses the job |

A join returns when its thread has ended or after five seconds (`gaveUp`),
whatever the thread does then; a shutdown therefore always ends, and what is
checked is that the threads do (`ThreadsEnd`). The records a dead process left may be in mid-job at the
first start; the jobs it left in Redis are met at a second start only. The
connection breaks at most once per start; that an enqueue fails at startup is
left out.

### Answering

`Answering.tla` follows requests to `/query` and `/stream` through
`RAGService` and `GroqGenerator`. A query runs on the event loop and holds it
(`loop`) until its response is there, the sleeps between retries included. A
stream runs on pool threads, one `next()` at a time; it goes on from an event
it sent only when the loop asks, while a `next()` already under way
interleaves with everything.

| Model | Code |
|---|---|
| `Ask`, `Resolve` | the endpoints' dependency and `_build_service_for` |
| `Retrieve`, `RetrievalFails` | retrieval in `answer` and `stream`; the `sources` event |
| `Attempt`, `PassingError`, `Answered`, `UnknownModel`, `Refused` | `_call_with_retry` and the call of `stream`, with the fallback model |
| `Resume`, `Pull`, `PullFails`, `Yield` | the event loop's `next()`, tokens, `done` and `error` |
| `Finish`, `Fail`, `Status` | the counters, the except branches, the endpoints' statuses |
| `Disconnect` | a client that leaves: GeneratorExit at the yield |
| `Invalidate` | `invalidate_service_cache`: requests in flight keep their object |
| `Metrics` | the counters `/metrics` reads from the default corpus's service |

The three increments of a count hold no call, and CPython switches threads
within them neither at a call nor at a backward jump: they are one step.
Latencies and log lines are left out.

### Retrieval and RetrievalRequest

`Retrieval.tla` is the pipeline as operators over an index as one question
meets it: FAISS order, BM25 scores and cross-encoder scores are inputs.
`DenseSearch`, `SparseSearch`, `Fuse`, `Rerank` and `FillSkipped` are the
searches, the reciprocal rank fusion (each occurrence of an id votes, the last
rank is recorded), the reranker and the pipeline report of
`HybridRetriever.retrieve_traced`. Python's stable sort is `Falling`: each
element goes to the place given by how many outrank it. Fused scores are counted in billionths.
`RetrievalRequest.tla` puts any request to any index of a set; its properties
say independently of the algorithm what an answer has to satisfy. Its assumption
`IndexAssumption` says that vectors and chunks are aligned: an exact FAISS
search ranks each position once, and every chunk has its scores. The libraries
do that for aligned files; `from_disk` reads the files one by one and checks
nothing, so that they are aligned is `Indexing!FilesAligned`'s and
`ServiceCache`'s subject, and where those fail nothing is said here.

### Evaluation

`Evaluation.tla` models `/evaluation` and `/benchmarks`: the result cache of
the process, the sweep over the matrix with its deadline, the resolution of
labels against the files on disk while the chunks come from the retriever in
memory, and an offline rebuild or a restart beside them. The metrics are those
of `evaluation/metrics.py` in units of 1/12. What each measurement gives is
tabulated in the constant `Measured`, for speed only: the assumption
`MeasuredAssumption`, evaluated on every run, says that the table is what
`Measure` computes from `Retrieval`.

Left out: rounding, latencies and percentiles, the evaluation of generated
answers, and the offline benchmark runner with its reports.

### Chunking

`Chunking.tla` models `DocumentSplitter.split`. The library's splitter is
external: a raw chunk is any piece it may cut (`FollowsCut`: stripped, no
longer than the chunk size, sharing at most the overlap with the one before,
skipping only whitespace). A cut may repeat the one before it where only
whitespace follows, as the library does around long runs of it; the length of
the text bounds how often. `Locate` is `_locate` with its moving hint, `Merge`
and `MergeEnd` are `_merge_short`. The floor of 50 characters under
`chunk_size` is dropped, so that small documents can be checked.

### RateLimit

`RateLimit.tla` models `TokenBucketLimiter.check` and the middleware around it.
Time is in the ticks in which a bucket refills by one unit, a token is
`TokenTicks` units and a second `SecondTicks`, so all amounts are integers
where the code has floats. An observer may open a window at any moment and
counts what is admitted from then on.

## Runs

| Run | Instance | What it shows |
|---|---|---|
| `indexing_serial` | three uploads of two contents, deletes only when nothing is in flight, no faults | the files are aligned, READY documents are indexed once, nothing is indexed without a record, and `ImplementsCorpus` |
| `indexing_restarts` | three uploads of two contents, racing deletes, locked files, one fault | records and queue stay consistent whatever happens to the files: `NothingStranded`, `OneJobPerDocument`, `OneLiveRecordPerContent`, `TerminalIsFinal`, `StagesInOrder` |
| `indexing_settles` | two documents, racing deletes, one fault, fairness | `UploadsSettle` |
| `cache_deletes` | three corpora, caches of two entries, a pool thread, two changes | `DeletedNotServed`, with evictions and the worker clearing the caches for another corpus |
| `worker_stops` | either queue, two threads in memory, two documents, two starts | `StoppedBeforeClosed`, `StopDrains`, `HandledOnce`, `JobsKept`, `ServingHasWorkers`, and under fairness `QueuedSettles`, `ThreadsEnd` |
| `answering` | a query and two streams on one service, which may be rebuilt once; two attempts, one token | `AccountsMatch`, `EventOrder`, `RetriesExact`, `FallbackLostToRace`, and under fairness `RequestsEnd` |
| `retrieval` | every request with top-1 or top-2 in every mode, over all small indexes of four positions, ids that repeat among them | `AgreementKept`, `FunnelTruthful`, `RerankerPromotes` |
| `evaluation` | two questions, three chunks, three versions of the index, twelve cells, two rebuilds or restarts | `BoundedCall`, `ResponseTrue`, and under fairness `MatrixCompletes` |
| `chunking` | every document of five characters out of three, four configurations, every way of cutting it | `LocateFinds`, `RawTextKept`, `NoShortChunks` |
| `rate_limit` | two clients, one token per second, burst of two, four seconds | `WindowBounded`, `RefusalsAreFree`, `RetryAfterSuffices` |
| `restart_duplicates` | one document, one death | a violation of `NoDuplicateChunks` |
| `cache_stale` | two corpora, one indexed while it is queried | a violation of `IndexedIsServed` |

The bounds are small because the hazards are: two threads and one overlap are
enough for each lost update, a second document for a row to survive or shift,
a third for a duplicate of the first beside another, one fault for a restart
that meets every intermediate state, two starts for whatever the first one
leaves behind, two cache entries among three corpora for an eviction. A query
and a stream are enough for one to overtake the other at the model change, a
second stream for a third party to have done so before; with two attempts there
is an attempt that is repeated and a last one. Two documents give each of two
threads one, and a thread that is not yet scheduled stands for one that is busy
with a third; `WorkerStopsThree.cfg` repeats the run with three documents and
finds no error either, in several minutes. With four positions and windows
of two the windows cut off what could be returned. A budget of three measures
at most three of twelve cells in a call. Five characters hold a piece that
repeats, an overlap and a short tail. `indexing_restarts` is symmetric in the
two uploads of the same bytes. Deadlock is checked in `cache_deletes` and
`evaluation` only: elsewhere a system whose ids, requests, starts or time are
used up rightly stops.

### Where the code departs from what it says

Two runs end in a counterexample of a property that a comment states;
`PROJECT.json` quotes the lines. `restart_duplicates`: append, die, requeue,
append again; startup's "safe by construction" (`api/dependencies.py:209`)
holds of a rebuild, and `_index` appends. `cache_stale`: a query between its
miss in the retriever cache and its insertion into the service cache survives
an invalidation. `DeletedNotServed` holds because the delete handler and the
queries run on the same event loop, not because of the order of the clears.

Further configurations, kept beside the runs, each refute one property (but
for `WorkerStopsThree`, which passes); run them as `tlc -config X.cfg MC...`.

| Configuration | Module | Refutes | The text, and what the code does |
|---|---|---|---|
| `RedisRestartReruns` | `MCIndexing` | `TerminalIsFinal` | "With Redis this is unnecessary, and harmless" (`api/dependencies.py:211`): the surviving job and the requeued one both run, and startup's reset may take a finished document back to QUEUED |
| `DeleteOrphans` | `MCIndexing` | `NoOrphanChunks` | the delete reads the index before the append and drops the record after the worker's check, so each leaves the chunks to the other |
| `HalfIndexOrphans` | `MCIndexing` | `NoOrphanChunks` | a first job whose FAISS write fails is FAILED with its chunks in `vectors.npy` and `metadata.json`; its deletion asks `layout.exists` (`corpora/layout.py:59`), which wants the FAISS file too, finds no corpus and leaves them |
| `CrashMisaligns` | `MCIndexing` | `IndexAligned` | `append` is not atomic over its two files |
| `RetryAfterShort` | `MCRateLimit` | `RetryAfterSuffices` | below one token per second `round` shortens waits |
| `JoinGivesUp` | `MCWorkerLifecycle` | `AlwaysStoppedBeforeClosed` | the worker "has to be stopped before the connections it writes through are closed" (`api/dependencies.py:238`), but the join times out |
| `ConfigModel` | `MCAnswering` | `ConfigNamesModel` | "What this deployment is actually running" (`api/routers/config.py:50`), and a generator that is "stateless" (`api/dependencies.py:52`): after a fallback the service asks for another model than `/config` names |
| `TimeoutStatus` | `MCAnswering` | `TimeoutIs504` | "LLM request timed out after all retries" (`api/routers/query.py:27`; `tests/test_api.py:281` raises a plain TimeoutError): `groq.APITimeoutError` is none, so it is a 500 |
| `StreamNotRetried` | `MCAnswering` | `PassingErrorsRetried` | "Retries: RateLimitError, APIConnectionError, APITimeoutError" (`generation/generator.py:53`): `stream` calls once, and so does the fallback |
| `CounterDrops` | `MCAnswering` | `CounterNeverDrops` | "per-process and reset on restart" (`api/routers/prometheus.py:47`), "since cold start" (`api/schemas.py:153`): indexing or deleting any document drops the service with its counters |
| `HybridRerank` | `MCRetrieval` | `HybridRerankerPromotes` | `retrieval/hybrid_retriever.py:178` widens the search so that reranking does more than permute; a hybrid query is cut to top-K before it is reranked |
| `DuplicateFusion` | `MCRetrieval` | `AgreementKeptAlways` | an id indexed twice votes twice |
| `StaleMetrics` | `MCEvaluation` | `CacheIsCurrent` | "Results are a pure function of (dataset, index, config)" (`api/routers/evaluation.py:58`): the cache outlives an offline rebuild, and labels and chunks come from two versions |
| `NoBudget` | `MCEvaluation` | `MatrixCompletes` | a budget of zero never measures |
| `OffsetsBack` | `MCChunking` | `OffsetsMonotonic` | "Searches forward from hint to stay monotonic across chunks" (`chunking/splitter.py:183`): with overlap, repeated text is found before the piece it follows |
| `TailDropped` | `MCChunking` | `NothingEverDropped` | "Content is never dropped" (`chunking/splitter.py:145`): a piece found too early leaves its own characters to no chunk. Their text survives as long as no piece is found before its predecessor (`RawTextKept`) |
| `RawTextLost` | `MCChunking` | `RawTextKeptAlways` | the same sentence: a short piece waits to be merged into the next, which is longer but found before it (the hint has gone back by an overlap longer than the short piece); the chunk starts with the short one, and the beginning of the other's text is in no chunk |

Met while reading, and not modelled: a rate limit of Groq ends in a 500 where
`docs/product_spec.md:236` says 429; `generation/models.py:23` calls sources
the chunks "that were included in the prompt", and the prompt holds the first
five of up to twenty; BM25 scores of a tiny corpus may be zero or negative for
a term that does occur, which `retrieval/bm25_store.py:37` reads as no overlap;
the limiter's 429 is sent outside the CORS middleware (`api/app.py:110`).

## Fairness

* `Indexing`: `Startup` (`docker-compose.yml` restarts the container unless it
  is stopped), `Respond` (a handler that began runs on, having no await) and
  `Work` (the worker is a scheduled thread). No request has to arrive.
* `WorkerLifecycle`: a startup or shutdown that has begun goes on, and each
  thread is scheduled; nothing has to start or stop the application, and
  nothing has to break. A job eventually returns: `embed_many` and the parsers
  have no timeout, and a hanging one would block every later job.
* `Answering`: each request proceeds (`WF_vars(Proceed(r))`): threads are
  scheduled, calls to Groq end because they carry a timeout, and the event loop
  serves every stream that waits. Weak fairness is enough, as only a bounded
  number of queries can hold the loop. No request has to arrive, no client to
  leave or stay.
* `Evaluation`: a handler that runs goes on, and a page asks again while the
  last answer it got left cells pending (`Polling`;
  `frontend/hooks/use-platform.ts:73`). It keeps that answer across later
  errors (`shown`), so a 503 in between does not end its polling. A first call
  that is refused does: there is no answer to keep, and a 503 is not retried
  (`frontend/services/api-error.ts:49`, `frontend/app/providers.tsx:31`).
  `MatrixCompletes` promises such a page nothing. The page stays open and in
  front, and the index is there from some time on.

## Proofs

Eight modules, checked by TLAPS without assumptions beyond the named ones of the
modules and those stated below.

### IndexingProofs

The threads and records, with racing deletes and faults included:

* `TypesHold`: the state keeps its type, with either queue, whatever fails. A
  rewrite puts into a file what a thread holds in memory, so the type of the
  files needs that of the plans and of what was read for them (`DataInv`).
* `ControlCorrect`: `ControlInv` is inductive with the in-process queue
  (`~DurableQueue`; `RedisRestartReruns` shows why it fails otherwise). "No
  document is queued twice" is not inductive alone: it needs that the worker's,
  the handler's and startup's documents are distinct (`JobInv`), that each
  thread's return label fits its label (`ThreadInv`), that startup precedes
  requests (`PhaseInv`), and that a record's status is the stage of whoever has
  the document (`StatusInv`). From it follow `NothingStrandedAlways`,
  `OneLiveRecordAlways`, `OneJobAlways` and, over single steps,
  `TerminalAlwaysFinal` and `StagesAlwaysInOrder`: for any number of documents
  and faults.

The corpus files, when no delete runs while the worker is busy
(`~DeletesRace`; `DeleteOrphans` shows why the files part fails otherwise) and
until the first crash or failed write (`CrashMisaligns` and
`RestartDuplicates` show what comes after one):

* `FilesHold`: `FilesInv` is inductive. The three properties of the files speak
  of moments at which nobody writes, and say nothing about the many steps in
  between, so it has to follow the rewriting step by step. `RestInv`: at rest
  all files hold the same rows. `RewriteOK`: during a rewrite each file holds
  the rows from before it, those to come (`NewRows`), or is the one file torn
  open, depending on what the plan still has to write (`Unwritten`). `PlanOK`:
  the plan writes each file once, all with the new rows, the FAISS file last
  and after a reload. `ReadOK`: what was read from one file is still what lies
  there when the next file is read. With their types and labels these are
  `TurnsInv`, which needs no more than that the threads take turns at the files
  (`TakesTurns`). They do because a delete starts with the queue empty and the
  worker idle, and the document it is for keeps its record until the end
  (`AloneInv`, `Exclusive`). What is served is there once, and is what the
  records and the threads' places say (`Served`). TLC checked `FilesInv` on
  three documents before it was proved.
* `AlignedUntilFault`, `ReadyUntilFault`, `NoDuplicatesUntilFault` and
  `NoOrphansUntilFault` follow from it: the run's properties for any number of
  documents. That the rows a delete keeps are those of the other documents, in
  order, and that vectors and records keep the same positions, is
  `KeptFacts`, by counting the kept positions before each (`Counting`).
* `CorpusImplemented`: without faults (`MaxFaults = 0`) `Spec` implements
  `WorkspaceCorpus`. The abstract index is `Served` at every step
  (`IndexedServed`). `UploadStore` is `Store`, `UploadAdd` is `Accept`, taking a
  job and finishing a stage are `Progress`, `StageFails` is `Fail`, the last
  write of `_index` is `Publish`, `MarkReady` is `Ready`, the last write or
  unlink of a delete is `Withdraw`, `DeleteRecord` is `Forget`; every other
  step, the other writes among them, changes nothing one can see there.

### WorkerProofs

For any number of documents, threads and starts, and either queue.

* `StopThenClose`, `ServedByWorkers`: `ThreadsInv` says which threads each
  phase of the application allows, by the start they belong to and the joins
  still to come; an alive thread is always of the last start.
* `NoJobLost`: `KeptInv` says where the job of an unfinished record is in each
  phase, the startup scan included.
* `StopHasDrained`: the sentinels are at the end of the queue, one per alive
  thread, and the queue is empty when no thread is (`Trailing`, from the moment
  of the stop on). It is proved by counting the threads a step ends.
* `AlwaysHandledOnce`: `OnceInv` adds that a document to be requeued is
  nowhere else, which holds because the stop before has drained.

### ServiceCacheProofs

For any number of corpora, pool threads and changes, and any size of the
caches.

* `DeletedNeverServed`: `OwnerInv` says that only the event loop and the worker
  change an index, the worker only those it has jobs for, and that every other
  thread is at the default corpus, which nobody changes. So a corpus without
  indexing jobs is read by nobody while it changes, and `FreshInv` is
  inductive: unless the event loop is changing it, what is cached of it and
  what any thread has read of it is what is on disk. Between the two clears it
  adds that no service of it is left. `cache_stale` shows why the corpora with
  indexing jobs are left out.
* `TypeCorrect`, from two lemmas about `lru_cache` (`TouchedKept`,
  `InsertedKept`): a hit and an insertion keep the bound and one entry per
  corpus, and bring in no entry but the one inserted.

### AnsweringProofs

For any finite sets of requests, any number of attempts, tokens and services.

* `TypeCorrect`, `RetriesBounded`: `IInv` relates each label to the calls made,
  the seconds slept and the model of the last call.
* `EventsInOrder`: a stream's label says which event it sent last, and what is
  still allowed to follow.
* `FallbackMissedInRaces`: a service whose model is the fallback was changed by
  a request that used it, and of two requests at once one is a stream, because
  a query holds the loop.
* `CountersMatch`: the counters of a service add up with what its clients were
  told, those that left apart; proved by the cardinality of the sets of
  requests that ended in each way.

### ChunkingProofs

For every document and configuration, and every way of cutting.

* `SearchSucceeds`: the hint is at most one, or the end of the last cut minus
  the overlap; as the next cut does not begin before that, the search never
  overshoots it, however often its text repeats. So `_locate`'s two fallbacks
  are dead code.
* `MinimumKept`: what the merging appends is long enough, and growing a chunk at
  its end keeps it so.
* `TextSurvives`: every piece is an occurrence of its raw chunk (`Located`), and
  while the pieces come in the order of their offsets, the merging keeps those
  seen so far inside the merged ones or the pending one, none of which starts
  behind what is still to come (`MergingKeeps`). The proviso is needed
  (`RawTextLost`), and `LongChunksInOrder` says when it holds: a raw chunk
  shorter than the overlap is all that can make the offsets go back.
* `NothingIsDropped`: if the pieces were found where they were cut, they are in
  order and cover every visible character (`CutsCover`), so the chunks do too.

### EvaluationProofs

For any dataset, versions of the index, swept top-K, costs and numbers of
rebuilds and restarts.

* `AlwaysTrue`: every cell a sweep has passed was reported or counted as
  pending, once. That no configuration comes twice (`CellsDiffer`, from the
  place of a cell in the three loops) makes the cells reported add up, and a
  sweep that left nothing pending holds them all. That a complete matrix calls
  itself discriminating for the right reason needs that, without a rebuild, the
  cache holds what a measurement would give now.
* `CallsBounded`, for a budget that is not negative.

### RateLimitProofs

* `BucketsBalance`: what was spent in the window plus what the bucket holds
  never exceeds the burst plus what refilled since the window opened, and a
  bucket holds at least what refilled since its client was last admitted, up to
  a token. `WindowAlwaysBounded` and `RefusalsAlwaysFree` follow.
* `RetryAfterAlwaysSuffices`, from `TokenTicks <= SecondTicks`: at one token
  per second or faster every wait is at most a second, which the lower bound of
  one covers. Below that rate `RetryAfterShort` refutes it. The inductive part
  (`Promised`) says that a client still waiting lacks no more than what refills
  until its time.

### RetrievalProofs

For any indexes that satisfy `IndexAssumption`, any `top_k`, any
`candidate_multiplier` and any `_RRF_K`. The specification answers once, so its
invariant (`AnswerInv`: the answer is what the pipeline returns for the request)
is short, and the work is in what the pipeline computes.

* `Sorted`: as one of any two elements outranks the other, the elements that
  outrank a given one are fewer for the better of two, so that the places are
  distinct, fill `1 .. n`, and follow the scores. A total order (`TotalOrder`) and counting
  (`Places`) are all it takes; the searches, the fusion and the reranker use it.
* `VotesFacts`: the votes for a chunk that a list names once are the weight of
  its rank, and none otherwise. `Votes` is a recursive function; that the
  function exists, and what it sums up to, is induction over numbers by least
  counterexample (`Least`, `UpTo`), from the well-foundedness of `<` on the
  naturals that the library states.
* `FunnelAlwaysTruthful`: `CandidateFacts` and `ResultFacts` say how long the
  candidates and results are and which ranks they carry, in each mode;
  `Reports` says which report of a stage fills its slot.
* `RerankerAlwaysPromotes`: the candidates contain what the search ranks within
  `Multiplier * top_k` (`BestIsCandidate`), and the reranker sorts them.
* `AgreementAlwaysKept`: when ids are distinct, the better placed chunk gets at
  least the votes of the other from each list (`BetterVoted`), also where a
  window cuts one or both off, and is met before it, which settles the tie;
  that the ranks found in the two windows are those of the whole orders is
  `ChunkPlaces`. `DuplicateFusion` refutes it for ids that repeat.

### Only model-checked

Liveness, which is beyond the prover; the types of the results that `Evaluation`
caches; and what the violations and the further configurations show.

## Not modelled

* Parsing, cleaning and embedding, and the scores of FAISS, BM25, the
  cross-encoder and the LLM: values computed by libraries; the steps around
  them succeed or fail.
* The reading endpoints, request validation, schemas, logging, CORS, client-key
  extraction and formatting: they keep no state.
* Two processes that consume one Redis list, or two API processes over one data
  directory.
* The evaluation of generated answers, the benchmark runner, the percentiles
  and reports: sequential programs run by hand, like the other scripts.
* The browser client, but for its polling.

Hazards left to tests or review, because a model would only restate the line:
a bucket is kept per client key for ever (`api/rate_limit.py:52`), a rate of
zero divides by zero (`api/rate_limit.py:62`), two misses for one corpus load
its retriever twice (`api/dependencies.py:26`), a delete refused with 409 has
already removed the upload (`api/routers/documents.py:269`), and an upload that
refuses to be unlinked stays (`documents/storage.py:126`).
