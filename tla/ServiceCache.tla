---------------------------- MODULE ServiceCache ----------------------------
(***************************************************************************)
(* How a query reaches an index: two lru_caches in one process, retrievers *)
(* per corpus and services per corpus, a service being built on the cached *)
(* retriever.  Whatever changes an index clears both caches afterwards.    *)
(*                                                                         *)
(* Three kinds of thread.  The event loop runs /query, /stream and DELETE  *)
(* one at a time, each to its end (they do not await).  The dependencies   *)
(* get_retriever and get_service are plain functions, so FastAPI runs them *)
(* on pool threads: /evaluation, /benchmarks, /config and /metrics load    *)
(* the default corpus there.  The worker writes the index of a document    *)
(* and clears the caches through on_indexed.                               *)
(*                                                                         *)
(* A file's content is the number of the change that wrote it; vectors.npy *)
(* is never loaded by a query and left out.  Two threads changing the same *)
(* corpus at once is the business of module Indexing.                      *)
(***************************************************************************)
EXTENDS Naturals, Sequences, SequencesExt

CONSTANTS
  Corpora,        \* corpus ids
  Default,        \* DEFAULT_CORPUS_ID, the one the dependencies load
  Pool,           \* pool threads
  Indexed,        \* corpora the worker has jobs for; an upload to Default is a 422
  None,           \* an absent file, nothing read yet
  Torn,           \* a file truncated and not yet filled
  CacheSize,      \* lru_cache(maxsize=...), both caches
  MaxChanges      \* bound: changes made to indexes

ASSUME CacheAssumption ==
  /\ Default \in Corpora
  /\ Indexed \subseteq Corpora \ {Default}
  /\ {"loop", "worker"} \cap Pool = {}
  /\ CacheSize \in Nat \ {0}
  /\ MaxChanges \in Nat

VARIABLES
  disk,         \* corpus -> its metadata and faiss files
  services,     \* _build_service_for's cache, least recently used first
  retrievers,   \* _build_retriever_for's cache
  pc,           \* where each thread is
  on,           \* the corpus it works on
  wants,        \* what it resolves: "service" or "retriever"
  held,         \* the retriever it is loading or holds
  plan,         \* the writes it has still to make
  changes       \* changes so far

vars == <<disk, services, retrievers, pc, on, wants, held, plan, changes>>

Loop == "loop"
Worker == "worker"
Threads == Pool \cup {Loop, Worker}

Versions == 0 .. MaxChanges
Unread == [faiss |-> None, dense |-> None, sparse |-> None]
Retrievers == [faiss : Versions, dense : Versions, sparse : Versions]

-----------------------------------------------------------------------------
(* functools.lru_cache.                                                    *)

Keys(cache) == {cache[i].corpus : i \in DOMAIN cache}
Place(cache, c) == CHOOSE i \in DOMAIN cache : cache[i].corpus = c
Entry(cache, c) == cache[Place(cache, c)]

\* A hit moves the entry to the most recently used end.
Touched(cache, c) ==
  Append(RemoveAt(cache, Place(cache, c)), Entry(cache, c))

\* What a miss computed is inserted, the least recently used entry making
\* room; when another thread inserted the key meanwhile, the cache keeps that.
Inserted(cache, c, r) ==
  CASE c \in Keys(cache) -> cache
    [] c \notin Keys(cache) /\ Len(cache) < CacheSize ->
         Append(cache, [corpus |-> c, retriever |-> r])
    [] OTHER -> Append(Tail(cache), [corpus |-> c, retriever |-> r])

-----------------------------------------------------------------------------
(* Moving a thread.                                                        *)

Goto(t, label) == pc' = [pc EXCEPT ![t] = label]

Rest(t) ==
  /\ Goto(t, "idle")
  /\ on' = [on EXCEPT ![t] = Default]
  /\ wants' = [wants EXCEPT ![t] = "service"]
  /\ held' = [held EXCEPT ![t] = Unread]

Onward(t, label) == Goto(t, label) /\ UNCHANGED <<on, wants>>

Exists(c) == disk[c].metadata # None /\ disk[c].faiss # None

Init ==
  /\ disk \in [Corpora -> {[metadata |-> 0, faiss |-> 0],
                           [metadata |-> None, faiss |-> None]}]
  /\ services = <<>>
  /\ retrievers = <<>>
  /\ pc = [t \in Threads |-> "idle"]
  /\ on = [t \in Threads |-> Default]
  /\ wants = [t \in Threads |-> "service"]
  /\ held = [t \in Threads |-> Unread]
  /\ plan = [t \in Threads |-> <<>>]
  /\ changes = 0

-----------------------------------------------------------------------------
(* Resolving a corpus.                                                     *)

Ask(t, c, what) ==
  /\ pc[t] = "idle"
  /\ Goto(t, what)
  /\ on' = [on EXCEPT ![t] = c]
  /\ wants' = [wants EXCEPT ![t] = what]
  /\ UNCHANGED <<disk, services, retrievers, held, plan, changes>>

\* POST /query and /stream, on the event loop: any corpus.
Query(c) == Ask(Loop, c, "service")

\* /metrics through get_service; /evaluation, /benchmarks, /config through
\* get_retriever: a pool thread, always the default corpus.
Depend(t, what) == Ask(t, Default, what)

\* _build_service_for: a hit answers, a miss asks for the retriever.
LookupService(t) ==
  /\ pc[t] = "service"
  /\ IF on[t] \in Keys(services)
       THEN /\ services' = Touched(services, on[t])
            /\ Rest(t)
       ELSE /\ Onward(t, "retriever")
            /\ UNCHANGED <<services, held>>
  /\ UNCHANGED <<disk, retrievers, plan, changes>>

\* Where a thread goes with a retriever: on to the service, or done.
WithRetriever(t, r) ==
  IF wants[t] = "service"
    THEN Onward(t, "build") /\ held' = [held EXCEPT ![t] = r]
    ELSE Rest(t)

\* _build_retriever_for: a hit, or a load that first asks whether the corpus
\* is there (a 404 if not, and nothing is cached).
LookupRetriever(t) ==
  /\ pc[t] = "retriever"
  /\ IF on[t] \in Keys(retrievers)
       THEN /\ retrievers' = Touched(retrievers, on[t])
            /\ WithRetriever(t, Entry(retrievers, on[t]).retriever)
       ELSE /\ IF Exists(on[t]) THEN Onward(t, "readFaiss") /\ UNCHANGED held
                                ELSE Rest(t)
            /\ UNCHANGED retrievers
  /\ UNCHANGED <<disk, services, plan, changes>>

\* Mutant of Read: a missing or half written file is loaded as it is.
ReadUnchecked(t, label, file, part, next) ==
  /\ pc[t] = label
  /\ held' = [held EXCEPT ![t][part] = disk[on[t]][file]]
  /\ Onward(t, next)
  /\ UNCHANGED <<disk, services, retrievers, plan, changes>>

\* One read of a load: a missing or half written file ends the request with
\* an error, and an error is not cached.
Read(t, label, file, part, next) ==
  /\ pc[t] = label
  /\ IF disk[on[t]][file] \in {None, Torn}
       THEN Rest(t)
       ELSE /\ held' = [held EXCEPT ![t][part] = disk[on[t]][file]]
            /\ Onward(t, next)
  /\ UNCHANGED <<disk, services, retrievers, plan, changes>>

\* from_disk: FAISSStore.load, the dense metadata, and the metadata again for
\* BM25.
ReadFaiss(t) == Read(t, "readFaiss", "faiss", "faiss", "readDense")
ReadDense(t) == Read(t, "readDense", "metadata", "dense", "readSparse")
ReadSparse(t) == Read(t, "readSparse", "metadata", "sparse", "keepRetriever")

KeepRetriever(t) ==
  /\ pc[t] = "keepRetriever"
  /\ retrievers' = Inserted(retrievers, on[t], held[t])
  /\ WithRetriever(t, held[t])
  /\ UNCHANGED <<disk, services, plan, changes>>

\* GroqGenerator() raises without an API key: a 503, the retriever cached.
KeepService(t) ==
  /\ pc[t] = "build"
  /\ \/ services' = Inserted(services, on[t], held[t])
     \/ UNCHANGED services
  /\ Rest(t)
  /\ UNCHANGED <<disk, retrievers, plan, changes>>

-----------------------------------------------------------------------------
(* Changing an index and clearing the caches.                              *)

Put(file, content) == [file |-> file, content |-> content]

\* Both writers replace metadata.json and then the FAISS file.
Rewrite(v) == <<Put("metadata", Torn), Put("metadata", v),
                Put("faiss", Torn), Put("faiss", v)>>

\* _delete_corpus_files
UnlinkAll == <<Put("metadata", None), Put("faiss", None)>>

Changing(t, c) ==
  pc[t] \in {"write", "clearServices", "clearRetrievers"} /\ on[t] = c

StartChange(t, c, writes) ==
  /\ pc[t] = "idle"
  /\ \A u \in Threads : ~ Changing(u, c)
  /\ changes < MaxChanges
  /\ changes' = changes + 1
  /\ on' = [on EXCEPT ![t] = c]
  /\ plan' = [plan EXCEPT ![t] = writes]
  /\ Goto(t, "write")
  /\ UNCHANGED <<disk, services, retrievers, wants, held>>

\* The worker appends a document, or discards one deleted mid-job.
IndexDocument(c) ==
  /\ c \in Indexed
  /\ StartChange(Worker, c, Rewrite(changes + 1))

\* DELETE: the corpus is rewritten without the document, unlinked when that
\* was its last one, or left alone when it has no chunk of it.  The default
\* corpus has no documents, only the offline benchmark's files.
DeleteDocument(c) ==
  /\ c # Default
  /\ \/ Exists(c) /\ StartChange(Loop, c, Rewrite(changes + 1))
     \/ Exists(c) /\ StartChange(Loop, c, UnlinkAll)
     \/ StartChange(Loop, c, <<>>)

Write(t) ==
  /\ pc[t] = "write"
  /\ IF plan[t] = <<>>
       THEN Goto(t, "clearServices") /\ UNCHANGED <<disk, plan>>
       ELSE /\ disk' = [disk EXCEPT ![on[t]][Head(plan[t]).file] =
                          Head(plan[t]).content]
            /\ plan' = [plan EXCEPT ![t] = Tail(plan[t])]
            /\ UNCHANGED pc
  /\ UNCHANGED <<services, retrievers, on, wants, held, changes>>

\* Mutant of ClearServices: the retrievers alone are thought to be enough.
SkipServices(t) ==
  /\ pc[t] = "clearServices"
  /\ Goto(t, "clearRetrievers")
  /\ UNCHANGED <<disk, services, retrievers, on, wants, held, plan, changes>>

\* invalidate_service_cache: cache_clear on the one, then on the other; the
\* corpus id it is given is not used, every corpus is dropped.
ClearServices(t) ==
  /\ pc[t] = "clearServices"
  /\ services' = <<>>
  /\ Goto(t, "clearRetrievers")
  /\ UNCHANGED <<disk, retrievers, on, wants, held, plan, changes>>

ClearRetrievers(t) ==
  /\ pc[t] = "clearRetrievers"
  /\ retrievers' = <<>>
  /\ Rest(t)
  /\ UNCHANGED <<disk, services, plan, changes>>

-----------------------------------------------------------------------------

Resolve(t) ==
  \/ LookupService(t) \/ LookupRetriever(t)
  \/ ReadFaiss(t) \/ ReadDense(t) \/ ReadSparse(t)
  \/ KeepRetriever(t) \/ KeepService(t)

Change(t) == Write(t) \/ ClearServices(t) \/ ClearRetrievers(t)

Next ==
  \/ \E c \in Corpora : Query(c) \/ DeleteDocument(c) \/ IndexDocument(c)
  \/ \E t \in Pool, what \in {"service", "retriever"} : Depend(t, what)
  \/ \E t \in Threads : Resolve(t) \/ Change(t)

Spec == Init /\ [][Next]_vars

-----------------------------------------------------------------------------
(* Properties.                                                             *)

\* Neither cache holds more entries than its bound, or two for one corpus,
\* and a cached entry holds a retriever that was loaded whole.
TypeOK ==
  /\ \A cache \in {services, retrievers} :
       /\ Len(cache) <= CacheSize
       /\ IsInjective([i \in DOMAIN cache |-> cache[i].corpus])
       /\ \A e \in ToSet(cache) : e.corpus \in Corpora /\ e.retriever \in Retrievers
  /\ disk \in [Corpora -> [metadata : Versions \cup {None, Torn},
                           faiss : Versions \cup {None, Torn}]]
  /\ pc \in [Threads -> {"idle", "service", "retriever", "readFaiss", "readDense",
                         "readSparse", "keepRetriever", "build", "write",
                         "clearServices", "clearRetrievers"}]

OnDisk(c) == [faiss |-> disk[c].faiss, dense |-> disk[c].metadata,
              sparse |-> disk[c].metadata]

\* Nothing cached for c differs from what is on disk.
Current(c) ==
  \A e \in ToSet(services) \cup ToSet(retrievers) :
    e.corpus = c => e.retriever = OnDisk(c)

\* Once a delete is answered, no cached service or retriever of that corpus
\* is one loaded before it (documents.py: "the next query must not be answered
\* by a retriever loaded before this").  It holds of a corpus the worker has no
\* job for; the worker's clears, evictions and pool threads do not spoil it.
DeletedNotServed ==
  pc[Loop] = "idle" => \A c \in Corpora \ Indexed : Current(c)

\* Once the worker has cleared the caches, a corpus it has indexed is not
\* served from an older index (invalidate_service_cache: "drop cached services
\* so a newly indexed document becomes searchable").
IndexedIsServed ==
  (\A t \in Threads : pc[t] = "idle") => \A c \in Indexed : Current(c)
=============================================================================
