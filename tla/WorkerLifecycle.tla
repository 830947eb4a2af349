-------------------------- MODULE WorkerLifecycle --------------------------
(***************************************************************************)
(* Starting and stopping the indexing worker over either queue.  The       *)
(* application starts the queue's threads, requeues what the records say   *)
(* is unfinished, takes uploads, and on shutdown stops the queue, joining  *)
(* each thread for at most five seconds, and closes the repository the     *)
(* threads write through.                                                  *)
(*                                                                         *)
(* InProcessQueue ends its threads with one sentinel each, behind the jobs *)
(* that wait.  RedisQueue has one thread, which pops with a timeout and    *)
(* looks at a flag between jobs; its list survives the process, and its    *)
(* connection may break.                                                   *)
(*                                                                         *)
(* The queue object outlives a shutdown (its lru_cache is not cleared), so *)
(* a second start in the same process consumes what the first left in it;  *)
(* the repository does not: every start builds one.  A process that exits  *)
(* instead is module Indexing's business, as are the stages of a job: here *)
(* a job asks for its record, works, and settles.                          *)
(***************************************************************************)
EXTENDS Naturals, Sequences, FiniteSets

CONSTANTS
  Documents,    \* one job each at a time
  Stop,         \* the shutdown sentinel, None in the code
  Nothing,      \* a thread holds no job
  Backends,     \* the queues REDIS_URL may choose: "memory", "redis"
  Workers,      \* threads per start in memory (the application asks for one)
  MaxStarts     \* bound: starts in one process

ASSUME LifecycleAssumption ==
  /\ {Stop, Nothing} \cap Documents = {}
  /\ Stop # Nothing
  /\ Backends \subseteq {"memory", "redis"}
  /\ Workers \in Nat \ {0}
  /\ MaxStarts \in Nat

VARIABLES
  app,        \* "stopped", "scan", "requeue", "up", "join", "close"
  starts,     \* starts so far; the last one's repository has this number
  open,       \* numbers of the repositories that are open
  backend,    \* which of the queues is in use
  queue,      \* documents queued, and sentinels
  stopping,   \* RedisQueue's event of that name
  broken,     \* since the last start, the connection to Redis was lost once
  pc,         \* thread -> "unborn", "idle", "popping", "asking", "working",
              \*   "dead"
  holds,      \* the document each thread has a job for
  toJoin,     \* shutdown: threads still to join
  toRequeue,  \* startup: documents still to requeue
  status,     \* document -> "none", "QUEUED", "PARSING", "SETTLED"
  gaveUp      \* a join has timed out

redisVars == <<stopping, broken>>
vars == <<app, starts, open, backend, queue, pc, holds, toJoin, toRequeue,
          status, gaveUp, redisVars>>

\* Thread <<g, i>> is the i-th of start g and writes through repository g.
Threads == (1 .. MaxStarts) \X (1 .. Workers)
Size == IF backend = "redis" THEN 1 ELSE Workers
Started(g) == {t \in Threads : t[1] = g /\ t[2] <= Size}
Alive == {t \in Threads : pc[t] \in {"idle", "popping", "asking", "working"}}

Init ==
  /\ app = "stopped"
  /\ starts = 0
  /\ open = {}
  /\ backend \in Backends
  /\ stopping = FALSE
  /\ broken = FALSE
  /\ pc = [t \in Threads |-> "unborn"]
  /\ holds = [t \in Threads |-> Nothing]
  /\ toJoin = {}
  /\ toRequeue = {}
  /\ status \in [Documents -> {"none", "PARSING"}]
  /\ queue = <<>>
  /\ gaveUp = FALSE

-----------------------------------------------------------------------------
(* The application.  A process that died before left records in mid-job;   *)
(* jobs left in Redis are met at a second start.                           *)

\* Mutant of Start: stop did not reset _running, so start returns early.
StartOnce ==
  /\ app = "stopped"
  /\ starts < MaxStarts
  /\ starts' = starts + 1
  /\ open' = open \cup {starts + 1}
  /\ pc' = [t \in Threads |-> IF t \in Started(1) /\ starts = 0 THEN "idle" ELSE pc[t]]
  /\ app' = "scan"
  /\ stopping' = FALSE
  /\ broken' = FALSE
  /\ UNCHANGED <<backend, queue, holds, toJoin, toRequeue, status, gaveUp>>

\* start_indexing_worker builds a repository and starts the threads...
Start ==
  /\ app = "stopped"
  /\ starts < MaxStarts
  /\ starts' = starts + 1
  /\ open' = open \cup {starts + 1}
  /\ pc' = [t \in Threads |-> IF t \in Started(starts + 1) THEN "idle" ELSE pc[t]]
  /\ app' = "scan"
  /\ stopping' = FALSE
  /\ broken' = FALSE
  /\ UNCHANGED <<backend, queue, holds, toJoin, toRequeue, status, gaveUp>>

Unfinished == {d \in Documents : status[d] \in {"QUEUED", "PARSING"}}

\* ...then reads the unfinished records, in one query...
Scan ==
  /\ app = "scan"
  /\ toRequeue' = Unfinished
  /\ app' = "requeue"
  /\ UNCHANGED <<starts, open, backend, queue, pc, holds, toJoin, status,
                 gaveUp, redisVars>>

\* ...and resets and queues each.
Requeue(d) ==
  /\ app = "requeue"
  /\ d \in toRequeue
  /\ toRequeue' = toRequeue \ {d}
  /\ status' = [status EXCEPT ![d] = "QUEUED"]
  /\ queue' = Append(queue, d)
  /\ UNCHANGED <<app, starts, open, backend, pc, holds, toJoin, gaveUp,
                 redisVars>>

Serve ==
  /\ app = "requeue"
  /\ toRequeue = {}
  /\ app' = "up"
  /\ UNCHANGED <<starts, open, backend, queue, pc, holds, toJoin,
                 toRequeue, status, gaveUp, redisVars>>

\* Mutant of Upload: uploads are taken before the records are scanned.
UploadEarly(d) ==
  /\ app \in {"scan", "up"}
  /\ status[d] = "none"
  /\ status' = [status EXCEPT ![d] = "QUEUED"]
  /\ queue' = Append(queue, d)
  /\ UNCHANGED <<app, starts, open, backend, pc, holds, toJoin, toRequeue,
                 gaveUp, redisVars>>

Upload(d) ==
  /\ app = "up"
  /\ status[d] = "none"
  /\ status' = [status EXCEPT ![d] = "QUEUED"]
  /\ queue' = Append(queue, d)
  /\ UNCHANGED <<app, starts, open, backend, pc, holds, toJoin, toRequeue,
                 gaveUp, redisVars>>

\* The record is committed and rpush raises: the upload fails with a 500, the
\* document stays.
UploadUnqueued(d) ==
  /\ backend = "redis"
  /\ app = "up"
  /\ status[d] = "none"
  /\ ~broken
  /\ broken' = TRUE
  /\ status' = [status EXCEPT ![d] = "QUEUED"]
  /\ UNCHANGED <<app, starts, open, backend, queue, pc, holds, toJoin,
                 toRequeue, gaveUp, stopping>>

\* Mutants of Sentinels: one for all threads; ahead of the jobs.
OneSentinel == Append(queue, Stop)
SentinelsFirst == [i \in 1 .. Workers |-> Stop] \o queue

\* One sentinel per thread, behind the jobs that wait.
Sentinels == queue \o [i \in 1 .. Workers |-> Stop]

StopQueue ==
  /\ app = "up"
  /\ IF backend = "redis"
       THEN stopping' = TRUE /\ UNCHANGED queue
       ELSE queue' = Sentinels /\ UNCHANGED stopping
  /\ toJoin' = Started(starts)
  /\ app' = "join"
  /\ UNCHANGED <<starts, open, backend, pc, holds, toRequeue, status,
                 gaveUp, broken>>

\* thread.join(timeout=5) returns when the thread has ended, or after five
\* seconds whatever it is doing.
JoinEnds(t) ==
  \/ pc[t] = "dead" /\ UNCHANGED gaveUp
  \/ pc[t] # "dead" /\ gaveUp' = TRUE

\* Mutant of Join: the repository is closed while threads are being joined.
JoinClosing(t) ==
  /\ app = "join"
  /\ t \in toJoin
  /\ JoinEnds(t)
  /\ toJoin' = toJoin \ {t}
  /\ open' = open \ {starts}
  /\ UNCHANGED <<app, starts, backend, queue, pc, holds, toRequeue, status,
                 redisVars>>

Join(t) ==
  /\ app = "join"
  /\ t \in toJoin
  /\ JoinEnds(t)
  /\ toJoin' = toJoin \ {t}
  /\ UNCHANGED <<app, starts, open, backend, queue, pc, holds, toRequeue,
                 status, redisVars>>

StopReturns ==
  /\ app = "join"
  /\ toJoin = {}
  /\ app' = "close"
  /\ UNCHANGED <<starts, open, backend, queue, pc, holds, toJoin,
                 toRequeue, status, gaveUp, redisVars>>

\* cache_clear, then close: every connection of this repository is closed and
\* the next use of it raises.
CloseRepository ==
  /\ app = "close"
  /\ open' = open \ {starts}
  /\ app' = "stopped"
  /\ UNCHANGED <<starts, backend, queue, pc, holds, toJoin, toRequeue,
                 status, gaveUp, redisVars>>

-----------------------------------------------------------------------------
(* A worker thread: _consume around DocumentIndexer.handle.                *)

Received(t, d) ==
  /\ pc' = [pc EXCEPT ![t] = "asking"]
  /\ holds' = [holds EXCEPT ![t] = d]

Ends(t) == pc' = [pc EXCEPT ![t] = "dead"] /\ UNCHANGED holds

\* Mutant of Take: while serving, one job too many is left in the queue.
TakeLeavingOne(t) ==
  /\ backend = "memory"
  /\ pc[t] = "idle"
  /\ Len(queue) > IF app = "up" THEN 1 ELSE 0
  /\ queue' = Tail(queue)
  /\ IF Head(queue) = Stop THEN Ends(t) ELSE Received(t, Head(queue))
  /\ UNCHANGED <<app, starts, open, backend, toJoin, toRequeue, status,
                 gaveUp, redisVars>>

\* InProcessQueue._consume: the thread takes a job, or ends at a sentinel.
Take(t) ==
  /\ backend = "memory"
  /\ pc[t] = "idle"
  /\ queue # <<>>
  /\ queue' = Tail(queue)
  /\ IF Head(queue) = Stop THEN Ends(t) ELSE Received(t, Head(queue))
  /\ UNCHANGED <<app, starts, open, backend, toJoin, toRequeue, status,
                 gaveUp, redisVars>>

\* RedisQueue._consume: between jobs the thread looks at the event...
LookAtEvent(t) ==
  /\ backend = "redis"
  /\ pc[t] = "idle"
  /\ IF stopping THEN Ends(t)
                 ELSE pc' = [pc EXCEPT ![t] = "popping"] /\ UNCHANGED holds
  /\ UNCHANGED <<app, starts, open, backend, queue, toJoin, toRequeue,
                 status, gaveUp, redisVars>>

\* Mutant of Pop: the event is looked at again, after the pop.
PopThenLook(t) ==
  /\ pc[t] = "popping"
  /\ queue # <<>>
  /\ queue' = Tail(queue)
  /\ IF stopping THEN Ends(t) ELSE Received(t, Head(queue))
  /\ UNCHANGED <<app, starts, open, backend, toJoin, toRequeue, status,
                 gaveUp, redisVars>>

\* ...then blpop takes the job from the list, whether or not the event has
\* been set meanwhile...
Pop(t) ==
  /\ pc[t] = "popping"
  /\ queue # <<>>
  /\ queue' = Tail(queue)
  /\ Received(t, Head(queue))
  /\ UNCHANGED <<app, starts, open, backend, toJoin, toRequeue, status,
                 gaveUp, redisVars>>

\* ...or comes back with nothing after a second...
PopTimesOut(t) ==
  /\ pc[t] = "popping"
  /\ queue = <<>>
  /\ pc' = [pc EXCEPT ![t] = "idle"]
  /\ UNCHANGED <<app, starts, open, backend, queue, holds, toJoin,
                 toRequeue, status, gaveUp, redisVars>>

\* ...or raises, outside the try, and the thread is gone.
ConnectionLost(t) ==
  /\ pc[t] = "popping"
  /\ ~broken
  /\ broken' = TRUE
  /\ Ends(t)
  /\ UNCHANGED <<app, starts, open, backend, queue, toJoin, toRequeue,
                 status, gaveUp, stopping>>

\* The thread uses its repository: with it open the status becomes s; closed,
\* the RuntimeError (and that of the except branch, which would record it)
\* leaves handle and _consume logs it, the job gone and the record unchanged.
Uses(t, s, label) ==
  /\ IF t[1] \in open
       THEN /\ status' = [status EXCEPT ![holds[t]] = s]
            /\ pc' = [pc EXCEPT ![t] = label]
            /\ holds' = IF label = "idle" THEN [holds EXCEPT ![t] = Nothing] ELSE holds
       ELSE /\ pc' = [pc EXCEPT ![t] = "idle"]
            /\ holds' = [holds EXCEPT ![t] = Nothing]
            /\ UNCHANGED status
  /\ UNCHANGED <<app, starts, open, backend, queue, toJoin, toRequeue,
                 gaveUp, redisVars>>

Begin(t) == pc[t] = "asking" /\ Uses(t, "PARSING", "working")

\* Mutant of Settle: the thread goes on to hold the job it has settled.
SettleHolding(t) ==
  /\ pc[t] = "working"
  /\ status' = [status EXCEPT ![holds[t]] = "SETTLED"]
  /\ pc' = [pc EXCEPT ![t] = "idle"]
  /\ UNCHANGED <<app, starts, open, backend, queue, holds, toJoin,
                 toRequeue, gaveUp, redisVars>>

\* READY or FAILED: either settles the record.
Settle(t) == pc[t] = "working" /\ Uses(t, "SETTLED", "idle")

-----------------------------------------------------------------------------

Application ==
  \/ Scan \/ Serve \/ StopReturns \/ CloseRepository
  \/ \E d \in Documents : Requeue(d)
  \/ \E t \in Threads : Join(t)

Work(t) ==
  \/ Take(t) \/ Begin(t) \/ Settle(t)
  \/ LookAtEvent(t) \/ Pop(t) \/ PopTimesOut(t)

Next ==
  \/ Application
  \/ \E d \in Documents : Upload(d) \/ UploadUnqueued(d)
  \/ Start \/ StopQueue
  \/ \E t \in Threads : Work(t) \/ ConnectionLost(t)

Spec == Init /\ [][Next]_vars

\* The threads are scheduled, and a startup or shutdown that has begun goes on;
\* nothing makes the process start or stop.
FairSpec ==
  /\ Spec
  /\ WF_vars(Application)
  /\ \A t \in Threads : WF_vars(Work(t))

-----------------------------------------------------------------------------
(* Properties.                                                             *)

Places(d) == {i \in DOMAIN queue : queue[i] = d}

\* The application's, the repositories' and the threads' states keep their
\* types, and a thread holds a document exactly while it handles its job.
TypeOK ==
  /\ app \in {"stopped", "scan", "requeue", "up", "join", "close"}
  /\ starts \in 0 .. MaxStarts
  /\ open \subseteq 1 .. MaxStarts
  /\ queue \in Seq(Documents \cup {Stop})
  /\ toJoin \subseteq Threads
  /\ toRequeue \subseteq Documents
  /\ status \in [Documents -> {"none", "QUEUED", "PARSING", "SETTLED"}]
  /\ pc \in [Threads -> {"unborn", "idle", "popping", "asking", "working",
                     "dead"}]
  /\ holds \in [Threads -> Documents \cup {Nothing}]
  /\ \A t \in Threads : (holds[t] # Nothing) = (pc[t] \in {"asking", "working"})

\* As long as every join has seen its thread end, no thread is left that
\* writes through a closed repository (stop_indexing_worker: "it has to be
\* stopped before the connections it writes through are closed").
StoppedBeforeClosed == gaveUp \/ \A t \in Alive : t[1] \in open

\* A stop of the in-process queue whose joins saw the threads end has drained
\* it: every job queued before it is settled, and no sentinel waits for the
\* next threads.
StopDrains ==
  backend = "memory" /\ app \in {"close", "stopped"} /\ starts > 0 /\ ~gaveUp =>
    /\ queue = <<>>
    /\ \A d \in Documents : status[d] \in {"none", "SETTLED"}

\* With the in-process queue a document is in one place: queued once, in one
\* thread's hands, or neither when it has settled.  A start in the same
\* process keeps that, the joins having seen the threads end.
HandledOnce ==
  backend = "redis" \/ gaveUp \/
  \A d \in Documents :
    LET holders == {t \in Threads : holds[t] = d}
    IN  /\ Cardinality(Places(d)) + Cardinality(holders) <= 1
        /\ status[d] = "SETTLED" => Places(d) = {} /\ holders = {}

\* With either queue no unfinished document loses its job: once startup has
\* read the records it is about to be requeued, queued, or in a thread's
\* hands, through a shutdown too, unless a join gave up or the connection to
\* Redis broke since the last start.
JobsKept ==
  gaveUp \/ broken \/ starts = 0 \/ app = "scan" \/
  \A d \in Documents :
    status[d] \in {"QUEUED", "PARSING"} =>
      \/ d \in toRequeue
      \/ Places(d) # {}
      \/ \E t \in Threads : holds[t] = d

\* While the application serves, all threads of its start are there
\* (app.py: "the worker starts with the app and stops with it"), unless a
\* join gave up or the connection broke.
ServingHasWorkers ==
  app = "up" /\ ~gaveUp /\ ~broken => Started(starts) \subseteq Alive

\* Every document that is queued settles, whatever stops and starts happen,
\* unless a join gives up; with Redis as long as the application serves, and
\* after a broken connection again from the next start on.
QueuedSettles ==
  \A d \in Documents :
    (/\ status[d] = "QUEUED" /\ starts > 0
     /\ backend = "redis" => app = "up" /\ ~broken) ~>
      (status[d] = "SETTLED" \/ gaveUp
        \/ (backend = "redis" /\ (app = "join" \/ broken)))

\* No thread outlives a shutdown for ever, not even one that its join gave up
\* on: after a stop every thread of this and of earlier starts comes to its
\* end, if the application does not start again.
ThreadsEnd == app = "join" ~> (Alive = {} \/ app = "scan")

-----------------------------------------------------------------------------
(* What a comment says and the code does not ensure; see the README.       *)

\* dependencies.py:238: "the worker writes document status, so it has to be
\* stopped before the connections it writes through are closed".
AlwaysStoppedBeforeClosed == \A t \in Alive : t[1] \in open
=============================================================================
