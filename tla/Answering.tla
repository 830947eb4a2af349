----------------------------- MODULE Answering -----------------------------
(***************************************************************************)
(* Questions on their way through RAGService and GroqGenerator.            *)
(*                                                                         *)
(* POST /query runs RAGService.answer on the event loop, which it blocks   *)
(* until the answer is there, sleeping between retries included.           *)
(* POST /stream returns a generator; each next() runs on a pool thread and *)
(* is asked for by the event loop, so a stream goes on from an event it    *)
(* sent only when the loop is free, while a next() already under way       *)
(* interleaves with everything.  Requests for one corpus share its service *)
(* object: the counters, and the generator's model.  Clearing the service  *)
(* cache leaves requests in flight with the object they resolved.          *)
(*                                                                         *)
(* A call to Groq is answered, refused, or fails with a passing error; it  *)
(* does end, as it carries a timeout.  The three increments of a count     *)
(* hold no call, so no other thread runs between them.                     *)
(***************************************************************************)
EXTENDS Integers, Sequences, FiniteSets

CONSTANTS
  Queries,        \* requests to POST /query
  Streams,        \* requests to POST /stream
  Corpora,        \* corpora with an index
  DefaultCorpus,  \* the corpus whose service /metrics reads
  Configured,     \* LLM_MODEL
  Fallback,       \* _FALLBACK_MODEL
  Passing,        \* errors worth a retry: RateLimitError, APITimeoutError, ..
  MaxRetries,     \* MAX_RETRIES
  NoModel,        \* no call made yet
  Free,           \* the event loop runs no /query
  MaxServices,    \* bound: service objects built
  MaxTokens       \* bound: tokens of an answer

Requests == Queries \cup Streams
Services == 1 .. MaxServices
NoService == 0
Models == {Configured, Fallback}

ASSUME AnsweringAssumption ==
  /\ Queries \cap Streams = {}
  /\ IsFiniteSet(Queries) /\ IsFiniteSet(Streams)
  /\ DefaultCorpus \in Corpora
  /\ NoModel \notin Models
  /\ Free \notin Requests
  /\ Passing \cap {"None", "RetrievalError", "NotFoundError",
                  "AuthenticationError"} = {}
  /\ MaxRetries \in Nat \ {0}
  /\ MaxServices \in Nat
  /\ MaxTokens \in Nat

VARIABLES
  served,    \* the models Groq serves
  cache,     \* corpus -> the service object cached for it
  built,     \* service objects built so far
  model,     \* service -> its generator's self.model
  queries,   \* service -> total_queries
  errors,    \* service -> errors
  loop,      \* the /query that blocks the event loop, or Free
  pc,        \* request -> where it is
  service,   \* request -> the service object it resolved
  used,      \* request -> the model of its last call
  calls,     \* request -> calls it made
  slept,     \* request -> seconds slept between retries
  events,    \* request -> what its client received
  gone,      \* streams whose client disconnected
  why        \* request -> the exception it failed with

objects == <<cache, built, model, queries, errors>>
progress == <<used, calls, slept>>
client == <<events, gone, why>>
vars == <<served, objects, loop, pc, service, progress, client>>

\* Where a stream waits for the event loop to ask for its next event.
Paused == {"new", "sources", "token", "done"}
\* Where a thread waits for Groq.
Calling == {"waiting", "fallback", "pulling"}
Labels == Paused \cup Calling \cup {"idle", "retrieving", "attempt", "ended"}

\* What a client may receive: a stream's events, or a query's status.
Messages == {"sources", "token", "done", "error", "200", "500", "504"}

\* What a failed request raised.
Failures == Passing \cup
  {"None", "RetrievalError", "NotFoundError", "AuthenticationError"}

Delivered(r) == events[r] # <<>>
Last(r) == events[r][Len(events[r])]

Init ==
  /\ served \in SUBSET Models
  /\ cache = [c \in Corpora |-> NoService]
  /\ built = 0
  /\ model = [s \in Services |-> Configured]
  /\ queries = [s \in Services |-> 0]
  /\ errors = [s \in Services |-> 0]
  /\ loop = Free
  /\ pc = [r \in Requests |-> "idle"]
  /\ service = [r \in Requests |-> NoService]
  /\ used = [r \in Requests |-> NoModel]
  /\ calls = [r \in Requests |-> 0]
  /\ slept = [r \in Requests |-> 0]
  /\ events = [r \in Requests |-> <<>>]
  /\ gone = {}
  /\ why = [r \in Requests |-> "None"]

-----------------------------------------------------------------------------
(* What the client sees.                                                   *)

\* The query endpoint tells Python's TimeoutError from the rest; Groq's own
\* APITimeoutError is none.
Status(kind) == IF kind = "TimeoutError" THEN "504" ELSE "500"

\* Mutant of Yield: a stream goes on after an error.
YieldOnError(r, event) ==
  /\ pc' = [pc EXCEPT ![r] = IF r \in gone THEN "ended" ELSE
                             IF event = "error" THEN "token" ELSE event]
  /\ events' = IF r \in gone THEN events
                             ELSE [events EXCEPT ![r] = Append(@, event)]
  /\ UNCHANGED loop

\* A stream yields: a client that is gone gets nothing, and its generator is
\* dropped at the yield (GeneratorExit).
Yield(r, event) ==
  /\ pc' = [pc EXCEPT ![r] =
              IF r \in gone \/ event = "error" THEN "ended" ELSE event]
  /\ events' = IF r \in gone THEN events
                             ELSE [events EXCEPT ![r] = Append(@, event)]
  /\ UNCHANGED loop

\* Mutant of Respond: the event loop stays busy.
RespondHolding(r, status) ==
  /\ pc' = [pc EXCEPT ![r] = "ended"]
  /\ events' = [events EXCEPT ![r] = Append(@, status)]
  /\ UNCHANGED loop

\* A query's response frees the event loop.
Respond(r, status) ==
  /\ pc' = [pc EXCEPT ![r] = "ended"]
  /\ events' = [events EXCEPT ![r] = Append(@, status)]
  /\ loop' = Free

\* Mutant of Fail: the streaming path does not count its errors.
FailUncounted(r, kind) ==
  /\ errors' = IF r \in Streams THEN errors
                                ELSE [errors EXCEPT ![service[r]] = @ + 1]
  /\ why' = [why EXCEPT ![r] = kind]
  /\ IF r \in Streams THEN Yield(r, "error") ELSE Respond(r, Status(kind))
  /\ UNCHANGED <<served, cache, built, model, queries, service, gone>>

\* The except branches of answer and stream, and the endpoints around them.
Fail(r, kind) ==
  /\ errors' = [errors EXCEPT ![service[r]] = @ + 1]
  /\ why' = [why EXCEPT ![r] = kind]
  /\ IF r \in Streams THEN Yield(r, "error") ELSE Respond(r, Status(kind))
  /\ UNCHANGED <<served, cache, built, model, queries, service, gone>>

\* The answer is complete: count it, then report it.
Finish(r) ==
  /\ queries' = [queries EXCEPT ![service[r]] = @ + 1]
  /\ IF r \in Streams THEN Yield(r, "done") ELSE Respond(r, "200")
  /\ UNCHANGED <<served, cache, built, model, errors, service, progress, gone,
                 why>>

-----------------------------------------------------------------------------
(* The steps of a request.                                                 *)

\* _build_service_for behind its cache: a miss builds a new object, with the
\* configured model and counters at zero.
Resolve(c, s) ==
  \/ /\ cache[c] = s
     /\ s # NoService
     /\ UNCHANGED <<cache, built>>
  \/ /\ cache[c] = NoService
     /\ built < MaxServices
     /\ s = built + 1
     /\ built' = s
     /\ cache' = [cache EXCEPT ![c] = s]

\* A request arrives and the endpoint resolves its corpus.  A query goes on
\* at once; a stream's response starts and waits to be iterated.
Ask(r) ==
  /\ pc[r] = "idle"
  /\ loop = Free
  /\ \E c \in Corpora, s \in Services :
       /\ Resolve(c, s)
       /\ service' = [service EXCEPT ![r] = s]
  /\ pc' = [pc EXCEPT ![r] = IF r \in Queries THEN "retrieving" ELSE "new"]
  /\ loop' = IF r \in Queries THEN r ELSE Free
  /\ UNCHANGED <<served, model, queries, errors, progress, client>>

\* Retrieval is over; a stream sends the sources.
Retrieve(r) ==
  /\ pc[r] = "retrieving"
  /\ \/ /\ r \in Queries
        /\ pc' = [pc EXCEPT ![r] = "attempt"]
        /\ UNCHANGED <<events, loop>>
     \/ /\ r \in Streams
        /\ Yield(r, "sources")
  /\ UNCHANGED <<served, objects, service, progress, gone, why>>

RetrievalFails(r) ==
  /\ pc[r] = "retrieving"
  /\ Fail(r, "RetrievalError")
  /\ UNCHANGED progress

\* chat.completions.create, with the model the caller reads off the generator.
Call(r, label, m) ==
  /\ pc' = [pc EXCEPT ![r] = label]
  /\ used' = [used EXCEPT ![r] = m]
  /\ calls' = [calls EXCEPT ![r] = @ + 1]

\* An attempt of _call_with_retry.
Attempt(r) ==
  /\ pc[r] = "attempt"
  /\ calls[r] < MaxRetries
  /\ Call(r, "waiting", model[service[r]])
  /\ UNCHANGED <<served, objects, loop, service, slept, client>>

\* The event loop asks a stream for its next event; after the sources the
\* prompt is built and the LLM called, once.
Resume(r) ==
  /\ loop = Free
  /\ r \in Streams \ gone
  /\ pc[r] \in Paused
  /\ \/ /\ pc[r] = "sources"
        /\ Call(r, "waiting", model[service[r]])
     \/ /\ pc[r] # "sources"
        /\ pc' = [pc EXCEPT ![r] = CASE @ = "new" -> "retrieving"
                                     [] @ = "token" -> "pulling"
                                     [] @ = "done" -> "ended"]
        /\ UNCHANGED <<used, calls>>
  /\ UNCHANGED <<served, objects, loop, service, slept, client>>

\* Groq knows the model: a query has its completion, a stream its response.
Answered(r) ==
  /\ pc[r] \in {"waiting", "fallback"}
  /\ used[r] \in served
  /\ \/ /\ r \in Queries
        /\ Finish(r)
     \/ /\ r \in Streams
        /\ pc' = [pc EXCEPT ![r] = "pulling"]
        /\ UNCHANGED <<served, objects, loop, service, progress, client>>

\* Seconds slept after n failed attempts: 1 + 2 + 4 + ...
Backoff(n) == 2 ^ n - 1

\* Mutant of PassingError: the fallback call is retried as well.
PassingErrorRetried(r) ==
  /\ pc[r] \in {"waiting", "fallback"}
  /\ \/ /\ r \in Queries
        /\ calls[r] <= MaxRetries
        /\ slept' = [slept EXCEPT ![r] = Backoff(calls[r])]
        /\ pc' = [pc EXCEPT ![r] = "attempt"]
        /\ UNCHANGED <<served, objects, loop, service, used, calls, client>>
     \/ /\ r \in Streams \/ calls[r] > MaxRetries
        /\ \E kind \in Passing : Fail(r, kind)
        /\ UNCHANGED progress

\* A passing error.  A query's attempt is repeated after a sleep while
\* attempts are left; the fallback call and a stream's are not repeated.
PassingError(r) ==
  /\ pc[r] \in {"waiting", "fallback"}
  /\ \/ /\ pc[r] = "waiting"
        /\ r \in Queries
        /\ calls[r] < MaxRetries
        /\ slept' = [slept EXCEPT ![r] = Backoff(calls[r])]
        /\ pc' = [pc EXCEPT ![r] = "attempt"]
        /\ UNCHANGED <<served, objects, loop, service, used, calls, client>>
     \/ /\ pc[r] = "fallback" \/ r \in Streams \/ calls[r] >= MaxRetries
        /\ \E kind \in Passing : Fail(r, kind)
        /\ UNCHANGED progress

\* Mutant of UnknownModel: the generator gives up at once.
UnknownModelFails(r) ==
  /\ pc[r] \in {"waiting", "fallback"}
  /\ used[r] \notin served
  /\ Fail(r, "NotFoundError")
  /\ UNCHANGED progress

\* Groq does not know the model: the service changes to the fallback for good
\* and calls again, unless it has changed already.
UnknownModel(r) ==
  /\ pc[r] \in {"waiting", "fallback"}
  /\ used[r] \notin served
  /\ \/ /\ pc[r] = "waiting"
        /\ model[service[r]] # Fallback
        /\ model' = [model EXCEPT ![service[r]] = Fallback]
        /\ Call(r, "fallback", Fallback)
        /\ UNCHANGED <<served, cache, built, queries, errors, loop, service,
                       slept, client>>
     \/ /\ pc[r] = "fallback" \/ model[service[r]] = Fallback
        /\ Fail(r, "NotFoundError")
        /\ UNCHANGED progress

\* Any other error ends the request at once.
Refused(r) ==
  /\ pc[r] \in {"waiting", "fallback"}
  /\ Fail(r, "AuthenticationError")
  /\ UNCHANGED progress

\* The streaming response yields a token, or ends, or breaks off.
Tokens(r) == Cardinality({i \in DOMAIN events[r] : events[r][i] = "token"})

Pull(r) ==
  /\ pc[r] = "pulling"
  /\ \/ /\ Tokens(r) < MaxTokens
        /\ Yield(r, "token")
        /\ UNCHANGED <<served, objects, service, progress, gone, why>>
     \/ Finish(r)

PullFails(r) ==
  /\ pc[r] = "pulling"
  /\ \E kind \in Passing : Fail(r, kind)
  /\ UNCHANGED progress

\* A client leaves.  A paused generator is dropped; one that is running is
\* dropped when it yields.
Disconnect(r) ==
  /\ r \in Streams \ gone
  /\ pc[r] \notin {"idle", "ended"}
  /\ loop = Free
  /\ gone' = gone \cup {r}
  /\ pc' = [pc EXCEPT ![r] = IF @ \in Paused THEN "ended" ELSE @]
  /\ UNCHANGED <<served, objects, loop, service, progress, events, why>>

-----------------------------------------------------------------------------
(* Around the requests.                                                    *)

\* A document of any corpus was indexed or deleted: every service is dropped.
Invalidate ==
  /\ \E c \in Corpora : cache[c] # NoService
  /\ built < MaxServices
  /\ cache' = [c \in Corpora |-> NoService]
  /\ UNCHANGED <<served, built, model, queries, errors, loop, pc, service,
                 progress, client>>

\* What GET /metrics and /metrics/prometheus would give now as total_queries:
\* the default corpus's service says, and a new one is built where none is.
Metrics == IF cache[DefaultCorpus] = NoService
           THEN 0
           ELSE queries[cache[DefaultCorpus]]

Proceed(r) ==
  \/ Retrieve(r) \/ RetrievalFails(r)
  \/ Attempt(r) \/ Resume(r)
  \/ Answered(r) \/ PassingError(r) \/ UnknownModel(r) \/ Refused(r)
  \/ Pull(r) \/ PullFails(r)

Next ==
  \/ \E r \in Requests : Ask(r) \/ Proceed(r) \/ Disconnect(r)
  \/ Invalidate

Spec == Init /\ [][Next]_vars

\* A thread that began goes on, and the event loop serves every stream; no
\* request has to arrive.
FairSpec == Spec /\ \A r \in Requests : WF_vars(Proceed(r))

-----------------------------------------------------------------------------
(* Properties.                                                             *)

\* The control state has its type, and who blocks the loop is a query.
TypeOK ==
  /\ served \in SUBSET Models
  /\ cache \in [Corpora -> Services \cup {NoService}]
  /\ built \in Services \cup {0}
  /\ model \in [Services -> Models]
  /\ queries \in [Services -> Nat]
  /\ errors \in [Services -> Nat]
  /\ loop \in Queries \cup {Free}
  /\ loop # Free => pc[loop] \notin {"idle", "ended"}
  /\ pc \in [Requests -> Labels]
  /\ service \in [Requests -> Services \cup {NoService}]
  /\ used \in [Requests -> Models \cup {NoModel}]
  /\ calls \in [Requests -> Nat]
  /\ slept \in [Requests -> {0} \cup {Backoff(n) : n \in 1 .. MaxRetries}]
  /\ events \in [Requests -> Seq(Messages)]
  /\ gone \in SUBSET Streams
  /\ why \in [Requests -> Failures]

\* Whatever the threads do, a service's counters add up with what its clients
\* were told: every answer a client has is a counted query, every failure a
\* counted error, and what is counted beyond that belongs to clients that left.
AccountsMatch ==
  \A s \in Services :
    LET Of(verdicts) == {r \in Requests : /\ service[r] = s
                                          /\ Delivered(r)
                                          /\ Last(r) \in verdicts}
        answered == Cardinality(Of({"200", "done"}))
        failed == Cardinality(Of({"500", "504", "error"}))
        left == Cardinality({r \in gone : service[r] = s})
    IN  /\ answered <= queries[s]
        /\ failed <= errors[s]
        /\ queries[s] + errors[s] <= answered + failed + left

\* What the stream endpoint documents: the sources are sent first, unless an
\* error comes instead; nothing follows the closing event or an error, and a
\* stream whose client stayed does not end without one of them.
EventOrder ==
  \A r \in Streams :
    /\ Delivered(r) => events[r][1] \in {"sources", "error"}
    /\ \A i \in DOMAIN events[r] :
         /\ events[r][i] = "sources" => i = 1
         /\ events[r][i] \in {"done", "error"} => i = Len(events[r])
    /\ pc[r] = "ended" /\ r \notin gone =>
         Delivered(r) /\ Last(r) \in {"done", "error"}

\* How long a query can hold the event loop: its attempts, one fallback call,
\* and a sleep after each attempt but the last; and it gives up on a passing
\* error only after all its attempts, or in its one call of the fallback.
RetriesExact ==
  \A r \in Requests :
    /\ calls[r] <= MaxRetries + 1
    /\ slept[r] \in {0} \cup {Backoff(n) : n \in 1 .. MaxRetries - 1}
    /\ r \in Queries /\ why[r] \in Passing =>
         calls[r] >= MaxRetries \/ used[r] = Fallback

\* A request that fails because its model is unknown, although the fallback
\* would have answered, lost it to another request of the same service, which
\* changed the model while this one waited; a stream is one of the two.
FallbackLostToRace ==
  \A r \in Requests :
    why[r] = "NotFoundError" /\ Fallback \in served =>
      \E q \in Requests \ {r} :
        /\ service[q] = service[r]
        /\ used[q] = Fallback
        /\ {q, r} \cap Streams # {}

\* Every request ends, however the LLM calls of the others turn out.
RequestsEnd == \A r \in Requests : pc[r] # "idle" ~> pc[r] = "ended"

\* GET /config names the model of settings.
ConfigModel == Configured

\* "What this deployment is actually running": the model /config names is the
\* one the services ask for.
ConfigNamesModel ==
  \A c \in Corpora : cache[c] # NoService => model[cache[c]] = ConfigModel

\* "LLM request timed out after all retries" is answered with 504.
TimeoutIs504 ==
  \A r \in Queries : why[r] = "APITimeoutError" => Last(r) = "504"

\* "Retries: RateLimitError, APIConnectionError, APITimeoutError": a request
\* that fails with one of them has been tried as often as configured.
PassingErrorsRetried ==
  \A r \in Requests : why[r] \in Passing => calls[r] >= MaxRetries

\* "Values are per-process and reset on restart": without a restart the
\* counter of answered queries does not go back.
CounterNeverDrops == [][Metrics' >= Metrics]_vars
=============================================================================
