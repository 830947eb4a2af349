--------------------------- MODULE AnsweringProofs ---------------------------
(***************************************************************************)
(* Theorems of Answering for any number of requests, corpora and service   *)
(* objects: how often a request calls and how long it sleeps, in which     *)
(* order a stream's events reach its client, how alone a request can miss  *)
(* the fallback model, and that the counters add up.                       *)
(***************************************************************************)
EXTENDS Answering, FiniteSetTheorems, TLAPS

Sleeps == {0} \cup {Backoff(n) : n \in 1 .. MaxRetries - 1}

\* A query is never where only a stream can be, and the other way round; an
\* active query is the one that blocks the event loop; a request has a
\* service object from when it is asked.
Types ==
  /\ served \in SUBSET Models
  /\ cache \in [Corpora -> Services \cup {NoService}]
  /\ built \in Services \cup {0}
  /\ model \in [Services -> Models]
  /\ loop \in Queries \cup {Free}
  /\ pc \in [Requests -> Labels]
  /\ service \in [Requests -> Services \cup {NoService}]
  /\ used \in [Requests -> Models \cup {NoModel}]
  /\ calls \in [Requests -> Nat]
  /\ slept \in [Requests -> Sleeps]
  /\ events \in [Requests -> Seq(Messages)]
  /\ gone \in SUBSET Streams
  /\ why \in [Requests -> Failures]

Control ==
  \A r \in Requests :
    /\ r \in Queries => pc[r] \notin Paused \cup {"pulling"}
    /\ r \in Streams => pc[r] # "attempt"
    /\ r \in Queries /\ pc[r] \notin {"idle", "ended"} <=> loop = r
    /\ pc[r] # "idle" => service[r] \in Services
    /\ pc[r] = "idle" => used[r] = NoModel
    /\ pc[r] = "fallback" => used[r] = Fallback
    /\ why[r] # "None" => pc[r] = "ended"

Counts ==
  \A r \in Requests :
    /\ pc[r] \in {"idle", "new", "retrieving", "sources"} => calls[r] = 0
    /\ pc[r] = "attempt" => calls[r] < MaxRetries
    /\ pc[r] = "waiting" => calls[r] \in 1 .. MaxRetries
    /\ calls[r] <= MaxRetries + 1
    /\ r \in Queries /\ why[r] \in Passing =>
         calls[r] >= MaxRetries \/ used[r] = Fallback

IInv == Types /\ Control /\ Counts

LEMMA IInvInit == Init => IInv
<1> USE AnsweringAssumption DEF Init
<1>1. Init => Types
  BY DEF Types, Sleeps, Models, Services, NoService, Labels, Paused, Calling,
         Failures
<1>2. Init => Control
  BY DEF Control, Paused, Requests
<1>3. Init => Counts
  BY DEF Counts
<1> QED BY <1>1, <1>2, <1>3 DEF IInv

\* One more event keeps the type.
LEMMA AppendType ==
  ASSUME NEW f \in [Requests -> Seq(Messages)], NEW r \in Requests,
         NEW e \in Messages
  PROVE  [f EXCEPT ![r] = Append(@, e)] \in [Requests -> Seq(Messages)]
<1>1. Append(f[r], e) \in Seq(Messages)
  OBVIOUS
<1> QED BY <1>1

\* A request that fails, from any of the places where one does.
LEMMA FailKeeps ==
  ASSUME IInv, NEW r \in Requests, NEW kind \in Failures \ {"None"},
         pc[r] \in Calling \cup {"retrieving"},
         r \in Queries /\ kind \in Passing =>
           calls[r] >= MaxRetries \/ used[r] = Fallback,
         Fail(r, kind), UNCHANGED progress
  PROVE  IInv'
<1> USE AnsweringAssumption
<1>1. /\ pc' = [pc EXCEPT ![r] = "ended"]
      /\ loop' = IF r \in Streams THEN loop ELSE Free
      /\ why' = [why EXCEPT ![r] = kind]
      /\ UNCHANGED <<served, cache, built, model, service, gone, used, calls,
                     slept>>
  BY DEF Fail, Yield, Respond, progress
<1>2. Status(kind) \in Messages
  BY DEF Status, Messages
<1>3. events' \in [Requests -> Seq(Messages)]
  <2>1. CASE r \in Streams
    <3>1. events' = IF r \in gone
                      THEN events
                      ELSE [events EXCEPT ![r] = Append(@, "error")]
      BY <2>1 DEF Fail, Yield
    <3> QED BY <3>1, AppendType DEF IInv, Types, Messages
  <2>2. CASE r \notin Streams
    <3>1. events' = [events EXCEPT ![r] = Append(@, Status(kind))]
      BY <2>2 DEF Fail, Respond
    <3> QED BY <1>2, <3>1, AppendType DEF IInv, Types
  <2> QED BY <2>1, <2>2
<1>4. Types'
  BY <1>1, <1>3 DEF IInv, Types, Labels
<1>5. Control'
  BY <1>1 DEF IInv, Types, Control, Paused, Calling, Requests
<1>6. Counts'
  BY <1>1 DEF IInv, Types, Control, Counts, Calling
<1> QED BY <1>4, <1>5, <1>6 DEF IInv

\* A stream that yields something other than an error.
LEMMA YieldKeeps ==
  ASSUME IInv, NEW r \in Streams, NEW event \in {"sources", "token", "done"},
         pc[r] \in {"retrieving", "waiting", "fallback", "pulling"},
         event = "sources" => pc[r] = "retrieving",
         Yield(r, event),
         UNCHANGED <<served, cache, built, model, service, progress, gone,
                     why>>
  PROVE  IInv'
<1> USE AnsweringAssumption
<1> DEFINE next == IF r \in gone THEN "ended" ELSE event
<1>1. /\ r \in Requests
      /\ pc' = [pc EXCEPT ![r] = next]
      /\ next \in {"ended", "sources", "token", "done"}
      /\ next = "sources" => pc[r] = "retrieving"
      /\ UNCHANGED <<loop, used, calls, slept>>
  BY DEF Yield, progress, Requests
<1>2. events' = IF r \in gone
                  THEN events
                  ELSE [events EXCEPT ![r] = Append(@, event)]
  BY DEF Yield
<1>3. events' \in [Requests -> Seq(Messages)]
  BY <1>1, <1>2, AppendType DEF IInv, Types, Messages
<1> HIDE DEF next
<1>4. Types'
  BY <1>1, <1>3 DEF IInv, Types, Labels, Paused
<1>5. Control'
  BY <1>1 DEF IInv, Types, Control
<1>6. Counts'
  BY <1>1 DEF IInv, Types, Control, Counts
<1> QED BY <1>4, <1>5, <1>6 DEF IInv

\* A query that is answered.
LEMMA RespondKeeps ==
  ASSUME IInv, NEW r \in Queries,
         pc[r] \in {"waiting", "fallback"},
         Respond(r, "200"),
         UNCHANGED <<served, cache, built, model, service, progress, gone,
                     why>>
  PROVE  IInv'
<1> USE AnsweringAssumption
<1>1. /\ r \in Requests
      /\ pc' = [pc EXCEPT ![r] = "ended"]
      /\ loop' = Free
      /\ UNCHANGED <<used, calls, slept>>
  BY DEF Respond, progress, Requests
<1>2. events' \in [Requests -> Seq(Messages)]
  BY <1>1, AppendType DEF Respond, IInv, Types, Messages
<1>3. Types'
  BY <1>1, <1>2 DEF IInv, Types, Labels
<1>4. Control'
  BY <1>1 DEF IInv, Types, Control, Paused, Requests
<1>5. Counts'
  BY <1>1 DEF IInv, Types, Control, Counts
<1> QED BY <1>3, <1>4, <1>5 DEF IInv

\* A request that calls the model m.
LEMMA CallKeeps ==
  ASSUME IInv, NEW r \in Requests, NEW label \in {"waiting", "fallback"},
         NEW m \in Models, Call(r, label, m),
         \/ label = "waiting" /\ calls[r] < MaxRetries
         \/ /\ label = "fallback" /\ calls[r] <= MaxRetries
            /\ m = Fallback /\ pc[r] = "waiting",
         pc[r] \in {"attempt", "waiting", "sources"},
         model' \in [Services -> Models],
         UNCHANGED <<served, cache, built, loop, service, slept, client>>
  PROVE  IInv'
<1> USE AnsweringAssumption
<1>1. /\ pc' = [pc EXCEPT ![r] = label]
      /\ used' = [used EXCEPT ![r] = m]
      /\ calls' = [calls EXCEPT ![r] = calls[r] + 1]
      /\ UNCHANGED <<events, gone, why>>
  BY DEF Call, client, IInv, Types
<1>2. Types'
  BY <1>1 DEF IInv, Types, Labels, Calling
<1>3. Control'
  BY <1>1 DEF IInv, Types, Control, Paused
<1>4. Counts'
  <2>1. calls[r] \in Nat /\ MaxRetries \in Nat /\ why[r] = "None"
    BY DEF IInv, Types, Control
  <2> QED BY <1>1, <2>1 DEF IInv, Types, Control, Counts
<1> QED BY <1>2, <1>3, <1>4 DEF IInv

\* A request that only moves on.
LEMMA MoveKeeps ==
  ASSUME IInv, NEW r \in Requests, NEW label \in Labels,
         pc' = [pc EXCEPT ![r] = label],
         \/ r \in Queries /\ pc[r] = "retrieving" /\ label = "attempt"
         \/ /\ r \in Streams
            /\ <<pc[r], label>> \in
                 {<<"new", "retrieving">>, <<"token", "pulling">>,
                  <<"done", "ended">>, <<"waiting", "pulling">>,
                  <<"fallback", "pulling">>}
         \/ r \in Streams /\ pc[r] # "idle" /\ label = "ended",
         gone' \in SUBSET Streams,
         UNCHANGED <<served, cache, built, model, loop, service, progress,
                     events, why>>
  PROVE  IInv'
<1> USE AnsweringAssumption
<1>1. UNCHANGED <<used, calls, slept>>
  BY DEF progress
<1>2. Types'
  BY <1>1 DEF IInv, Types
<1>3. Control'
  BY <1>1 DEF IInv, Types, Control, Paused, Requests
<1>4. Counts'
  BY <1>1 DEF IInv, Types, Counts
<1> QED BY <1>2, <1>3, <1>4 DEF IInv

\* A request arrives.
LEMMA AskKeeps ==
  ASSUME IInv, NEW r \in Requests, Ask(r)
  PROVE  IInv'
<1> USE AnsweringAssumption
<1>1. PICK c \in Corpora, s \in Services :
        Resolve(c, s) /\ service' = [service EXCEPT ![r] = s]
  BY DEF Ask
<1> DEFINE label == IF r \in Queries THEN "retrieving" ELSE "new"
<1>2. /\ pc[r] = "idle" /\ loop = Free
      /\ label \in Labels
      /\ r \in Queries => label = "retrieving"
      /\ r \in Streams => label = "new"
      /\ pc' = [pc EXCEPT ![r] = label]
      /\ loop' = IF r \in Queries THEN r ELSE Free
      /\ UNCHANGED <<served, model, used, calls, slept, events, gone, why>>
  BY DEF Ask, progress, client, Requests, Labels, Paused
<1>3. /\ cache' \in [Corpora -> Services \cup {NoService}]
      /\ built' \in Services \cup {0}
  BY <1>1 DEF Resolve, IInv, Types
<1> HIDE DEF label
<1>4. Types'
  BY <1>1, <1>2, <1>3 DEF IInv, Types
<1>5. Control'
  BY <1>1, <1>2 DEF IInv, Types, Control, Paused, Requests
<1>6. Counts'
  BY <1>1, <1>2 DEF IInv, Types, Control, Counts, Requests
<1> QED BY <1>4, <1>5, <1>6 DEF IInv

LEMMA ProceedKeeps ==
  ASSUME IInv, NEW r \in Requests, Proceed(r)
  PROVE  IInv'
<1> USE AnsweringAssumption
<1>1. CASE Retrieve(r)
  <2>1. CASE r \in Queries
    <3>1. /\ pc[r] = "retrieving" /\ pc' = [pc EXCEPT ![r] = "attempt"]
          /\ UNCHANGED <<served, cache, built, model, loop, service, progress,
                         events,
                         gone, why>>
      BY <1>1, <2>1 DEF Retrieve, objects
    <3>2. "attempt" \in Labels /\ gone' \in SUBSET Streams
      BY <3>1 DEF Labels, IInv, Types
    <3> QED BY <2>1, <3>1, <3>2, MoveKeeps
  <2>2. CASE r \in Streams
    BY <1>1, <2>2, YieldKeeps DEF Retrieve, objects
  <2> QED BY <2>1, <2>2 DEF Requests
<1>2. CASE RetrievalFails(r)
  BY <1>2, FailKeeps DEF RetrievalFails, Failures
<1>3. CASE Attempt(r)
  <2>1. model[service[r]] \in Models /\ model' \in [Services -> Models]
    BY <1>3 DEF Attempt, objects, IInv, Types, Control
  <2> QED BY <1>3, <2>1, CallKeeps DEF Attempt, objects
<1>4. CASE Resume(r)
  <2>1. CASE pc[r] = "sources"
    <3>1. /\ model[service[r]] \in Models /\ model' \in [Services -> Models]
          /\ calls[r] < MaxRetries
      BY <1>4, <2>1 DEF Resume, objects, IInv, Types, Control, Counts
    <3> QED BY <1>4, <2>1, <3>1, CallKeeps DEF Resume, objects
  <2>2. CASE pc[r] # "sources"
    <3>1. /\ r \in Streams /\ pc[r] \in {"new", "token", "done"}
          /\ pc' = [pc EXCEPT ![r] = CASE pc[r] = "new" -> "retrieving"
                                       [] pc[r] = "token" -> "pulling"
                                       [] pc[r] = "done" -> "ended"]
          /\ UNCHANGED <<served, cache, built, model, loop, service, progress,
                         events, gone, why>>
      BY <1>4, <2>2 DEF Resume, Paused, objects, progress, client, IInv, Types
    <3>2. PICK label \in {"retrieving", "pulling", "ended"} :
            /\ pc' = [pc EXCEPT ![r] = label]
            /\ <<pc[r], label>> \in
                 {<<"new", "retrieving">>, <<"token", "pulling">>,
                  <<"done", "ended">>}
      BY <3>1
    <3>3. label \in Labels /\ gone' \in SUBSET Streams
      BY <3>1 DEF Labels, Calling, IInv, Types
    <3> QED BY <3>1, <3>2, <3>3, MoveKeeps
  <2> QED BY <2>1, <2>2
<1>5. CASE Answered(r)
  <2>1. CASE r \in Queries
    BY <1>5, <2>1, RespondKeeps DEF Answered, Finish
  <2>2. CASE r \in Streams
    <3>1. "pulling" \in Labels /\ gone' \in SUBSET Streams
      BY <1>5, <2>2 DEF Answered, client, Labels, Calling, IInv, Types
    <3> QED BY <1>5, <2>2, <3>1, MoveKeeps DEF Answered, objects, client
  <2> QED BY <2>1, <2>2 DEF Requests
<1>6. CASE PassingError(r)
  <2>1. CASE pc' = [pc EXCEPT ![r] = "attempt"] /\ pc[r] = "waiting"
             /\ r \in Queries /\ calls[r] < MaxRetries
             /\ slept' = [slept EXCEPT ![r] = Backoff(calls[r])]
             /\ UNCHANGED <<served, objects, loop, service, used, calls,
                            client>>
    <3>1. Backoff(calls[r]) \in Sleeps
      BY <2>1 DEF IInv, Types, Counts, Sleeps
    <3>2. UNCHANGED <<served, cache, built, model, loop, service, used, calls,
                      events, gone, why>>
      BY <2>1 DEF objects, client
    <3>3. Types'
      BY <2>1, <3>1, <3>2 DEF IInv, Types, Labels
    <3>4. Control'
      BY <2>1, <3>2 DEF IInv, Types, Control, Paused, Requests
    <3>5. Counts'
      BY <2>1, <3>2 DEF IInv, Types, Counts
    <3> QED BY <3>3, <3>4, <3>5 DEF IInv
  <2>2. CASE /\ pc[r] = "fallback" \/ r \in Streams \/ calls[r] >= MaxRetries
             /\ \E kind \in Passing : Fail(r, kind)
             /\ UNCHANGED progress
    BY <1>6, <2>2, FailKeeps
    DEF PassingError, Failures, Calling, IInv, Control
  <2> QED BY <1>6, <2>1, <2>2 DEF PassingError
<1>7. CASE UnknownModel(r)
  <2>1. CASE Fail(r, "NotFoundError") /\ UNCHANGED progress
    BY <1>7, <2>1, FailKeeps DEF UnknownModel, Failures, Calling
  <2>2. CASE /\ pc[r] = "waiting"
             /\ model' = [model EXCEPT ![service[r]] = Fallback]
             /\ Call(r, "fallback", Fallback)
             /\ UNCHANGED <<served, cache, built, queries, errors, loop,
                            service, slept, client>>
    <3>1. Fallback \in Models /\ model' \in [Services -> Models]
      BY <2>2 DEF IInv, Types, Models
    <3>2. calls[r] <= MaxRetries
      BY <2>2 DEF IInv, Types, Counts
    <3> QED BY <2>2, <3>1, <3>2, CallKeeps
  <2> QED BY <1>7, <2>1, <2>2 DEF UnknownModel
<1>8. CASE Refused(r)
  BY <1>8, FailKeeps DEF Refused, Failures, Calling
<1>9. CASE Pull(r)
  <2>1. r \in Streams
    BY <1>9 DEF Pull, IInv, Control, Requests
  <2> QED BY <1>9, <2>1, YieldKeeps DEF Pull, Finish, objects
<1>10. CASE PullFails(r)
  <2>1. r \notin Queries
    BY <1>10 DEF PullFails, IInv, Control
  <2> QED BY <1>10, <2>1, FailKeeps DEF PullFails, Failures, Calling
<1> QED
  BY <1>1, <1>2, <1>3, <1>4, <1>5, <1>6, <1>7, <1>8, <1>9, <1>10 DEF Proceed

LEMMA IInvStep == IInv /\ [Next]_vars => IInv'
<1> SUFFICES ASSUME IInv, [Next]_vars PROVE IInv'
  OBVIOUS
<1>1. CASE UNCHANGED vars
  BY <1>1 DEF vars, objects, progress, client, IInv, Types, Control, Counts
<1>2. ASSUME NEW r \in Requests, Ask(r) PROVE IInv'
  BY <1>2, AskKeeps
<1>3. ASSUME NEW r \in Requests, Proceed(r) PROVE IInv'
  BY <1>3, ProceedKeeps
<1>4. ASSUME NEW r \in Requests, Disconnect(r) PROVE IInv'
  <2>1. /\ r \in Streams /\ pc[r] # "idle"
        /\ gone' \in SUBSET Streams
        /\ pc' = [pc EXCEPT ![r] = IF pc[r] \in Paused THEN "ended" ELSE pc[r]]
        /\ UNCHANGED <<served, cache, built, model, loop, service, progress,
                       events, why>>
    BY <1>4 DEF Disconnect, objects, IInv, Types
  <2>2. CASE pc[r] \in Paused
    BY <2>1, <2>2, MoveKeeps DEF Labels
  <2>3. CASE pc[r] \notin Paused
    <3>1. UNCHANGED pc
      BY <2>1, <2>3 DEF IInv, Types
    <3> QED BY <2>1, <3>1 DEF progress, IInv, Types, Control, Counts
  <2> QED BY <2>2, <2>3
<1>5. CASE Invalidate
  <2>1. cache' \in [Corpora -> Services \cup {NoService}]
    BY <1>5 DEF Invalidate
  <2> QED
    BY <1>5, <2>1
    DEF Invalidate, progress, client, IInv, Types, Control, Counts
<1> QED BY <1>1, <1>2, <1>3, <1>4, <1>5 DEF Next

LEMMA Invariant == Spec => []IInv
  BY IInvInit, IInvStep, PTL DEF Spec

\* How often a request calls Groq, how long it sleeps between, and when it
\* gives up on a passing error.
THEOREM RetriesBounded == Spec => []RetriesExact
<1>1. IInv => RetriesExact
  BY DEF IInv, Types, Counts, Sleeps, RetriesExact
<1> QED BY <1>1, Invariant, PTL

Tallies == queries \in [Services -> Nat] /\ errors \in [Services -> Nat]

LEMMA CountUp ==
  ASSUME NEW f \in [Services -> Nat], NEW s
  PROVE  [f EXCEPT ![s] = @ + 1] \in [Services -> Nat]
<1>1. CASE s \in Services
  BY <1>1
<1>2. CASE s \notin Services
  <2>1. [f EXCEPT ![s] = @ + 1] = f
    BY <1>2
  <2> QED BY <2>1
<1> QED BY <1>1, <1>2

LEMMA TalliesStep == Tallies /\ [Next]_vars => Tallies'
<1> SUFFICES ASSUME Tallies, [Next]_vars PROVE Tallies'
  OBVIOUS
<1>1. ASSUME NEW r \in Requests, NEW kind, Fail(r, kind) PROVE Tallies'
  BY <1>1, CountUp DEF Fail, Tallies
<1>2. ASSUME NEW r \in Requests, Finish(r) PROVE Tallies'
  BY <1>2, CountUp DEF Finish, Tallies
<1>3. CASE UNCHANGED <<queries, errors>>
  BY <1>3 DEF Tallies
<1>4. ASSUME NEW r \in Requests, Proceed(r) PROVE Tallies'
  BY <1>1, <1>2, <1>3, <1>4
  DEF Proceed, Retrieve, RetrievalFails, Attempt, Resume, Answered,
      PassingError, UnknownModel, Refused, Pull, PullFails, objects
<1>5. ASSUME NEW r \in Requests, Ask(r) \/ Disconnect(r) PROVE Tallies'
  BY <1>3, <1>5 DEF Ask, Disconnect, objects
<1> QED
  BY <1>3, <1>4, <1>5 DEF Next, Invalidate, vars, objects

\* The type invariant the runs check.
THEOREM TypeCorrect == Spec => []TypeOK
<1>1. Init => Tallies
  BY DEF Init, Tallies
<1>2. IInv /\ Tallies => TypeOK
  BY AnsweringAssumption
  DEF IInv, Types, Control, Tallies, TypeOK, Sleeps, Requests
<1> QED BY <1>1, <1>2, TalliesStep, Invariant, PTL DEF Spec

-----------------------------------------------------------------------------
(* The events of a stream.                                                 *)

\* A stream's events so far: none, or the sources and then tokens, or closed.
OpenEvents(q) ==
  /\ q # <<>>
  /\ q[1] = "sources"
  /\ \A i \in DOMAIN q : /\ q[i] = "sources" => i = 1
                         /\ q[i] \in {"sources", "token"}

OrderedEvents(q) ==
  /\ q # <<>> => q[1] \in {"sources", "error"}
  /\ \A i \in DOMAIN q : /\ q[i] = "sources" => i = 1
                         /\ q[i] \in {"done", "error"} => i = Len(q)

ClosedEvents(q) ==
  OrderedEvents(q) /\ q # <<>> /\ q[Len(q)] \in {"done", "error"}

EventsInv ==
  \A r \in Streams :
    /\ pc[r] \in {"idle", "new", "retrieving"} => events[r] = <<>>
    /\ pc[r] \in {"sources", "waiting", "fallback", "pulling", "token"} =>
         OpenEvents(events[r])
    /\ pc[r] = "done" => ClosedEvents(events[r])
    /\ pc[r] = "ended" =>
         OrderedEvents(events[r]) /\ (r \in gone \/ ClosedEvents(events[r]))

LEMMA OpenOrdered ==
  ASSUME NEW q \in Seq(Messages), OpenEvents(q)
  PROVE  OrderedEvents(q)
  BY DEF OpenEvents, OrderedEvents

LEMMA FirstEvent ==
  /\ OpenEvents(Append(<<>>, "sources"))
  /\ ClosedEvents(Append(<<>>, "error"))
  BY DEF OpenEvents, ClosedEvents, OrderedEvents

LEMMA NextEvent ==
  ASSUME NEW q \in Seq(Messages), OpenEvents(q)
  PROVE  /\ OpenEvents(Append(q, "token"))
         /\ ClosedEvents(Append(q, "done"))
         /\ ClosedEvents(Append(q, "error"))
<1>1. Len(q) \in Nat /\ DOMAIN q = 1 .. Len(q)
  OBVIOUS
<1>2. ASSUME NEW e \in Messages
      PROVE  /\ Len(Append(q, e)) = Len(q) + 1
             /\ DOMAIN Append(q, e) = 1 .. Len(q) + 1
             /\ \A i \in 1 .. Len(q) : Append(q, e)[i] = q[i]
             /\ Append(q, e)[Len(q) + 1] = e
             /\ Append(q, e) # <<>>
  OBVIOUS
<1>3. Len(q) >= 1 /\ q[1] = "sources"
  BY <1>1 DEF OpenEvents
<1>4. OpenEvents(Append(q, "token"))
  BY <1>1, <1>2, <1>3 DEF OpenEvents, Messages
<1>5. ASSUME NEW e \in {"done", "error"} PROVE ClosedEvents(Append(q, e))
  <2>1. e \in Messages
    BY DEF Messages
  <2> QED
    BY <1>1, <1>2, <1>3, <2>1
    DEF OpenEvents, ClosedEvents, OrderedEvents
<1> QED BY <1>4, <1>5

\* A stream that yields from one of the states where one does.
LEMMA YieldOrdered ==
  ASSUME IInv, EventsInv, NEW r \in Streams,
         NEW event \in {"sources", "token", "done", "error"},
         Yield(r, event), UNCHANGED gone,
         \/ pc[r] = "retrieving" /\ event \in {"sources", "error"}
         \/ /\ pc[r] \in {"waiting", "fallback", "pulling"}
            /\ event \in {"token", "done", "error"}
  PROVE  EventsInv'
<1> DEFINE q == events[r]
<1>1. r \in Requests /\ q \in Seq(Messages)
  BY DEF IInv, Types, Requests
<1>2. SUFFICES /\ pc'[r] \in {"sources", "token"} => OpenEvents(events'[r])
               /\ pc'[r] = "done" => ClosedEvents(events'[r])
               /\ pc'[r] = "ended" =>
                    /\ OrderedEvents(events'[r])
                    /\ r \in gone \/ ClosedEvents(events'[r])
  <2>1. \A u \in Streams \ {r} : pc'[u] = pc[u] /\ events'[u] = events[u]
    BY DEF Yield, IInv, Types, Requests
  <2>2. pc'[r] \in {"ended", "sources", "token", "done"}
    BY <1>1 DEF Yield, IInv, Types
  <2> QED BY <2>1, <2>2 DEF EventsInv
<1>3. CASE r \in gone
  <2>1. pc'[r] = "ended" /\ events'[r] = q
    BY <1>1, <1>3 DEF Yield, IInv, Types
  <2>2. OrderedEvents(q)
    <3>1. CASE pc[r] = "retrieving"
      BY <3>1 DEF EventsInv, OrderedEvents
    <3>2. CASE pc[r] # "retrieving"
      BY <1>1, <3>2, OpenOrdered DEF EventsInv
    <3> QED BY <3>1, <3>2
  <2> QED BY <1>3, <2>1, <2>2
<1>4. CASE r \notin gone
  <2>1. /\ pc'[r] = IF event = "error" THEN "ended" ELSE event
        /\ events'[r] = Append(q, event)
    BY <1>1, <1>4 DEF Yield, IInv, Types
  <2>2. CASE pc[r] = "retrieving"
    <3>1. q = <<>>
      BY <2>2 DEF EventsInv
    <3> HIDE DEF q
    <3> QED BY <2>1, <2>2, <3>1, FirstEvent DEF ClosedEvents
  <2>3. CASE pc[r] # "retrieving"
    <3>1. OpenEvents(q)
      BY <2>3 DEF EventsInv
    <3> HIDE DEF q
    <3> QED BY <1>1, <2>1, <2>3, <3>1, NextEvent DEF ClosedEvents
  <2> QED BY <2>2, <2>3
<1> QED BY <1>3, <1>4

\* A step that sends nothing to a stream.
LEMMA SilentOrdered ==
  ASSUME IInv, EventsInv, UNCHANGED <<events, gone>>,
         \A r \in Streams :
           \/ pc'[r] = pc[r]
           \/ pc[r] = "idle" /\ pc'[r] = "new"
           \/ pc[r] = "new" /\ pc'[r] = "retrieving"
           \/ pc[r] = "sources" /\ pc'[r] = "waiting"
           \/ pc[r] = "waiting" /\ pc'[r] \in {"fallback", "pulling"}
           \/ pc[r] = "fallback" /\ pc'[r] = "pulling"
           \/ pc[r] = "token" /\ pc'[r] = "pulling"
           \/ pc[r] = "done" /\ pc'[r] = "ended"
  PROVE  EventsInv'
  BY DEF EventsInv, ClosedEvents

\* A query's response is no stream's event.
LEMMA RespondOrdered ==
  ASSUME IInv, EventsInv, NEW r \in Queries, NEW status,
         Respond(r, status), UNCHANGED gone
  PROVE  EventsInv'
<1>1. \A u \in Streams : pc'[u] = pc[u] /\ events'[u] = events[u]
  BY AnsweringAssumption DEF Respond, IInv, Types, Requests
<1> QED BY <1>1 DEF EventsInv

LEMMA FailOrdered ==
  ASSUME IInv, EventsInv, NEW r \in Requests, NEW kind, Fail(r, kind),
         pc[r] \in {"retrieving", "waiting", "fallback", "pulling"}
  PROVE  EventsInv'
<1>1. CASE r \in Streams
  BY <1>1, YieldOrdered DEF Fail
<1>2. CASE r \notin Streams
  BY <1>2, RespondOrdered DEF Fail, Requests
<1> QED BY <1>1, <1>2

LEMMA EventsStep == IInv /\ EventsInv /\ [Next]_vars => EventsInv'
<1> SUFFICES ASSUME IInv, EventsInv, [Next]_vars PROVE EventsInv'
  OBVIOUS
<1> USE AnsweringAssumption
<1>1. CASE UNCHANGED vars \/ Invalidate
  BY <1>1, SilentOrdered DEF vars, Invalidate, client
<1>2. ASSUME NEW r \in Requests, Ask(r) PROVE EventsInv'
  <2>1. UNCHANGED <<events, gone>>
    BY <1>2 DEF Ask, client
  <2>2. \A u \in Streams : pc'[u] = pc[u] \/ (pc[u] = "idle" /\ pc'[u] = "new")
    BY <1>2 DEF Ask, IInv, Types, Requests
  <2> QED BY <2>1, <2>2, SilentOrdered
<1>3. ASSUME NEW r \in Requests, Retrieve(r) PROVE EventsInv'
  <2>1. CASE r \in Queries
    <3>1. UNCHANGED <<events, gone>> /\ \A u \in Streams : pc'[u] = pc[u]
      BY <1>3, <2>1 DEF Retrieve, Yield, IInv, Types, Requests
    <3> QED BY <3>1, SilentOrdered
  <2>2. CASE r \in Streams
    BY <1>3, <2>2, YieldOrdered DEF Retrieve
  <2> QED BY <2>1, <2>2 DEF Requests
<1>4. ASSUME NEW r \in Requests, RetrievalFails(r) PROVE EventsInv'
  BY <1>4, FailOrdered DEF RetrievalFails
<1>5. ASSUME NEW r \in Requests, Attempt(r) PROVE EventsInv'
  <2>1. r \notin Streams /\ UNCHANGED <<events, gone>>
    BY <1>5 DEF Attempt, client, IInv, Control
  <2>2. \A u \in Streams : pc'[u] = pc[u]
    BY <1>5, <2>1 DEF Attempt, Call, IInv, Types
  <2> QED BY <2>1, <2>2, SilentOrdered
<1>6. ASSUME NEW r \in Requests, Resume(r) PROVE EventsInv'
  <2>1. UNCHANGED <<events, gone>>
    BY <1>6 DEF Resume, client
  <2>2. PICK label : pc' = [pc EXCEPT ![r] = label]
    BY <1>6 DEF Resume, Call
  <2>3. pc'[r] = label /\ \A u \in Streams \ {r} : pc'[u] = pc[u]
    BY <2>2 DEF IInv, Types, Requests
  <2>4. CASE pc[r] = "sources"
    <3>1. pc'[r] = "waiting"
      BY <1>6, <2>4 DEF Resume, Call, IInv, Types
    <3> QED BY <2>1, <2>3, <2>4, <3>1, SilentOrdered
  <2>5. CASE pc[r] # "sources"
    <3>1. \/ pc[r] = "new" /\ pc'[r] = "retrieving"
          \/ pc[r] = "token" /\ pc'[r] = "pulling"
          \/ pc[r] = "done" /\ pc'[r] = "ended"
      BY <1>6, <2>5 DEF Resume, Paused, IInv, Types
    <3> QED BY <2>1, <2>3, <3>1, SilentOrdered
  <2> QED BY <2>4, <2>5
<1>7. ASSUME NEW r \in Requests, Answered(r) PROVE EventsInv'
  <2>1. CASE r \in Queries
    BY <1>7, <2>1, RespondOrdered DEF Answered, Finish
  <2>2. CASE r \in Streams
    <3>1. /\ UNCHANGED <<events, gone>> /\ pc[r] \in {"waiting", "fallback"}
          /\ pc'[r] = "pulling"
          /\ \A u \in Streams \ {r} : pc'[u] = pc[u]
      BY <1>7, <2>2 DEF Answered, client, IInv, Types, Requests
    <3> QED BY <3>1, SilentOrdered
  <2> QED BY <2>1, <2>2 DEF Requests
<1>8. ASSUME NEW r \in Requests, PassingError(r) PROVE EventsInv'
  <2>1. CASE /\ r \in Queries
             /\ pc' = [pc EXCEPT ![r] = "attempt"]
             /\ UNCHANGED client
    <3>1. UNCHANGED <<events, gone>> /\ \A u \in Streams : pc'[u] = pc[u]
      BY <2>1 DEF client, IInv, Types
    <3> QED BY <3>1, SilentOrdered
  <2>2. ASSUME NEW kind, Fail(r, kind) PROVE EventsInv'
    BY <1>8, <2>2, FailOrdered DEF PassingError
  <2> QED BY <1>8, <2>1, <2>2 DEF PassingError
<1>9. ASSUME NEW r \in Requests, UnknownModel(r) PROVE EventsInv'
  <2>1. CASE /\ pc[r] = "waiting"
             /\ Call(r, "fallback", Fallback)
             /\ UNCHANGED client
    <3>1. /\ UNCHANGED <<events, gone>>
          /\ \A u \in Streams :
               pc'[u] = pc[u] \/ (pc[u] = "waiting" /\ pc'[u] = "fallback")
      BY <2>1 DEF Call, client, IInv, Types
    <3> QED BY <3>1, SilentOrdered
  <2>2. CASE Fail(r, "NotFoundError")
    BY <1>9, <2>2, FailOrdered DEF UnknownModel
  <2> QED BY <1>9, <2>1, <2>2 DEF UnknownModel
<1>10. ASSUME NEW r \in Requests, Refused(r) PROVE EventsInv'
  BY <1>10, FailOrdered DEF Refused
<1>11. ASSUME NEW r \in Requests, Pull(r) PROVE EventsInv'
  <2>1. r \in Streams
    BY <1>11 DEF Pull, IInv, Control, Requests
  <2> QED BY <1>11, <2>1, YieldOrdered DEF Pull, Finish
<1>12. ASSUME NEW r \in Requests, PullFails(r) PROVE EventsInv'
  BY <1>12, FailOrdered DEF PullFails
<1>13. ASSUME NEW r \in Requests, Disconnect(r) PROVE EventsInv'
  <2>1. /\ r \in Streams /\ pc[r] \notin {"idle", "ended"}
        /\ events' = events /\ gone' = gone \cup {r}
        /\ pc' = [pc EXCEPT ![r] = IF pc[r] \in Paused THEN "ended" ELSE pc[r]]
    BY <1>13 DEF Disconnect, IInv, Types
  <2>2. /\ \A u \in Streams \ {r} : pc'[u] = pc[u]
        /\ pc'[r] = pc[r] \/ pc'[r] = "ended"
    BY <2>1 DEF IInv, Types
  <2>3. OrderedEvents(events[r])
    <3>1. CASE pc[r] \in {"new", "retrieving"}
      BY <2>1, <3>1 DEF EventsInv, OrderedEvents
    <3>2. CASE pc[r] \notin {"new", "retrieving"}
      <4>1. pc[r] = "done" \/ OpenEvents(events[r])
        BY <2>1, <3>2
        DEF EventsInv, IInv, Types, Control, Labels, Paused, Calling, Requests
      <4>2. events[r] \in Seq(Messages)
        BY <2>1 DEF IInv, Types, Requests
      <4> QED BY <2>1, <4>1, <4>2, OpenOrdered DEF EventsInv, ClosedEvents
    <3> QED BY <3>1, <3>2
  <2> QED BY <2>1, <2>2, <2>3 DEF EventsInv
<1> QED
  BY <1>1, <1>2, <1>3, <1>4, <1>5, <1>6, <1>7, <1>8, <1>9, <1>10, <1>11,
     <1>12, <1>13
  DEF Next, Proceed

\* The order of a stream's events, whatever its client and the others do.
THEOREM EventsInOrder == Spec => []EventOrder
<1>1. Init => EventsInv
  BY DEF Init, EventsInv, Requests
<1>2. IInv /\ EventsInv => EventOrder
  <2> SUFFICES ASSUME IInv, EventsInv, NEW r \in Streams
               PROVE  /\ OrderedEvents(events[r])
                      /\ pc[r] = "ended" /\ r \notin gone =>
                           ClosedEvents(events[r])
    BY DEF EventOrder, OrderedEvents, ClosedEvents, Delivered, Last
  <2>1. events[r] \in Seq(Messages) /\ pc[r] \in Labels /\ pc[r] # "attempt"
    BY DEF IInv, Types, Control, Requests
  <2>2. CASE events[r] = <<>>
    BY <2>2 DEF EventsInv, OrderedEvents, ClosedEvents
  <2>3. CASE events[r] # <<>>
    BY <2>1, <2>3, OpenOrdered
    DEF EventsInv, ClosedEvents, Labels, Paused, Calling
  <2> QED BY <2>2, <2>3 DEF EventsInv
<1> QED BY <1>1, <1>2, EventsStep, Invariant, PTL DEF Spec

-----------------------------------------------------------------------------
(* The fallback model.                                                     *)

\* q has called the fallback of service s.
Changed(q, s) == service[q] = s /\ used[q] = Fallback

\* The service of u has been changed by a stream.
StreamChanged(u) == \E q \in Streams : Changed(q, service[u])

\* Who has called the fallback belongs to a service that has changed to it; a
\* service that has changed was changed by one of its requests; and by a
\* stream, if that happened while a query waits for the configured model.
RaceInv ==
  /\ \A q \in Requests :
       /\ used[q] = Fallback => model[service[q]] = Fallback
       /\ pc[q] \in {"waiting", "fallback"} => used[q] \in Models
  /\ \A s \in Services :
       model[s] = Fallback /\ Configured # Fallback =>
         \E q \in Requests : Changed(q, s)
  /\ \A r \in Queries :
       /\ pc[r] = "waiting" /\ used[r] # Fallback
       /\ model[service[r]] = Fallback
       => StreamChanged(r)

\* The four kinds of steps: those that call nothing...
QuietStep ==
  /\ UNCHANGED <<model, service, used>>
  /\ \A r \in Requests : pc'[r] \in {"waiting", "fallback"} => pc'[r] = pc[r]

\* ...an arrival...
AskStep(r) ==
  /\ pc[r] = "idle"
  /\ UNCHANGED <<model, used>>
  /\ \A u \in Requests \ {r} : service'[u] = service[u] /\ pc'[u] = pc[u]
  /\ service' \in [Requests -> Services \cup {NoService}]
  /\ service'[r] \in Services
  /\ pc'[r] \in {"retrieving", "new"}

\* ...a call of the service's model...
CallStep(r) ==
  /\ UNCHANGED <<model, service>>
  /\ used' = [used EXCEPT ![r] = model[service[r]]]
  /\ pc' = [pc EXCEPT ![r] = "waiting"]
  /\ pc[r] \in {"attempt", "sources"}

\* ...and a change of the service to the fallback.
ChangeStep(r) ==
  /\ pc[r] = "waiting"
  /\ model' = [model EXCEPT ![service[r]] = Fallback]
  /\ used' = [used EXCEPT ![r] = Fallback]
  /\ pc' = [pc EXCEPT ![r] = "fallback"]
  /\ UNCHANGED service

StepKind ==
  \/ QuietStep
  \/ \E r \in Requests : AskStep(r) \/ CallStep(r) \/ ChangeStep(r)

LEMMA FailQuiet ==
  ASSUME IInv, NEW r \in Requests, NEW kind, Fail(r, kind), UNCHANGED progress
  PROVE  QuietStep
<1>1. /\ UNCHANGED <<model, service, used>>
      /\ pc' = [pc EXCEPT ![r] = "ended"]
  BY DEF Fail, Yield, Respond, progress
<1> QED BY <1>1 DEF QuietStep, IInv, Types

LEMMA FinishQuiet ==
  ASSUME IInv, NEW r \in Requests, Finish(r)
  PROVE  QuietStep
<1>1. /\ UNCHANGED <<model, service, used>>
      /\ \E label \in {"ended", "done"} : pc' = [pc EXCEPT ![r] = label]
  BY DEF Finish, Yield, Respond, progress
<1> QED BY <1>1 DEF QuietStep, IInv, Types

LEMMA StepKinds == IInv /\ [Next]_vars => StepKind
<1> SUFFICES ASSUME IInv, [Next]_vars PROVE StepKind
  OBVIOUS
<1> USE AnsweringAssumption
<1>1. CASE UNCHANGED vars \/ Invalidate
  BY <1>1 DEF vars, objects, progress, Invalidate, StepKind, QuietStep
<1>2. ASSUME NEW r \in Requests, Ask(r) PROVE StepKind
  <2>1. PICK s \in Services : service' = [service EXCEPT ![r] = s]
    BY <1>2 DEF Ask
  <2>2. /\ pc' = [pc EXCEPT ![r] =
                      IF r \in Queries THEN "retrieving" ELSE "new"]
        /\ pc[r] = "idle" /\ UNCHANGED <<model, used>>
    BY <1>2 DEF Ask, progress
  <2> QED BY <2>1, <2>2 DEF StepKind, AskStep, IInv, Types
<1>3. ASSUME NEW r \in Requests, Retrieve(r) \/ Pull(r) PROVE StepKind
  <2>1. CASE Finish(r)
    BY <2>1, FinishQuiet DEF StepKind
  <2>2. CASE ~ Finish(r)
    <3>1. /\ UNCHANGED <<model, service, used>>
          /\ \E label \in {"attempt", "ended", "sources", "token"} :
               pc' = [pc EXCEPT ![r] = label]
      BY <1>3, <2>2 DEF Retrieve, Pull, Yield, objects, progress
    <3> QED BY <3>1 DEF StepKind, QuietStep, IInv, Types
  <2> QED BY <2>1, <2>2
<1>4. ASSUME NEW r \in Requests,
             RetrievalFails(r) \/ Refused(r) \/ PullFails(r)
      PROVE StepKind
  BY <1>4, FailQuiet DEF RetrievalFails, Refused, PullFails, StepKind
<1>5. ASSUME NEW r \in Requests, Attempt(r) PROVE StepKind
  BY <1>5 DEF Attempt, Call, objects, StepKind, CallStep
<1>6. ASSUME NEW r \in Requests, Resume(r) PROVE StepKind
  <2>1. CASE pc[r] = "sources"
    BY <1>6, <2>1 DEF Resume, Call, objects, StepKind, CallStep
  <2>2. CASE pc[r] # "sources"
    <3>1. pc[r] \in {"new", "token", "done"}
      BY <1>6, <2>2 DEF Resume, Paused
    <3>2. /\ UNCHANGED <<model, service, used>>
          /\ \E label \in {"retrieving", "pulling", "ended"} :
               pc' = [pc EXCEPT ![r] = label]
      BY <1>6, <2>2, <3>1 DEF Resume, objects, IInv, Types
    <3> QED BY <3>2 DEF StepKind, QuietStep, IInv, Types
  <2> QED BY <2>1, <2>2
<1>7. ASSUME NEW r \in Requests, Answered(r) PROVE StepKind
  <2>1. CASE Finish(r)
    BY <2>1, FinishQuiet DEF StepKind
  <2>2. CASE ~ Finish(r)
    <3>1. /\ UNCHANGED <<model, service, used>>
          /\ pc' = [pc EXCEPT ![r] = "pulling"]
      BY <1>7, <2>2 DEF Answered, objects, progress
    <3> QED BY <3>1 DEF StepKind, QuietStep, IInv, Types
  <2> QED BY <2>1, <2>2
<1>8. ASSUME NEW r \in Requests, PassingError(r) PROVE StepKind
  <2>1. CASE /\ UNCHANGED <<objects, service, used>>
             /\ pc' = [pc EXCEPT ![r] = "attempt"]
    BY <2>1 DEF objects, StepKind, QuietStep, IInv, Types
  <2>2. ASSUME NEW kind, Fail(r, kind), UNCHANGED progress PROVE StepKind
    BY <2>2, FailQuiet DEF StepKind
  <2> QED BY <1>8, <2>1, <2>2 DEF PassingError
<1>9. ASSUME NEW r \in Requests, UnknownModel(r) PROVE StepKind
  <2>1. CASE Fail(r, "NotFoundError") /\ UNCHANGED progress
    BY <2>1, FailQuiet DEF StepKind
  <2>2. CASE ~ (Fail(r, "NotFoundError") /\ UNCHANGED progress)
    BY <1>9, <2>2 DEF UnknownModel, Call, StepKind, ChangeStep
  <2> QED BY <2>1, <2>2
<1>10. ASSUME NEW r \in Requests, Disconnect(r) PROVE StepKind
  <2>1. /\ UNCHANGED <<model, service, used>>
        /\ \E label \in {"ended", pc[r]} : pc' = [pc EXCEPT ![r] = label]
    BY <1>10 DEF Disconnect, objects, progress, IInv, Types
  <2> QED BY <2>1 DEF StepKind, QuietStep, IInv, Types
<1> QED
  BY <1>1, <1>2, <1>3, <1>4, <1>5, <1>6, <1>7, <1>8, <1>9, <1>10
  DEF Next, Proceed

\* Who has called the fallback stays with it.
LEMMA ChangedStays ==
  ASSUME IInv, RaceInv, StepKind
  PROVE  \A q \in Requests : \A s : Changed(q, s) => Changed(q, s)'
<1> SUFFICES ASSUME NEW q \in Requests, NEW s, Changed(q, s)
             PROVE  Changed(q, s)'
  OBVIOUS
<1> USE AnsweringAssumption DEF Changed
<1>1. used[q] = Fallback /\ service[q] = s /\ model[s] = Fallback
  BY DEF RaceInv
<1>2. pc[q] # "idle"
  BY <1>1 DEF IInv, Control, Models
<1> QED
  BY <1>1, <1>2
  DEF StepKind, QuietStep, AskStep, CallStep, ChangeStep, IInv, Types

LEMMA RaceStep == IInv /\ RaceInv /\ StepKind => RaceInv'
<1> SUFFICES ASSUME IInv, RaceInv, StepKind PROVE RaceInv'
  OBVIOUS
<1> USE AnsweringAssumption
<1>0. \A q \in Requests : \A s : Changed(q, s) => Changed(q, s)'
  BY ChangedStays
<1>1. CASE QuietStep
  BY <1>1 DEF QuietStep, RaceInv, Changed, StreamChanged, Requests
<1>2. ASSUME NEW r \in Requests, AskStep(r) PROVE RaceInv'
  <2>1. used[r] = NoModel /\ used[r] # Fallback
    BY <1>2 DEF AskStep, IInv, Control, Models
  <2>2. \A q \in Requests :
          /\ used'[q] = Fallback => model'[service'[q]] = Fallback
          /\ pc'[q] \in {"waiting", "fallback"} => used'[q] \in Models
    BY <1>2, <2>1 DEF AskStep, RaceInv
  <2>3. \A s \in Services :
          model'[s] = Fallback /\ Configured # Fallback =>
            \E q \in Requests : Changed(q, s)'
    BY <1>0, <1>2 DEF AskStep, RaceInv
  <2>4. \A u \in Queries :
          /\ pc'[u] = "waiting" /\ used'[u] # Fallback
          /\ model'[service'[u]] = Fallback
          => StreamChanged(u)'
    BY <1>0, <1>2 DEF AskStep, RaceInv, Requests, Changed, StreamChanged
  <2> QED BY <2>2, <2>3, <2>4 DEF RaceInv, Changed
<1>3. ASSUME NEW r \in Requests, CallStep(r) PROVE RaceInv'
  <2>1. service[r] \in Services /\ model[service[r]] \in Models
    BY <1>3 DEF CallStep, IInv, Types, Control
  <2>2. \A q \in Requests :
          /\ used'[q] = Fallback => model'[service'[q]] = Fallback
          /\ pc'[q] \in {"waiting", "fallback"} => used'[q] \in Models
    BY <1>3, <2>1 DEF CallStep, RaceInv, IInv, Types
  <2>3. \A s \in Services :
          model'[s] = Fallback /\ Configured # Fallback =>
            \E q \in Requests : Changed(q, s)'
    BY <1>0, <1>3 DEF CallStep, RaceInv
  <2>4. \A u \in Queries :
          /\ pc'[u] = "waiting" /\ used'[u] # Fallback
          /\ model'[service'[u]] = Fallback
          => StreamChanged(u)'
    BY <1>0, <1>3
    DEF CallStep, RaceInv, Requests, Changed, StreamChanged, IInv, Types
  <2> QED BY <2>2, <2>3, <2>4 DEF RaceInv, Changed
<1>4. ASSUME NEW r \in Requests, ChangeStep(r) PROVE RaceInv'
  <2>1. service[r] \in Services /\ service' = service /\ used'[r] = Fallback
    BY <1>4 DEF ChangeStep, IInv, Types, Control
  <2>2. \A q \in Requests :
          /\ used'[q] = Fallback => model'[service'[q]] = Fallback
          /\ pc'[q] \in {"waiting", "fallback"} => used'[q] \in Models
    <3>1. Fallback \in Models
      BY DEF Models
    <3>2. \A q \in Requests : used[q] = Fallback => service[q] \in Services
      BY DEF IInv, Control, Models
    <3> QED BY <1>4, <2>1, <3>1, <3>2 DEF ChangeStep, RaceInv, IInv, Types
  <2>3. \A s \in Services :
          model'[s] = Fallback /\ Configured # Fallback =>
            \E q \in Requests : Changed(q, s)'
    BY <1>0, <1>4, <2>1 DEF ChangeStep, RaceInv, IInv, Types, Changed
  <2>4. \A u \in Queries :
          /\ pc'[u] = "waiting" /\ used'[u] # Fallback
          /\ model'[service'[u]] = Fallback
          => StreamChanged(u)'
    <3> SUFFICES ASSUME NEW u \in Queries,
                        pc'[u] = "waiting", used'[u] # Fallback,
                        model'[service'[u]] = Fallback
                 PROVE  StreamChanged(u)'
      OBVIOUS
    <3>1. u \in Requests /\ u # r /\ pc[u] = "waiting" /\ used[u] # Fallback
      BY <1>4 DEF ChangeStep, IInv, Types, Requests
    <3>2. service'[u] = service[u] /\ service[u] \in Services
      BY <1>4, <3>1 DEF ChangeStep, IInv, Control
    <3>3. CASE model[service[u]] = Fallback
      BY <1>0, <3>1, <3>2, <3>3 DEF RaceInv, Requests, Changed, StreamChanged
    <3>4. CASE model[service[u]] # Fallback
      <4>1. service[u] = service[r]
        BY <1>4, <3>2, <3>4 DEF ChangeStep, IInv, Types
      <4>2. r \in Streams
        BY <1>4, <3>1 DEF ChangeStep, IInv, Control, Requests
      <4> QED BY <2>1, <4>1, <4>2 DEF StreamChanged, Changed
    <3> QED BY <3>3, <3>4
  <2> QED BY <2>2, <2>3, <2>4 DEF RaceInv, Changed
<1> QED BY <1>1, <1>2, <1>3, <1>4 DEF StepKind

\* A request that fails of an unknown model now.
LEMMA LosingRace ==
  ASSUME IInv, RaceInv, NEW r \in Requests, UnknownModel(r),
         Fail(r, "NotFoundError"), Fallback \in served
  PROVE  \E q \in Requests \ {r} :
           Changed(q, service[r]) /\ {q, r} \cap Streams # {}
<1> USE AnsweringAssumption
<1>1. used[r] \in Models \ {Fallback} /\ service[r] \in Services
  BY DEF UnknownModel, RaceInv, IInv, Control
<1>2. pc[r] = "waiting"
  BY <1>1 DEF UnknownModel, IInv, Control
<1>3. Configured # Fallback
  BY <1>1 DEF Models
<1>4. model[service[r]] = Fallback
  <2>1. pc'[r] = "ended"
    BY DEF Fail, Yield, Respond, IInv, Types
  <2>2. ~ Call(r, "fallback", Fallback)
    BY <2>1 DEF Call, IInv, Types
  <2> QED BY <1>2, <2>2 DEF UnknownModel
<1>5. CASE r \in Queries
  <2>1. PICK q \in Streams : Changed(q, service[r])
    BY <1>1, <1>2, <1>4, <1>5 DEF RaceInv, StreamChanged
  <2> QED BY <1>5, <2>1 DEF Requests
<1>6. CASE r \in Streams
  <2>1. PICK q \in Requests : Changed(q, service[r])
    BY <1>1, <1>3, <1>4 DEF RaceInv
  <2> QED BY <1>1, <1>6, <2>1 DEF Changed
<1> QED BY <1>5, <1>6 DEF Requests

\* Only a failure of that kind is recorded as one.
LEMMA WhyStep ==
  ASSUME IInv, [Next]_vars, NEW r \in Requests,
         why'[r] = "NotFoundError", why[r] # "NotFoundError"
  PROVE  UnknownModel(r) /\ Fail(r, "NotFoundError")
<1> USE AnsweringAssumption
<1>1. ~ UNCHANGED why
  OBVIOUS
<1>2. PICK u \in Requests : Proceed(u)
  BY <1>1 DEF Next, Ask, Disconnect, Invalidate, vars, client
<1>3. \E kind \in Failures : Fail(u, kind)
  BY <1>1, <1>2
  DEF Proceed, Retrieve, RetrievalFails, Attempt, Resume, Answered, Finish,
      PassingError, UnknownModel, Refused, Pull, PullFails, client, Failures
<1>4. u = r
  BY <1>3 DEF Fail, IInv, Types
<1>5. ASSUME NEW kind \in Failures, Fail(r, kind) PROVE kind = "NotFoundError"
  BY <1>5 DEF Fail, IInv, Types
<1> QED
  BY <1>1, <1>2, <1>4, <1>5
  DEF Proceed, Retrieve, RetrievalFails, Attempt, Resume, Answered, Finish,
      PassingError, UnknownModel, Refused, Pull, PullFails, client, Failures

\* With one request at a time the fallback is never missed: who fails of an
\* unknown model that the fallback would have served lost it to another.
THEOREM FallbackMissedInRaces == Spec => []FallbackLostToRace
<1>1. Init => RaceInv /\ FallbackLostToRace
  BY AnsweringAssumption
  DEF Init, RaceInv, FallbackLostToRace, Models, Requests
<1>2. IInv /\ RaceInv /\ FallbackLostToRace /\ [Next]_vars
        => FallbackLostToRace'
  <2> SUFFICES ASSUME IInv, RaceInv, FallbackLostToRace, [Next]_vars,
                      NEW r \in Requests,
                      why'[r] = "NotFoundError", Fallback \in served'
               PROVE  \E q \in Requests \ {r} :
                        /\ service'[q] = service'[r]
                        /\ used'[q] = Fallback
                        /\ {q, r} \cap Streams # {}
    BY DEF FallbackLostToRace
  <2>1. StepKind
    BY StepKinds
  <2>2. \A q \in Requests : \A s : Changed(q, s) => Changed(q, s)'
    BY <2>1, ChangedStays
  <2>3. served' = served
    BY DEF Next, Ask, Proceed, Disconnect, Invalidate, vars, Retrieve,
       RetrievalFails, Attempt, Resume, Answered, Finish, Fail, PassingError,
       UnknownModel, Refused, Pull, PullFails
  <2>4. PICK q \in Requests \ {r} :
          Changed(q, service[r]) /\ {q, r} \cap Streams # {}
    <3>1. CASE why[r] = "NotFoundError"
      BY <2>3, <3>1 DEF FallbackLostToRace, Changed
    <3>2. CASE why[r] # "NotFoundError"
      BY <2>3, <3>2, WhyStep, LosingRace
    <3> QED BY <3>1, <3>2
  <2>5. service'[r] = service[r]
    <3>1. pc[r] # "idle"
      <4>1. CASE why[r] = "NotFoundError"
        BY <4>1 DEF IInv, Control
      <4>2. CASE why[r] # "NotFoundError"
        BY <4>2, WhyStep DEF UnknownModel
      <4> QED BY <4>1, <4>2
    <3> QED
      BY <2>1, <3>1
      DEF StepKind, QuietStep, AskStep, CallStep, ChangeStep
  <2> QED BY <2>2, <2>4, <2>5 DEF Changed
<1> QED BY <1>1, <1>2, StepKinds, RaceStep, Invariant, PTL DEF Spec

-----------------------------------------------------------------------------
(* The counters.                                                           *)

Answers == {"200", "done"}
Errors == {"500", "504", "error"}
Told(r, verdicts) == Delivered(r) /\ Last(r) \in verdicts

Clients(s, verdicts) ==
  {r \in Requests : service[r] = s /\ Told(r, verdicts)}
Left(s) == {r \in gone : service[r] = s}
Lost(s) == {r \in Left(s) : pc[r] = "ended"}

\* A query hears nothing before its response.
QuietQueries == \A r \in Queries : pc[r] # "ended" => events[r] = <<>>

\* AccountsMatch, with those that have left counted when their generator is
\* dropped.
CountAt(s) ==
  /\ Cardinality(Clients(s, Answers)) <= queries[s]
  /\ Cardinality(Clients(s, Errors)) <= errors[s]
  /\ queries[s] + errors[s] <= Cardinality(Clients(s, Answers))
                                 + Cardinality(Clients(s, Errors))
                                 + Cardinality(Lost(s))

CountInv == \A s \in Services : CountAt(s)

Reached == IInv /\ Tallies /\ EventsInv /\ QuietQueries

LEMMA FiniteClients ==
  ASSUME IInv, NEW s
  PROVE  /\ IsFiniteSet(Left(s)) /\ IsFiniteSet(Lost(s))
         /\ \A v : IsFiniteSet(Clients(s, v))
<1>1. IsFiniteSet(Requests)
  BY AnsweringAssumption, FS_Union DEF Requests
<1>2. Left(s) \subseteq Requests /\ Lost(s) \subseteq Requests
  BY DEF Left, Lost, IInv, Types, Requests
<1>3. \A v : Clients(s, v) \subseteq Requests
  BY DEF Clients
<1> QED BY <1>1, <1>2, <1>3, FS_Subset

LEMMA FiniteClientsNext ==
  ASSUME IInv', NEW s
  PROVE  IsFiniteSet(Lost(s)')
<1>1. IsFiniteSet(Requests)
  BY AnsweringAssumption, FS_Union DEF Requests
<1>2. Lost(s)' \subseteq Requests
  BY DEF Left, Lost, IInv, Types, Requests
<1> QED BY <1>1, <1>2, FS_Subset

\* Until its last event a request has been told nothing that is counted.
LEMMA UntoldBefore ==
  ASSUME Reached, NEW r \in Requests, pc[r] \notin {"done", "ended"}
  PROVE  ~ Told(r, Answers) /\ ~ Told(r, Errors)
<1>1. events[r] \in Seq(Messages) /\ pc[r] \in Labels
  BY DEF Reached, IInv, Types
<1>2. CASE r \in Queries
  BY <1>2 DEF Reached, QuietQueries, Told, Delivered
<1>3. CASE r \in Streams /\ events[r] # <<>>
  <2>1. OpenEvents(events[r])
    BY <1>1, <1>3
    DEF Reached, EventsInv, IInv, Control, Labels, Paused, Calling
  <2>2. Len(events[r]) \in DOMAIN events[r]
    BY <1>1, <1>3
  <2> QED BY <2>1, <2>2 DEF OpenEvents, Told, Last, Answers, Errors
<1> QED BY <1>2, <1>3 DEF Requests, Told, Delivered

LEMMA QuietQueriesStep == IInv /\ QuietQueries /\ [Next]_vars => QuietQueries'
<1> SUFFICES ASSUME IInv, QuietQueries, [Next]_vars,
                    NEW u \in Queries, pc'[u] # "ended"
             PROVE  events'[u] = <<>>
  BY DEF QuietQueries
<1> USE AnsweringAssumption DEF Requests
<1>1. CASE UNCHANGED <<pc, events>>
  BY <1>1 DEF QuietQueries
<1>2. ASSUME NEW r \in Requests, NEW label,
             pc' = [pc EXCEPT ![r] = label], pc[r] # "ended", UNCHANGED events
      PROVE  events'[u] = <<>>
  BY <1>2 DEF QuietQueries, IInv, Types
<1>3. ASSUME NEW r \in Streams, NEW event, Yield(r, event)
      PROVE  events'[u] = <<>>
  BY <1>3 DEF Yield, QuietQueries, IInv, Types
<1>4. ASSUME NEW r \in Queries, NEW status, Respond(r, status)
      PROVE  events'[u] = <<>>
  BY <1>4 DEF Respond, QuietQueries, IInv, Types
<1>5. ASSUME NEW r \in Requests, NEW kind, Fail(r, kind)
      PROVE  events'[u] = <<>>
  BY <1>3, <1>4, <1>5 DEF Fail
<1>6. ASSUME NEW r \in Requests, Proceed(r) PROVE events'[u] = <<>>
  <2>1. CASE Retrieve(r) \/ Attempt(r) \/ Resume(r) \/ Answered(r)
    BY <1>2, <1>3, <1>4, <2>1
    DEF Retrieve, Attempt, Resume, Paused, Answered, Finish, Call, client
  <2>2. CASE RetrievalFails(r) \/ PassingError(r) \/ UnknownModel(r)
               \/ Refused(r) \/ PullFails(r)
    BY <1>2, <1>5, <2>2
    DEF RetrievalFails, PassingError, UnknownModel, Call, Refused, PullFails,
        client
  <2>3. CASE Pull(r)
    <3>1. r \in Streams
      BY <2>3 DEF Pull, IInv, Control
    <3> QED BY <1>3, <2>3, <3>1 DEF Pull, Finish
  <2> QED BY <1>6, <2>1, <2>2, <2>3 DEF Proceed
<1>7. ASSUME NEW r \in Requests, Ask(r) \/ Disconnect(r)
      PROVE  events'[u] = <<>>
  BY <1>2, <1>7 DEF Ask, Disconnect, client
<1> QED BY <1>1, <1>6, <1>7 DEF Next, Invalidate, vars, client

\* A step of r leaves the other requests as they are.
Apart(r) ==
  /\ \A u \in Requests \ {r} :
       /\ pc'[u] = pc[u] /\ events'[u] = events[u] /\ service'[u] = service[u]
  /\ gone \subseteq gone'
  /\ gone' \subseteq gone \cup {r}

\* A step that counts nothing and tells nobody what is counted.
LEMMA NothingCounted ==
  ASSUME Reached, IInv', CountInv, NEW r \in Requests, Apart(r),
         UNCHANGED <<queries, errors>>, pc[r] # "ended",
         \/ events'[r] = events[r] /\ service'[r] = service[r]
         \/ \A v \in {Answers, Errors} : ~ Told(r, v) /\ ~ Told(r, v)'
  PROVE  CountInv'
<1> SUFFICES ASSUME NEW s \in Services PROVE CountAt(s)'
  BY DEF CountInv
<1>1. ASSUME NEW v \in {Answers, Errors} PROVE Clients(s, v)' = Clients(s, v)
  <2>1. \A u \in Requests \ {r} : u \in Clients(s, v)' <=> u \in Clients(s, v)
    BY DEF Apart, Clients, Told, Delivered, Last
  <2>2. r \in Clients(s, v)' <=> r \in Clients(s, v)
    BY DEF Clients, Told, Delivered, Last
  <2> QED BY <2>1, <2>2 DEF Clients
<1>2. Lost(s) \subseteq Lost(s)'
  BY DEF Apart, Lost, Left, Reached, IInv, Types, Requests
<1>3. Cardinality(Lost(s)) <= Cardinality(Lost(s)')
  <2>1. IsFiniteSet(Lost(s)')
    BY FiniteClientsNext
  <2> QED BY <1>2, <2>1, FS_Subset
<1>4. /\ Cardinality(Lost(s)) \in Nat /\ Cardinality(Lost(s)') \in Nat
      /\ Cardinality(Clients(s, Answers)) \in Nat
      /\ Cardinality(Clients(s, Errors)) \in Nat
      /\ queries[s] \in Nat /\ errors[s] \in Nat
  BY FiniteClients, FiniteClientsNext, FS_CardinalityType DEF Reached, Tallies
<1>5. CountAt(s)
  BY DEF CountInv
<1> QED BY <1>1, <1>3, <1>4, <1>5 DEF CountAt

\* A step that counts r, and tells it so unless it has left.
LEMMA OneCounted ==
  ASSUME Reached, IInv', CountInv, NEW r \in Requests, Apart(r),
         UNCHANGED <<service, gone>>,
         pc[r] \notin {"idle", "done", "ended"},
         NEW v \in {Answers, Errors},
         IF v = Answers
           THEN /\ queries' = [queries EXCEPT ![service[r]] = @ + 1]
                /\ UNCHANGED errors
           ELSE /\ errors' = [errors EXCEPT ![service[r]] = @ + 1]
                /\ UNCHANGED queries,
         IF r \in gone
           THEN pc'[r] = "ended" /\ events'[r] = events[r]
           ELSE events'[r] # <<>> /\ events'[r][Len(events'[r])] \in v
  PROVE  CountInv'
<1> SUFFICES ASSUME NEW s \in Services PROVE CountAt(s)'
  BY DEF CountInv
<1> DEFINE w == IF v = Answers THEN Errors ELSE Answers
           told == service[r] = s /\ r \notin gone
           lost == service[r] = s /\ r \in gone
           one == IF service[r] = s THEN 1 ELSE 0
           toldOne == IF told THEN 1 ELSE 0
           lostOne == IF lost THEN 1 ELSE 0
<1>0. /\ Answers \cap Errors = {} /\ Answers # Errors
      /\ w \in {Answers, Errors} /\ w # v /\ w \cap v = {}
  BY DEF Answers, Errors
<1>1. ~ Told(r, v) /\ ~ Told(r, w)
  BY <1>0, UntoldBefore
<1>2. Clients(s, v)' = IF told THEN Clients(s, v) \cup {r} ELSE Clients(s, v)
  <2>1. \A u \in Requests \ {r} : u \in Clients(s, v)' <=> u \in Clients(s, v)
    BY DEF Apart, Clients, Told, Delivered, Last
  <2>2. r \in Clients(s, v)' <=> told
    BY <1>1 DEF Clients, Told, Delivered, Last
  <2>3. r \notin Clients(s, v)
    BY <1>1 DEF Clients
  <2> QED BY <2>1, <2>2, <2>3 DEF Clients
<1>3. Clients(s, w)' = Clients(s, w)
  <2>1. \A u \in Requests \ {r} : u \in Clients(s, w)' <=> u \in Clients(s, w)
    BY DEF Apart, Clients, Told, Delivered, Last
  <2>2. r \notin Clients(s, w)' /\ r \notin Clients(s, w)
    BY <1>0, <1>1 DEF Clients, Told, Delivered, Last
  <2> QED BY <2>1, <2>2 DEF Clients
<1>4. /\ Lost(s) \subseteq Lost(s)'
      /\ lost => Lost(s) \cup {r} \subseteq Lost(s)'
  BY DEF Apart, Lost, Left, Reached, IInv, Types, Requests
<1>5. r \notin Clients(s, v) /\ r \notin Lost(s)
  BY <1>1 DEF Clients, Lost
<1>6. /\ IsFiniteSet(Lost(s)) /\ IsFiniteSet(Lost(s)')
      /\ IsFiniteSet(Clients(s, v)) /\ IsFiniteSet(Clients(s, w))
  BY FiniteClients, FiniteClientsNext DEF Reached
<1>7. Cardinality(Clients(s, v)') = Cardinality(Clients(s, v)) + toldOne
  <2>1. Cardinality(Clients(s, v)) \in Nat
    BY <1>6, FS_CardinalityType
  <2>2. CASE told
    <3>1. Cardinality(Clients(s, v) \cup {r}) = Cardinality(Clients(s, v)) + 1
      BY <1>5, <1>6, FS_AddElement
    <3> HIDE DEF told
    <3> QED BY <1>2, <2>2, <3>1
  <2>3. CASE ~ told
    <3> HIDE DEF told
    <3> QED BY <1>2, <2>1, <2>3
  <2> QED BY <2>2, <2>3
<1>8. Cardinality(Lost(s)') >= Cardinality(Lost(s)) + lostOne
  <2>1. CASE lost
    <3>1. Cardinality(Lost(s) \cup {r}) = Cardinality(Lost(s)) + 1
      BY <1>5, <1>6, FS_AddElement
    <3>2. Cardinality(Lost(s) \cup {r}) <= Cardinality(Lost(s)')
      BY <1>4, <1>6, <2>1, FS_Subset
    <3> QED BY <1>6, <2>1, <3>1, <3>2, FS_CardinalityType, FS_AddElement
  <2>2. CASE ~ lost
    <3>1. Cardinality(Lost(s)) <= Cardinality(Lost(s)')
      BY <1>4, <1>6, FS_Subset
    <3> QED BY <1>6, <2>2, <3>1, FS_CardinalityType
  <2> QED BY <2>1, <2>2
<1>9. /\ Cardinality(Lost(s)) \in Nat /\ Cardinality(Lost(s)') \in Nat
      /\ Cardinality(Clients(s, v)) \in Nat
      /\ Cardinality(Clients(s, w)) \in Nat
      /\ queries[s] \in Nat /\ errors[s] \in Nat
  BY <1>6, FS_CardinalityType DEF Reached, Tallies
<1>10. /\ v = Answers => /\ queries'[s] = queries[s] + one
                         /\ errors'[s] = errors[s]
       /\ v = Errors => /\ errors'[s] = errors[s] + one
                        /\ queries'[s] = queries[s]
  BY <1>0 DEF Reached, Tallies
<1>11. CountAt(s)
  BY DEF CountInv
<1>12. /\ one = toldOne + lostOne /\ one \in Nat
       /\ toldOne \in Nat /\ lostOne \in Nat
  OBVIOUS
<1>13. CASE v = Answers
  <2>1. w = Errors
    BY <1>13
  <2>2. queries'[s] = queries[s] + one /\ errors'[s] = errors[s]
    BY <1>10, <1>13
  <2> HIDE DEF w, one, toldOne, lostOne
  <2>3. /\ Clients(s, Errors)' = Clients(s, Errors)
        /\ Cardinality(Clients(s, Answers)')
             = Cardinality(Clients(s, Answers)) + toldOne
        /\ Cardinality(Clients(s, Answers)) \in Nat
        /\ Cardinality(Clients(s, Errors)) \in Nat
    BY <1>3, <1>7, <1>9, <1>13, <2>1
  <2>4. Cardinality(Clients(s, Answers)') <= queries'[s]
    BY <1>9, <1>11, <1>12, <2>2, <2>3 DEF CountAt
  <2>5. Cardinality(Clients(s, Errors)') <= errors'[s]
    BY <1>11, <2>2, <2>3 DEF CountAt
  <2>6. queries'[s] + errors'[s] <= Cardinality(Clients(s, Answers)')
                                     + Cardinality(Clients(s, Errors)')
                                     + Cardinality(Lost(s)')
    <3> DEFINE a == Cardinality(Clients(s, Answers))
               b == Cardinality(Clients(s, Errors))
               l == Cardinality(Lost(s))
               m == Cardinality(Lost(s)')
    <3>1. a \in Nat /\ b \in Nat
      BY <2>3
    <3>2. l \in Nat /\ m \in Nat /\ m >= l + lostOne
      BY <1>8, <1>9
    <3>3. queries[s] + errors[s] <= a + b + l
      BY <1>11 DEF CountAt
    <3>4. /\ Cardinality(Clients(s, Answers)') = a + toldOne
          /\ Cardinality(Clients(s, Errors)') = b + 0
      BY <2>3, <3>1
    <3> HIDE DEF a, b, l, m
    <3>5. queries'[s] + errors'[s] <= (a + toldOne) + (b + 0) + m
      BY <1>9, <1>12, <2>2, <3>1, <3>2, <3>3
    <3> QED BY <3>4, <3>5 DEF m
  <2> QED BY <2>4, <2>5, <2>6 DEF CountAt
<1>14. CASE v = Errors
  <2>1. w = Answers
    BY <1>0, <1>14
  <2>2. errors'[s] = errors[s] + one /\ queries'[s] = queries[s]
    BY <1>10, <1>14
  <2> HIDE DEF w, one, toldOne, lostOne
  <2>3. /\ Clients(s, Answers)' = Clients(s, Answers)
        /\ Cardinality(Clients(s, Errors)')
             = Cardinality(Clients(s, Errors)) + toldOne
        /\ Cardinality(Clients(s, Errors)) \in Nat
        /\ Cardinality(Clients(s, Answers)) \in Nat
    BY <1>3, <1>7, <1>9, <1>14, <2>1
  <2>4. Cardinality(Clients(s, Errors)') <= errors'[s]
    BY <1>9, <1>11, <1>12, <2>2, <2>3 DEF CountAt
  <2>5. Cardinality(Clients(s, Answers)') <= queries'[s]
    BY <1>11, <2>2, <2>3 DEF CountAt
  <2>6. queries'[s] + errors'[s] <= Cardinality(Clients(s, Answers)')
                                     + Cardinality(Clients(s, Errors)')
                                     + Cardinality(Lost(s)')
    <3> DEFINE a == Cardinality(Clients(s, Answers))
               b == Cardinality(Clients(s, Errors))
               l == Cardinality(Lost(s))
               m == Cardinality(Lost(s)')
    <3>1. a \in Nat /\ b \in Nat
      BY <2>3
    <3>2. l \in Nat /\ m \in Nat /\ m >= l + lostOne
      BY <1>8, <1>9
    <3>3. queries[s] + errors[s] <= a + b + l
      BY <1>11 DEF CountAt
    <3>4. /\ Cardinality(Clients(s, Answers)') = a + 0
          /\ Cardinality(Clients(s, Errors)') = b + toldOne
      BY <2>3, <3>1
    <3> HIDE DEF a, b, l, m
    <3>5. queries'[s] + errors'[s] <= (a + 0) + (b + toldOne) + m
      BY <1>9, <1>12, <2>2, <3>1, <3>2, <3>3
    <3> QED BY <3>4, <3>5 DEF m
  <2> QED BY <2>4, <2>5, <2>6 DEF CountAt
<1> QED BY <1>13, <1>14

LEMMA LastAppended ==
  ASSUME NEW q \in Seq(Messages), NEW e \in Messages
  PROVE  Append(q, e) # <<>> /\ Append(q, e)[Len(Append(q, e))] = e
  OBVIOUS

LEMMA FailCounted ==
  ASSUME Reached, IInv', CountInv, NEW r \in Requests, NEW kind,
         Fail(r, kind), pc[r] \notin {"idle", "done", "ended"}
  PROVE  CountInv'
<1>1. /\ UNCHANGED <<service, gone, queries>>
      /\ errors' = [errors EXCEPT ![service[r]] = @ + 1]
  BY DEF Fail
<1>2. CASE r \in Streams
  <2>1. Yield(r, "error")
    BY <1>2 DEF Fail
  <2>2. Apart(r)
    BY <1>1, <2>1 DEF Apart, Yield, Reached, IInv, Types
  <2>3. IF r \in gone
          THEN pc'[r] = "ended" /\ events'[r] = events[r]
          ELSE events'[r] = Append(events[r], "error")
    BY <2>1 DEF Yield, Reached, IInv, Types
  <2>4. /\ Append(events[r], "error") # <<>>
        /\ Append(events[r], "error")[Len(Append(events[r], "error"))]
             = "error"
    BY LastAppended DEF Reached, IInv, Types, Messages
  <2>5. "error" \in Errors /\ Errors # Answers
    BY DEF Answers, Errors
  <2> QED BY <1>1, <2>2, <2>3, <2>4, <2>5, OneCounted
<1>3. CASE r \notin Streams
  <2>1. Respond(r, Status(kind))
    BY <1>3 DEF Fail
  <2>2. Status(kind) \in Messages \cap Errors /\ Errors # Answers
    BY DEF Status, Messages, Answers, Errors
  <2>3. Apart(r) /\ events'[r] = Append(events[r], Status(kind))
    BY <1>1, <2>1 DEF Apart, Respond, Reached, IInv, Types
  <2>4. /\ Append(events[r], Status(kind)) # <<>>
        /\ Append(events[r], Status(kind))
             [Len(Append(events[r], Status(kind)))] = Status(kind)
    BY <2>2, LastAppended DEF Reached, IInv, Types
  <2>5. r \notin gone
    BY <1>3 DEF Reached, IInv, Types
  <2> QED BY <1>1, <2>2, <2>3, <2>4, <2>5, OneCounted
<1> QED BY <1>2, <1>3

LEMMA FinishCounted ==
  ASSUME Reached, IInv', CountInv, NEW r \in Requests, Finish(r),
         pc[r] \notin {"idle", "done", "ended"}
  PROVE  CountInv'
<1>1. /\ UNCHANGED <<service, gone, errors>>
      /\ queries' = [queries EXCEPT ![service[r]] = @ + 1]
  BY DEF Finish
<1>2. {"done", "200"} \subseteq Answers /\ {"done", "200"} \subseteq Messages
  BY DEF Answers, Messages
<1>3. CASE r \in Streams
  <2>1. Yield(r, "done")
    BY <1>3 DEF Finish
  <2>2. Apart(r)
    BY <1>1, <2>1 DEF Apart, Yield, Reached, IInv, Types
  <2>3. IF r \in gone
          THEN pc'[r] = "ended" /\ events'[r] = events[r]
          ELSE events'[r] = Append(events[r], "done")
    BY <2>1 DEF Yield, Reached, IInv, Types
  <2>4. /\ Append(events[r], "done") # <<>>
        /\ Append(events[r], "done")[Len(Append(events[r], "done"))] = "done"
    BY <1>2, LastAppended DEF Reached, IInv, Types
  <2> QED BY <1>1, <1>2, <2>2, <2>3, <2>4, OneCounted
<1>4. CASE r \notin Streams
  <2>1. Respond(r, "200")
    BY <1>4 DEF Finish
  <2>2. Apart(r) /\ events'[r] = Append(events[r], "200")
    BY <1>1, <2>1 DEF Apart, Respond, Reached, IInv, Types
  <2>3. /\ Append(events[r], "200") # <<>>
        /\ Append(events[r], "200")[Len(Append(events[r], "200"))] = "200"
    BY <1>2, LastAppended DEF Reached, IInv, Types
  <2>4. r \notin gone
    BY <1>4 DEF Reached, IInv, Types
  <2> QED BY <1>1, <1>2, <2>2, <2>3, <2>4, OneCounted
<1> QED BY <1>3, <1>4

\* A stream that yields what is not counted.
LEMMA YieldUncounted ==
  ASSUME Reached, IInv', CountInv, NEW r \in Streams,
         NEW event \in {"sources", "token"}, Yield(r, event),
         UNCHANGED <<service, gone, queries, errors>>,
         pc[r] \in {"retrieving", "pulling"}
  PROVE  CountInv'
<1>1. r \in Requests /\ Apart(r)
  BY DEF Apart, Yield, Reached, IInv, Types, Requests
<1>2. \A v \in {Answers, Errors} : ~ Told(r, v)
  BY <1>1, UntoldBefore
<1>3. CASE r \in gone
  <2>1. events'[r] = events[r]
    BY <1>3 DEF Yield
  <2> QED BY <1>1, <2>1, NothingCounted
<1>4. CASE r \notin gone
  <2>1. events'[r] = Append(events[r], event) /\ event \in Messages
    BY <1>1, <1>4 DEF Yield, Messages, Reached, IInv, Types
  <2>2. events'[r][Len(events'[r])] = event
    BY <1>1, <2>1, LastAppended DEF Reached, IInv, Types
  <2>3. \A v \in {Answers, Errors} : ~ Told(r, v)'
    BY <2>2 DEF Told, Last, Answers, Errors
  <2> QED BY <1>1, <1>2, <2>3, NothingCounted
<1> QED BY <1>3, <1>4

LEMMA CountStep == Reached /\ IInv' /\ CountInv /\ [Next]_vars => CountInv'
<1> SUFFICES ASSUME Reached, IInv', CountInv, [Next]_vars PROVE CountInv'
  OBVIOUS
<1> USE AnsweringAssumption
<1>1. CASE UNCHANGED vars \/ Invalidate
  <2>1. UNCHANGED <<queries, errors, pc, service, events, gone>>
    BY <1>1 DEF vars, objects, client, Invalidate
  <2> QED
    BY <2>1
    DEF CountInv, CountAt, Clients, Lost, Left, Told, Delivered, Last
<1>2. ASSUME NEW r \in Requests, Ask(r) PROVE CountInv'
  <2>1. /\ UNCHANGED <<queries, errors, events, gone>> /\ pc[r] = "idle"
        /\ Apart(r)
    BY <1>2 DEF Ask, client, Apart, Reached, IInv, Types
  <2>2. \A v \in {Answers, Errors} : ~ Told(r, v) /\ ~ Told(r, v)'
    BY <2>1, UntoldBefore DEF Told, Delivered, Last
  <2> QED BY <2>1, <2>2, NothingCounted
<1>3. ASSUME NEW r \in Requests, Disconnect(r) PROVE CountInv'
  <2>1. /\ UNCHANGED <<queries, errors, events, service>> /\ pc[r] # "ended"
        /\ Apart(r)
    BY <1>3 DEF Disconnect, objects, Apart, Reached, IInv, Types
  <2> QED BY <2>1, NothingCounted
<1>4. ASSUME NEW r \in Requests, NEW label, pc' = [pc EXCEPT ![r] = label],
             pc[r] # "ended",
             UNCHANGED <<queries, errors, events, service, gone>>
      PROVE  CountInv'
  <2>1. Apart(r)
    BY <1>4 DEF Apart, Reached, IInv, Types
  <2> QED BY <1>4, <2>1, NothingCounted
<1>5. ASSUME NEW r \in Requests, Retrieve(r) PROVE CountInv'
  <2>1. UNCHANGED <<queries, errors, service, gone>> /\ pc[r] = "retrieving"
    BY <1>5 DEF Retrieve, objects
  <2>2. CASE r \in Queries
    BY <1>4, <1>5, <2>1, <2>2 DEF Retrieve, Requests
  <2>3. CASE r \in Streams
    BY <1>5, <2>1, <2>3, YieldUncounted DEF Retrieve
  <2> QED BY <2>2, <2>3 DEF Requests
<1>6. ASSUME NEW r \in Requests, Pull(r) PROVE CountInv'
  <2>1. CASE Finish(r)
    BY <1>6, <2>1, FinishCounted DEF Pull
  <2>2. CASE ~ Finish(r)
    <3>1. r \in Streams
      BY <1>6 DEF Pull, Reached, IInv, Control, Requests
    <3>2. /\ UNCHANGED <<queries, errors, service, gone>> /\ pc[r] = "pulling"
          /\ Yield(r, "token")
      BY <1>6, <2>2 DEF Pull, objects
    <3> QED BY <3>1, <3>2, YieldUncounted
  <2> QED BY <2>1, <2>2
<1>7. ASSUME NEW r \in Requests, NEW kind, Fail(r, kind),
             pc[r] \in {"retrieving", "waiting", "fallback", "pulling"}
      PROVE  CountInv'
  BY <1>7, FailCounted
<1>8. ASSUME NEW r \in Requests,
             RetrievalFails(r) \/ Refused(r) \/ PullFails(r)
      PROVE  CountInv'
  BY <1>7, <1>8 DEF RetrievalFails, Refused, PullFails
<1>9. ASSUME NEW r \in Requests, Attempt(r) \/ Resume(r) PROVE CountInv'
  <2>1. PICK label : pc' = [pc EXCEPT ![r] = label]
    BY <1>9 DEF Attempt, Resume, Call
  <2>2. UNCHANGED <<queries, errors, events, service,
                    gone>> /\ pc[r] # "ended"
    BY <1>9 DEF Attempt, Resume, Paused, objects, client
  <2> QED BY <1>4, <2>1, <2>2
<1>10. ASSUME NEW r \in Requests, Answered(r) PROVE CountInv'
  <2>1. CASE Finish(r)
    BY <1>10, <2>1, FinishCounted DEF Answered
  <2>2. CASE ~ Finish(r)
    BY <1>4, <1>10, <2>2 DEF Answered, objects, client
  <2> QED BY <2>1, <2>2
<1>11. ASSUME NEW r \in Requests, PassingError(r) PROVE CountInv'
  BY <1>4, <1>7, <1>11 DEF PassingError, objects, client
<1>12. ASSUME NEW r \in Requests, UnknownModel(r) PROVE CountInv'
  BY <1>4, <1>7, <1>12 DEF UnknownModel, Call, client
<1> QED
  BY <1>1, <1>2, <1>3, <1>5, <1>6, <1>8, <1>9, <1>10, <1>11, <1>12
  DEF Next, Proceed

\* A service's counters add up with what its clients were told, for any
\* number of requests and whoever leaves when.
THEOREM CountersMatch == Spec => []AccountsMatch
<1>1. Init => EventsInv /\ QuietQueries /\ Tallies
  BY DEF Init, EventsInv, QuietQueries, Tallies, Requests
<1>2. Init /\ IInv => CountInv
  <2> SUFFICES ASSUME Init, NEW s \in Services PROVE CountAt(s)
    BY DEF CountInv
  <2>1. /\ Clients(s, Answers) = {} /\ Clients(s, Errors) = {}
        /\ Lost(s) = {}
    BY DEF Init, Clients, Lost, Left, Told, Delivered
  <2> QED BY <2>1, FS_EmptySet DEF Init, CountAt
<1>3. Reached /\ [Next]_vars => Reached'
  BY IInvStep, EventsStep, QuietQueriesStep, TalliesStep DEF Reached
<1>4. Reached /\ [Next]_vars => IInv'
  BY IInvStep DEF Reached
<1>5. Reached /\ CountInv => AccountsMatch
  <2> SUFFICES ASSUME Reached, CountInv, NEW s \in Services
               PROVE  /\ Cardinality(Clients(s, Answers)) <= queries[s]
                      /\ Cardinality(Clients(s, Errors)) <= errors[s]
                      /\ queries[s] + errors[s]
                           <= Cardinality(Clients(s, Answers))
                                + Cardinality(Clients(s, Errors))
                                + Cardinality(Left(s))
    BY DEF AccountsMatch, Clients, Told, Answers, Errors, Left
  <2>1. Cardinality(Lost(s)) <= Cardinality(Left(s))
    <3>1. Lost(s) \subseteq Left(s)
      BY DEF Lost
    <3> QED BY <3>1, FiniteClients, FS_Subset DEF Reached
  <2>2. /\ Cardinality(Lost(s)) \in Nat /\ Cardinality(Left(s)) \in Nat
        /\ Cardinality(Clients(s, Answers)) \in Nat
        /\ Cardinality(Clients(s, Errors)) \in Nat
        /\ queries[s] \in Nat /\ errors[s] \in Nat
    BY FiniteClients, FS_CardinalityType DEF Reached, Tallies
  <2>3. CountAt(s)
    BY DEF CountInv
  <2> QED BY <2>1, <2>2, <2>3 DEF CountAt
<1>6. Init => Reached /\ CountInv
  BY <1>1, <1>2, IInvInit DEF Reached
<1> QED BY <1>3, <1>4, <1>5, <1>6, CountStep, PTL DEF Spec
=============================================================================
