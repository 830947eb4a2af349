---------------------------- MODULE WorkerProofs ----------------------------
(***************************************************************************)
(* Theorems of WorkerLifecycle for any number of documents, threads and    *)
(* starts.  While every join has seen its thread end, the threads alive    *)
(* are those of the current start (ThreadsInv), which gives                *)
(* StoppedBeforeClosed, and with it that a thread can always record what   *)
(* it does, so that no unfinished document loses its job (JobsKept).  With *)
(* the in-process queue the sentinels end what is queued, one for each     *)
(* thread alive (SentinelInv): a stop drains the queue, the next start     *)
(* finds none of them, and a document stays in one place (OnceInv).        *)
(***************************************************************************)
EXTENDS WorkerLifecycle, FiniteSetTheorems, TLAPS

States == {"stopped", "scan", "requeue", "up", "join", "close"}
Statuses == {"none", "QUEUED", "PARSING", "SETTLED"}
Labels == {"unborn", "idle", "popping", "asking", "working", "dead"}

Types ==
  /\ app \in States
  /\ starts \in Nat
  /\ starts <= MaxStarts
  /\ backend \in {"memory", "redis"}
  /\ queue \in Seq(Documents \cup {Stop})
  /\ backend = "redis" => queue \in Seq(Documents)
  /\ toJoin \in SUBSET Threads
  /\ toRequeue \in SUBSET Documents
  /\ status \in [Documents -> Statuses]
  /\ pc \in [Threads -> Labels]
  /\ holds \in [Threads -> Documents \cup {Nothing}]
  /\ open \in SUBSET (1 .. MaxStarts)
  /\ gaveUp \in BOOLEAN
  /\ broken \in BOOLEAN
  /\ \A t \in Threads :
       (holds[t] # Nothing) <=> (pc[t] \in {"asking", "working"})
  /\ \A t \in Threads : pc[t] = "popping" => backend = "redis"
  /\ \A t \in Threads : t[1] > starts => pc[t] = "unborn"

LEMMA TypesInit == Init => Types
<1> SUFFICES ASSUME Init PROVE Types
  OBVIOUS
<1> USE LifecycleAssumption DEF Init
<1>1. app \in States /\ starts \in Nat /\ starts <= MaxStarts
  BY DEF States
<1>2. /\ backend \in {"memory", "redis"}
      /\ gaveUp \in BOOLEAN /\ broken \in BOOLEAN
  OBVIOUS
<1>3. queue \in Seq(Documents \cup {Stop}) /\ queue \in Seq(Documents)
  OBVIOUS
<1>4. /\ toJoin \in SUBSET Threads
      /\ toRequeue \in SUBSET Documents
      /\ open \in SUBSET (1 .. MaxStarts)
  OBVIOUS
<1>5. status \in [Documents -> Statuses]
  BY DEF Statuses
<1>6. /\ pc = [t \in Threads |-> "unborn"] /\ pc \in [Threads -> Labels]
      /\ holds = [t \in Threads |-> Nothing]
      /\ holds \in [Threads -> Documents \cup {Nothing}]
  BY DEF Labels
<1> QED BY <1>1, <1>2, <1>3, <1>4, <1>5, <1>6 DEF Types

\* A sentinel for each thread, behind what is queued.
LEMMA SentinelsType ==
  ASSUME Types
  PROVE  Sentinels \in Seq(Documents \cup {Stop})
<1> DEFINE ends == [i \in 1 .. Workers |-> Stop]
<1>1. ends \in Seq(Documents \cup {Stop})
  BY LifecycleAssumption
<1>2. queue \in Seq(Documents \cup {Stop})
  BY DEF Types
<1> QED
  BY <1>1, <1>2 DEF Sentinels

\* Every step keeps the types.
LEMMA TypesStep == Types /\ [Next]_vars => Types'
<1> SUFFICES ASSUME Types, [Next]_vars PROVE Types'
  OBVIOUS
<1> USE LifecycleAssumption DEF Types, States, Statuses, Labels
<1>1. CASE UNCHANGED vars
  BY <1>1 DEF vars, redisVars
<1>2. CASE Start
  <2>1. starts + 1 \in 1 .. MaxStarts
    BY <1>2 DEF Start
  <2>2. /\ pc' \in [Threads -> Labels]
        /\ \A t \in Threads : pc'[t] = "idle" \/ pc'[t] = pc[t]
        /\ \A t \in Threads : pc'[t] # pc[t] => t[1] = starts + 1
    BY <1>2 DEF Start, Started
  <2>3. \A t \in Threads : t[1] \in Nat
    BY DEF Threads
  <2>4. \A t \in Threads : t[1] > starts + 1 => pc'[t] = "unborn"
    BY <2>1, <2>2, <2>3
  <2>5. \A t \in Threads :
          (holds[t] # Nothing) <=> (pc'[t] \in {"asking", "working"})
    BY <2>1, <2>2, <2>3
  <2>6. /\ open' \in SUBSET (1 .. MaxStarts)
        /\ starts' \in Nat /\ starts' <= MaxStarts /\ starts' = starts + 1
        /\ app' \in States
        /\ broken' \in BOOLEAN
    <3>1. /\ open' = open \cup {starts + 1} /\ starts' = starts + 1
          /\ app' = "scan" /\ broken' = FALSE
      BY <1>2 DEF Start
    <3>2. open \in SUBSET (1 .. MaxStarts) /\ starts \in Nat
      OBVIOUS
    <3> HIDE DEF Types
    <3>3. open' \in SUBSET (1 .. MaxStarts)
      BY <2>1, <3>1, <3>2
    <3>4. starts' \in Nat /\ starts' <= MaxStarts
      BY <2>1, <3>1, <3>2
    <3> QED BY <3>1, <3>3, <3>4
  <2>7. UNCHANGED <<backend, queue, holds, toJoin, toRequeue, status, gaveUp>>
    BY <1>2 DEF Start
  <2>8. \A t \in Threads : pc'[t] = "popping" => backend' = "redis"
    BY <2>2, <2>7
  <2>9. \A t \in Threads : t[1] > starts' => pc'[t] = "unborn"
    BY <2>4, <2>6
  <2>10. \A t \in Threads :
           (holds'[t] # Nothing) <=> (pc'[t] \in {"asking", "working"})
    BY <2>5, <2>7
  <2>11. /\ backend' \in {"memory", "redis"}
         /\ queue' \in Seq(Documents \cup {Stop})
         /\ backend' = "redis" => queue' \in Seq(Documents)
         /\ toJoin' \in SUBSET Threads
         /\ toRequeue' \in SUBSET Documents
         /\ status' \in [Documents -> Statuses]
         /\ holds' \in [Threads -> Documents \cup {Nothing}]
         /\ gaveUp' \in BOOLEAN
    BY <2>7
  <2> HIDE DEF Types, States, Statuses, Labels
  <2> QED BY <2>2, <2>6, <2>8, <2>9, <2>10, <2>11 DEF Types
<1>3. CASE Scan
  BY <1>3 DEF Scan, Unfinished, redisVars
<1>4. ASSUME NEW d \in Documents, Requeue(d) PROVE Types'
  BY <1>4 DEF Requeue, redisVars
<1>5. CASE Serve
  BY <1>5 DEF Serve, redisVars
<1>6. ASSUME NEW d \in Documents, Upload(d) PROVE Types'
  BY <1>6 DEF Upload, redisVars
<1>7. ASSUME NEW d \in Documents, UploadUnqueued(d) PROVE Types'
  BY <1>7 DEF UploadUnqueued
<1>8. CASE StopQueue
  BY <1>8, SentinelsType DEF StopQueue, Started
<1>9. ASSUME NEW t \in Threads, Join(t) PROVE Types'
  BY <1>9 DEF Join, JoinEnds, redisVars
<1>10. CASE StopReturns
  BY <1>10 DEF StopReturns, redisVars
<1>11. CASE CloseRepository
  BY <1>11 DEF CloseRepository, redisVars
<1>12. ASSUME NEW t \in Threads, Take(t) PROVE Types'
  BY <1>12 DEF Take, Ends, Received, redisVars
<1>13. ASSUME NEW t \in Threads, Begin(t) PROVE Types'
  BY <1>13 DEF Begin, Uses, redisVars
<1>14. ASSUME NEW t \in Threads, Settle(t) PROVE Types'
  BY <1>14 DEF Settle, Uses, redisVars
<1>15. ASSUME NEW t \in Threads, LookAtEvent(t) PROVE Types'
  BY <1>15 DEF LookAtEvent, Ends, redisVars
<1>16. ASSUME NEW t \in Threads, Pop(t) PROVE Types'
  BY <1>16 DEF Pop, Received, redisVars
<1>17. ASSUME NEW t \in Threads, PopTimesOut(t) PROVE Types'
  BY <1>17 DEF PopTimesOut, redisVars
<1>18. ASSUME NEW t \in Threads, ConnectionLost(t) PROVE Types'
  BY <1>18 DEF ConnectionLost, Ends
<1> QED
  BY <1>1, <1>2, <1>3, <1>4, <1>5, <1>6, <1>7, <1>8, <1>9, <1>10, <1>11,
     <1>12, <1>13, <1>14, <1>15, <1>16, <1>17, <1>18
  DEF Next, Application, Work

\* The type invariant the runs check.
THEOREM TypeCorrect == Spec => []TypeOK
<1>1. Types => TypeOK
  BY LifecycleAssumption DEF Types, TypeOK, States, Statuses, Labels
<1> QED BY <1>1, TypesInit, TypesStep, PTL DEF Spec

-----------------------------------------------------------------------------
(* The threads and the repository.                                         *)

\* The threads alive are those of the current start; when stop has returned
\* there are none, and while it joins they are all still to be joined.
ThreadsOfStart ==
  /\ \A t \in Alive : t \in Started(starts)
  /\ app \in {"stopped", "close"} => Alive = {}
  /\ app = "join" => Alive \subseteq toJoin
  /\ app # "stopped" => starts \in open

ThreadsInv == gaveUp \/ ThreadsOfStart

\* What a thread does neither brings threads to life nor touches what the
\* application's steps do.
LEMMA ThreadStep ==
  ASSUME Types, NEW t \in Threads, Work(t) \/ ConnectionLost(t)
  PROVE  /\ t \in Alive
         /\ Alive' \subseteq Alive
         /\ UNCHANGED <<app, starts, open, backend, toJoin, toRequeue,
                        gaveUp>>
<1> DEFINE Living == {"idle", "popping", "asking", "working"}
<1>1. /\ pc[t] \in Living
      /\ \E label \in Living \cup {"dead"} : pc' = [pc EXCEPT ![t] = label]
  BY DEF Work, ConnectionLost, Take, Begin, Settle, Uses, LookAtEvent, Pop,
         PopTimesOut, Ends, Received
<1>2. pc \in [Threads -> Labels]
  BY DEF Types
<1>3. t \in Alive
  BY <1>1 DEF Alive
<1>4. \A u \in Threads : u # t => pc'[u] = pc[u]
  BY <1>1, <1>2
<1>5. Alive' \subseteq Alive
  BY <1>3, <1>4 DEF Alive
<1>6. UNCHANGED <<app, starts, open, backend, toJoin, toRequeue, gaveUp>>
  BY DEF Work, ConnectionLost, Take, Begin, Settle, Uses, LookAtEvent, Pop,
         PopTimesOut, redisVars
<1> QED BY <1>3, <1>5, <1>6

LEMMA ThreadsStep == Types /\ ThreadsInv /\ [Next]_vars => ThreadsInv'
<1> SUFFICES ASSUME Types, ThreadsInv, [Next]_vars PROVE ThreadsInv'
  OBVIOUS
<1>1. CASE gaveUp
  <2>1. gaveUp'
    BY <1>1
    DEF Next, vars, redisVars, Application, Work, Start, Scan, Requeue, Serve,
        Upload, UploadUnqueued, StopQueue, Join, JoinEnds, StopReturns,
        CloseRepository, Take, Begin, Settle, Uses, LookAtEvent, Pop,
        PopTimesOut, ConnectionLost
  <2> QED BY <2>1 DEF ThreadsInv
<1>2. CASE ThreadsOfStart
  <2>1. CASE UNCHANGED vars
    BY <1>2, <2>1
    DEF vars, redisVars, ThreadsInv, ThreadsOfStart, Alive, Started, Size
  <2>2. CASE Start
    <3>1. Alive = {}
      BY <1>2, <2>2 DEF Start, ThreadsOfStart
    <3>2. /\ pc' = [t \in Threads |->
                      IF t \in Started(starts + 1) THEN "idle" ELSE pc[t]]
          /\ starts' = starts + 1 /\ app' = "scan" /\ backend' = backend
          /\ open' = open \cup {starts + 1}
      BY <2>2 DEF Start
    <3>3. \A t \in Alive' : t \in Started(starts + 1)
      BY <3>1, <3>2 DEF Alive
    <3>4. Started(starts + 1) = Started(starts)'
      BY <3>2 DEF Started, Size
    <3>5. \A t \in Alive' : t \in Started(starts)'
      BY <3>3, <3>4
    <3> QED BY <3>2, <3>5 DEF ThreadsInv, ThreadsOfStart
  <2>3. CASE \/ Scan \/ Serve
             \/ \E d \in Documents :
                  Requeue(d) \/ Upload(d) \/ UploadUnqueued(d)
    BY <1>2, <2>3
    DEF Scan, Serve, Requeue, Upload, UploadUnqueued, redisVars, ThreadsInv,
        ThreadsOfStart, Alive, Started, Size
  <2>4. CASE StopQueue
    BY <1>2, <2>4
    DEF StopQueue, ThreadsInv, ThreadsOfStart, Alive, Started, Size
  <2>5. ASSUME NEW t \in Threads, Join(t) PROVE ThreadsInv'
    <3>1. CASE gaveUp'
      BY <3>1 DEF ThreadsInv
    <3>2. CASE pc[t] = "dead"
      BY <1>2, <2>5, <3>2
      DEF Join, redisVars, ThreadsInv, ThreadsOfStart, Alive, Started, Size
    <3> QED BY <2>5, <3>1, <3>2 DEF Join, JoinEnds
  <2>6. CASE StopReturns
    BY <1>2, <2>6
    DEF StopReturns, redisVars, ThreadsInv, ThreadsOfStart, Alive, Started,
        Size
  <2>7. CASE CloseRepository
    BY <1>2, <2>7
    DEF CloseRepository, redisVars, ThreadsInv, ThreadsOfStart, Alive, Started,
        Size
  <2>8. ASSUME NEW t \in Threads, Work(t) \/ ConnectionLost(t)
        PROVE  ThreadsInv'
    <3>1. /\ Alive' \subseteq Alive
          /\ UNCHANGED <<app, starts, open, backend, toJoin, gaveUp>>
      BY <2>8, ThreadStep
    <3>2. Started(starts)' = Started(starts)
      BY <3>1 DEF Started, Size
    <3> QED BY <1>2, <3>1, <3>2 DEF ThreadsInv, ThreadsOfStart
  <2> QED
    BY <2>1, <2>2, <2>3, <2>4, <2>5, <2>6, <2>7, <2>8 DEF Next, Application
<1> QED BY <1>1, <1>2 DEF ThreadsInv

\* In a state of the invariant an alive thread finds its repository open.
LEMMA OpenForThreads == ThreadsInv => StoppedBeforeClosed
  BY DEF ThreadsInv, ThreadsOfStart, StoppedBeforeClosed, Started

LEMMA ThreadsInvariant == Spec => [](Types /\ ThreadsInv)
<1>1. Init => ThreadsInv
  BY DEF Init, ThreadsInv, ThreadsOfStart, Alive
<1> QED BY <1>1, TypesInit, TypesStep, ThreadsStep, PTL DEF Spec

\* Whatever the number of starts, threads and documents: unless a join gave
\* up, no thread is left that writes through a closed repository.
THEOREM StopThenClose == Spec => []StoppedBeforeClosed
  BY ThreadsInvariant, OpenForThreads, PTL

-----------------------------------------------------------------------------
(* The jobs.                                                               *)

Occurs(q, d) == \E i \in DOMAIN q : q[i] = d

LEMMA AppendOccurs ==
  ASSUME NEW S, NEW q \in Seq(S), NEW e \in S
  PROVE  /\ Occurs(Append(q, e), e)
         /\ \A d : Occurs(q, d) => Occurs(Append(q, e), d)
<1>1. /\ DOMAIN Append(q, e) = 1 .. Len(q) + 1
      /\ DOMAIN q = 1 .. Len(q)
      /\ Len(q) \in Nat
  OBVIOUS
<1>2. /\ Append(q, e)[Len(q) + 1] = e
      /\ \A i \in 1 .. Len(q) : Append(q, e)[i] = q[i]
  OBVIOUS
<1> QED BY <1>1, <1>2 DEF Occurs

LEMMA ConcatOccurs ==
  ASSUME NEW S, NEW q \in Seq(S), NEW r \in Seq(S)
  PROVE  \A d : Occurs(q, d) => Occurs(q \o r, d)
<1>1. /\ DOMAIN (q \o r) = 1 .. Len(q) + Len(r)
      /\ DOMAIN q = 1 .. Len(q)
      /\ Len(q) \in Nat /\ Len(r) \in Nat
  OBVIOUS
<1>2. \A i \in 1 .. Len(q) : (q \o r)[i] = q[i]
  OBVIOUS
<1> QED BY <1>1, <1>2 DEF Occurs

LEMMA TailOccurs ==
  ASSUME NEW S, NEW q \in Seq(S), q # <<>>, NEW d, Occurs(q, d), Head(q) # d
  PROVE  Occurs(Tail(q), d)
<1>1. PICK i \in 1 .. Len(q) : q[i] = d
  BY DEF Occurs
<1>2. i # 1 /\ i \in Nat
  BY <1>1
<1>3. i - 1 \in 1 .. Len(q) - 1 /\ Len(q) \in Nat
  BY <1>1, <1>2
<1>4. DOMAIN Tail(q) = 1 .. Len(q) - 1
  BY <1>3
<1>5. Tail(q)[i - 1] = q[i]
  BY <1>3
<1> QED BY <1>1, <1>3, <1>4, <1>5 DEF Occurs

\* JobsKept, with the place of a document spelled by Occurs.
HasJob(d) ==
  \/ d \in toRequeue
  \/ Occurs(queue, d)
  \/ \E t \in Threads : holds[t] = d

EveryHasJob == \A d \in Unfinished : HasJob(d)

Excused == gaveUp \/ broken \/ starts = 0 \/ app = "scan"

LEMMA KeptMeans == JobsKept <=> (Excused \/ EveryHasJob)
  BY DEF JobsKept, Excused, EveryHasJob, HasJob, Occurs, Places, Unfinished

\* A thread that takes a job or asks for the next holds none.
LEMMA IdleHoldsNothing ==
  ASSUME Types, NEW t \in Threads, pc[t] \in {"idle", "popping"}
  PROVE  \A d \in Documents : holds[t] # d
  BY LifecycleAssumption DEF Types

\* A job a thread pops stays in its hands; one it does not stays queued.
LEMMA PoppingKeeps ==
  ASSUME Types, EveryHasJob, NEW t \in Threads,
         pc[t] \in {"idle", "popping"},
         queue # <<>>, queue' = Tail(queue),
         UNCHANGED <<status, toRequeue>>,
         \/ Head(queue) = Stop /\ UNCHANGED holds
         \/ holds' = [holds EXCEPT ![t] = Head(queue)]
  PROVE  EveryHasJob'
<1> SUFFICES ASSUME NEW d \in Unfinished PROVE HasJob(d)'
  BY DEF EveryHasJob, Unfinished
<1>1. d \in Documents /\ d # Stop /\ holds[t] # d
  BY IdleHoldsNothing, LifecycleAssumption DEF Unfinished
<1>2. HasJob(d)
  BY DEF EveryHasJob
<1>3. CASE d \in toRequeue
  BY <1>3 DEF HasJob
<1>4. CASE Occurs(queue, d) /\ Head(queue) # d
  <2>1. Occurs(Tail(queue), d)
    BY <1>4, TailOccurs DEF Types
  <2> QED BY <2>1 DEF HasJob
<1>5. CASE Head(queue) = d
  BY <1>1, <1>5 DEF HasJob, Types
<1>6. CASE \E u \in Threads : holds[u] = d
  BY <1>1, <1>6 DEF HasJob, Types
<1> QED BY <1>2, <1>3, <1>4, <1>5, <1>6 DEF HasJob

\* A job that is appended for a document, whatever it was before.
LEMMA QueueingKeeps ==
  ASSUME Types, EveryHasJob, NEW d \in Documents,
         queue' = Append(queue, d),
         status' = [status EXCEPT ![d] = "QUEUED"],
         toRequeue' = toRequeue \/ toRequeue' = toRequeue \ {d},
         UNCHANGED holds
  PROVE  EveryHasJob'
<1> SUFFICES ASSUME NEW e \in Unfinished' PROVE HasJob(e)'
  BY DEF EveryHasJob
<1>1. /\ Occurs(queue', d)
      /\ \A x : Occurs(queue, x) => Occurs(queue', x)
  BY AppendOccurs, queue \in Seq(Documents \cup {Stop}) DEF Types
<1>2. CASE e = d
  BY <1>1, <1>2 DEF HasJob
<1>3. CASE e # d
  <2>1. e \in Unfinished
    BY <1>3 DEF Unfinished, Types
  <2>2. HasJob(e)
    BY <2>1 DEF EveryHasJob
  <2> QED BY <1>1, <1>3, <2>2 DEF HasJob
<1> QED BY <1>2, <1>3

\* Nothing of a document's state is touched.
LEMMA UntouchedKeeps ==
  ASSUME UNCHANGED <<status, toRequeue, queue, holds>>, EveryHasJob
  PROVE  EveryHasJob'
  BY DEF EveryHasJob, HasJob, Unfinished

\* A thread works on its job, its repository being open.
LEMMA WorkingKeeps ==
  ASSUME Types, EveryHasJob, NEW t \in Threads, t[1] \in open,
         Begin(t) \/ Settle(t)
  PROVE  EveryHasJob'
<1> SUFFICES ASSUME NEW d \in Unfinished' PROVE HasJob(d)'
  BY DEF EveryHasJob
<1>1. UNCHANGED <<toRequeue, queue>>
  BY DEF Begin, Settle, Uses
<1>2. holds[t] \in Documents
  BY DEF Begin, Settle, Types
<1>3. CASE Begin(t)
  <2>1. holds' = holds /\ status' = [status EXCEPT ![holds[t]] = "PARSING"]
    BY <1>3 DEF Begin, Uses
  <2>2. d \in Unfinished \/ d = holds[t]
    BY <2>1, <1>2 DEF Unfinished, Types
  <2> QED BY <1>1, <2>1, <2>2 DEF HasJob, EveryHasJob
<1>4. CASE Settle(t)
  <2>1. /\ holds' = [holds EXCEPT ![t] = Nothing]
        /\ status' = [status EXCEPT ![holds[t]] = "SETTLED"]
    BY <1>4 DEF Settle, Uses
  <2>2. d \in Unfinished /\ d # holds[t]
    BY <2>1, <1>2 DEF Unfinished, Types
  <2>3. HasJob(d)
    BY <2>2 DEF EveryHasJob
  <2> QED BY <1>1, <2>1, <2>2, <2>3 DEF HasJob, Types
<1> QED BY <1>3, <1>4

KeptInv == Excused \/ EveryHasJob

LEMMA KeptStep == Types /\ ThreadsInv /\ KeptInv /\ [Next]_vars => KeptInv'
<1> SUFFICES ASSUME Types, ThreadsInv, KeptInv, [Next]_vars PROVE KeptInv'
  OBVIOUS
<1>1. CASE UNCHANGED vars
  BY <1>1, UntouchedKeeps DEF vars, redisVars, KeptInv, Excused
<1>2. CASE Start
  BY <1>2 DEF Start, KeptInv, Excused
<1>3. CASE Scan
  BY <1>3
  DEF Scan, redisVars, KeptInv, Excused, EveryHasJob, HasJob, Unfinished
<1>4. CASE Serve
  BY <1>4, UntouchedKeeps DEF Serve, redisVars, KeptInv, Excused
<1>5. ASSUME NEW d \in Documents, Requeue(d) \/ Upload(d) PROVE KeptInv'
  BY <1>5, QueueingKeeps DEF Requeue, Upload, redisVars, KeptInv, Excused
<1>6. ASSUME NEW d \in Documents, UploadUnqueued(d) PROVE KeptInv'
  BY <1>6 DEF UploadUnqueued, KeptInv, Excused
<1>7. CASE StopQueue
  <2>1. UNCHANGED <<status, toRequeue, holds, gaveUp, broken, starts>>
        /\ app = "up"
    BY <1>7 DEF StopQueue
  <2>2. \A d : Occurs(queue, d) => Occurs(queue', d)
    <3>1. CASE backend = "redis"
      BY <1>7, <3>1 DEF StopQueue
    <3>2. CASE backend # "redis"
      <4> DEFINE ends == [i \in 1 .. Workers |-> Stop]
      <4>1. ends \in Seq(Documents \cup {Stop})
        BY LifecycleAssumption
      <4>2. queue' = queue \o ends
        BY <1>7, <3>2 DEF StopQueue, Sentinels
      <4> HIDE DEF ends
      <4> QED BY <4>1, <4>2, ConcatOccurs DEF Types
    <3> QED BY <3>1, <3>2
  <2> QED BY <2>1, <2>2 DEF KeptInv, Excused, EveryHasJob, HasJob, Unfinished
<1>8. ASSUME NEW t \in Threads, Join(t) PROVE KeptInv'
  BY <1>8, UntouchedKeeps DEF Join, JoinEnds, redisVars, KeptInv, Excused
<1>9. CASE StopReturns \/ CloseRepository
  BY <1>9, UntouchedKeeps
  DEF StopReturns, CloseRepository, redisVars, KeptInv, Excused
<1>10. ASSUME NEW t \in Threads, Work(t) PROVE KeptInv'
  <2>1. /\ UNCHANGED <<app, starts, gaveUp>>
        /\ t \in Alive
    BY <1>10, ThreadStep
  <2>2. UNCHANGED broken
    BY <1>10 DEF Work, Take, Begin, Settle, Uses, LookAtEvent, Pop,
       PopTimesOut, redisVars
  <2>3. CASE Excused
    BY <2>1, <2>2, <2>3 DEF KeptInv, Excused
  <2>4. CASE ~ Excused
    <3>1. EveryHasJob /\ t[1] \in open
      BY <2>1, <2>4, OpenForThreads DEF KeptInv, Excused, StoppedBeforeClosed
    <3>2. CASE Take(t)
      BY <3>1, <3>2, PoppingKeeps DEF Take, Ends, Received, KeptInv
    <3>3. CASE Pop(t)
      BY <3>1, <3>3, PoppingKeeps DEF Pop, Received, KeptInv
    <3>4. CASE LookAtEvent(t) \/ PopTimesOut(t)
      BY <3>1, <3>4, UntouchedKeeps
      DEF LookAtEvent, PopTimesOut, Ends, KeptInv
    <3>5. CASE Begin(t) \/ Settle(t)
      BY <3>1, <3>5, WorkingKeeps DEF KeptInv
    <3> QED BY <1>10, <3>2, <3>3, <3>4, <3>5 DEF Work
  <2> QED BY <2>3, <2>4
<1>11. ASSUME NEW t \in Threads, ConnectionLost(t) PROVE KeptInv'
  BY <1>11 DEF ConnectionLost, KeptInv, Excused
<1> QED
  BY <1>1, <1>2, <1>3, <1>4, <1>5, <1>6, <1>7, <1>8, <1>9, <1>10, <1>11
  DEF Next, Application

LEMMA KeptInvariant == Spec => [](Types /\ ThreadsInv /\ KeptInv)
<1>1. Init => KeptInv
  BY DEF Init, KeptInv, Excused
<1> QED BY <1>1, ThreadsInvariant, KeptStep, PTL DEF Spec

\* No unfinished document loses its job, whatever starts, stops and
\* interleavings of threads there are, unless a join gave up or the
\* connection broke.
THEOREM NoJobLost == Spec => []JobsKept
<1>1. KeptInv => JobsKept
  BY KeptMeans DEF KeptInv
<1> QED BY <1>1, KeptInvariant, PTL

-----------------------------------------------------------------------------
(* The in-process queue's sentinels.                                       *)

Memory == backend = "memory" /\ ~ gaveUp

\* While stop joins, the sentinels are the end of the queue, one for each
\* thread alive.
Trailing ==
  LET n == Len(queue)
      k == Cardinality(Alive)
  IN  /\ k <= n
      /\ \A i \in 1 .. n : queue[i] = Stop <=> i > n - k
      /\ k = 0 => n = 0

SentinelInv ==
  Memory =>
    /\ ~ broken
    /\ app \in {"stopped", "scan", "close"} => queue = <<>>
    /\ app \in {"requeue", "up"} => queue \in Seq(Documents)
    /\ app \in {"scan", "requeue", "up"} => Started(starts) \subseteq Alive
    /\ app = "join" => Trailing

LEMMA AliveFinite == IsFiniteSet(Alive) /\ Cardinality(Alive) \in Nat
<1>1. IsFiniteSet(1 .. MaxStarts) /\ IsFiniteSet(1 .. Workers)
  BY LifecycleAssumption, FS_Interval
<1>2. IsFiniteSet(Threads)
  BY <1>1, FS_Product DEF Threads
<1>3. Alive \subseteq Threads
  BY DEF Alive
<1> QED BY <1>2, <1>3, FS_Subset, FS_CardinalityType

\* In memory a start has as many threads as stop puts sentinels.
LEMMA StartedCount ==
  ASSUME backend = "memory", NEW g \in 1 .. MaxStarts
  PROVE  Cardinality(Started(g)) = Workers
<1>1. Started(g) = {g} \X (1 .. Workers)
  BY DEF Started, Threads, Size
<1>2. /\ IsFiniteSet({g}) /\ Cardinality({g}) = 1
      /\ IsFiniteSet(1 .. Workers) /\ Cardinality(1 .. Workers) = Workers
  <2>1. IsFiniteSet({g}) /\ Cardinality({g}) = 1
    BY FS_Singleton
  <2>2. IsFiniteSet(1 .. Workers) /\ Cardinality(1 .. Workers) = Workers
    <3>1. 1 \in Int /\ Workers \in Int /\ ~ 1 > Workers
      BY LifecycleAssumption
    <3>2. /\ IsFiniteSet(1 .. Workers)
          /\ Cardinality(1 .. Workers) =
               IF 1 > Workers THEN 0 ELSE Workers - 1 + 1
      BY <3>1, FS_Interval
    <3> QED BY <3>1, <3>2
  <2> QED BY <2>1, <2>2
<1>3. Cardinality({g} \X (1 .. Workers)) = 1 * Workers
  BY <1>2, FS_Product
<1> QED BY <1>1, <1>3, LifecycleAssumption

\* Where stop has put the sentinels.
LEMMA SentinelsTrail ==
  ASSUME NEW q \in Seq(Documents), NEW r,
         r = q \o [i \in 1 .. Workers |-> Stop]
  PROVE  /\ Len(r) = Len(q) + Workers
         /\ \A i \in 1 .. Len(r) : r[i] = Stop <=> i > Len(r) - Workers
<1> DEFINE ends == [i \in 1 .. Workers |-> Stop]
<1>1. ends \in Seq({Stop}) /\ Len(ends) = Workers
  BY LifecycleAssumption
<1>2. Len(r) = Len(q) + Workers /\ Len(q) \in Nat /\ Workers \in Nat
  BY <1>1, LifecycleAssumption
<1>3. \A i \in 1 .. Len(q) : r[i] = q[i] /\ q[i] # Stop
  BY <1>1, LifecycleAssumption
<1>4. \A i \in Len(q) + 1 .. Len(r) : r[i] = Stop
  <2> SUFFICES ASSUME NEW i \in Len(q) + 1 .. Len(r) PROVE r[i] = Stop
    OBVIOUS
  <2>1. i - Len(q) \in 1 .. Workers
    BY <1>2
  <2>2. r[i] = ends[i - Len(q)]
    BY <1>1, <1>2, <2>1
  <2> QED BY <2>1, <2>2
<1> QED BY <1>2, <1>3, <1>4

\* A thread takes what is at the head, sentinel or job.
LEMMA TrailingTake ==
  ASSUME Types, Trailing, NEW t \in Threads, Take(t)
  PROVE  Trailing'
<1> DEFINE n == Len(queue)
           k == Cardinality(Alive)
<1>1. /\ queue \in Seq(Documents \cup {Stop}) /\ queue # <<>>
      /\ queue' = Tail(queue) /\ pc[t] = "idle" /\ t \in Alive
  BY DEF Take, Types, Alive
<1>2. /\ n \in Nat /\ n > 0 /\ Len(queue') = n - 1
      /\ \A i \in 1 .. n - 1 : queue'[i] = queue[i + 1]
      /\ Head(queue) = queue[1]
  BY <1>1
<1>3. /\ k \in Nat /\ k <= n /\ k # 0
      /\ \A i \in 1 .. n : queue[i] = Stop <=> i > n - k
  BY <1>1, AliveFinite, FS_EmptySet DEF Trailing
<1>4. CASE Head(queue) = Stop
  <2>1. k = n
    BY <1>2, <1>3, <1>4
  <2>2. pc' = [pc EXCEPT ![t] = "dead"]
    BY <1>4 DEF Take, Ends
  <2>3. Alive' = Alive \ {t}
    BY <1>1, <2>2 DEF Alive, Types
  <2>4. Cardinality(Alive') = k - 1
    BY <1>1, <2>3, AliveFinite, FS_RemoveElement
  <2> HIDE DEF n, k
  <2>5. k - 1 <= n - 1 /\ n - 1 - (k - 1) = 0 /\ (k - 1 = 0 => n - 1 = 0)
    BY <1>2, <1>3, <2>1
  <2>6. ASSUME NEW i \in 1 .. n - 1
        PROVE  queue'[i] = Stop /\ i > 0
    <3>1. i + 1 \in 1 .. n /\ i + 1 > n - k
      BY <1>2, <1>3, <2>1
    <3> QED BY <1>2, <1>3, <3>1
  <2> QED BY <1>2, <2>4, <2>5, <2>6 DEF Trailing
<1>5. CASE Head(queue) # Stop
  <2>1. pc' = [pc EXCEPT ![t] = "asking"]
    BY <1>5 DEF Take, Received
  <2>2. Alive' = Alive
    BY <1>1, <2>1 DEF Alive, Types
  <2>3. Cardinality(Alive') = k /\ k < n
    BY <1>2, <1>3, <1>5, <2>2
  <2> HIDE DEF n, k
  <2>4. k <= n - 1 /\ k # 0
    BY <1>2, <1>3, <2>3
  <2>5. ASSUME NEW i \in 1 .. n - 1
        PROVE  queue'[i] = Stop <=> i > n - 1 - k
    <3>1. i + 1 \in 1 .. n /\ (i + 1 > n - k <=> i > n - 1 - k)
      BY <1>2, <1>3
    <3> QED BY <1>2, <1>3, <3>1
  <2> QED BY <1>2, <2>3, <2>4, <2>5 DEF Trailing
<1> QED BY <1>4, <1>5

\* Neither the queue in use nor what a join gave up changes back.
LEMMA MemoryBefore ==
  ASSUME Types, [Next]_vars, Memory'
  PROVE  Memory /\ UNCHANGED <<backend, gaveUp>>
  BY DEF Memory, Types, Next, vars, redisVars, Application, Work, Start, Scan,
         Requeue, Serve, Upload, UploadUnqueued, StopQueue, Join, JoinEnds,
         StopReturns, CloseRepository, Take, Begin, Settle, Uses,
         LookAtEvent, Pop, PopTimesOut, ConnectionLost

LEMMA SentinelStep ==
  Types /\ ThreadsInv /\ SentinelInv /\ [Next]_vars => SentinelInv'
<1> SUFFICES ASSUME Types, ThreadsInv, SentinelInv, [Next]_vars, Memory'
             PROVE  SentinelInv'
  BY DEF SentinelInv
<1>0. Memory /\ UNCHANGED <<backend, gaveUp>>
  BY MemoryBefore
<1>a. ThreadsOfStart /\ ~ broken
  BY <1>0 DEF ThreadsInv, SentinelInv, Memory
<1>1. CASE UNCHANGED vars
  BY <1>1
  DEF vars, redisVars, SentinelInv, Memory, Started, Size, Alive, Trailing
<1>2. CASE Start
  <2>1. /\ queue' = <<>> /\ app' = "scan" /\ broken' = FALSE
        /\ starts' = starts + 1
        /\ pc' = [t \in Threads |->
                    IF t \in Started(starts + 1) THEN "idle" ELSE pc[t]]
    BY <1>0, <1>2 DEF Start, SentinelInv
  <2>2. Started(starts)' \subseteq Alive'
    BY <1>0, <2>1 DEF Started, Size, Alive
  <2> QED BY <2>1, <2>2 DEF SentinelInv
<1>3. CASE Scan \/ Serve
  <2>1. /\ app \in {"scan", "requeue"} /\ app' \in {"requeue", "up"}
        /\ UNCHANGED <<queue, broken, starts, backend, pc>>
    BY <1>3 DEF Scan, Serve, redisVars
  <2>2. queue \in Seq(Documents)
    <3>1. <<>> \in Seq(Documents)
      OBVIOUS
    <3> QED BY <1>0, <2>1, <3>1 DEF SentinelInv
  <2>3. Started(starts)' \subseteq Alive'
    BY <1>0, <2>1 DEF SentinelInv, Started, Size, Alive
  <2> QED BY <1>a, <2>1, <2>2, <2>3 DEF SentinelInv
<1>4. ASSUME NEW d \in Documents, Requeue(d) \/ Upload(d) PROVE SentinelInv'
  <2>1. /\ app \in {"requeue", "up"} /\ queue' = Append(queue, d)
        /\ UNCHANGED <<app, broken, starts, backend, pc>>
    BY <1>4 DEF Requeue, Upload, redisVars
  <2>2. queue \in Seq(Documents) /\ queue' \in Seq(Documents)
    BY <1>0, <2>1 DEF SentinelInv
  <2> QED BY <1>0, <2>1, <2>2 DEF SentinelInv, Started, Size, Alive
<1>5. ASSUME NEW d \in Documents, UploadUnqueued(d) PROVE SentinelInv'
  BY <1>0, <1>5 DEF UploadUnqueued, Memory
<1>6. CASE StopQueue
  <2>1. /\ queue \in Seq(Documents) /\ app' = "join" /\ broken' = broken
        /\ queue' = queue \o [i \in 1 .. Workers |-> Stop]
        /\ Started(starts) = Alive /\ Alive' = Alive
    BY <1>0, <1>a, <1>6
    DEF StopQueue, Memory, Sentinels, SentinelInv, ThreadsOfStart, Alive
  <2>2. Cardinality(Alive') = Workers
    <3>1. starts \in 1 .. MaxStarts
      BY <1>a, <1>6 DEF StopQueue, ThreadsOfStart, Types
    <3> QED BY <1>0, <2>1, <3>1, StartedCount DEF Memory
  <2>3. Trailing'
    BY <2>1, <2>2, SentinelsTrail, LifecycleAssumption DEF Trailing
  <2> QED BY <1>a, <2>1, <2>3 DEF SentinelInv
<1>7. ASSUME NEW t \in Threads, Join(t) PROVE SentinelInv'
  BY <1>0, <1>7
  DEF Join, redisVars, SentinelInv, Started, Size, Alive, Trailing
<1>8. CASE StopReturns
  <2>1. Trailing /\ Alive = {}
    BY <1>0, <1>a, <1>8 DEF StopReturns, SentinelInv, ThreadsOfStart
  <2>2. Cardinality(Alive) = 0
    BY <2>1, FS_EmptySet
  <2>3. queue = <<>>
    BY <2>1, <2>2 DEF Trailing, Types
  <2> QED BY <1>a, <1>8, <2>3 DEF StopReturns, redisVars, SentinelInv
<1>9. CASE CloseRepository
  BY <1>0, <1>a, <1>9 DEF CloseRepository, redisVars, SentinelInv
<1>10. ASSUME NEW t \in Threads, Work(t) \/ ConnectionLost(t)
       PROVE  SentinelInv'
  <2>1. UNCHANGED <<app, starts>> /\ Started(starts)' = Started(starts)
    BY <1>10, ThreadStep DEF Started, Size
  <2>2. CASE Take(t)
    <3>1. queue # <<>> /\ queue' = Tail(queue) /\ UNCHANGED broken
      BY <2>2 DEF Take, redisVars
    <3>2. CASE app = "join"
      BY <1>a, <2>1, <2>2, <3>1, <3>2, <1>0, TrailingTake DEF SentinelInv
    <3>3. CASE app \in {"requeue", "up"}
      <4>1. /\ queue \in Seq(Documents) /\ Started(starts) \subseteq Alive
            /\ Head(queue) # Stop /\ queue' \in Seq(Documents)
        BY <1>0, <3>1, <3>3, LifecycleAssumption DEF SentinelInv
      <4>2. pc' = [pc EXCEPT ![t] = "asking"]
        BY <2>2, <4>1 DEF Take, Received
      <4>3. Alive' = Alive
        BY <2>2, <4>2 DEF Alive, Take, Types
      <4> QED BY <1>a, <2>1, <3>1, <3>3, <4>1, <4>3 DEF SentinelInv
    <3> QED BY <1>0, <3>1, <3>2, <3>3 DEF SentinelInv, Types, States
  <2>3. CASE Begin(t) \/ Settle(t)
    <3>1. Alive' = Alive /\ UNCHANGED <<queue, broken>>
      <4>1. /\ pc[t] \in {"asking", "working"}
            /\ \E label \in {"working", "idle"} : pc' = [pc EXCEPT ![t] = label]
            /\ UNCHANGED <<queue, broken>>
        BY <2>3 DEF Begin, Settle, Uses, redisVars
      <4> QED BY <4>1 DEF Alive, Types
    <3> QED BY <1>0, <2>1, <3>1 DEF SentinelInv, Trailing
  <2>4. CASE LookAtEvent(t) \/ Pop(t) \/ PopTimesOut(t) \/ ConnectionLost(t)
    BY <1>0, <2>4
    DEF LookAtEvent, Pop, PopTimesOut, ConnectionLost, Memory, Types
  <2> QED BY <1>10, <2>2, <2>3, <2>4 DEF Work
<1> QED
  BY <1>1, <1>2, <1>3, <1>4, <1>5, <1>6, <1>7, <1>8, <1>9, <1>10
  DEF Next, Application

\* Outside of startup nothing waits to be requeued.
RequeueInv == app # "requeue" => toRequeue = {}

LEMMA RequeueStep == Types /\ RequeueInv /\ [Next]_vars => RequeueInv'
<1> SUFFICES ASSUME Types, RequeueInv, [Next]_vars PROVE RequeueInv'
  OBVIOUS
<1>1. ASSUME NEW t \in Threads, Work(t) \/ ConnectionLost(t) PROVE RequeueInv'
  BY <1>1, ThreadStep DEF RequeueInv
<1> QED
  BY <1>1
  DEF Next, Application, vars, redisVars, Start, Scan, Requeue, Serve, Upload,
      UploadUnqueued, StopQueue, Join, StopReturns, CloseRepository,
      RequeueInv

\* While the application serves, the threads of its start are there, unless
\* the connection broke.
ServingInv ==
  /\ backend = "redis" /\ ~ gaveUp /\ ~ broken
  /\ app \in {"scan", "requeue", "up"}
  =>
    ~ stopping /\ Started(starts) \subseteq Alive

LEMMA ServingStep == Types /\ ServingInv /\ [Next]_vars => ServingInv'
<1> SUFFICES ASSUME Types, ServingInv, [Next]_vars PROVE ServingInv'
  OBVIOUS
<1>1. CASE UNCHANGED vars
  BY <1>1 DEF vars, redisVars, ServingInv, Started, Size, Alive
<1>2. CASE Start
  BY <1>2 DEF Start, ServingInv, Started, Size, Alive
<1>3. CASE Scan \/ Serve \/ (\E d \in Documents : Requeue(d) \/ Upload(d))
  BY <1>3
  DEF Scan, Serve, Requeue, Upload, redisVars, ServingInv, Started, Size,
      Alive
<1>4. ASSUME NEW d \in Documents, UploadUnqueued(d) PROVE ServingInv'
  BY <1>4 DEF UploadUnqueued, ServingInv
<1>5. CASE \/ StopQueue \/ StopReturns \/ CloseRepository
           \/ \E t \in Threads : Join(t)
  BY <1>5 DEF StopQueue, StopReturns, CloseRepository, Join, ServingInv
<1>6. ASSUME NEW t \in Threads, Work(t) PROVE ServingInv'
  <2>1. UNCHANGED <<app, starts, backend, gaveUp, broken, stopping>>
    BY <1>6, ThreadStep
    DEF Work, Take, Begin, Settle, Uses, LookAtEvent, Pop, PopTimesOut,
        redisVars
  <2>2. CASE backend = "redis" /\ ~ stopping
    <3>1. \E label \in {"idle", "popping", "asking", "working"} :
            pc' = [pc EXCEPT ![t] = label]
      BY <1>6, <2>2
      DEF Work, Take, Begin, Settle, Uses, LookAtEvent, Pop, PopTimesOut,
          Received
    <3>2. Alive \subseteq Alive'
      BY <3>1 DEF Alive, Types
    <3> QED BY <2>1, <3>2 DEF ServingInv, Started, Size
  <2>3. CASE ~ (backend = "redis" /\ ~ stopping)
    BY <2>1, <2>3 DEF ServingInv
  <2> QED BY <2>2, <2>3
<1>7. ASSUME NEW t \in Threads, ConnectionLost(t) PROVE ServingInv'
  BY <1>7 DEF ConnectionLost, ServingInv
<1> QED
  BY <1>1, <1>2, <1>3, <1>4, <1>5, <1>6, <1>7 DEF Next, Application

LEMMA SentinelInvariant ==
  Spec => [](Types /\ ThreadsInv /\ SentinelInv /\ RequeueInv /\ ServingInv)
<1>1. Init => SentinelInv /\ RequeueInv /\ ServingInv
  BY DEF Init, SentinelInv, RequeueInv, ServingInv, Memory
<1> QED
  BY <1>1, ThreadsInvariant, SentinelStep, RequeueStep, ServingStep, PTL
  DEF Spec

\* While the application serves, its threads are there: no sentinel and no
\* event of an earlier stop is left to end them.
THEOREM ServedByWorkers == Spec => []ServingHasWorkers
<1>1. Types /\ SentinelInv /\ ServingInv => ServingHasWorkers
  BY DEF Types, SentinelInv, ServingInv, ServingHasWorkers, Memory
<1> QED BY <1>1, SentinelInvariant, PTL

\* A stop whose joins saw the threads end has drained the queue, whatever was
\* in it and however the threads shared the work.
THEOREM StopHasDrained == Spec => []StopDrains
<1>1. Types /\ ThreadsInv /\ SentinelInv /\ RequeueInv /\ KeptInv => StopDrains
  <2> SUFFICES ASSUME Types, ThreadsInv, SentinelInv, RequeueInv, KeptInv,
                      backend = "memory", app \in {"close", "stopped"},
                      starts > 0, ~ gaveUp
               PROVE  /\ queue = <<>>
                      /\ \A d \in Documents : status[d] \in {"none", "SETTLED"}
    BY DEF StopDrains
  <2>1. queue = <<>> /\ ~ broken /\ toRequeue = {}
    BY DEF SentinelInv, Memory, RequeueInv
  <2>2. EveryHasJob
    BY <2>1 DEF KeptInv, Excused
  <2>3. \A d \in Documents : ~ HasJob(d)
    <3>1. Alive = {}
      BY DEF ThreadsInv, ThreadsOfStart
    <3>2. \A t \in Threads : holds[t] = Nothing
      BY <3>1 DEF Types, Alive
    <3> QED BY <2>1, <3>2, LifecycleAssumption DEF HasJob, Occurs
  <2> QED BY <2>1, <2>2, <2>3 DEF EveryHasJob, Unfinished, Types, Statuses
<1> QED BY <1>1, KeptInvariant, SentinelInvariant, PTL

-----------------------------------------------------------------------------
(* One place for each document.                                            *)

Unique(q, d) == \A i, j \in DOMAIN q : q[i] = d /\ q[j] = d => i = j

LEMMA AppendUnique ==
  ASSUME NEW S, NEW q \in Seq(S), NEW e \in S, NEW d, Unique(q, d),
         e = d => ~ Occurs(q, d)
  PROVE  /\ Unique(Append(q, e), d)
         /\ Occurs(Append(q, e), d) => Occurs(q, d) \/ e = d
<1>1. /\ DOMAIN Append(q, e) = 1 .. Len(q) + 1
      /\ DOMAIN q = 1 .. Len(q)
      /\ Len(q) \in Nat
  OBVIOUS
<1>2. /\ Append(q, e)[Len(q) + 1] = e
      /\ \A i \in 1 .. Len(q) : Append(q, e)[i] = q[i]
  OBVIOUS
<1>3. \A i \in 1 .. Len(q) + 1 : i \in 1 .. Len(q) \/ i = Len(q) + 1
  BY <1>1
<1> QED BY <1>1, <1>2, <1>3 DEF Occurs, Unique

LEMMA ConcatUnique ==
  ASSUME NEW S, NEW q \in Seq(S), NEW r \in Seq(S), NEW d, Unique(q, d),
         ~ Occurs(r, d)
  PROVE  /\ Unique(q \o r, d)
         /\ Occurs(q \o r, d) => Occurs(q, d)
<1>1. /\ DOMAIN (q \o r) = 1 .. Len(q) + Len(r)
      /\ DOMAIN q = 1 .. Len(q) /\ DOMAIN r = 1 .. Len(r)
      /\ Len(q) \in Nat /\ Len(r) \in Nat
  OBVIOUS
<1>2. \A i \in 1 .. Len(q) : (q \o r)[i] = q[i]
  OBVIOUS
<1>3. ASSUME NEW i \in 1 .. Len(q) + Len(r), i \notin 1 .. Len(q)
      PROVE  (q \o r)[i] # d
  <2>1. i - Len(q) \in 1 .. Len(r)
    BY <1>1, <1>3
  <2>2. (q \o r)[i] = r[i - Len(q)]
    BY <1>1, <1>3
  <2> QED BY <1>1, <2>1, <2>2 DEF Occurs
<1> QED BY <1>1, <1>2, <1>3 DEF Occurs, Unique

LEMMA TailUnique ==
  ASSUME NEW S, NEW q \in Seq(S), q # <<>>, NEW d, Unique(q, d)
  PROVE  /\ Unique(Tail(q), d)
         /\ Occurs(Tail(q), d) => Occurs(q, d) /\ Head(q) # d
<1>1. /\ Len(q) \in Nat /\ DOMAIN q = 1 .. Len(q)
      /\ DOMAIN Tail(q) = 1 .. Len(q) - 1
      /\ Head(q) = q[1] /\ 1 \in 1 .. Len(q)
  OBVIOUS
<1>2. \A i \in 1 .. Len(q) - 1 : Tail(q)[i] = q[i + 1] /\ i + 1 \in 1 .. Len(q)
  BY <1>1
<1>3. Unique(Tail(q), d)
  BY <1>1, <1>2 DEF Unique
<1>4. ASSUME NEW i \in 1 .. Len(q) - 1, q[i + 1] = d
      PROVE  Occurs(q, d) /\ Head(q) # d
  BY <1>1, <1>2, <1>4 DEF Unique, Occurs
<1> QED BY <1>1, <1>2, <1>3, <1>4 DEF Occurs

Held(d) == \E t \in Threads : holds[t] = d
Idle(d) == ~ Occurs(queue, d) /\ ~ Held(d)

Once(d) ==
  /\ Unique(queue, d)
  /\ \A t, u \in Threads : holds[t] = d /\ holds[u] = d => t = u
  /\ ~ (Occurs(queue, d) /\ Held(d))
  /\ status[d] \in {"none", "SETTLED"} => Idle(d)
  /\ d \in toRequeue => Idle(d)

OnceInv ==
  Memory =>
    /\ \A d \in Documents : Once(d)
    /\ app = "scan" => \A t \in Threads : holds[t] = Nothing

\* A document is queued that was nowhere.
LEMMA QueueOnce ==
  ASSUME Types, NEW d \in Documents, Idle(d), \A e \in Documents : Once(e),
         queue' = Append(queue, d),
         status' = [status EXCEPT ![d] = "QUEUED"],
         toRequeue' \subseteq toRequeue, d \notin toRequeue',
         UNCHANGED holds
  PROVE  \A e \in Documents : Once(e)'
<1> SUFFICES ASSUME NEW e \in Documents PROVE Once(e)'
  OBVIOUS
<1>1. /\ Unique(queue', e)
      /\ Occurs(queue', e) => Occurs(queue, e) \/ e = d
  <2>1. queue \in Seq(Documents \cup {Stop}) /\ d \in Documents \cup {Stop}
    BY DEF Types
  <2>2. Unique(queue, e) /\ (d = e => ~ Occurs(queue, e))
    BY DEF Once, Idle
  <2> QED BY <2>1, <2>2, AppendUnique
<1>2. Held(e)' = Held(e)
  BY DEF Held
<1>3. CASE e = d
  <2>1. ~ Held(e)' /\ status'[e] = "QUEUED"
    BY <1>2, <1>3 DEF Idle, Types
  <2> QED BY <1>1, <1>3, <2>1 DEF Once, Held
<1>4. CASE e # d
  <2>1. status'[e] = status[e]
    BY <1>4 DEF Types
  <2> QED BY <1>1, <1>2, <1>4, <2>1 DEF Once, Idle
<1> QED BY <1>3, <1>4

\* A thread that takes the head of the queue.
LEMMA TakeOnce ==
  ASSUME Types, NEW t \in Threads, Take(t), \A e \in Documents : Once(e)
  PROVE  \A e \in Documents : Once(e)'
<1> SUFFICES ASSUME NEW e \in Documents PROVE Once(e)'
  OBVIOUS
<1>1. /\ queue # <<>> /\ queue' = Tail(queue) /\ holds[t] = Nothing
      /\ UNCHANGED <<status, toRequeue>>
      /\ queue \in Seq(Documents \cup {Stop}) /\ e # Nothing /\ e # Stop
      /\ Once(e)
  BY LifecycleAssumption DEF Take, Types
<1>2. /\ Unique(queue', e)
      /\ Occurs(queue', e) => Occurs(queue, e) /\ Head(queue) # e
  BY <1>1, TailUnique DEF Once
<1>3. /\ Head(queue) # e =>
           \A u \in Threads : holds'[u] = e <=> holds[u] = e
      /\ Head(queue) = e =>
           \A u \in Threads : holds'[u] = e <=> holds[u] = e \/ u = t
  BY <1>1 DEF Take, Ends, Received, Types
<1>4. Head(queue) = e => Occurs(queue, e)
  BY <1>1 DEF Occurs
<1> QED BY <1>1, <1>2, <1>3, <1>4 DEF Once, Idle, Held

\* A thread works on its document, its repository being open.
LEMMA WorkOnce ==
  ASSUME Types, NEW t \in Threads, t[1] \in open, Begin(t) \/ Settle(t),
         \A e \in Documents : Once(e)
  PROVE  \A e \in Documents : Once(e)'
<1> SUFFICES ASSUME NEW e \in Documents PROVE Once(e)'
  OBVIOUS
<1>1. holds[t] \in Documents /\ Once(holds[t]) /\ Once(e) /\ e # Nothing
  BY LifecycleAssumption DEF Begin, Settle, Types
<1>2. /\ UNCHANGED <<queue, toRequeue>>
      /\ \E s \in {"PARSING", "SETTLED"} :
           /\ status' = [status EXCEPT ![holds[t]] = s]
           /\ holds' = IF s = "SETTLED" THEN [holds EXCEPT ![t] = Nothing]
                                        ELSE holds
  BY DEF Begin, Settle, Uses
<1>3. \A u \in Threads : holds'[u] = e => holds[u] = e
  BY <1>1, <1>2 DEF Types
<1>4. CASE e # holds[t]
  <2>1. status'[e] = status[e]
    BY <1>2, <1>4 DEF Types
  <2> QED BY <1>1, <1>2, <1>3, <2>1 DEF Once, Idle, Held
<1>5. CASE e = holds[t]
  <2>1. ~ Occurs(queue, e) /\ e \notin toRequeue
    BY <1>1, <1>5 DEF Once, Held, Idle
  <2>2. status'[e] = "SETTLED" => \A u \in Threads : holds'[u] # e
    BY <1>1, <1>2, <1>5 DEF Once, Types
  <2>3. status'[e] \in {"PARSING", "SETTLED"}
    BY <1>2, <1>5 DEF Types
  <2> QED BY <1>1, <1>2, <1>3, <2>1, <2>2, <2>3 DEF Once, Idle, Held
<1> QED BY <1>4, <1>5

LEMMA OnceStep ==
  Types /\ ThreadsInv /\ SentinelInv /\ RequeueInv /\ OnceInv /\ [Next]_vars
    => OnceInv'
<1> SUFFICES ASSUME Types, ThreadsInv, SentinelInv, RequeueInv, OnceInv,
                    [Next]_vars, Memory'
             PROVE  OnceInv'
  BY DEF OnceInv
<1>0. Memory
  BY MemoryBefore
<1>a. /\ ThreadsOfStart /\ \A d \in Documents : Once(d)
      /\ app = "scan" => \A t \in Threads : holds[t] = Nothing
  BY <1>0 DEF ThreadsInv, OnceInv, Memory
<1>1. CASE /\ UNCHANGED <<queue, holds, status, toRequeue>>
           /\ app' = "scan" => app = "scan"
  <2>1. \A d \in Documents : Once(d)' <=> Once(d)
    BY <1>1 DEF Once, Idle, Held
  <2> QED BY <1>a, <1>1, <2>1 DEF OnceInv
<1>2. CASE Start
  <2>1. UNCHANGED <<queue, holds, status, toRequeue>> /\ Alive = {}
    BY <1>a, <1>2 DEF Start, ThreadsOfStart
  <2>2. \A d \in Documents : Once(d)' <=> Once(d)
    BY <2>1 DEF Once, Idle, Held
  <2>3. \A t \in Threads : holds[t] = Nothing
    BY <2>1 DEF Types, Alive
  <2> QED BY <1>a, <2>1, <2>2, <2>3 DEF OnceInv
<1>3. CASE Scan
  <2>1. /\ queue = <<>> /\ \A t \in Threads : holds[t] = Nothing
        /\ UNCHANGED <<queue, holds, status>> /\ app' = "requeue"
    BY <1>0, <1>a, <1>3 DEF Scan, SentinelInv
  <2>2. \A d \in Documents : Once(d)'
    BY <2>1, LifecycleAssumption DEF Once, Idle, Held, Occurs, Unique
  <2> QED BY <2>1, <2>2 DEF OnceInv
<1>4. ASSUME NEW d \in Documents, Requeue(d) PROVE OnceInv'
  <2>1. /\ queue' = Append(queue, d)
        /\ status' = [status EXCEPT ![d] = "QUEUED"]
        /\ toRequeue' = toRequeue \ {d} /\ d \in toRequeue
        /\ app' = "requeue" /\ UNCHANGED holds
    BY <1>4 DEF Requeue
  <2>2. Idle(d)
    BY <1>a, <2>1 DEF Once
  <2> QED BY <1>a, <2>1, <2>2, QueueOnce DEF OnceInv
<1>5. ASSUME NEW d \in Documents, Upload(d) PROVE OnceInv'
  <2>1. /\ queue' = Append(queue, d)
        /\ status' = [status EXCEPT ![d] = "QUEUED"]
        /\ toRequeue = {} /\ toRequeue' = {} /\ status[d] = "none"
        /\ app' = "up" /\ UNCHANGED holds
    BY <1>5 DEF Upload, RequeueInv
  <2>2. Idle(d)
    BY <1>a, <2>1 DEF Once
  <2> QED BY <1>a, <2>1, <2>2, QueueOnce DEF OnceInv
<1>6. CASE StopQueue
  <2> DEFINE ends == [i \in 1 .. Workers |-> Stop]
  <2>1. /\ queue' = queue \o ends
        /\ UNCHANGED <<holds, status, toRequeue>> /\ app' = "join"
    BY <1>0, <1>6 DEF StopQueue, Sentinels, Memory
  <2>2. ASSUME NEW d \in Documents PROVE Once(d)'
    <3>1. ends \in Seq(Documents \cup {Stop}) /\ ~ Occurs(ends, d)
      BY LifecycleAssumption DEF Occurs
    <3> HIDE DEF ends
    <3>2. Unique(queue', d) /\ (Occurs(queue', d) => Occurs(queue, d))
      BY <1>a, <2>1, <3>1, ConcatUnique DEF Once, Types
    <3> QED BY <1>a, <2>1, <3>2 DEF Once, Idle, Held
  <2> QED BY <2>1, <2>2 DEF OnceInv
<1>7. ASSUME NEW t \in Threads, Take(t) PROVE OnceInv'
  <2>1. app' = app /\ app # "scan"
    BY <1>0, <1>7 DEF Take, SentinelInv
  <2> QED BY <1>a, <1>7, <2>1, TakeOnce DEF OnceInv
<1>8. ASSUME NEW t \in Threads, Begin(t) \/ Settle(t) PROVE OnceInv'
  <2>1. app' = app /\ app # "scan"
    BY <1>a, <1>8 DEF Begin, Settle, Uses, Types
  <2>2. t[1] \in open
    BY <1>0, <1>8, ThreadStep, OpenForThreads
    DEF Work, StoppedBeforeClosed, Memory
  <2> QED BY <1>a, <1>8, <2>1, <2>2, WorkOnce DEF OnceInv
<1>9. CASE UNCHANGED vars
  BY <1>1, <1>9 DEF vars
<1>10. CASE \/ Serve \/ StopReturns \/ CloseRepository
            \/ \E t \in Threads : Join(t)
  BY <1>1, <1>10 DEF Serve, StopReturns, CloseRepository, Join
<1>11. ASSUME NEW t \in Threads,
              LookAtEvent(t) \/ Pop(t) \/ PopTimesOut(t) \/ ConnectionLost(t)
       PROVE  OnceInv'
  BY <1>0, <1>11
  DEF LookAtEvent, Pop, PopTimesOut, ConnectionLost, Memory, Types
<1>12. ASSUME NEW d \in Documents, UploadUnqueued(d) PROVE OnceInv'
  BY <1>0, <1>12 DEF UploadUnqueued, Memory
<1> QED
  BY <1>2, <1>3, <1>4, <1>5, <1>6, <1>7, <1>8, <1>9, <1>10, <1>11, <1>12
  DEF Next, Application, Work

\* With the in-process queue a document is in one place, for any number of
\* threads and documents.
THEOREM AlwaysHandledOnce == Spec => []HandledOnce
<1>1. Init => OnceInv
  BY LifecycleAssumption
  DEF Init, OnceInv, Once, Idle, Held, Occurs, Unique
<1>2. OnceInv /\ Types => HandledOnce
  <2> SUFFICES ASSUME OnceInv, Types, backend # "redis", ~ gaveUp,
                      NEW d \in Documents
               PROVE  LET holders == {t \in Threads : holds[t] = d}
                      IN  /\ Cardinality(Places(d)) + Cardinality(holders) <= 1
                          /\ status[d] = "SETTLED" =>
                               Places(d) = {} /\ holders = {}
    BY DEF HandledOnce
  <2> DEFINE holders == {t \in Threads : holds[t] = d}
  <2>1. Once(d)
    BY DEF OnceInv, Memory, Types
  <2>2. ASSUME NEW X, \A x, y \in X : x = y
        PROVE  \/ X = {} /\ Cardinality(X) = 0
               \/ X # {} /\ Cardinality(X) = 1
    <3>1. CASE X = {}
      BY <3>1, FS_EmptySet
    <3>2. CASE X # {}
      <4>1. PICK x \in X : X = {x}
        BY <2>2, <3>2
      <4> QED BY <4>1, FS_Singleton
    <3> QED BY <3>1, <3>2
  <2>3. /\ \A i, j \in Places(d) : i = j
        /\ \A t, u \in holders : t = u
        /\ Places(d) = {} \/ holders = {}
        /\ status[d] = "SETTLED" => Places(d) = {} /\ holders = {}
    BY <2>1 DEF Once, Unique, Places, Idle, Held, Occurs
  <2>4. \/ Places(d) = {} /\ Cardinality(Places(d)) = 0
        \/ Places(d) # {} /\ Cardinality(Places(d)) = 1
    BY <2>2, <2>3
  <2>5. \/ holders = {} /\ Cardinality(holders) = 0
        \/ holders # {} /\ Cardinality(holders) = 1
    BY <2>2, <2>3
  <2> HIDE DEF holders
  <2>6. Cardinality(Places(d)) + Cardinality(holders) <= 1
    BY <2>3, <2>4, <2>5
  <2> QED BY <2>3, <2>6 DEF holders
<1> QED BY <1>1, <1>2, OnceStep, SentinelInvariant, PTL DEF Spec
=============================================================================
