--------------------------- MODULE IndexingProofs ---------------------------
(***************************************************************************)
(* Theorems of Indexing for every set of documents and contents.           *)
(*                                                                         *)
(* For both queues and any number of faults every variable keeps its type. *)
(* With the in-process queue ControlInv is inductive, and what the runs    *)
(* check of the records follows from it.                                   *)
(*                                                                         *)
(* For a client whose deletes do not race the threads take turns at the    *)
(* index files: until a first fault FilesInv is inductive, and without     *)
(* faults the pipeline implements WorkspaceCorpus.                         *)
(***************************************************************************)
EXTENDS Indexing, FiniteSetTheorems, TLAPS

\* An update of a function keeps its type, at any argument.
LEMMA UpdateType ==
  ASSUME NEW S, NEW T, NEW f \in [S -> T], NEW x, NEW e \in T
  PROVE  [f EXCEPT ![x] = e] \in [S -> T]
  OBVIOUS

LEMMA StatusType ==
  ASSUME records \in [Docs -> Statuses], NEW d, NEW s \in Statuses
  PROVE  SetStatus(d, s) \in [Docs -> Statuses]
  BY UpdateType DEF SetStatus

LEMMA TypeInit == Init => ControlTypeOK
  BY DocsAssumption, SMT
  DEF Init, ControlTypeOK, Statuses, Working, Terminal, Threads, Worker, Loop, Labels,
      ReturnLabels

\* Every step keeps the type of the control state.
LEMMA TypeStep == ControlTypeOK /\ [Next]_vars => ControlTypeOK'
<1> SUFFICES ASSUME ControlTypeOK, [Next]_vars PROVE ControlTypeOK'
  OBVIOUS
<1> USE DocsAssumption DEF ControlTypeOK, Statuses, Working, Terminal, Threads,
        Worker, Loop, Labels, ReturnLabels, Goto, Rest
<1>s. \A d : \A s \in Statuses : SetStatus(d, s) \in [Docs -> Statuses]
  BY StatusType DEF ControlTypeOK
<1>e. \A d : \A s \in Statuses : [records EXCEPT ![d] = s] \in [Docs -> Statuses]
  BY UpdateType
<1>1. ASSUME Startup PROVE ControlTypeOK'
  <2>1. CASE StartWorker \/ ScanUnfinished \/ Serve
    BY <2>1, SMT DEF StartWorker, ScanUnfinished, Serve, Unfinished
  <2>2. ASSUME NEW d \in Docs, Requeue(d) PROVE ControlTypeOK'
    BY <2>2, <1>s, SMT DEF Requeue
  <2> QED
    BY <1>1, <2>1, <2>2 DEF Startup
<1>2. ASSUME Request PROVE ControlTypeOK'
  BY <1>2, SMT DEF Request, UploadStore, DeleteStart
<1>3. ASSUME NEW t \in Threads, FileStep(t) PROVE ControlTypeOK'
  <2>1. CASE RemoveBegin(t)
    BY <2>1, SMT DEF RemoveBegin
  <2>2. CASE RemoveReadRecords(t)
    BY <2>2, <1>s, SMT DEF RemoveReadRecords, Abort
  <2>3. CASE RemoveReadVectors(t)
    BY <2>3, <1>s, SMT DEF RemoveReadVectors, Abort, Write
  <2>4. CASE Truncate(t)
    BY <2>4, SMT DEF Truncate
  <2>5. CASE Fill(t)
    BY <2>5, SMT DEF Fill, Advance
  <2>6. CASE Unlink(t)
    BY <2>6, SMT DEF Unlink, Advance
  <2> QED
    BY <1>3, <2>1, <2>2, <2>3, <2>4, <2>5, <2>6 DEF FileStep
<1>4. ASSUME Respond PROVE ControlTypeOK'
  <2>1. CASE UploadAdd
    BY <2>1, <1>e, SMT DEF UploadAdd
  <2>2. CASE UploadEnqueue
    BY <2>2, SMT DEF UploadEnqueue
  <2>3. CASE DeleteRecord
    BY <2>3, <1>e, SMT DEF DeleteRecord
  <2> QED
    BY <1>3, <1>4, <2>1, <2>2, <2>3 DEF Respond
<1>5. ASSUME Work PROVE ControlTypeOK'
  <2>1. CASE TakeJob
    <3>1. queue # <<>> => Head(queue) \in Docs /\ Tail(queue) \in Seq(Docs)
      BY SMT
    <3> QED
      BY <2>1, <3>1, <1>s, SMT DEF TakeJob
  <2>2. CASE Parsed \/ Chunked \/ Embedded
    BY <2>2, <1>s, SMT DEF Parsed, Chunked, Embedded, NextStage
  <2>3. CASE StageFails
    BY <2>3, <1>s, SMT DEF StageFails, Abort
  <2>4. CASE IndexBegin
    BY <2>4, SMT DEF IndexBegin, Write
  <2>5. CASE AppendLoadVectors \/ ReloadVectors
    BY <2>5, <1>s, SMT DEF AppendLoadVectors, ReloadVectors, LoadVectors, Abort
  <2>6. CASE AppendRecords \/ ReloadRecords
    BY <2>6, <1>s, SMT DEF AppendRecords, ReloadRecords, Write, Abort
  <2>7. CASE CheckRecord \/ MarkReady \/ DiscardUpload
    BY <2>7, <1>s, SMT DEF CheckRecord, MarkReady, DiscardUpload
  <2> QED
    BY <1>3, <1>5, <2>1, <2>2, <2>3, <2>4, <2>5, <2>6, <2>7 DEF Work
<1>6. ASSUME Fault PROVE ControlTypeOK'
  <2>1. CASE Crash
    BY <2>1, SMT DEF Crash, QueueLeft
  <2>2. ASSUME NEW t \in Threads, WriteFails(t) PROVE ControlTypeOK'
    BY <2>2, <1>s, SMT DEF WriteFails, Abort
  <2> QED
    BY <1>6, <2>1, <2>2 DEF Fault
<1>7. CASE UNCHANGED vars
  BY <1>7 DEF vars
<1> QED
  BY <1>1, <1>2, <1>4, <1>5, <1>6, <1>7 DEF Next

\* The control state has its type in every behaviour, for both queues.
THEOREM TypeCorrect == Spec => []ControlTypeOK
  BY TypeInit, TypeStep, PTL DEF Spec

-----------------------------------------------------------------------------
\* Where the jobs of the queue are after one was added, and after one was taken.
LEMMA QueueAppended ==
  ASSUME NEW q \in Seq(Docs), NEW j \in Docs
  PROVE  /\ \A i \in DOMAIN q : i \in DOMAIN Append(q, j) /\ Append(q, j)[i] = q[i]
         /\ \A i \in DOMAIN Append(q, j) : i \in DOMAIN q \/ Append(q, j)[i] = j
         /\ \E i \in DOMAIN Append(q, j) : Append(q, j)[i] = j
<1>1. Len(q) \in Nat /\ DOMAIN q = 1 .. Len(q)
  BY SMT
<1>2. DOMAIN Append(q, j) = 1 .. Len(q) + 1
  BY <1>1, SMT
<1>3. \A i \in 1 .. Len(q) : Append(q, j)[i] = q[i]
  BY <1>1, SMT
<1>4. Append(q, j)[Len(q) + 1] = j
  BY <1>1, SMT
<1>5. \A i \in 1 .. Len(q) + 1 : i \in 1 .. Len(q) \/ i = Len(q) + 1
  BY <1>1, SMT
<1> QED
  BY <1>1, <1>2, <1>3, <1>4, <1>5, SMT

LEMMA QueueTaken ==
  ASSUME NEW q \in Seq(Docs), q # <<>>
  PROVE  /\ 1 \in DOMAIN q /\ Head(q) = q[1] /\ Head(q) \in Docs
         /\ \A i \in DOMAIN Tail(q) :
              i + 1 \in DOMAIN q /\ i + 1 # 1 /\ Tail(q)[i] = q[i + 1]
         /\ \A i \in DOMAIN q :
              i = 1 \/ \E k \in DOMAIN Tail(q) : Tail(q)[k] = q[i]
<1>1. Len(q) \in Nat /\ Len(q) > 0 /\ DOMAIN q = 1 .. Len(q)
  BY SMT
<1>2. DOMAIN Tail(q) = 1 .. Len(q) - 1
  BY <1>1, SMT
<1>3. \A i \in 1 .. Len(q) - 1 : Tail(q)[i] = q[i + 1]
  BY <1>1, SMT
<1>4. 1 \in DOMAIN q /\ Head(q) = q[1] /\ Head(q) \in Docs
  BY <1>1, SMT
<1>5. \A i \in DOMAIN q :
         i = 1 \/ \E k \in DOMAIN Tail(q) : Tail(q)[k] = q[i]
  <2> SUFFICES ASSUME NEW i \in 1 .. Len(q), i # 1
               PROVE  i - 1 \in 1 .. Len(q) - 1 /\ Tail(q)[i - 1] = q[i]
    BY <1>1, <1>2
  <2> QED
    BY <1>1, <1>3, SMT
<1> QED
  BY <1>1, <1>2, <1>3, <1>4, <1>5, SMT

LEMMA ControlInit == Init => ControlInv
<1> SUFFICES ASSUME Init PROVE ControlInv
  OBVIOUS
<1>1. ControlTypeOK
  BY TypeInit
<1> QED
  BY <1>1, SMT
  DEF Init, ControlInv, PhaseInv, ThreadInv, JobInv, StatusInv,
      NothingStranded,
     OneLiveRecordPerContent, OneJobPerDocument, InQueue, Pending, LiveDuplicate,
     Threads, Worker, Loop, LoopLabels, WorkerLabels, RemoveLabels, WriteLabels,
     Labels, ReturnLabels, Working, ControlTypeOK

\* ControlInv is inductive when the queue dies with its process, or when
\* nothing dies.
LEMMA ControlStep ==
  ASSUME ~DurableQueue \/ ~Crash, ControlInv, [Next]_vars PROVE ControlInv'
<1> USE DocsAssumption DEF ControlInv, PhaseInv, ThreadInv, JobInv, StatusInv, NothingStranded,
     OneLiveRecordPerContent, OneJobPerDocument, InQueue, Pending, LiveDuplicate,
     Threads, Worker, Loop, LoopLabels, WorkerLabels, RemoveLabels, WriteLabels,
     Labels, ReturnLabels, Working, ControlTypeOK, Statuses, Terminal, Goto, Rest,
     SetStatus, StageAt
<1>0. ControlTypeOK'
  BY TypeStep
<1>s1. CASE StartWorker \/ ScanUnfinished \/ Serve
  BY <1>0, <1>s1, SMT DEF StartWorker, ScanUnfinished, Serve, Unfinished
<1>s2. ASSUME NEW d \in Docs, Requeue(d) PROVE ControlInv'
  <2>1.  queue' = Append(queue, d)
    BY <1>s2 DEF Requeue
  <2>2. \A i \in DOMAIN queue : i \in DOMAIN queue' /\ queue'[i] = queue[i]
    BY <2>1, QueueAppended
  <2>3. \A i \in DOMAIN queue' : i \in DOMAIN queue \/ queue'[i] = d
    BY <2>1, QueueAppended
  <2>4. \E i \in DOMAIN queue' : queue'[i] = d
    BY <2>1, QueueAppended
  <2>5. PhaseInv' /\ ThreadInv'
    BY <1>0, <1>s2, SMT DEF Requeue
  <2>6. JobInv'
    BY <1>0, <1>s2, <2>2, <2>3, SMT DEF Requeue
  <2>7. StatusInv'
    BY <1>0, <1>s2, <2>2, <2>3, SMT DEF Requeue
  <2>8. NothingStranded'
    BY <1>0, <1>s2, <2>2, <2>4, SMT DEF Requeue
  <2>9. OneLiveRecordPerContent'
    BY <1>0, <1>s2, SMT DEF Requeue
  <2> QED
    BY <1>0, <2>5, <2>6, <2>7, <2>8, <2>9
<1>r1. ASSUME NEW d \in Docs, UploadStore(d) PROVE ControlInv'
  BY <1>0, <1>r1, SMT DEF UploadStore
<1>r2. ASSUME NEW d \in Docs, DeleteStart(d) PROVE ControlInv'
  BY <1>0, <1>r2, SMT DEF DeleteStart
<1>a. ASSUME NEW t \in Threads, Abort(t), pc[t] # "idle",
             t = Loop => pc[t] \in RemoveLabels \cup WriteLabels,
             UNCHANGED <<phase, born, queue, stranded>>
      PROVE  ControlInv'
  <2>1. CASE t = Worker /\ ret[t] # "removed"
    BY <1>0, <1>a, <2>1, SMTT(30) DEF Abort
  <2>2. CASE ~(t = Worker /\ ret[t] # "removed")
    BY <1>0, <1>a, <2>2, SMTT(30) DEF Abort
  <2> QED
    BY <2>1, <2>2
<1>f1. ASSUME NEW t \in Threads, RemoveBegin(t) PROVE ControlInv'
  BY <1>0, <1>f1, SMT DEF RemoveBegin
<1>f2. ASSUME NEW t \in Threads, RemoveReadRecords(t) PROVE ControlInv'
  <2>1. CASE Readable("metadata")
    BY <1>0, <1>f2, <2>1, SMT DEF RemoveReadRecords
  <2>2. CASE ~Readable("metadata")
    BY <1>a, <1>f2, <2>2 DEF RemoveReadRecords
  <2> QED
    BY <2>1, <2>2
<1>f3. ASSUME NEW t \in Threads, RemoveReadVectors(t) PROVE ControlInv'
  <2>1. CASE Abort(t)
    BY <1>a, <1>f3, <2>1 DEF RemoveReadVectors
  <2>2. CASE ~Abort(t)
    BY <1>0, <1>f3, <2>2, SMT DEF RemoveReadVectors, Write
  <2> QED
    BY <2>1, <2>2
<1>f4. ASSUME NEW t \in Threads, Truncate(t) PROVE ControlInv'
  BY <1>0, <1>f4, SMT DEF Truncate
<1>f5. ASSUME NEW t \in Threads, Fill(t) PROVE ControlInv'
  BY <1>0, <1>f5, SMT DEF Fill, Advance
<1>f6. ASSUME NEW t \in Threads, Unlink(t) PROVE ControlInv'
  BY <1>0, <1>f6, SMT DEF Unlink, Advance
<1>f7. ASSUME NEW t \in Threads, WriteFails(t) PROVE ControlInv'
  BY <1>a, <1>f7 DEF WriteFails
<1>c. CASE Crash
  BY <1>0, <1>c, SMT DEF Crash, QueueLeft
<1>l1. CASE UploadAdd
    BY <1>0, <1>l1, SMT DEF UploadAdd
<1>l2. CASE UploadEnqueue
  <2>1. cur[Loop] \in Docs /\ queue' = Append(queue, cur[Loop])
    BY <1>l2 DEF UploadEnqueue
  <2>2. \A i \in DOMAIN queue : i \in DOMAIN queue' /\ queue'[i] = queue[i]
    BY <2>1, QueueAppended
  <2>3. \A i \in DOMAIN queue' : i \in DOMAIN queue \/ queue'[i] = cur[Loop]
    BY <2>1, QueueAppended
  <2>4. \E i \in DOMAIN queue' : queue'[i] = cur[Loop]
    BY <2>1, QueueAppended
  <2>5. PhaseInv' /\ ThreadInv'
    BY <1>0, <1>l2, SMT DEF UploadEnqueue
  <2>6. JobInv'
    BY <1>0, <1>l2, <2>2, <2>3, SMT DEF UploadEnqueue
  <2>7. StatusInv'
    BY <1>0, <1>l2, <2>2, <2>3, SMT DEF UploadEnqueue
  <2>8. NothingStranded'
    BY <1>0, <1>l2, <2>2, <2>4, SMT DEF UploadEnqueue
  <2>9. OneLiveRecordPerContent'
    BY <1>0, <1>l2, SMT DEF UploadEnqueue
  <2> QED
    BY <1>0, <2>5, <2>6, <2>7, <2>8, <2>9
<1>l3. CASE DeleteRecord
    BY <1>0, <1>l3, SMT DEF DeleteRecord
<1>w1. CASE TakeJob
  <2> DEFINE taken == Head(queue)
  <2>1. /\ 1 \in DOMAIN queue /\ queue[1] = taken /\ taken \in Docs
        /\ \A i \in DOMAIN queue' :
             i + 1 \in DOMAIN queue /\ i + 1 # 1 /\ queue'[i] = queue[i + 1]
        /\ \A i \in DOMAIN queue :
              i = 1 \/ \E k \in DOMAIN queue' : queue'[k] = queue[i]
    <3>1. queue \in Seq(Docs) /\ queue # <<>> /\ queue' = Tail(queue)
      BY <1>w1 DEF TakeJob
    <3> HIDE DEF ControlInv
    <3>2. queue[1] = Head(queue) /\ Head(queue) \in Docs /\ 1 \in DOMAIN queue
      BY <3>1, QueueTaken
    <3> QED
      BY <3>1, <3>2, QueueTaken
  <2>2. \A i \in DOMAIN queue' : queue'[i] # taken
    BY <2>1
  <2>3. \A i \in DOMAIN queue' : \E k \in DOMAIN queue : queue'[i] = queue[k]
    BY <2>1
  <2>4. \A i, j \in DOMAIN queue' : queue'[i] = queue'[j] => i = j
    <3> TAKE i, j \in DOMAIN queue'
    <3>2. HAVE queue'[i] = queue'[j]
    <3>3. i + 1 = j + 1
      BY <2>1, <3>2
    <3>4. i \in Nat /\ j \in Nat
      BY <1>0, SMT
    <3> QED
      BY <3>3, <3>4, SMT
  <2>5. CASE records[taken] = "none"
    <3>1. UNCHANGED <<records, pc, cur, ret, phase, born, stranded>>
      BY <1>w1, <2>5 DEF TakeJob
    <3>2. PhaseInv' /\ ThreadInv' /\ OneLiveRecordPerContent'
      BY <1>0, <1>w1, <3>1, SMT DEF TakeJob
    <3>3. JobInv'
      BY <1>0, <3>1, <2>3, <2>4
    <3>4. StatusInv'
      BY <1>0, <3>1, <2>3
    <3>5. NothingStranded'
      <4>1. \A d : InQueue(d) => d = taken \/ InQueue(d)'
        BY <2>1
      <4>2. \A d : Pending(d) => d = taken \/ Pending(d)'
        BY <3>1, <4>1
      <4> QED
        BY <3>1, <4>2, <2>5
    <3> QED
      BY <1>0, <3>2, <3>3, <3>4, <3>5
  <2>6. CASE records[taken] # "none"
    <3>1. /\ UNCHANGED <<ret, phase, born, stranded>>
          /\ records' = [records EXCEPT ![taken] = "PARSING"]
          /\ cur' = [cur EXCEPT ![Worker] = taken]
          /\ pc' = [pc EXCEPT ![Worker] = "parse"]
          /\ pc[Worker] = "idle" /\ phase # "down"
      BY <1>w1, <2>6 DEF TakeJob
    <3>2. records[taken] = "QUEUED" /\ taken \in born \ stranded
      BY <2>1, <2>6
    <3>a. /\ \A d \in Docs : records'[d] = IF d = taken THEN "PARSING" ELSE records[d]
          /\ cur'[Worker] = taken /\ cur'[Loop] = cur[Loop] /\ cur[Worker] = None
          /\ pc'[Worker] = "parse" /\ pc'[Loop] = pc[Loop]
          /\ taken # None
      BY <3>1, <2>1
    <3>3. PhaseInv' /\ ThreadInv'
      BY <1>0, <1>w1, <3>1, <2>1, SMT DEF TakeJob
    <3>4. JobInv'
      <4>1. OneJobPerDocument'
        BY <3>a, <2>2, <2>4
      <4>2. \A i \in DOMAIN queue' : queue'[i] \in born' \ stranded'
        BY <3>1, <2>3
      <4>3. cur'[Worker] \in born' \ stranded'
        BY <3>1, <3>2, <3>a
      <4>4. pc'[Loop] \in {"add", "enqueue"} =>
              /\ cur'[Loop] \in born'
              /\ cur'[Loop] # cur'[Worker]
              /\ ~InQueue(cur[Loop])'
        BY <3>1, <3>a, <2>1, <2>3
      <4> QED
        BY <4>1, <4>2, <4>3, <4>4
    <3>5. StatusInv'
      <4>1. /\ \A d \in Docs \ born' : records'[d] = "none"
            /\ \A d \in stranded' : records'[d] \in Working
        BY <3>1, <3>2, <3>a
      <4>2. \A i \in DOMAIN queue' : records'[queue'[i]] \in {"none", "QUEUED"}
        <5> SUFFICES ASSUME NEW i \in DOMAIN queue'
                     PROVE  records'[queue'[i]] \in {"none", "QUEUED"}
          OBVIOUS
        <5>1. PICK k \in DOMAIN queue : queue'[i] = queue[k]
          BY <2>3
        <5>2. queue[k] \in Docs /\ queue[k] # taken
          BY <5>1, <2>2
        <5> QED
          BY <5>1, <5>2, <3>a
      <4>3. records'[cur'[Worker]] = "PARSING" /\ ret'[Worker] # "removed"
        BY <3>1, <3>a, <2>1
      <4>4. /\ pc'[Loop] = "add" =>
                 records'[cur'[Loop]] = "none" /\ ~LiveDuplicate(cur[Loop])'
            /\ pc'[Loop] = "enqueue" => records'[cur'[Loop]] = "QUEUED"
        <5>1. pc[Loop] \in {"add", "enqueue"} => cur[Loop] \in Docs /\ cur[Loop] # taken
          BY <2>1
        <5> QED
          BY <5>1, <3>1, <3>2, <3>a
      <4> QED
        BY <4>1, <4>2, <4>3, <4>4, <3>a
    <3>6. NothingStranded'
      <4> SUFFICES ASSUME NEW d \in Docs, records'[d] \in Working, d # taken
                   PROVE  Pending(d)'
        BY <3>a
      <4>1. Pending(d) /\ d # cur[Worker]
        BY <3>a
      <4>2. InQueue(d) => InQueue(d)'
        BY <2>1
      <4> QED
        BY <4>1, <4>2, <3>1, <3>a
    <3>7. OneLiveRecordPerContent'
      <4>1. \A d \in Docs : records'[d] \notin {"none", "FAILED"} =>
                             records[d] \notin {"none", "FAILED"}
        BY <3>2, <3>a
      <4> QED
        BY <4>1
    <3> QED
      BY <1>0, <3>3, <3>4, <3>5, <3>6, <3>7
  <2> QED
    BY <2>5, <2>6
<1>w2. CASE Parsed \/ Chunked \/ Embedded
  <2>1. CASE Parsed
    BY <1>0, <2>1, SMT DEF Parsed, NextStage
  <2>2. CASE Chunked
    BY <1>0, <2>2, SMT DEF Chunked, NextStage
  <2>3. CASE Embedded
    BY <1>0, <2>3, SMT DEF Embedded, NextStage
  <2> QED
    BY <1>w2, <2>1, <2>2, <2>3
<1>w3. CASE StageFails
  BY <1>a, <1>w3 DEF StageFails
<1>w4. CASE IndexBegin
    BY <1>0, <1>w4, SMT DEF IndexBegin, Write
<1>w5. CASE AppendLoadVectors \/ ReloadVectors
  <2>1. CASE Abort(Worker)
    BY <1>a, <1>w5, <2>1 DEF AppendLoadVectors, ReloadVectors, LoadVectors
  <2>2. CASE AppendLoadVectors /\ ~Abort(Worker)
    BY <1>0, <2>2, SMT DEF AppendLoadVectors, LoadVectors
  <2>3. CASE ReloadVectors /\ ~Abort(Worker)
    BY <1>0, <2>3, SMT DEF ReloadVectors, LoadVectors
  <2> QED
    BY <1>w5, <2>1, <2>2, <2>3
<1>w6. CASE AppendRecords \/ ReloadRecords
  <2>1. CASE Abort(Worker)
    BY <1>a, <1>w6, <2>1 DEF AppendRecords, ReloadRecords
  <2>2. CASE AppendRecords /\ ~Abort(Worker)
    BY <1>0, <2>2, SMT DEF AppendRecords, Write
  <2>3. CASE ReloadRecords /\ ~Abort(Worker)
    BY <1>0, <2>3, SMT DEF ReloadRecords, Write
  <2> QED
    BY <1>w6, <2>1, <2>2, <2>3
<1>w7. CASE CheckRecord 
    BY <1>0, <1>w7, SMT DEF CheckRecord
<1>w8. CASE MarkReady
    BY <1>0, <1>w8, SMT DEF MarkReady
<1>w9. CASE DiscardUpload
    BY <1>0, <1>w9, SMT DEF DiscardUpload
<1>u. CASE UNCHANGED vars
  BY <1>0, <1>u, SMT DEF vars
<1> HIDE DEF ControlInv
<1> QED
  BY <1>s1, <1>s2, <1>r1, <1>r2, <1>f1, <1>f2, <1>f3, <1>f4, <1>f5, <1>f6, <1>f7,
     <1>c, <1>l1, <1>l2, <1>l3, <1>w1, <1>w2, <1>w3, <1>w4, <1>w5, <1>w6, <1>w7,
     <1>w8, <1>w9, <1>u
  DEF Next, Startup, Request, Respond, Work, Fault, FileStep
\* With the in-process queue, no document ever has two owners and its status is
\* the stage of the one that has it, through deletions, failures and restarts.
THEOREM ControlCorrect ==
  ASSUME ~DurableQueue
  PROVE  Spec => []ControlInv
<1>1. Init => ControlInv
  BY ControlInit
<1>2. ControlInv /\ [Next]_vars => ControlInv'
  BY ControlStep
<1> QED
  BY <1>1, <1>2, PTL DEF Spec

\* No document is left between stages with nothing coming to move it.
THEOREM NothingStrandedAlways ==
  ASSUME ~DurableQueue
  PROVE  Spec => []NothingStranded
<1>1. ControlInv => NothingStranded
  BY DEF ControlInv
<1> QED
  BY <1>1, ControlCorrect, PTL

\* The same bytes are never live twice.
THEOREM OneLiveRecordAlways ==
  ASSUME ~DurableQueue
  PROVE  Spec => []OneLiveRecordPerContent
<1>1. ControlInv => OneLiveRecordPerContent
  BY DEF ControlInv
<1> QED
  BY <1>1, ControlCorrect, PTL

\* No document is queued twice or queued while the worker has it.
THEOREM OneJobAlways ==
  ASSUME ~DurableQueue
  PROVE  Spec => []OneJobPerDocument
<1>1. ControlInv => OneJobPerDocument
  BY DEF ControlInv, JobInv
<1> QED
  BY <1>1, ControlCorrect, PTL

-----------------------------------------------------------------------------
\* Which statuses a step writes, and over which.
StatusStep ==
  \A d \in Docs :
    \/ records'[d] = records[d]
    \/ records[d] = "none" /\ pc[Loop] = "add" /\ records'[d] = "QUEUED"
    \/ records'[d] = "none"
    \/ records[d] \in Working /\ records'[d] = "FAILED"
    \/ records[d] \in Working /\ records'[d] = "QUEUED" /\ phase = "requeue"
    \/ <<records[d], records'[d]>> \in
         {<<"QUEUED", "PARSING">>, <<"PARSING", "CHUNKING">>,
          <<"CHUNKING", "EMBEDDING">>, <<"EMBEDDING", "INDEXING">>,
          <<"INDEXING", "READY">>}

LEMMA StatusStepHolds ==
  ASSUME ControlInv, [Next]_vars PROVE StatusStep
<1> USE DocsAssumption DEF ControlInv, ThreadInv, StatusInv, ControlTypeOK,
     Threads, Worker, Loop, RemoveLabels, WriteLabels, SetStatus, StageAt, Working, StatusStep
<1>1. ASSUME NEW t \in Threads, Abort(t),
             t = Worker => pc[t] # "idle"
      PROVE  StatusStep
  BY <1>1, SMTT(30) DEF Abort
<1>2. ASSUME UNCHANGED records PROVE StatusStep
  BY <1>2
<1>3. ASSUME NEW d \in Docs, Requeue(d) PROVE StatusStep
  BY <1>3 DEF Requeue
<1>4. CASE UploadAdd
  BY <1>4 DEF UploadAdd
<1>5. CASE DeleteRecord
  BY <1>5 DEF DeleteRecord
<1>6. CASE TakeJob
  <2>1. queue \in Seq(Docs) /\ queue # <<>>
    BY <1>6 DEF TakeJob
  <2>2. Head(queue) \in Docs /\ records[Head(queue)] \in {"none", "QUEUED"}
    BY <2>1, QueueTaken
  <2> QED
    BY <1>6, <2>2 DEF TakeJob
<1>7. CASE Parsed \/ Chunked \/ Embedded
  BY <1>7, SMTT(30) DEF Parsed, Chunked, Embedded, NextStage
<1>8. CASE MarkReady
  BY <1>8 DEF MarkReady
<1> HIDE DEF ControlInv, StatusStep
<1>9. ASSUME NEW t \in Threads, FileStep(t) PROVE StatusStep
  <2>1. CASE Abort(t) /\ pc[t] \in {"removeRecs", "removeVecs"}
    BY <1>1, <2>1
  <2>2. CASE UNCHANGED records
    BY <1>2, <2>2
  <2> QED
    BY <1>9, <2>1, <2>2 DEF FileStep, RemoveBegin, RemoveReadRecords, RemoveReadVectors,
       Truncate, Fill, Unlink
<1>10. ASSUME NEW t \in Threads, WriteFails(t) PROVE StatusStep
  BY <1>1, <1>10 DEF WriteFails
<1>11. CASE StageFails
  BY <1>1, <1>11 DEF StageFails, Threads
<1>12. CASE AppendLoadVectors \/ ReloadVectors \/ AppendRecords \/ ReloadRecords
  <2>1. CASE Abort(Worker) /\ pc[Worker] # "idle"
    BY <1>1, <2>1 DEF Threads
  <2>2. CASE UNCHANGED records
    BY <1>2, <2>2
  <2> QED
    BY <1>12, <2>1, <2>2 DEF AppendLoadVectors, ReloadVectors, LoadVectors,
       AppendRecords, ReloadRecords
<1>13. CASE StartWorker \/ ScanUnfinished \/ Serve \/ Crash \/ UploadEnqueue
            \/ IndexBegin \/ CheckRecord \/ DiscardUpload \/ UNCHANGED vars
  BY <1>2, <1>13 DEF StartWorker, ScanUnfinished, Serve, Crash, UploadEnqueue,
     IndexBegin, CheckRecord, DiscardUpload, vars
<1>14. CASE Request
  BY <1>2, <1>14 DEF Request, UploadStore, DeleteStart
<1> QED
  BY <1>3, <1>4, <1>5, <1>6, <1>7, <1>8, <1>9, <1>10, <1>11, <1>12, <1>13, <1>14
  DEF Next, Startup, Respond, Work, Fault, Threads

\* READY and FAILED are final and a deleted record never comes back.
THEOREM TerminalAlwaysFinal ==
  ASSUME ~DurableQueue
  PROVE  Spec => TerminalIsFinal
<1>1. ControlInv /\ [Next]_vars =>
        [\A d \in Docs :
           /\ records[d] \in Terminal => records'[d] \in {records[d], "none"}
           /\ records[d] = "none" /\ d \in born /\ pc[Loop] # "add"
                => records'[d] = "none"]_vars
  BY StatusStepHolds DEF StatusStep, Terminal, Working
<1> QED
  BY <1>1, ControlCorrect, PTL DEF Spec, TerminalIsFinal

LEMMA Ranks ==
  /\ Rank("QUEUED") = 1 /\ Rank("PARSING") = 2 /\ Rank("CHUNKING") = 3
  /\ Rank("EMBEDDING") = 4 /\ Rank("INDEXING") = 5 /\ Rank("READY") = 6
<1>1. DOMAIN Stages = 1 .. 6
  BY DEF Stages
<1>2. \A i \in 1 .. 6 : \/ i = 1 /\ Stages[i] = "QUEUED"
                        \/ i = 2 /\ Stages[i] = "PARSING"
                        \/ i = 3 /\ Stages[i] = "CHUNKING"
                        \/ i = 4 /\ Stages[i] = "EMBEDDING"
                        \/ i = 5 /\ Stages[i] = "INDEXING"
                        \/ i = 6 /\ Stages[i] = "READY"
  BY SMT DEF Stages
<1>3. /\ 1 \in 1 .. 6 /\ 2 \in 1 .. 6 /\ 3 \in 1 .. 6
      /\ 4 \in 1 .. 6 /\ 5 \in 1 .. 6 /\ 6 \in 1 .. 6
  BY SMT
<1> QED
  BY <1>1, <1>2, <1>3, SMTT(30) DEF Rank

\* A status advances one stage at a time, fails, is deleted, or is reset at startup.
THEOREM StagesAlwaysInOrder ==
  ASSUME ~DurableQueue
  PROVE  Spec => StagesInOrder
<1>1. ControlInv /\ [Next]_vars =>
        [\A d \in Docs :
           records[d] \in Working /\ records'[d] # records[d] =>
             \/ records'[d] \in {"FAILED", "none"}
             \/ records'[d] = "QUEUED" /\ phase = "requeue"
             \/ Rank(records'[d]) = Rank(records[d]) + 1]_vars
  <2> SUFFICES ASSUME ControlInv, [Next]_vars, NEW d \in Docs,
                      records[d] \in Working, records'[d] # records[d]
               PROVE  \/ records'[d] \in {"FAILED", "none"}
                      \/ records'[d] = "QUEUED" /\ phase = "requeue"
                      \/ Rank(records'[d]) = Rank(records[d]) + 1
    OBVIOUS
  <2>1. \/ records'[d] \in {"FAILED", "none"}
        \/ records'[d] = "QUEUED" /\ phase = "requeue"
        \/ <<records[d], records'[d]>> \in
             {<<"QUEUED", "PARSING">>, <<"PARSING", "CHUNKING">>,
              <<"CHUNKING", "EMBEDDING">>, <<"EMBEDDING", "INDEXING">>,
              <<"INDEXING", "READY">>}
    BY StatusStepHolds DEF StatusStep, Working
  <2> QED
    BY <2>1, Ranks, SMT
<1> QED
  BY <1>1, ControlCorrect, PTL DEF Spec, StagesInOrder

-----------------------------------------------------------------------------
(* The rows that stay when a document is removed.                          *)

\* The place of a number among those of a finite set counts them one by one.
LEMMA Counting ==
  ASSUME NEW K \in SUBSET Nat, IsFiniteSet(K)
  PROVE  /\ Cardinality(K) \in Nat
         /\ \A k \in 1 .. Cardinality(K) :
              \E i \in K : Cardinality({j \in K : j <= i}) = k
         /\ \A i \in K : Cardinality({j \in K : j <= i}) \in 1 .. Cardinality(K)
<1> DEFINE Before(i) == {j \in K : j <= i}
           Place == [i \in K |-> Cardinality(Before(i))]
           n == Cardinality(K)
<1>0. \A i \in K : i \in Nat
  OBVIOUS
<1>1. n \in Nat
  BY FS_CardinalityType
<1>2. ASSUME NEW i \in K
      PROVE  IsFiniteSet(Before(i)) /\ Cardinality(Before(i)) \in 1 .. n
  <2>1. Before(i) \in SUBSET K /\ i \in Before(i)
    OBVIOUS
  <2> HIDE DEF Before
  <2>2. IsFiniteSet(Before(i)) /\ Cardinality(Before(i)) <= n
    BY <2>1, FS_Subset
  <2>3. Cardinality(Before(i)) \in Nat /\ Cardinality(Before(i)) # 0
    BY <2>1, <2>2, FS_CardinalityType, FS_EmptySet
  <2> QED BY <1>1, <2>2, <2>3
<1>3. ASSUME NEW i \in K, NEW j \in K, i < j
      PROVE  Cardinality(Before(i)) # Cardinality(Before(j))
  <2>1. Before(i) \in SUBSET Before(j) /\ j \in Before(j) /\ j \notin Before(i)
    <3>1. \A e \in K : e <= i => e <= j
      BY <1>0, <1>3
    <3>2. j <= j /\ ~(j <= i)
      BY <1>0, <1>3
    <3> QED BY <3>1, <3>2
  <2> HIDE DEF Before
  <2> QED BY <1>2, <2>1, FS_Subset
<1>4. Place \in Injection(K, 1 .. n)
  <2>1. Place \in [K -> 1 .. n]
    BY <1>2
  <2>2. ASSUME NEW i \in K, NEW j \in K, Place[i] = Place[j]
        PROVE  i = j
    <3>1. ~(i < j) /\ ~(j < i)
      BY <1>3, <2>2
    <3> QED BY <1>0, <3>1
  <2> HIDE DEF Place, n
  <2> QED BY <2>1, <2>2 DEF Injection, IsInjective
<1>5. IsFiniteSet(1 .. n) /\ Cardinality(1 .. n) = n
  BY <1>1, FS_Interval
<1>6. Place \in Surjection(K, 1 .. n)
  <2> HIDE DEF Place, n
  <2> QED BY <1>4, <1>5, FS_Injection DEF n
<1> QED BY <1>1, <1>2, <1>6 DEF Surjection

LEMMA KeepPositions ==
  ASSUME NEW S, NEW rows \in Seq(S), NEW d
  PROVE  /\ \E n \in Nat : DOMAIN Keep(rows, d) = 1 .. n
         /\ \A k \in DOMAIN Keep(rows, d) :
              Keep(rows, d)[k] \in DOMAIN rows /\ rows[Keep(rows, d)[k]] # d
         /\ \A k, m \in DOMAIN Keep(rows, d) :
              Keep(rows, d)[k] = Keep(rows, d)[m] => k = m
         /\ {Keep(rows, d)[k] : k \in DOMAIN Keep(rows, d)} =
              {i \in DOMAIN rows : rows[i] # d}
<1> DEFINE stay == {i \in DOMAIN rows : rows[i] # d}
           Count(i) == Cardinality({j \in stay : j <= i})
           keep == Keep(rows, d)
<1>1. /\ stay \in SUBSET Nat /\ \A i \in stay : i \in Nat
      /\ stay \in SUBSET (1 .. Len(rows)) /\ Len(rows) \in Nat
  OBVIOUS
<1>2. IsFiniteSet(stay)
  <2>1. IsFiniteSet(1 .. Len(rows))
    BY <1>1, FS_Interval
  <2> HIDE DEF stay
  <2> QED BY <1>1, <2>1, FS_Subset
<1>3. keep = [k \in 1 .. Cardinality(stay) |-> CHOOSE i \in stay : Count(i) = k]
  BY DEF Keep
<1> HIDE DEF stay, keep
<1>4. /\ Cardinality(stay) \in Nat
      /\ \A k \in 1 .. Cardinality(stay) : \E i \in stay : Count(i) = k
      /\ \A i \in stay : Count(i) \in 1 .. Cardinality(stay)
  BY <1>1, <1>2, Counting
<1> HIDE DEF Count
<1>5. \A k \in 1 .. Cardinality(stay) : keep[k] \in stay /\ Count(keep[k]) = k
  BY <1>3, <1>4
<1>6. ASSUME NEW i \in stay, NEW j \in stay, Count(i) = Count(j)
      PROVE  i = j
  <2>1. ASSUME NEW a \in stay, NEW b \in stay, a < b
        PROVE  Count(a) # Count(b)
    <3> DEFINE Upto(c) == {e \in stay : e <= c}
    <3>1. Upto(a) \in SUBSET Upto(b) /\ b \in Upto(b) /\ b \notin Upto(a)
      <4>1. \A e \in stay : e <= a => e <= b
        BY <1>1, <2>1
      <4>2. b <= b /\ ~(b <= a)
        BY <1>1, <2>1
      <4> QED BY <4>1, <4>2
    <3>2. Upto(b) \in SUBSET stay
      OBVIOUS
    <3>3. IsFiniteSet(Upto(b))
      <4> HIDE DEF Upto
      <4> QED BY <1>2, <3>2, FS_Subset
    <3>4. Cardinality(Upto(a)) # Cardinality(Upto(b))
      <4> HIDE DEF Upto
      <4> QED BY <3>1, <3>3, FS_Subset
    <3> QED BY <3>4 DEF Count
  <2>2. i \in Nat /\ j \in Nat
    BY <1>1
  <2>3. i < j \/ j < i \/ i = j
    BY <2>2
  <2> QED BY <1>6, <2>1, <2>3
<1>7. \A i \in stay : keep[Count(i)] = i
  BY <1>4, <1>5, <1>6
<1>8. DOMAIN keep = 1 .. Cardinality(stay)
  BY <1>3
<1>9. \A k, m \in DOMAIN keep : keep[k] = keep[m] => k = m
  BY <1>5, <1>8
<1>10. \A i \in stay : \E k \in DOMAIN keep : keep[k] = i
  BY <1>4, <1>7, <1>8
<1>11. {keep[k] : k \in DOMAIN keep} = stay
  BY <1>5, <1>8, <1>10
<1>12. \A i : i \in stay <=> i \in DOMAIN rows /\ rows[i] # d
  BY DEF stay
<1> QED BY <1>4, <1>5, <1>8, <1>9, <1>11, <1>12 DEF keep, stay

\* Removing a document keeps the other rows and nothing else.
LEMMA KeptFacts ==
  ASSUME NEW S, NEW rows \in Seq(S), NEW d
  PROVE  /\ KeptRows(rows, d) \in Seq(S)
         /\ DocsOf(KeptRows(rows, d)) = DocsOf(rows) \ {d}
         /\ Distinct(rows) => Distinct(KeptRows(rows, d))
         /\ \A vecs : vecs = rows => KeptVectors(rows, vecs, d) = KeptRows(rows, d)
<1> DEFINE keep == Keep(rows, d)
           kept == KeptRows(rows, d)
<1>1. PICK n \in Nat : DOMAIN keep = 1 .. n
  BY KeepPositions
<1>2. /\ \A k \in DOMAIN keep : keep[k] \in DOMAIN rows /\ rows[keep[k]] # d
      /\ \A k, m \in DOMAIN keep : keep[k] = keep[m] => k = m
      /\ \A i \in DOMAIN rows :
           rows[i] # d => \E k \in DOMAIN keep : keep[k] = i
  <2>1. \A k \in DOMAIN keep : keep[k] \in DOMAIN rows /\ rows[keep[k]] # d
    BY KeepPositions
  <2>2. \A k, m \in DOMAIN keep : keep[k] = keep[m] => k = m
    BY KeepPositions
  <2>3. {keep[k] : k \in DOMAIN keep} = {i \in DOMAIN rows : rows[i] # d}
    BY KeepPositions
  <2> QED BY <2>1, <2>2, <2>3
<1>3. kept = [k \in DOMAIN keep |-> rows[keep[k]]]
  BY DEF KeptRows
<1> HIDE DEF keep, kept
<1>4. \A i \in DOMAIN rows : rows[i] \in S
  OBVIOUS
<1>5. kept \in Seq(S)
  BY <1>1, <1>2, <1>3, <1>4
<1>6. DocsOf(kept) = DocsOf(rows) \ {d}
  BY <1>2, <1>3 DEF DocsOf
<1>7. Distinct(rows) => Distinct(kept)
  BY <1>2, <1>3 DEF Distinct
<1>8. \A vecs : vecs = rows => KeptVectors(rows, vecs, d) = kept
  BY <1>3 DEF KeptVectors, keep
<1> QED BY <1>5, <1>6, <1>7, <1>8 DEF kept

\* The vectors kept of as many vectors as rows are vectors.
LEMMA KeptVectorsType ==
  ASSUME NEW S, NEW rows \in Seq(S), NEW vecs \in Seq(S),
         Len(rows) = Len(vecs), NEW d
  PROVE  KeptVectors(rows, vecs, d) \in Seq(S)
<1> DEFINE keep == Keep(rows, d)
           kept == KeptVectors(rows, vecs, d)
<1>1. PICK n \in Nat : DOMAIN keep = 1 .. n
  BY KeepPositions
<1>2. \A k \in DOMAIN keep : keep[k] \in DOMAIN rows
  BY KeepPositions
<1>3. kept = [k \in DOMAIN keep |-> vecs[keep[k]]]
  BY DEF KeptVectors
<1> HIDE DEF keep, kept
<1>4. DOMAIN rows = DOMAIN vecs /\ \A i \in DOMAIN vecs : vecs[i] \in S
  OBVIOUS
<1>5. kept \in Seq(S)
  BY <1>1, <1>2, <1>3, <1>4, SMTT(40)
<1> QED BY <1>5 DEF kept

-----------------------------------------------------------------------------
(* Types of the files and of the threads' memory.                          *)

PutType == [file : Files, data : {None} \cup Seq(Docs)]
MemType == [vecs : Seq(Docs), recs : Seq(Docs), plan : Seq(PutType)]

\* What TypeOK needs to be inductive: a thread that runs has a document, and
\* one that writes has something to write.
DataInv ==
  /\ disk \in [Files -> {None, Torn} \cup Seq(Docs)]
  /\ mem \in [Threads -> MemType]
  /\ \A t \in Threads : pc[t] \in WriteLabels => mem[t].plan # <<>>
  /\ \A t \in Threads : pc[t] # "idle" => cur[t] \in Docs

LEMMA MemUpdates ==
  ASSUME mem \in [Threads -> MemType], NEW t \in Threads,
         NEW rows \in Seq(Docs), NEW plan \in Seq(PutType)
  PROVE  /\ [mem EXCEPT ![t].vecs = rows] \in [Threads -> MemType]
         /\ [mem EXCEPT ![t].recs = rows] \in [Threads -> MemType]
         /\ [mem EXCEPT ![t].plan = plan] \in [Threads -> MemType]
         /\ [mem EXCEPT ![t].recs = rows, ![t].plan = plan]
              \in [Threads -> MemType]
         /\ [mem EXCEPT ![t] = EmptyMem] \in [Threads -> MemType]
<1>1. \A u \in Threads : mem[u] \in MemType
  OBVIOUS
<1>2. EmptyMem \in MemType
  BY DEF EmptyMem, MemType
<1>3. \A m \in MemType :
        /\ [m EXCEPT !.vecs = rows] \in MemType
        /\ [m EXCEPT !.recs = rows] \in MemType
        /\ [m EXCEPT !.plan = plan] \in MemType
        /\ [[m EXCEPT !.recs = rows] EXCEPT !.plan = plan] \in MemType
  BY DEF MemType
<1>4. \A m \in MemType : [mem EXCEPT ![t] = m] \in [Threads -> MemType]
  OBVIOUS
<1> QED BY <1>1, <1>2, <1>3, <1>4

LEMMA EmptyType == EmptyMem \in MemType
  BY DEF EmptyMem, MemType

LEMMA DataInit == Init => DataInv
<1> SUFFICES ASSUME Init PROVE DataInv
  OBVIOUS
<1>1. mem \in [Threads -> MemType]
  BY EmptyType DEF Init
<1> QED BY <1>1 DEF Init, DataInv, WriteLabels

\* A thread that comes to rest, successfully or not, forgets what it had.
LEMMA RestKeepsData ==
  ASSUME ControlTypeOK, DataInv, NEW t \in Threads, Rest(t), UNCHANGED disk
  PROVE  DataInv'
<1>1. mem' = [mem EXCEPT ![t] = EmptyMem] /\ mem' \in [Threads -> MemType]
  BY EmptyType DEF Rest, DataInv
<1>2. /\ pc' = [pc EXCEPT ![t] = "idle"] /\ cur' = [cur EXCEPT ![t] = None]
      /\ pc \in [Threads -> Labels] /\ cur \in [Threads -> Docs \cup {None}]
  BY DEF Rest, Goto, ControlTypeOK
<1>3. ASSUME NEW u \in Threads
      PROVE  /\ pc'[u] \in WriteLabels => mem'[u].plan # <<>>
             /\ pc'[u] # "idle" => cur'[u] \in Docs
  <2>1. CASE u = t
    BY <1>2, <2>1 DEF WriteLabels
  <2>2. CASE u # t
    BY <1>1, <1>2, <2>2 DEF DataInv
  <2> QED BY <2>1, <2>2
<1> QED BY <1>1, <1>3 DEF DataInv

\* A thread starts to write.
LEMMA WriteKeepsData ==
  ASSUME ControlTypeOK, DataInv, NEW t \in Threads, pc[t] # "idle",
         NEW rows \in Seq(Docs), NEW plan \in Seq(PutType), plan # <<>>,
         NEW label, Write(t, rows, plan, label), UNCHANGED <<disk, cur>>
  PROVE  DataInv'
<1>1. /\ mem' = [mem EXCEPT ![t].recs = rows, ![t].plan = plan]
      /\ mem' \in [Threads -> MemType]
  BY MemUpdates DEF Write, DataInv
<1>2. pc' = [pc EXCEPT ![t] = "write"] /\ pc \in [Threads -> Labels]
  BY DEF Write, Goto, ControlTypeOK
<1>3. ASSUME NEW u \in Threads
      PROVE  /\ pc'[u] \in WriteLabels => mem'[u].plan # <<>>
             /\ pc'[u] # "idle" => cur'[u] \in Docs
  <2>1. CASE u = t
    BY <1>1, <1>2, <2>1 DEF DataInv, MemType
  <2>2. CASE u # t
    BY <1>1, <1>2, <2>2 DEF DataInv
  <2> QED BY <2>1, <2>2
<1> QED BY <1>1, <1>3 DEF DataInv

\* A thread moves on and nothing is written.
LEMMA MoveKeepsData ==
  ASSUME DataInv, UNCHANGED <<disk, mem>>,
         \A t \in Threads : /\ pc'[t] \in WriteLabels => pc[t] \in WriteLabels
                            /\ pc'[t] # "idle" => cur'[t] \in Docs
  PROVE  DataInv'
  BY DEF DataInv

\* A thread reads on.
LEMMA ReadKeepsData ==
  ASSUME ControlTypeOK, DataInv, NEW t \in Threads, NEW label,
         label \notin WriteLabels, Goto(t, label), UNCHANGED <<disk, cur>>,
         pc[t] # "idle", NEW rows \in Seq(Docs),
         \/ mem' = [mem EXCEPT ![t].recs = rows]
         \/ mem' = [mem EXCEPT ![t].vecs = rows]
  PROVE  DataInv'
<1>1. mem' \in [Threads -> MemType]
  <2>1. <<>> \in Seq(PutType) /\ mem \in [Threads -> MemType]
    BY DEF DataInv
  <2>2. /\ [mem EXCEPT ![t].recs = rows] \in [Threads -> MemType]
        /\ [mem EXCEPT ![t].vecs = rows] \in [Threads -> MemType]
    BY <2>1, MemUpdates
  <2> QED BY <2>2
<1>2. pc' = [pc EXCEPT ![t] = label] /\ pc \in [Threads -> Labels]
  BY DEF Goto, ControlTypeOK
<1>3. ASSUME NEW u \in Threads
      PROVE  /\ pc'[u] \in WriteLabels => mem'[u].plan # <<>>
             /\ pc'[u] # "idle" => cur'[u] \in Docs
  <2>1. CASE u = t
    BY <1>2, <2>1 DEF DataInv
  <2>2. CASE u # t
    BY <1>2, <2>2 DEF DataInv
  <2> QED BY <2>1, <2>2
<1> QED BY <1>1, <1>3 DEF DataInv

\* A step of a plan.
LEMMA PlanStepKeepsData ==
  ASSUME ControlTypeOK, DataInv, NEW t \in Threads, pc[t] \in WriteLabels,
         Advance(t), UNCHANGED cur,
         disk' \in [Files -> {None, Torn} \cup Seq(Docs)]
  PROVE  DataInv'
<1> DEFINE plan == mem[t].plan
<1>1. plan \in Seq(PutType) /\ plan # <<>>
  BY DEF DataInv, MemType
<1>2. /\ mem' = [mem EXCEPT ![t].plan = Tail(plan)]
      /\ pc' = [pc EXCEPT ![t] = IF Len(plan) = 1 THEN ret[t] ELSE "write"]
      /\ pc \in [Threads -> Labels] /\ ret[t] \in ReturnLabels
  BY DEF Advance, Goto, ControlTypeOK
<1> HIDE DEF plan
<1>3. Tail(plan) \in Seq(PutType) /\ (Len(plan) # 1 => Tail(plan) # <<>>)
  <2>1. Len(plan) \in Nat /\ Len(plan) # 0 /\ Tail(plan) \in Seq(PutType)
    BY <1>1
  <2>2. Len(Tail(plan)) = Len(plan) - 1
    BY <1>1
  <2>3. \A q \in Seq(PutType) : Len(q) # 0 => q # <<>>
    OBVIOUS
  <2>4. Len(plan) # 1 => Len(Tail(plan)) # 0
    BY <2>1, <2>2
  <2> HIDE DEF plan
  <2> QED BY <2>1, <2>3, <2>4
<1>4. mem' \in [Threads -> MemType]
  <2>1. <<>> \in Seq(Docs) /\ mem \in [Threads -> MemType]
    BY DEF DataInv
  <2>2. ASSUME NEW rest \in Seq(PutType)
        PROVE  [mem EXCEPT ![t].plan = rest] \in [Threads -> MemType]
    BY <2>1, MemUpdates
  <2> QED BY <1>2, <1>3, <2>2
<1>5. ASSUME NEW u \in Threads
      PROVE  /\ pc'[u] \in WriteLabels => mem'[u].plan # <<>>
             /\ pc'[u] # "idle" => cur'[u] \in Docs
  <2>1. CASE u = t
    <3>1. mem'[t].plan = Tail(plan)
      BY <1>2 DEF DataInv, MemType
    <3>2. pc[t] # "idle" /\ cur[t] \in Docs
      BY DEF WriteLabels, DataInv
    <3> QED
      BY <1>2, <1>3, <2>1, <3>1, <3>2 DEF ReturnLabels, WriteLabels
  <2>2. CASE u # t
    BY <1>2, <2>2 DEF DataInv
  <2> QED BY <2>1, <2>2
<1> QED BY <1>4, <1>5 DEF DataInv

LEMMA FileStepKeepsData ==
  ASSUME ControlTypeOK, DataInv, NEW t \in Threads, FileStep(t)
  PROVE  DataInv'
<1>p. pc \in [Threads -> Labels]
  BY DEF ControlTypeOK
<1>1. CASE RemoveBegin(t)
  <2>1. /\ \E label \in {"removeRecs", "removed"} : pc' = [pc EXCEPT ![t] = label]
        /\ pc[t] # "idle" /\ UNCHANGED <<disk, mem, cur>>
    BY <1>1 DEF RemoveBegin, Goto
  <2> QED BY <1>p, <2>1, MoveKeepsData DEF DataInv, WriteLabels
<1>2. CASE RemoveReadRecords(t)
  <2>1. CASE Readable("metadata")
    <3>1. disk["metadata"] \in Seq(Docs)
      BY <2>1 DEF Readable, DataInv, Files
    <3>2. /\ mem' = [mem EXCEPT ![t].recs = disk["metadata"]]
          /\ Goto(t, "removeVecs") /\ pc[t] # "idle" /\ UNCHANGED <<disk, cur>>
      BY <1>2, <2>1 DEF RemoveReadRecords
    <3> QED BY <3>1, <3>2, ReadKeepsData DEF WriteLabels
  <2>2. CASE ~Readable("metadata")
    BY <1>2, <2>2, RestKeepsData DEF RemoveReadRecords, Abort
  <2> QED BY <2>1, <2>2
<1>3. CASE RemoveReadVectors(t)
  <2> DEFINE rows == mem[t].recs
             vecs == disk["vectors"]
             plan == RemovalPlan(rows, vecs, cur[t])
  <2>1. CASE Readable("vectors") /\ Len(rows) = Len(vecs)
    <3>1. vecs \in Seq(Docs)
      BY <2>1 DEF Readable, DataInv, Files
    <3>2. rows \in Seq(Docs)
      BY DEF DataInv, MemType
    <3>3. CASE KeptRows(rows, cur[t]) = rows
      <4>1. Goto(t, "removed") /\ pc[t] # "idle" /\ UNCHANGED <<disk, mem, cur>>
        BY <1>3, <2>1, <3>3 DEF RemoveReadVectors
      <4> QED BY <1>p, <4>1, MoveKeepsData DEF DataInv, WriteLabels, Goto
    <3>4. CASE KeptRows(rows, cur[t]) # rows
      <4>1. Write(t, rows, plan, "removed") /\ pc[t] # "idle" /\ UNCHANGED <<disk, cur>>
        BY <1>3, <2>1, <3>4 DEF RemoveReadVectors
      <4>2. plan \in Seq(PutType) /\ plan # <<>>
        <5>1. KeptRows(rows, cur[t]) \in Seq(Docs)
          BY <3>2, KeptFacts
        <5>2. KeptVectors(rows, vecs, cur[t]) \in Seq(Docs)
          BY <2>1, <3>1, <3>2, KeptVectorsType
        <5>3. \A f \in Files : \A data \in {None} \cup Seq(Docs) :
                Put(f, data) \in PutType
          BY DEF Put, PutType
        <5>4. "vectors" \in Files /\ "metadata" \in Files /\ "faiss" \in Files
          BY DEF Files
        <5>5. \A a, b, c \in PutType :
                <<a, b, c>> \in Seq(PutType) /\ <<a, b, c>> # <<>>
          OBVIOUS
        <5> HIDE DEF rows, vecs
        <5> QED BY <5>1, <5>2, <5>3, <5>4, <5>5 DEF plan, RemovalPlan
      <4> HIDE DEF plan, rows
      <4> QED BY <3>2, <4>1, <4>2, WriteKeepsData
    <3> QED BY <3>3, <3>4
  <2>2. CASE ~(Readable("vectors") /\ Len(rows) = Len(vecs))
    BY <1>3, <2>2, RestKeepsData DEF RemoveReadVectors, Abort
  <2> QED BY <2>1, <2>2
<1>4. CASE Truncate(t)
  <2>1. /\ pc' = [pc EXCEPT ![t] = "fill"] /\ pc[t] \in WriteLabels
        /\ UNCHANGED <<mem, cur>>
        /\ disk' = [disk EXCEPT ![Head(mem[t].plan).file] = Torn]
    BY <1>4 DEF Truncate, Goto, WriteLabels
  <2>2. disk' \in [Files -> {None, Torn} \cup Seq(Docs)]
    BY <2>1 DEF DataInv
  <2> QED BY <1>p, <2>1, <2>2 DEF DataInv, WriteLabels
<1>5. CASE Fill(t) \/ Unlink(t)
  <2>1. pc[t] \in WriteLabels /\ Advance(t) /\ UNCHANGED cur
    BY <1>5 DEF Fill, Unlink, WriteLabels
  <2>2. Head(mem[t].plan).data \in {None} \cup Seq(Docs)
    <3>1. mem[t].plan \in Seq(PutType) /\ mem[t].plan # <<>>
      BY <2>1 DEF DataInv, MemType
    <3>2. Head(mem[t].plan) \in PutType
      BY <3>1
    <3> QED BY <3>2 DEF PutType
  <2>3. disk' \in [Files -> {None, Torn} \cup Seq(Docs)]
    <3>1. \E content \in {None, Torn, Head(mem[t].plan).data} :
             disk' = [disk EXCEPT ![Head(mem[t].plan).file] = content]
      BY <1>5 DEF Fill, Unlink, Filled
    <3> QED BY <2>2, <3>1 DEF DataInv
  <2> QED BY <2>1, <2>3, PlanStepKeepsData
<1> QED BY <1>1, <1>2, <1>3, <1>4, <1>5 DEF FileStep

LEMMA DataStep ==
  ASSUME ControlTypeOK, DataInv, [Next]_vars
  PROVE  DataInv'
<1>p. /\ pc \in [Threads -> Labels] /\ cur \in [Threads -> Docs \cup {None}]
      /\ Worker \in Threads /\ Loop \in Threads /\ Worker # Loop
  BY DEF ControlTypeOK, Threads, Worker, Loop
<1>1. CASE Startup
  BY <1>1, MoveKeepsData
  DEF Startup, StartWorker, ScanUnfinished, Requeue, Serve, DataInv
<1>2. CASE Request
  BY <1>2, <1>p, MoveKeepsData
  DEF Request, UploadStore, DeleteStart, Goto, DataInv, WriteLabels
<1>3. CASE UploadAdd \/ CheckRecord \/ Parsed \/ Chunked \/ Embedded
  BY <1>3, <1>p, MoveKeepsData
  DEF UploadAdd, CheckRecord, Parsed, Chunked, Embedded, NextStage, Goto,
      DataInv, WriteLabels
<1>4. CASE UploadEnqueue \/ DeleteRecord \/ MarkReady \/ DiscardUpload \/ StageFails
  BY <1>4, <1>p, RestKeepsData
  DEF UploadEnqueue, DeleteRecord, MarkReady, DiscardUpload, StageFails, Abort
<1>5. CASE TakeJob
  <2>1. Head(queue) \in Docs
    BY <1>5, QueueTaken DEF TakeJob, ControlTypeOK
  <2> QED BY <1>5, <1>p, <2>1, MoveKeepsData DEF TakeJob, Goto, DataInv, WriteLabels
<1>6. ASSUME NEW from, NEW to, LoadVectors(from, to), from # "idle",
             to \notin WriteLabels
      PROVE  DataInv'
  <2>1. CASE Readable("vectors") /\ Present("metadata")
    <3>1. disk["vectors"] \in Seq(Docs)
      BY <2>1 DEF Readable, DataInv, Files
    <3>2. /\ mem' = [mem EXCEPT ![Worker].vecs = disk["vectors"]]
          /\ Goto(Worker, to) /\ pc[Worker] # "idle" /\ UNCHANGED <<disk, cur>>
      BY <1>6, <2>1 DEF LoadVectors
    <3> QED BY <1>6, <1>p, <3>1, <3>2, ReadKeepsData
  <2>2. CASE ~(Readable("vectors") /\ Present("metadata"))
    BY <1>6, <1>p, <2>2, RestKeepsData DEF LoadVectors, Abort
  <2> QED BY <2>1, <2>2
<1>7. CASE AppendLoadVectors \/ ReloadVectors
  BY <1>6, <1>7 DEF AppendLoadVectors, ReloadVectors, WriteLabels
<1>8. CASE IndexBegin
  <2>1. CASE Present("vectors") /\ Present("metadata")
    BY <1>8, <1>p, <2>1, MoveKeepsData DEF IndexBegin, Goto, DataInv, WriteLabels
  <2>2. CASE ~(Present("vectors") /\ Present("metadata"))
    <3> DEFINE rows == <<cur[Worker]>>
               plan == <<Put("vectors", rows), Put("metadata", rows)>>
    <3>1. Write(Worker, <<>>, plan, "reloadVecs") /\ UNCHANGED <<disk, cur>>
      BY <1>8, <2>2 DEF IndexBegin
    <3>2. pc[Worker] # "idle" /\ rows \in Seq(Docs) /\ <<>> \in Seq(Docs)
      BY <1>8, <1>p DEF IndexBegin, DataInv
    <3>3. plan \in Seq(PutType) /\ plan # <<>>
      <4> HIDE DEF rows
      <4> QED BY <3>2 DEF Put, PutType, Files
    <3> HIDE DEF plan
    <3> QED BY <1>p, <3>1, <3>2, <3>3, WriteKeepsData
  <2> QED BY <2>1, <2>2
<1>9. CASE AppendRecords
  <2> DEFINE vecs == Append(mem[Worker].vecs, cur[Worker])
             rows == Append(disk["metadata"], cur[Worker])
             plan == <<Put("vectors", vecs), Put("metadata", rows)>>
  <2>1. CASE Readable("metadata") /\ Len(mem[Worker].vecs) = Len(disk["metadata"])
    <3>1. Write(Worker, disk["metadata"], plan, "reloadVecs") /\ UNCHANGED <<disk, cur>>
      BY <1>9, <2>1 DEF AppendRecords
    <3>2. /\ pc[Worker] # "idle" /\ cur[Worker] \in Docs
          /\ disk["metadata"] \in Seq(Docs) /\ mem[Worker].vecs \in Seq(Docs)
      BY <1>9, <1>p, <2>1 DEF AppendRecords, Readable, DataInv, Files, MemType
    <3>3. vecs \in Seq(Docs) /\ rows \in Seq(Docs)
      BY <3>2
    <3>4. plan \in Seq(PutType) /\ plan # <<>>
      <4> HIDE DEF vecs, rows
      <4> QED BY <3>3 DEF Put, PutType, Files
    <3> HIDE DEF plan
    <3> QED BY <1>p, <3>1, <3>2, <3>4, WriteKeepsData
  <2>2. CASE ~(Readable("metadata") /\ Len(mem[Worker].vecs) = Len(disk["metadata"]))
    BY <1>9, <1>p, <2>2, RestKeepsData DEF AppendRecords, Abort
  <2> QED BY <2>1, <2>2
<1>10. CASE ReloadRecords
  <2> DEFINE plan == <<Put("faiss", mem[Worker].vecs)>>
  <2>1. CASE Readable("metadata")
    <3>1. /\ Write(Worker, mem[Worker].recs, plan, "check")
          /\ UNCHANGED <<disk, cur>> /\ pc[Worker] # "idle"
      BY <1>10, <2>1 DEF ReloadRecords
    <3>2. mem[Worker].recs \in Seq(Docs) /\ mem[Worker].vecs \in Seq(Docs)
      BY <1>p DEF DataInv, MemType
    <3>3. plan \in Seq(PutType) /\ plan # <<>>
      BY <3>2 DEF Put, PutType, Files
    <3> HIDE DEF plan
    <3> QED BY <1>p, <3>1, <3>2, <3>3, WriteKeepsData
  <2>2. CASE ~Readable("metadata")
    BY <1>10, <1>p, <2>2, RestKeepsData DEF ReloadRecords, Abort
  <2> QED BY <2>1, <2>2
<1>11. CASE Crash
  BY <1>11, DataInit DEF Crash, DataInv, EmptyMem, MemType, WriteLabels
<1>12. ASSUME NEW t \in Threads, WriteFails(t) PROVE DataInv'
  BY <1>12, RestKeepsData DEF WriteFails, Abort
<1>13. CASE UNCHANGED vars
  BY <1>13 DEF vars, DataInv
<1> QED
  BY <1>1, <1>2, <1>3, <1>4, <1>5, <1>7, <1>8, <1>9, <1>10, <1>11, <1>12, <1>13,
     <1>p, FileStepKeepsData
  DEF Next, Respond, Work, Fault

LEMMA DataTyped == ControlTypeOK /\ DataInv => TypeOK
<1> SUFFICES ASSUME ControlTypeOK, DataInv PROVE TypeOK
  OBVIOUS
<1>1. ASSUME NEW t \in Threads
      PROVE  /\ mem[t].vecs \in Seq(Docs) /\ mem[t].recs \in Seq(Docs)
             /\ \A i \in DOMAIN mem[t].plan : mem[t].plan[i].file \in Files
  <2>1. /\ mem[t].vecs \in Seq(Docs) /\ mem[t].recs \in Seq(Docs)
        /\ mem[t].plan \in Seq(PutType)
    BY DEF DataInv, MemType
  <2>2. \A i \in DOMAIN mem[t].plan : mem[t].plan[i] \in PutType
    BY <2>1
  <2> QED BY <2>1, <2>2 DEF PutType
<1> QED BY <1>1 DEF TypeOK, DataInv

\* Whatever is uploaded, deleted, interrupted or fails, and with either queue,
\* each file is absent, half written or a sequence of documents, and so is
\* what the threads have read and plan to write.
THEOREM TypesHold == Spec => []TypeOK
<1>1. Init => ControlTypeOK /\ DataInv
  BY TypeInit, DataInit
<1>2. ControlTypeOK /\ DataInv /\ [Next]_vars => (ControlTypeOK /\ DataInv)'
  BY TypeStep, DataStep
<1> QED BY <1>1, <1>2, DataTyped, PTL DEF Spec

-----------------------------------------------------------------------------
(* The index files, while the threads take turns at them.                  *)

ReadLabels == {"appendVecs", "appendRecs", "reloadRecs", "removeRecs", "removeVecs"}
RewriteLabels == {"write", "fill", "reloadVecs", "reloadRecs"}

\* Only thread t moves.
Only(t) ==
  \A u \in Threads : u # t =>
    pc'[u] = pc[u] /\ cur'[u] = cur[u] /\ mem'[u] = mem[u] /\ ret'[u] = ret[u]

\* The rows there are after a document is appended, and after a removal.
LEMMA AppendedRows ==
  ASSUME NEW rows \in Seq(Docs), Distinct(rows), NEW d \in Docs \ DocsOf(rows)
  PROVE  /\ Append(rows, d) \in Seq(Docs) /\ Distinct(Append(rows, d))
         /\ DocsOf(Append(rows, d)) = DocsOf(rows) \cup {d}
<1> DEFINE new == Append(rows, d)
<1>1. /\ Len(rows) \in Nat /\ DOMAIN rows = 1 .. Len(rows)
      /\ DOMAIN new = 1 .. Len(rows) + 1 /\ new \in Seq(Docs)
      /\ new[Len(rows) + 1] = d /\ \A i \in 1 .. Len(rows) : new[i] = rows[i]
  OBVIOUS
<1>2. \A i \in DOMAIN new : i \in DOMAIN rows \/ i = Len(rows) + 1
  BY <1>1
<1>3. DOMAIN rows \in SUBSET DOMAIN new /\ Len(rows) + 1 \in DOMAIN new
  BY <1>1
<1> HIDE DEF new
<1>4. DocsOf(new) = DocsOf(rows) \cup {d}
  BY <1>1, <1>2, <1>3 DEF DocsOf
<1>5. \A i \in DOMAIN rows : rows[i] # d
  BY DEF DocsOf
<1>6. Distinct(new)
  BY <1>1, <1>2, <1>5 DEF Distinct
<1> QED BY <1>1, <1>4, <1>6 DEF new

\* The steps of a plan.
LEMMA FirstOf ==
  ASSUME NEW S, NEW p \in Seq(S), p # <<>>
  PROVE  /\ 1 \in DOMAIN p /\ Head(p) = p[1] /\ p[1] \in S /\ Tail(p) \in Seq(S)
         /\ \A i \in DOMAIN Tail(p) :
              i + 1 \in DOMAIN p /\ i + 1 # 1 /\ Tail(p)[i] = p[i + 1]
         /\ \A i \in DOMAIN p :
              i = 1 \/ \E k \in DOMAIN Tail(p) : Tail(p)[k] = p[i]
         /\ Len(p) = 1 <=> Tail(p) = <<>>
<1>1. Len(p) \in Nat /\ Len(p) > 0 /\ DOMAIN p = 1 .. Len(p)
  OBVIOUS
<1>2. /\ DOMAIN Tail(p) = 1 .. Len(p) - 1 /\ Tail(p) \in Seq(S)
      /\ Len(Tail(p)) = Len(p) - 1
  BY <1>1
<1>3. \A i \in 1 .. Len(p) - 1 : Tail(p)[i] = p[i + 1]
  BY <1>1
<1>4. 1 \in DOMAIN p /\ Head(p) = p[1] /\ p[1] \in S
  BY <1>1
<1>5. \A i \in DOMAIN p : i = 1 \/ \E k \in DOMAIN Tail(p) : Tail(p)[k] = p[i]
  <2> TAKE i \in DOMAIN p
  <2>1. i = 1 \/ (i - 1 \in 1 .. Len(p) - 1 /\ (i - 1) + 1 = i)
    BY <1>1
  <2> QED BY <1>2, <1>3, <2>1
<1>6. \A i \in DOMAIN Tail(p) : i + 1 \in DOMAIN p /\ i + 1 # 1 /\ Tail(p)[i] = p[i + 1]
  BY <1>1, <1>2, <1>3
<1>7. \A q \in Seq(S) : Len(q) = 0 <=> q = <<>>
  OBVIOUS
<1>8. Len(p) = 1 <=> Tail(p) = <<>>
  BY <1>1, <1>2, <1>7
<1> QED BY <1>2, <1>4, <1>5, <1>6, <1>8

\* Where each thread is, and for which document, does not depend on the queue.
LEMMA ThreadStep ==
  ASSUME ControlTypeOK, ThreadInv, [Next]_vars
  PROVE  ThreadInv'
<1> USE DocsAssumption DEF ThreadInv, Threads, Worker, Loop, LoopLabels, WorkerLabels,
     RemoveLabels, WriteLabels, Labels, ReturnLabels, ControlTypeOK, Goto, Rest
<1>1. CASE Startup
  BY <1>1 DEF Startup, StartWorker, ScanUnfinished, Requeue, Serve
<1>2. CASE Request
  BY <1>2 DEF Request, UploadStore, DeleteStart
<1>3. ASSUME NEW t \in Threads, FileStep(t) PROVE ThreadInv'
  <2>1. CASE RemoveBegin(t)
    BY <2>1 DEF RemoveBegin
  <2>2. CASE RemoveReadRecords(t)
    BY <2>2 DEF RemoveReadRecords, Abort
  <2>3. CASE RemoveReadVectors(t)
    BY <2>3 DEF RemoveReadVectors, Abort, Write
  <2>4. CASE Truncate(t)
    BY <2>4 DEF Truncate
  <2>5. CASE Fill(t)
    BY <2>5 DEF Fill, Advance
  <2>6. CASE Unlink(t)
    BY <2>6 DEF Unlink, Advance
  <2> QED BY <1>3, <2>1, <2>2, <2>3, <2>4, <2>5, <2>6 DEF FileStep
<1>4. CASE UploadAdd \/ UploadEnqueue \/ DeleteRecord
  BY <1>4 DEF UploadAdd, UploadEnqueue, DeleteRecord
<1>5. CASE TakeJob
  <2>1. queue # <<>> /\ Head(queue) \in Docs
    BY <1>5, QueueTaken DEF TakeJob
  <2> QED BY <1>5, <2>1 DEF TakeJob
<1>6. CASE Parsed \/ Chunked \/ Embedded \/ StageFails
  BY <1>6 DEF Parsed, Chunked, Embedded, NextStage, StageFails, Abort
<1>7. CASE IndexBegin \/ AppendLoadVectors \/ AppendRecords
  BY <1>7 DEF IndexBegin, AppendLoadVectors, LoadVectors, AppendRecords, Write, Abort
<1>8. CASE ReloadVectors \/ ReloadRecords
  BY <1>8 DEF ReloadVectors, LoadVectors, ReloadRecords, Write, Abort
<1>9. CASE CheckRecord \/ MarkReady \/ DiscardUpload
  BY <1>9 DEF CheckRecord, MarkReady, DiscardUpload
<1>10. CASE Crash
  BY <1>10 DEF Crash
<1>11. ASSUME NEW t \in Threads, WriteFails(t) PROVE ThreadInv'
  BY <1>11 DEF WriteFails, Abort
<1>12. CASE UNCHANGED vars
  BY <1>12 DEF vars
<1> QED
  BY <1>1, <1>2, <1>3, <1>4, <1>5, <1>6, <1>7, <1>8, <1>9, <1>10, <1>11, <1>12
  DEF Next, Respond, Work, Fault

\* A step that is no fault and after which the threads still take turns.
InTurns == Next /\ TakesTurns' /\ ~Fault

\* What such a step may rely on.
Orderly ==
  /\ ControlTypeOK /\ DataInv /\ ThreadInv /\ TakesTurns
  /\ RestInv /\ \A t \in Threads : RewriteOK(t) /\ PlanOK(t) /\ ReadOK(t)

\* What each step has to show of the files.
FilesOK == RestInv /\ \A t \in Threads : RewriteOK(t) /\ PlanOK(t) /\ ReadOK(t)

\* Only one thread moves.
LEMMA ThreadMoves ==
  ASSUME ControlTypeOK, DataInv, NEW t \in Threads, NEW label, Goto(t, label),
         cur' = cur \/ \E d : cur' = [cur EXCEPT ![t] = d],
         ret' = ret \/ \E l : ret' = [ret EXCEPT ![t] = l],
         mem' = mem \/ \E m : mem' = [mem EXCEPT ![t] = m]
  PROVE  Only(t) /\ pc'[t] = label
  BY DEF Only, Goto, DataInv, ControlTypeOK

\* A thread that comes to rest holds nothing.
LEMMA ThreadRests ==
  ASSUME ControlTypeOK, DataInv, NEW t \in Threads, Rest(t)
  PROVE  Only(t) /\ pc'[t] = "idle" /\ mem'[t].plan = <<>> /\ ret'[t] = "idle"
  BY DEF Rest, EmptyMem, Only, Goto, DataInv, ControlTypeOK

\* While one thread is at the files the other is not.
LEMMA OtherAway ==
  ASSUME TakesTurns, NEW t \in Threads, NEW u \in Threads, u # t,
         pc[t] \in ReadLabels \cup RewriteLabels
  PROVE  pc[u] \notin ReadLabels \cup RewriteLabels /\ ~Rewriting(u)
  BY DEF TakesTurns, UsesFiles, Rewriting, ReadLabels, RewriteLabels, Threads

\* Which rows are served.
LEMMA RowsServed ==
  ASSUME TakesTurns
  PROVE  /\ (\A t \in Threads : ~Rewriting(t)) => IndexRows = Rows
         /\ \A t \in Threads : Rewriting(t) => IndexRows = mem[t].recs
<1>1. ASSUME NEW t \in Threads, Rewriting(t)
      PROVE  IndexRows = mem[t].recs
  <2>1. \A u \in Threads : Rewriting(u) <=> u = t
    BY <1>1, OtherAway DEF Rewriting, RewriteLabels
  <2>2. (CHOOSE u \in Threads : Rewriting(u)) = t
    BY <2>1
  <2> QED BY <1>1, <2>2 DEF IndexRows
<1>2. (\A t \in Threads : ~Rewriting(t)) => IndexRows = Rows
  BY DEF IndexRows
<1> QED BY <1>1, <1>2

\* With nobody rewriting them, the files are all there or none is.
LEMMA FilesWhole ==
  ASSUME Orderly, \A t \in Threads : ~Rewriting(t)
  PROVE  /\ Rows \in Seq(Docs)
         /\ Rows = <<>> => \A f \in Files : disk[f] = None
         /\ Rows # <<>> => \A f \in Files : disk[f] = Rows /\ Readable(f) /\ Present(f)
<1>1. Rows \in Seq(Docs) /\ \A f \in Files : disk[f] = FileOf(Rows)
  BY DEF Orderly, RestInv
<1>2. None \notin Seq(Docs) /\ Torn \notin Seq(Docs)
  BY DocsAssumption
<1> QED BY <1>1, <1>2 DEF FileOf, Readable, Present

\* A thread away from the files does not mind what happens to them.
LEMMA ThreadAway ==
  ASSUME NEW u \in Threads, pc[u] \notin ReadLabels \cup RewriteLabels, PlanOK(u),
         pc'[u] = pc[u], mem'[u] = mem[u]
  PROVE  (RewriteOK(u) /\ PlanOK(u) /\ ReadOK(u))'
  BY DEF RewriteOK, PlanOK, ReadOK, Rewriting, WriteLabels, ReadLabels, RewriteLabels

\* A thread whose state and files stay as they are keeps what holds of it.
LEMMA ThreadStays ==
  ASSUME NEW u \in Threads, RewriteOK(u), PlanOK(u), ReadOK(u),
         pc'[u] = pc[u], cur'[u] = cur[u], mem'[u] = mem[u], ret'[u] = ret[u],
         disk' = disk
  PROVE  (RewriteOK(u) /\ PlanOK(u) /\ ReadOK(u))'
  BY DEF RewriteOK, PlanOK, ReadOK, Rewriting, Unwritten, NewRows, Rows, Present

\* A thread moves where it does not rewrite the index, and no file changes.
LEMMA CalmMove ==
  ASSUME Orderly, TakesTurns', NEW t \in Threads, Only(t), disk' = disk,
         pc[t] \notin RewriteLabels, pc'[t] \notin RewriteLabels,
         mem'[t].plan = <<>>, pc'[t] \in ReadLabels => ReadOK(t)'
  PROVE  FilesOK' /\ UNCHANGED IndexRows
<1>1. \A u \in Threads : Rewriting(u)' <=> Rewriting(u)
  BY DEF Rewriting, RewriteLabels, Only
<1>2. Rows' = Rows
  BY DEF Rows, Present
<1>3. RestInv'
  BY <1>1, <1>2 DEF Orderly, RestInv
<1>4. (RewriteOK(t) /\ PlanOK(t) /\ ReadOK(t))'
  BY DEF RewriteOK, PlanOK, ReadOK, Rewriting, RewriteLabels, ReadLabels, WriteLabels
<1>5. ASSUME NEW u \in Threads, u # t
      PROVE  (RewriteOK(u) /\ PlanOK(u) /\ ReadOK(u))'
  BY <1>5, ThreadStays DEF Orderly, Only
<1>6. CASE \A u \in Threads : ~Rewriting(u)
  BY <1>1, <1>2, <1>3, <1>4, <1>5, <1>6, RowsServed DEF Orderly, FilesOK, IndexRows
<1>7. CASE \E u \in Threads : Rewriting(u)
  <2>1. PICK u \in Threads : Rewriting(u)
    BY <1>7
  <2>2. u # t /\ mem'[u] = mem[u] /\ Rewriting(u)'
    BY <1>1, <2>1 DEF Rewriting, RewriteLabels, Only
  <2>3. IndexRows = mem[u].recs
    BY <2>1, RowsServed DEF Orderly
  <2>4. IndexRows' = mem'[u].recs
    <3>1. TakesTurns' /\ Rewriting(u)'
      BY <2>2
    <3>2. \A v \in Threads : Rewriting(v)' <=> v = u
      BY <1>1, <2>1, OtherAway DEF Orderly, Rewriting, RewriteLabels
    <3>3. (CHOOSE v \in Threads : Rewriting(v)') = u
      BY <3>2
    <3> QED BY <3>1, <3>3 DEF IndexRows
  <2> QED BY <1>3, <1>4, <1>5, <2>2, <2>3, <2>4 DEF FilesOK
<1> QED BY <1>6, <1>7

\* The same of the next state.
LEMMA RowsServedNext ==
  ASSUME TakesTurns'
  PROVE  /\ (\A t \in Threads : ~Rewriting(t)') => IndexRows' = Rows'
         /\ \A t \in Threads : Rewriting(t)' => IndexRows' = mem'[t].recs
<1>1. ASSUME NEW t \in Threads, Rewriting(t)'
      PROVE  IndexRows' = mem'[t].recs
  <2>1. \A u \in Threads : Rewriting(u)' <=> u = t
    BY <1>1 DEF TakesTurns, UsesFiles, Rewriting, Threads
  <2>2. (CHOOSE u \in Threads : Rewriting(u)') = t
    BY <2>1
  <2> QED BY <1>1, <2>2 DEF IndexRows
<1>2. (\A t \in Threads : ~Rewriting(t)') => IndexRows' = Rows'
  BY DEF IndexRows
<1> QED BY <1>1, <1>2

\* The other thread is away while a thread goes on at the files.
LEMMA OthersKept ==
  ASSUME Orderly, TakesTurns', NEW t \in Threads, Only(t),
         pc[t] \in ReadLabels \cup RewriteLabels
           \/ pc'[t] \in ReadLabels \cup RewriteLabels
  PROVE  \A u \in Threads : u # t =>
           /\ ~Rewriting(u) /\ ~Rewriting(u)'
           /\ (RewriteOK(u) /\ PlanOK(u) /\ ReadOK(u))'
<1> SUFFICES ASSUME NEW u \in Threads, u # t
             PROVE  /\ ~Rewriting(u) /\ ~Rewriting(u)'
                    /\ (RewriteOK(u) /\ PlanOK(u) /\ ReadOK(u))'
  OBVIOUS
<1>1. pc'[u] = pc[u] /\ mem'[u] = mem[u]
  BY DEF Only
<1>2. pc[u] \notin ReadLabels \cup RewriteLabels
  <2>1. CASE pc[t] \in ReadLabels \cup RewriteLabels
    BY <2>1, OtherAway DEF Orderly
  <2>2. CASE pc'[t] \in ReadLabels \cup RewriteLabels
    <3>1. pc'[u] \notin ReadLabels \cup RewriteLabels
      BY <2>2 DEF TakesTurns, UsesFiles, Rewriting, ReadLabels, RewriteLabels, Threads
    <3> QED BY <1>1, <3>1
  <2> QED BY <2>1, <2>2
<1>3. ~Rewriting(u) /\ ~Rewriting(u)'
  BY <1>1, <1>2 DEF Rewriting, RewriteLabels
<1> QED BY <1>1, <1>2, <1>3, ThreadAway DEF Orderly

\* A thread starts to rewrite the index, with all its files to be written.
LEMMA RewriteBegins ==
  ASSUME Orderly, TakesTurns', NEW t \in Threads, Only(t), disk' = disk,
         pc[t] \notin RewriteLabels, pc'[t] = "write", mem'[t].recs = Rows,
         Unwritten(t)' = Files, PlanOK(t)'
  PROVE  FilesOK' /\ UNCHANGED IndexRows
<1>1. \A u \in Threads : u # t =>
        ~Rewriting(u) /\ ~Rewriting(u)' /\ (RewriteOK(u) /\ PlanOK(u) /\ ReadOK(u))'
  BY OthersKept DEF RewriteLabels
<1>2. (\A u \in Threads : ~Rewriting(u)) /\ Rewriting(t)'
  BY <1>1 DEF Rewriting, RewriteLabels
<1>3. \A f \in Files : disk'[f] = FileOf(mem'[t].recs)
  BY <1>2 DEF Orderly, RestInv
<1>4. RewriteOK(t)' /\ ReadOK(t)'
  BY <1>2, <1>3 DEF RewriteOK, ReadOK
<1>5. RestInv'
  BY <1>2 DEF RestInv
<1>6. IndexRows' = IndexRows
  <2>1. IndexRows = Rows
    BY <1>2, RowsServed DEF Orderly
  <2>2. IndexRows' = mem'[t].recs
    BY <1>2, RowsServedNext
  <2> QED BY <2>1, <2>2
<1> QED BY <1>1, <1>4, <1>5, <1>6 DEF FilesOK

\* A thread goes on rewriting the index.
LEMMA RewriteContinues ==
  ASSUME Orderly, TakesTurns', NEW t \in Threads, Only(t), Rewriting(t),
         Rewriting(t)', mem'[t].recs = mem[t].recs,
         (RewriteOK(t) /\ PlanOK(t) /\ ReadOK(t))'
  PROVE  FilesOK' /\ UNCHANGED IndexRows
<1>1. \A u \in Threads : u # t => (RewriteOK(u) /\ PlanOK(u) /\ ReadOK(u))'
  BY OthersKept DEF Rewriting, RewriteLabels
<1>2. RestInv'
  BY DEF RestInv
<1>3. IndexRows' = IndexRows
  <2>1. IndexRows = mem[t].recs
    BY RowsServed DEF Orderly
  <2>2. IndexRows' = mem'[t].recs
    BY RowsServedNext
  <2> QED BY <2>1, <2>2
<1> QED BY <1>1, <1>2, <1>3 DEF FilesOK

\* The rows a thread will leave are rows.
LEMMA NewRowsType ==
  ASSUME Orderly, NEW t \in Threads, pc[t] # "idle"
  PROVE  NewRows(t) \in Seq(Docs)
<1>1. mem[t].recs \in Seq(Docs) /\ cur[t] \in Docs
  BY DEF Orderly, DataInv, MemType
<1>2. KeptRows(mem[t].recs, cur[t]) \in Seq(Docs)
  BY <1>1, KeptFacts
<1>3. Append(mem[t].recs, cur[t]) \in Seq(Docs)
  BY <1>1
<1> QED BY <1>2, <1>3 DEF NewRows

\* The file a writing thread is at is one it has not written yet.
LEMMA NextPut ==
  ASSUME Orderly, NEW t \in Threads, pc[t] \in WriteLabels
  PROVE  LET p == mem[t].plan IN
         /\ p \in Seq(PutType) /\ p # <<>> /\ Head(p) = p[1] /\ 1 \in DOMAIN p
         /\ p[1].file \in Files /\ p[1].file \in Unwritten(t)
         /\ p[1].data = FileOf(NewRows(t))
         /\ Rewriting(t) /\ RewriteOK(t) /\ PlanOK(t)
<1> DEFINE p == mem[t].plan
<1>1. p \in Seq(PutType) /\ p # <<>>
  BY DEF Orderly, DataInv, MemType
<1>2. 1 \in DOMAIN p /\ Head(p) = p[1] /\ p[1] \in PutType
  BY <1>1, FirstOf
<1>3. RewriteOK(t) /\ PlanOK(t) /\ Rewriting(t)
  BY DEF Orderly, Rewriting, WriteLabels
<1>4. p[1].file \in Unwritten(t)
  BY <1>2 DEF Unwritten
<1>5. p[1].data = FileOf(NewRows(t))
  BY <1>2, <1>3 DEF PlanOK
<1>6. p[1].file \in Files
  BY <1>2 DEF PutType
<1> QED BY <1>1, <1>2, <1>3, <1>4, <1>5, <1>6

\* A file is truncated: it is the one being filled.
LEMMA TruncateInTurn ==
  ASSUME Orderly, TakesTurns', NEW t \in Threads, Truncate(t)
  PROVE  FilesOK' /\ UNCHANGED IndexRows
<1> DEFINE p == mem[t].plan
           file == p[1].file
<1>1. pc[t] = "write" /\ pc[t] \in WriteLabels
  BY DEF Truncate, WriteLabels
<1>2. /\ p \in Seq(PutType) /\ p # <<>> /\ Head(p) = p[1]
      /\ file \in Files /\ file \in Unwritten(t) /\ p[1].data = FileOf(NewRows(t))
      /\ Rewriting(t) /\ RewriteOK(t) /\ PlanOK(t)
  BY <1>1, NextPut
<1>3. /\ p[1].data # None /\ disk' = [disk EXCEPT ![file] = Torn]
      /\ UNCHANGED <<records, cur, ret, mem>> /\ pc' = [pc EXCEPT ![t] = "fill"]
      /\ pc \in [Threads -> Labels] /\ disk \in [Files -> {None, Torn} \cup Seq(Docs)]
  BY <1>2 DEF Truncate, Goto, Orderly, DataInv, ControlTypeOK
<1>4. Only(t) /\ pc'[t] = "fill" /\ Rewriting(t)'
  BY <1>3 DEF Only, Rewriting
<1>5. UNCHANGED <<Unwritten(t), NewRows(t)>>
  BY <1>3 DEF Unwritten, NewRows
<1>6. RewriteOK(t)'
  BY <1>1, <1>2, <1>3, <1>4, <1>5 DEF RewriteOK
<1>7. PlanOK(t)' /\ ReadOK(t)'
  <2>1. \A i \in DOMAIN p : p[i].data # None
    BY <1>1, <1>2, <1>3 DEF PlanOK
  <2> QED BY <1>1, <1>2, <1>3, <1>4, <1>5, <2>1 DEF PlanOK, ReadOK, WriteLabels
<1> QED BY <1>2, <1>3, <1>4, <1>6, <1>7, RewriteContinues

\* A thread has written its last file: the index serves what it leaves there.
Finishes(t) ==
  /\ pc[t] \in WriteLabels /\ ret[t] \in {"check", "removed"}
  /\ pc' = [pc EXCEPT ![t] = ret[t]]
  /\ IndexRows' = IF ret[t] = "removed" THEN KeptRows(IndexRows, cur[t])
                                        ELSE Append(IndexRows, cur[t])
  /\ UNCHANGED <<phase, records, born, queue, stranded, cur, ret, faults>>

\* A file is filled or unlinked: it holds the new rows, and the thread goes on
\* to the next one; with the last one the index serves what it leaves.
LEMMA PutInTurn ==
  ASSUME Orderly, TakesTurns', NEW t \in Threads, Fill(t) \/ Unlink(t)
  PROVE  /\ FilesOK'
         /\ \/ UNCHANGED IndexRows /\ pc'[t] \in RewriteLabels
            \/ Finishes(t)
<1> DEFINE p == mem[t].plan
           file == p[1].file
           rest == Tail(p)
<1>1. pc[t] \in WriteLabels
  BY DEF Fill, Unlink, WriteLabels
<1>2. /\ p \in Seq(PutType) /\ p # <<>> /\ Head(p) = p[1]
      /\ file \in Files /\ file \in Unwritten(t) /\ p[1].data = FileOf(NewRows(t))
      /\ Rewriting(t) /\ RewriteOK(t) /\ PlanOK(t)
  BY <1>1, NextPut
<1>3. /\ UNCHANGED <<phase, records, born, queue, stranded, faults, cur, ret>>
      /\ mem' = [mem EXCEPT ![t].plan = rest]
      /\ pc' = [pc EXCEPT ![t] = IF Len(p) = 1 THEN ret[t] ELSE "write"]
      /\ pc \in [Threads -> Labels] /\ mem \in [Threads -> MemType]
      /\ disk \in [Files -> {None, Torn} \cup Seq(Docs)]
  BY DEF Fill, Unlink, Advance, Goto, Orderly, DataInv, ControlTypeOK
<1>4. disk' = [disk EXCEPT ![file] = FileOf(NewRows(t))]
  <2>1. CASE Fill(t)
    <3>1. disk[file] = Torn
      BY <1>2, <2>1 DEF RewriteOK, Fill
    <3>2. Filled(file, p[1].data) = {p[1].data}
      BY <3>1, DocsAssumption DEF Filled
    <3> QED BY <1>2, <2>1, <3>2 DEF Fill
  <2>2. CASE Unlink(t)
    BY <1>2, <2>2 DEF Unlink
  <2> QED BY <2>1, <2>2
<1>5. /\ Only(t) /\ cur'[t] = cur[t] /\ mem'[t].recs = mem[t].recs
      /\ mem'[t].plan = rest /\ ret'[t] = ret[t]
      /\ pc'[t] = IF Len(p) = 1 THEN ret[t] ELSE "write"
      /\ \A f \in Files : disk'[f] = IF f = file THEN FileOf(NewRows(t)) ELSE disk[f]
  BY <1>3, <1>4 DEF Only, MemType
<1>6. NewRows(t)' = NewRows(t)
  BY <1>5 DEF NewRows
<1>7. ret[t] \in {"reloadVecs", "check", "removed"}
  BY <1>1 DEF Orderly, ThreadInv, Threads
<1>8. /\ \A i \in DOMAIN rest :
           i + 1 \in DOMAIN p /\ i + 1 # 1 /\ rest[i] = p[i + 1]
      /\ \A i \in DOMAIN p : i = 1 \/ \E k \in DOMAIN rest : rest[k] = p[i]
      /\ Len(p) = 1 <=> rest = <<>>
      /\ 1 \in DOMAIN p /\ rest \in Seq(PutType)
  BY <1>2, FirstOf
<1>9. \A i \in DOMAIN rest : rest[i].file # file
  BY <1>1, <1>2, <1>8 DEF PlanOK
<1>10. Len(p) # 1 => ret[t] # "check"
  <2>1. rest # <<>> => 1 \in DOMAIN rest
    BY <1>8, FirstOf
  <2>2. ret[t] = "check" => \A i \in DOMAIN p : p[i].file = "faiss"
    BY <1>1, <1>2 DEF PlanOK
  <2> HIDE DEF p, rest
  <2>3. ret[t] = "check" =>
          file = "faiss" /\ \A i \in DOMAIN rest : rest[i].file = "faiss"
    BY <1>8, <2>2
  <2> QED BY <1>8, <1>9, <2>1, <2>3
<1> HIDE DEF p, rest, file
<1>u. \A f : f \in {p[i].file : i \in DOMAIN p} /\ f # file
               <=> f \in {rest[i].file : i \in DOMAIN rest}
  <2>1. \A i \in DOMAIN rest : \E j \in DOMAIN p : rest[i].file = p[j].file
    BY <1>8
  <2>2. \A j \in DOMAIN p : p[j].file # file =>
           \E i \in DOMAIN rest : rest[i].file = p[j].file
    BY <1>8 DEF file
  <2> QED BY <1>9, <2>1, <2>2
<1>11. CASE pc'[t] \in {"write", "reloadVecs"}
  <2>1. ret[t] # "removed" => file # "faiss"
    <3>1. ret[t] # "removed" => ret[t] = "reloadVecs"
      BY <1>5, <1>7, <1>10, <1>11
    <3> QED BY <1>1, <1>2, <1>8, <3>1 DEF PlanOK, p, file
  <2>2. \A f \in Files : f \in Unwritten(t)' <=> f \in Unwritten(t) /\ f # file
    <3>1. Unwritten(t) = {p[i].file : i \in DOMAIN p}
                              \cup (IF ret[t] = "removed" THEN {} ELSE {"faiss"})
      BY DEF Unwritten, p
    <3>2. Unwritten(t)' = {rest[i].file : i \in DOMAIN rest}
                              \cup (IF ret[t] = "removed" THEN {} ELSE {"faiss"})
      BY <1>5 DEF Unwritten
    <3> QED BY <1>u, <2>1, <3>1, <3>2
  <2>3. Rewriting(t)' /\ pc'[t] # "fill"
    BY <1>11 DEF Rewriting
  <2>4. RewriteOK(t)'
    <3>1. ASSUME NEW f \in Files
          PROVE  disk'[f] = IF f \notin Unwritten(t)' THEN FileOf(NewRows(t))
                                                        ELSE FileOf(mem[t].recs)
      <4>1. CASE f = file
        BY <1>5, <2>2, <4>1
      <4>2. CASE f # file
        <5>1. disk[f] = IF f \notin Unwritten(t) THEN FileOf(NewRows(t))
                                                    ELSE FileOf(mem[t].recs)
          BY <1>2, <4>2 DEF RewriteOK, file, p
        <5> QED BY <1>5, <2>2, <4>2, <5>1
      <4> QED BY <4>1, <4>2
    <3> QED BY <1>5, <1>6, <2>3, <3>1 DEF RewriteOK
  <2>5. PlanOK(t)'
    <3>1. pc'[t] \notin WriteLabels => rest = <<>>
      BY <1>5, <1>8, <1>11 DEF WriteLabels
    <3>2. ASSUME NEW i \in DOMAIN rest, NEW j \in DOMAIN rest,
                 rest[i].file = rest[j].file
          PROVE  i = j
      <4>1. /\ i + 1 \in DOMAIN p /\ j + 1 \in DOMAIN p
            /\ p[i + 1].file = p[j + 1].file
        BY <1>8, <3>2
      <4>2. i + 1 = j + 1
        BY <1>1, <1>2, <4>1 DEF PlanOK, p
      <4>3. i \in Nat /\ j \in Nat
        <5>1. Len(rest) \in Nat /\ DOMAIN rest = 1 .. Len(rest)
          BY <1>8
        <5> QED BY <5>1
      <4> QED BY <4>2, <4>3
    <3>3. \A i \in DOMAIN rest :
             /\ rest[i].data = FileOf(NewRows(t))
             /\ ret[t] = "reloadVecs" => rest[i].file # "faiss"
             /\ ret[t] = "check" => rest[i].file = "faiss"
      BY <1>1, <1>2, <1>8 DEF PlanOK, p
    <3> QED BY <1>5, <1>6, <2>3, <3>1, <3>2, <3>3 DEF PlanOK
  <2>6. ReadOK(t)'
    BY <1>11 DEF ReadOK
  <2>7. pc'[t] \in RewriteLabels
    BY <1>11 DEF RewriteLabels
  <2> QED BY <1>2, <1>5, <2>3, <2>4, <2>5, <2>6, <2>7, RewriteContinues
<1>12. CASE pc'[t] \in {"check", "removed"}
  <2>1. Len(p) = 1 /\ pc'[t] = ret[t] /\ ret[t] \in {"check", "removed"}
    BY <1>5, <1>12
  <2>2. NewRows(t) \in Seq(Docs)
    BY <1>1, NewRowsType DEF WriteLabels
  <2>3. \A f \in Files : disk'[f] = FileOf(NewRows(t))
    <3>1. \A i \in DOMAIN p : i = 1
      BY <1>8, <2>1
    <3>2. ret[t] # "removed" => file = "faiss"
      BY <1>1, <1>2, <1>8, <2>1 DEF PlanOK, p, file
    <3>3. \A f \in Files : f # file => f \notin Unwritten(t)
      BY <3>1, <3>2 DEF Unwritten, p, file
    <3> QED BY <1>2, <1>5, <3>3 DEF RewriteOK
  <2>4. Rows' = NewRows(t)
    BY <2>2, <2>3, DocsAssumption DEF Rows, Present, FileOf, Files
  <2>5. RestInv'
    BY <2>2, <2>3, <2>4 DEF RestInv
  <2>6. (RewriteOK(t) /\ PlanOK(t) /\ ReadOK(t))'
    BY <1>5, <1>8, <1>12, <2>1 DEF RewriteOK, PlanOK, ReadOK, Rewriting, WriteLabels
  <2>7. \A u \in Threads : u # t =>
          ~Rewriting(u)' /\ (RewriteOK(u) /\ PlanOK(u) /\ ReadOK(u))'
    BY <1>1, <1>5, OthersKept DEF WriteLabels, RewriteLabels
  <2>8. FilesOK'
    BY <2>5, <2>6, <2>7 DEF FilesOK
  <2>9. Finishes(t)
    <3>1. IndexRows = mem[t].recs
      BY <1>2, RowsServed DEF Orderly
    <3>2. \A u \in Threads : ~Rewriting(u)'
      BY <1>12, <2>7 DEF Rewriting
    <3>3. IndexRows' = NewRows(t)
      BY <2>4, <3>2, RowsServedNext
    <3>4. pc' = [pc EXCEPT ![t] = ret[t]]
      BY <1>3, <2>1
    <3> QED BY <1>1, <1>3, <2>1, <3>1, <3>3, <3>4 DEF Finishes, NewRows
  <2> QED BY <2>8, <2>9
<1> QED BY <1>5, <1>7, <1>11, <1>12

\* A removal looks for the index, reads it, and plans to write what stays; with
\* the files whole it never fails.
LEMMA RemovalInTurn ==
  ASSUME Orderly, TakesTurns', NEW t \in Threads,
         RemoveBegin(t) \/ RemoveReadRecords(t) \/ RemoveReadVectors(t)
  PROVE  FilesOK' /\ UNCHANGED <<records, IndexRows>>
<1>1. /\ pc[t] \in {"remove", "removeRecs", "removeVecs"}
      /\ pc[t] \notin RewriteLabels /\ pc[t] # "idle" /\ ret[t] = "removed"
  BY DEF RemoveBegin, RemoveReadRecords, RemoveReadVectors, RewriteLabels, Orderly,
     ThreadInv, RemoveLabels, Threads
<1>2. mem[t].plan = <<>> /\ cur[t] \in Docs /\ ReadOK(t)
  BY <1>1 DEF Orderly, PlanOK, WriteLabels, DataInv
<1>f. "vectors" \in Files /\ "metadata" \in Files /\ "faiss" \in Files
  BY DEF Files
<1>3. ASSUME pc[t] \in {"removeRecs", "removeVecs"}
      PROVE  /\ Rows \in Seq(Docs) /\ Rows # <<>>
             /\ \A f \in Files : disk[f] = Rows /\ Readable(f) /\ Present(f)
  <2>1. \A u \in Threads : ~Rewriting(u)
    BY <1>1, <1>3, OtherAway DEF Orderly, Rewriting, RewriteLabels, ReadLabels
  <2>2. Rows # <<>>
    BY <1>2, <1>3 DEF ReadOK
  <2> QED BY <2>1, <2>2, FilesWhole
<1>4. CASE RemoveBegin(t)
  <2>1. Only(t) /\ mem' = mem /\ disk' = disk /\ UNCHANGED <<records, cur>>
    BY <1>4, ThreadMoves DEF RemoveBegin, Orderly
  <2>2. CASE CorpusExists
    <3>1. pc'[t] = "removeRecs"
      BY <1>4, <2>2, ThreadMoves DEF RemoveBegin, Orderly
    <3>2. \A u \in Threads : ~Rewriting(u)
      BY <1>1, <2>1, <3>1, OthersKept DEF Rewriting, RewriteLabels, ReadLabels
    <3>3. Rows # <<>>
      BY <1>f, <2>2, <3>2, FilesWhole DEF CorpusExists, Present
    <3>4. ReadOK(t)'
      BY <2>1, <3>1, <3>3 DEF ReadOK, Rows, Present
    <3> QED BY <1>1, <1>2, <2>1, <3>1, <3>4, CalmMove DEF RewriteLabels
  <2>3. CASE ~CorpusExists
    <3>1. pc'[t] = "removed"
      BY <1>4, <2>3, ThreadMoves DEF RemoveBegin, Orderly
    <3> QED BY <1>1, <1>2, <2>1, <3>1, CalmMove DEF RewriteLabels, ReadLabels
  <2> QED BY <2>2, <2>3
<1>5. CASE RemoveReadRecords(t)
  <2>1. pc[t] = "removeRecs" /\ Rows # <<>>
    BY <1>3, <1>5 DEF RemoveReadRecords
  <2>2. Readable("metadata") /\ disk["metadata"] = Rows
    BY <1>3, <1>f, <2>1
  <2>3. /\ mem' = [mem EXCEPT ![t].recs = Rows] /\ Goto(t, "removeVecs")
        /\ UNCHANGED <<records, cur, ret, disk>>
    BY <1>5, <2>2 DEF RemoveReadRecords
  <2>4. Only(t) /\ pc'[t] = "removeVecs"
    BY <2>3, ThreadMoves DEF Orderly
  <2>5. mem'[t].recs = Rows /\ mem'[t].plan = <<>>
    BY <1>2, <2>3 DEF Orderly, DataInv, MemType
  <2>6. Rows' = Rows
    BY <2>3 DEF Rows, Present
  <2>7. ReadOK(t)'
    BY <2>1, <2>4, <2>5, <2>6 DEF ReadOK
  <2> QED BY <1>1, <2>3, <2>4, <2>5, <2>7, CalmMove DEF RewriteLabels
<1>6. CASE RemoveReadVectors(t)
  <2> DEFINE kept == KeptRows(Rows, cur[t])
             plan == RemovalPlan(Rows, Rows, cur[t])
  <2>1. pc[t] = "removeVecs" /\ Rows \in Seq(Docs) /\ mem[t].recs = Rows
    BY <1>2, <1>3, <1>6 DEF RemoveReadVectors, ReadOK
  <2>2. Readable("vectors") /\ disk["vectors"] = Rows
    BY <1>3, <1>f, <2>1
  <2>3. UNCHANGED <<records, cur, disk>>
    BY <1>6, <2>1, <2>2 DEF RemoveReadVectors
  <2>4. CASE kept = Rows
    <3>1. Goto(t, "removed") /\ UNCHANGED <<mem, ret>>
      BY <1>6, <2>1, <2>2, <2>4 DEF RemoveReadVectors
    <3>2. Only(t) /\ pc'[t] = "removed"
      BY <2>3, <3>1, ThreadMoves DEF Orderly
    <3> QED
      BY <1>1, <1>2, <2>3, <3>1, <3>2, CalmMove DEF RewriteLabels, ReadLabels
  <2>5. CASE kept # Rows
    <3>1. Write(t, Rows, plan, "removed")
      BY <1>6, <2>1, <2>2, <2>5 DEF RemoveReadVectors
    <3>2. Only(t) /\ pc'[t] = "write"
      <4>1. \E m : mem' = [mem EXCEPT ![t] = m]
        BY <3>1 DEF Write
      <4> QED BY <2>3, <3>1, <4>1, ThreadMoves DEF Write, Orderly
    <3>3. mem'[t].recs = Rows /\ mem'[t].plan = plan /\ ret'[t] = "removed"
      BY <3>1 DEF Write, Orderly, DataInv, MemType, ControlTypeOK
    <3>4. KeptVectors(Rows, Rows, cur[t]) = kept /\ kept \in Seq(Docs)
      BY <2>1, KeptFacts
    <3>5. plan = <<Put("vectors", FileOf(kept)), Put("metadata", FileOf(kept)),
                   Put("faiss", FileOf(kept))>>
      BY <3>4 DEF RemovalPlan, FileOf
    <3> HIDE DEF plan, kept
    <3>6. /\ DOMAIN plan = {1, 2, 3} /\ plan # <<>>
          /\ plan[1].file = "vectors" /\ plan[2].file = "metadata"
          /\ plan[3].file = "faiss" /\ plan[1].data = FileOf(kept)
          /\ plan[2].data = FileOf(kept) /\ plan[3].data = FileOf(kept)
      BY <3>5 DEF Put
    <3>7. Unwritten(t)' = Files
      BY <3>3, <3>6 DEF Unwritten, Files
    <3>8. NewRows(t)' = kept
      BY <2>3, <3>3 DEF NewRows, kept
    <3>9. PlanOK(t)'
      BY <3>2, <3>3, <3>6, <3>8 DEF PlanOK, WriteLabels
    <3> QED BY <1>1, <2>3, <3>2, <3>3, <3>7, <3>9, RewriteBegins
  <2> QED BY <2>4, <2>5
<1> QED BY <1>4, <1>5, <1>6

\* The worker begins with the index: it loads what is there, and plans to write
\* its rows after them.
LEMMA IndexingInTurn ==
  ASSUME Orderly, TakesTurns', IndexBegin \/ AppendLoadVectors \/ AppendRecords
  PROVE  FilesOK' /\ UNCHANGED <<records, IndexRows>>
<1> DEFINE d == cur[Worker]
<1>1. /\ pc[Worker] \in {"index", "appendVecs", "appendRecs"}
      /\ Worker \in Threads /\ pc[Worker] \notin RewriteLabels /\ pc[Worker] # "idle"
  BY DEF IndexBegin, AppendLoadVectors, AppendRecords, LoadVectors, Threads, RewriteLabels
<1>2. mem[Worker].plan = <<>> /\ d \in Docs /\ ReadOK(Worker)
  BY <1>1 DEF Orderly, PlanOK, WriteLabels, DataInv
<1>f. "vectors" \in Files /\ "metadata" \in Files /\ "faiss" \in Files
  BY DEF Files
<1>3. disk' = disk
  BY DEF IndexBegin, AppendLoadVectors, AppendRecords, LoadVectors
<1>w. ASSUME Only(Worker), pc'[Worker] \in ReadLabels \cup RewriteLabels
      PROVE  /\ Rows \in Seq(Docs)
             /\ Rows = <<>> => \A f \in Files : disk[f] = None
             /\ Rows # <<>> => \A f \in Files : disk[f] = Rows /\ Readable(f) /\ Present(f)
  <2>1. \A u \in Threads : ~Rewriting(u)
    BY <1>1, <1>w, OthersKept DEF Rewriting, RewriteLabels
  <2> QED BY <2>1, FilesWhole
<1>r. ASSUME pc[Worker] \in {"appendVecs", "appendRecs"}
      PROVE  /\ Rows \in Seq(Docs) /\ Rows # <<>>
             /\ \A f \in Files : disk[f] = Rows /\ Readable(f) /\ Present(f)
  <2>1. \A u \in Threads : ~Rewriting(u)
    BY <1>1, <1>r, OtherAway DEF Orderly, Rewriting, RewriteLabels, ReadLabels
  <2>2. Rows # <<>>
    BY <1>2, <1>r DEF ReadOK
  <2> QED BY <2>1, <2>2, FilesWhole
<1>6. ASSUME NEW new \in Seq(Docs), new = Append(Rows, d), Rows \in Seq(Docs),
             UNCHANGED <<records, cur>>,
             Write(Worker, Rows, <<Put("vectors", new), Put("metadata", new)>>,
                   "reloadVecs")
      PROVE  FilesOK' /\ UNCHANGED <<records, IndexRows>>
  <2> DEFINE plan == <<Put("vectors", new), Put("metadata", new)>>
  <2>1. Only(Worker) /\ pc'[Worker] = "write"
    <3>1. \E m : mem' = [mem EXCEPT ![Worker] = m]
      BY <1>6 DEF Write
    <3> QED BY <1>1, <1>6, <3>1, ThreadMoves DEF Write, Orderly
  <2>2. mem'[Worker].recs = Rows /\ mem'[Worker].plan = plan /\ ret'[Worker] = "reloadVecs"
    BY <1>1, <1>6 DEF Write, Orderly, DataInv, MemType, ControlTypeOK
  <2>3. /\ DOMAIN plan = {1, 2} /\ plan # <<>> /\ plan[1].file = "vectors"
        /\ plan[2].file = "metadata" /\ plan[1].data = new /\ plan[2].data = new
    BY DEF Put
  <2> HIDE DEF plan
  <2>4. Unwritten(Worker)' = Files
    BY <2>2, <2>3 DEF Unwritten, Files
  <2>5. NewRows(Worker)' = new
    BY <1>1, <1>6, <2>2 DEF NewRows
  <2>6. new # <<>>
    BY <1>2, <1>6
  <2>7. PlanOK(Worker)'
    <3>1. FileOf(new) = new
      BY <2>6 DEF FileOf
    <3>2. \A i \in DOMAIN plan : plan[i].data = FileOf(new) /\ plan[i].file # "faiss"
      BY <2>3, <3>1
    <3>3. \A i, j \in DOMAIN plan : plan[i].file = plan[j].file => i = j
      BY <2>3
    <3> QED BY <2>1, <2>2, <2>3, <2>5, <3>2, <3>3 DEF PlanOK, WriteLabels
  <2> QED BY <1>1, <1>3, <1>6, <2>1, <2>2, <2>4, <2>7, RewriteBegins
<1>7. CASE IndexBegin
  <2>1. CASE Present("vectors") /\ Present("metadata")
    <3>1. Goto(Worker, "appendVecs") /\ UNCHANGED <<records, cur, ret, mem>>
      BY <1>7, <2>1 DEF IndexBegin
    <3>2. Only(Worker) /\ pc'[Worker] = "appendVecs"
      BY <1>1, <3>1, ThreadMoves DEF Orderly
    <3>3. Rows # <<>>
      BY <1>f, <1>w, <2>1, <3>2 DEF Present, ReadLabels
    <3>4. ReadOK(Worker)'
      BY <1>3, <3>2, <3>3 DEF ReadOK, Rows, Present
    <3> QED BY <1>1, <1>2, <1>3, <3>1, <3>2, <3>4, CalmMove DEF RewriteLabels
  <2>2. CASE ~(Present("vectors") /\ Present("metadata"))
    <3>1. /\ Write(Worker, <<>>, <<Put("vectors", <<d>>), Put("metadata", <<d>>)>>,
                   "reloadVecs")
          /\ UNCHANGED <<records, cur>>
      BY <1>7, <2>2 DEF IndexBegin
    <3>2. Only(Worker) /\ pc'[Worker] = "write"
      <4>1. \E m : mem' = [mem EXCEPT ![Worker] = m]
        BY <3>1 DEF Write
      <4> QED BY <1>1, <3>1, <4>1, ThreadMoves DEF Write, Orderly
    <3>3. Rows = <<>>
      BY <1>f, <1>w, <2>2, <3>2 DEF RewriteLabels
    <3>4. <<d>> = Append(Rows, d) /\ <<d>> \in Seq(Docs) /\ Rows \in Seq(Docs)
      BY <1>2, <3>3
    <3> QED BY <1>6, <3>1, <3>3, <3>4
  <2> QED BY <2>1, <2>2
<1>8. CASE AppendLoadVectors
  <2>1. pc[Worker] = "appendVecs" /\ Rows # <<>>
    BY <1>r, <1>8 DEF AppendLoadVectors, LoadVectors
  <2>2. Readable("vectors") /\ Present("metadata")
    BY <1>f, <1>r, <2>1
  <2>3. /\ mem' = [mem EXCEPT ![Worker].vecs = disk["vectors"]]
        /\ Goto(Worker, "appendRecs") /\ UNCHANGED <<records, cur, ret>>
    BY <1>8, <2>2 DEF AppendLoadVectors, LoadVectors
  <2>4. Only(Worker) /\ pc'[Worker] = "appendRecs"
    <3>1. \E m : mem' = [mem EXCEPT ![Worker] = m]
      BY <2>3
    <3> QED BY <1>1, <2>3, <3>1, ThreadMoves DEF Orderly
  <2>5. mem'[Worker].vecs = disk["vectors"] /\ mem'[Worker].plan = <<>>
    BY <1>1, <1>2, <2>3 DEF Orderly, DataInv, MemType
  <2>6. ReadOK(Worker)'
    BY <1>3, <2>1, <2>4, <2>5 DEF ReadOK, Rows, Present
  <2> QED
    BY <1>1, <1>3, <2>3, <2>4, <2>5, <2>6, CalmMove DEF RewriteLabels
<1>9. CASE AppendRecords
  <2>1. Rows # <<>> /\ mem[Worker].vecs = disk["vectors"] /\ Rows \in Seq(Docs)
    BY <1>2, <1>r, <1>9 DEF AppendRecords, ReadOK
  <2>2. /\ disk["vectors"] = Rows /\ disk["metadata"] = Rows /\ Readable("metadata")
        /\ mem[Worker].vecs = Rows
    BY <1>f, <1>r, <1>9, <2>1 DEF AppendRecords
  <2>3. /\ Write(Worker, Rows, <<Put("vectors", Append(Rows, d)),
                                 Put("metadata", Append(Rows, d))>>, "reloadVecs")
        /\ UNCHANGED <<records, cur>>
    BY <1>9, <2>2 DEF AppendRecords
  <2>4. Append(Rows, d) \in Seq(Docs)
    BY <1>2, <2>1
  <2> QED BY <1>6, <2>1, <2>3, <2>4
<1> QED BY <1>7, <1>8, <1>9

\* With vectors and metadata written, the worker reads them back and plans the
\* FAISS file.
LEMMA ReloadInTurn ==
  ASSUME Orderly, TakesTurns', ReloadVectors \/ ReloadRecords
  PROVE  FilesOK' /\ UNCHANGED <<records, IndexRows>>
<1> DEFINE new == NewRows(Worker)
<1>1. /\ pc[Worker] \in {"reloadVecs", "reloadRecs"}
      /\ Worker \in Threads /\ ret[Worker] # "removed"
  BY DEF ReloadVectors, ReloadRecords, LoadVectors, Threads, Orderly, ThreadInv,
     RemoveLabels, WriteLabels
<1>2. Rewriting(Worker) /\ RewriteOK(Worker) /\ ReadOK(Worker) /\ mem[Worker].plan = <<>>
  BY <1>1 DEF Orderly, PlanOK, Rewriting, WriteLabels
<1>3. Unwritten(Worker) = {"faiss"}
  BY <1>1, <1>2 DEF Unwritten
<1>4. new \in Seq(Docs) /\ new # <<>>
  <2>1. mem[Worker].recs \in Seq(Docs) /\ cur[Worker] \in Docs
    BY <1>1 DEF Orderly, DataInv, MemType
  <2>2. new = Append(mem[Worker].recs, cur[Worker])
    BY <1>1 DEF NewRows
  <2> HIDE DEF new
  <2> QED BY <2>1, <2>2
<1>5. /\ FileOf(new) = new /\ disk["vectors"] = new /\ disk["metadata"] = new
      /\ Readable("vectors") /\ Readable("metadata") /\ Present("metadata")
  <2>1. FileOf(new) = new
    BY <1>4 DEF FileOf
  <2>2. disk["vectors"] = FileOf(new) /\ disk["metadata"] = FileOf(new)
    BY <1>2, <1>3 DEF RewriteOK, Files
  <2> HIDE DEF new
  <2>3. new # None /\ new # Torn
    BY <1>4, DocsAssumption
  <2> QED BY <2>1, <2>2, <2>3 DEF Readable, Present
<1>6. disk' = disk
  BY DEF ReloadVectors, ReloadRecords, LoadVectors
<1>7. CASE ReloadVectors
  <2>1. /\ mem' = [mem EXCEPT ![Worker].vecs = disk["vectors"]]
        /\ Goto(Worker, "reloadRecs") /\ UNCHANGED <<records, cur, ret>>
    BY <1>5, <1>7 DEF ReloadVectors, LoadVectors
  <2>2. Only(Worker) /\ pc'[Worker] = "reloadRecs"
    <3>1. \E m : mem' = [mem EXCEPT ![Worker] = m]
      BY <2>1
    <3> QED BY <1>1, <2>1, <3>1, ThreadMoves DEF Orderly
  <2>3. /\ mem'[Worker].vecs = disk["vectors"] /\ mem'[Worker].plan = <<>>
        /\ mem'[Worker].recs = mem[Worker].recs
    BY <1>1, <1>2, <2>1 DEF Orderly, DataInv, MemType
  <2>4. NewRows(Worker)' = new /\ Unwritten(Worker)' = Unwritten(Worker)
    BY <1>2, <2>1, <2>3 DEF NewRows, Unwritten
  <2>5. RewriteOK(Worker)'
    BY <1>1, <1>2, <1>6, <2>2, <2>3, <2>4 DEF RewriteOK
  <2>6. (PlanOK(Worker) /\ ReadOK(Worker))' /\ Rewriting(Worker)'
    BY <1>6, <2>2, <2>3 DEF PlanOK, ReadOK, Rewriting, WriteLabels
  <2> QED BY <1>1, <1>2, <2>1, <2>2, <2>3, <2>5, <2>6, RewriteContinues
<1>8. CASE ReloadRecords
  <2> DEFINE plan == <<Put("faiss", mem[Worker].vecs)>>
  <2>1. Write(Worker, mem[Worker].recs, plan, "check") /\ UNCHANGED <<records, cur>>
    BY <1>5, <1>8 DEF ReloadRecords
  <2>2. Only(Worker) /\ pc'[Worker] = "write"
    <3>1. \E m : mem' = [mem EXCEPT ![Worker] = m]
      BY <2>1 DEF Write
    <3> QED BY <1>1, <2>1, <3>1, ThreadMoves DEF Write, Orderly
  <2>3. /\ mem'[Worker].recs = mem[Worker].recs /\ mem'[Worker].plan = plan
        /\ ret'[Worker] = "check"
    BY <1>1, <2>1 DEF Write, Orderly, DataInv, MemType, ControlTypeOK
  <2>4. mem[Worker].vecs = new
    BY <1>2, <1>5, <1>8 DEF ReadOK, ReloadRecords
  <2>5. DOMAIN plan = {1} /\ plan # <<>> /\ plan[1].file = "faiss" /\ plan[1].data = new
    BY <2>4 DEF Put
  <2> HIDE DEF plan
  <2>6. NewRows(Worker)' = new /\ Unwritten(Worker)' = Unwritten(Worker)
    <3>1. Unwritten(Worker)' = {"faiss"}
      BY <1>1, <2>3, <2>5 DEF Unwritten
    <3> QED BY <1>1, <1>3, <2>1, <2>3, <3>1 DEF NewRows
  <2>7. RewriteOK(Worker)'
    BY <1>1, <1>2, <1>6, <2>2, <2>3, <2>6 DEF RewriteOK
  <2>8. (PlanOK(Worker) /\ ReadOK(Worker))' /\ Rewriting(Worker)'
    BY <1>5, <2>2, <2>3, <2>5, <2>6 DEF PlanOK, ReadOK, Rewriting, WriteLabels
  <2> QED BY <1>1, <1>2, <2>1, <2>2, <2>3, <2>7, <2>8, RewriteContinues
<1> QED BY <1>7, <1>8

\* A step that leaves threads and files alone.
LEMMA NothingMoves ==
  ASSUME Orderly, TakesTurns', UNCHANGED <<disk, pc, cur, ret, mem>>
  PROVE  FilesOK' /\ UNCHANGED IndexRows
<1>1. \A u \in Threads : Rewriting(u)' <=> Rewriting(u)
  BY DEF Rewriting
<1>2. Rows' = Rows
  BY DEF Rows, Present
<1>3. RestInv'
  BY <1>1, <1>2 DEF Orderly, RestInv
<1>4. \A u \in Threads : (RewriteOK(u) /\ PlanOK(u) /\ ReadOK(u))'
  BY ThreadStays DEF Orderly
<1>5. CASE \A u \in Threads : ~Rewriting(u)
  <2>1. IndexRows = Rows
    BY <1>5, RowsServed DEF Orderly
  <2>2. \A u \in Threads : ~Rewriting(u)'
    BY <1>1, <1>5
  <2>3. IndexRows' = Rows'
    BY <2>2, RowsServedNext
  <2> QED BY <1>2, <1>3, <1>4, <2>1, <2>3 DEF FilesOK
<1>6. CASE \E u \in Threads : Rewriting(u)
  <2>1. PICK u \in Threads : Rewriting(u)
    BY <1>6
  <2>2. IndexRows = mem[u].recs
    BY <2>1, RowsServed DEF Orderly
  <2>3. Rewriting(u)'
    BY <1>1, <2>1
  <2>4. IndexRows' = mem'[u].recs
    BY <2>3, RowsServedNext
  <2> QED BY <1>3, <1>4, <2>2, <2>4 DEF FilesOK
<1> QED BY <1>3, <1>4, <1>5, <1>6 DEF FilesOK

\* The steps of a request that are not of the files.
LEMMA RequestInTurn ==
  ASSUME Orderly, TakesTurns', Request \/ UploadAdd \/ UploadEnqueue \/ DeleteRecord
  PROVE  FilesOK' /\ UNCHANGED IndexRows
<1>1. /\ Loop \in Threads /\ pc[Loop] \in {"idle", "add", "enqueue", "removed"}
      /\ disk' = disk
  BY DEF Request, UploadStore, DeleteStart, UploadAdd, UploadEnqueue, DeleteRecord, Threads
<1>2. mem[Loop].plan = <<>>
  BY <1>1 DEF Orderly, PlanOK, WriteLabels
<1>3. /\ Only(Loop) /\ mem'[Loop].plan = <<>>
      /\ pc'[Loop] \in {"idle", "add", "enqueue", "remove"}
  <2>1. CASE Request \/ UploadAdd
    <3>1. mem' = mem /\ \E label \in {"add", "remove", "enqueue"} : Goto(Loop, label)
      BY <2>1 DEF Request, UploadStore, DeleteStart, UploadAdd
    <3>2. /\ cur' = cur \/ \E d : cur' = [cur EXCEPT ![Loop] = d]
          /\ ret' = ret \/ \E l : ret' = [ret EXCEPT ![Loop] = l]
      BY <2>1 DEF Request, UploadStore, DeleteStart, UploadAdd
    <3> QED BY <1>1, <1>2, <3>1, <3>2, ThreadMoves DEF Orderly
  <2>2. CASE UploadEnqueue \/ DeleteRecord
    BY <1>1, <2>2, ThreadRests DEF UploadEnqueue, DeleteRecord, Orderly
  <2> QED BY <2>1, <2>2
<1> QED BY <1>1, <1>3, CalmMove DEF RewriteLabels, ReadLabels

\* The steps of a job that are not of the files.
LEMMA JobInTurn ==
  ASSUME Orderly, TakesTurns',
         \/ TakeJob \/ Parsed \/ Chunked \/ Embedded \/ StageFails
         \/ CheckRecord \/ MarkReady \/ DiscardUpload
  PROVE  FilesOK' /\ UNCHANGED IndexRows
<1>1. /\ Worker \in Threads /\ disk' = disk
      /\ pc[Worker] \in {"idle", "parse", "chunk", "embed", "check", "ready", "removed"}
  BY DEF TakeJob, Parsed, Chunked, Embedded, NextStage, StageFails, CheckRecord, MarkReady,
     DiscardUpload, Threads
<1>2. mem[Worker].plan = <<>>
  BY <1>1 DEF Orderly, PlanOK, WriteLabels
<1>3. CASE UNCHANGED <<pc, cur, ret, mem>>
  BY <1>1, <1>3, NothingMoves
<1>4. CASE ~UNCHANGED <<pc, cur, ret, mem>>
  <2>1. /\ Only(Worker) /\ mem'[Worker].plan = <<>>
        /\ pc'[Worker] \in {"idle", "parse", "chunk", "embed", "index", "ready", "remove"}
    <3>1. CASE TakeJob \/ Parsed \/ Chunked \/ Embedded \/ CheckRecord
      <4>1. /\ mem' = mem
            /\ \E label \in {"parse", "chunk", "embed", "index", "ready", "remove"} :
                 Goto(Worker, label)
        BY <1>4, <3>1 DEF TakeJob, Parsed, Chunked, Embedded, NextStage, CheckRecord
      <4>2. /\ cur' = cur \/ \E d : cur' = [cur EXCEPT ![Worker] = d]
            /\ ret' = ret \/ \E l : ret' = [ret EXCEPT ![Worker] = l]
        BY <1>4, <3>1 DEF TakeJob, Parsed, Chunked, Embedded, NextStage, CheckRecord
      <4> QED BY <1>1, <1>2, <4>1, <4>2, ThreadMoves DEF Orderly
    <3>2. CASE StageFails \/ MarkReady \/ DiscardUpload
      BY <1>1, <3>2, ThreadRests DEF StageFails, Abort, MarkReady, DiscardUpload, Orderly
    <3> QED BY <3>1, <3>2
  <2> QED BY <1>1, <2>1, CalmMove DEF RewriteLabels, ReadLabels
<1> QED BY <1>3, <1>4

\* Every step in turn keeps the files, and changes what is served only when a
\* thread has written its last file.
LEMMA FilesInTurn ==
  ASSUME Orderly, [InTurns]_vars
  PROVE  /\ FilesOK' /\ TakesTurns'
         /\ UNCHANGED IndexRows \/ \E t \in Threads : Finishes(t)
<1>1. CASE UNCHANGED vars
  <2>1. TakesTurns'
    BY <1>1 DEF vars, Orderly, TakesTurns, UsesFiles, Rewriting
  <2> QED BY <1>1, <2>1, NothingMoves DEF vars
<1>2. CASE InTurns
  <2>1. TakesTurns' /\ Next /\ ~Fault
    BY <1>2 DEF InTurns
  <2>2. CASE Startup
    BY <2>1, <2>2, NothingMoves
    DEF Startup, StartWorker, ScanUnfinished, Requeue, Serve
  <2>3. ASSUME NEW t \in Threads, FileStep(t)
        PROVE  /\ FilesOK'
               /\ UNCHANGED IndexRows \/ Finishes(t)
    <3>1. CASE RemoveBegin(t) \/ RemoveReadRecords(t) \/ RemoveReadVectors(t)
      BY <2>1, <3>1, RemovalInTurn
    <3>2. CASE Truncate(t)
      BY <2>1, <3>2, TruncateInTurn
    <3>3. CASE Fill(t) \/ Unlink(t)
      BY <2>1, <3>3, PutInTurn
    <3> QED BY <2>3, <3>1, <3>2, <3>3 DEF FileStep
  <2>4. CASE Request \/ Respond
    BY <2>1, <2>3, <2>4, RequestInTurn DEF Respond, Threads
  <2>5. CASE Work
    BY <2>1, <2>3, <2>5, JobInTurn, IndexingInTurn, ReloadInTurn DEF Work, Threads
  <2> QED BY <2>1, <2>2, <2>4, <2>5 DEF Next
<1> QED BY <1>1, <1>2

\* What the threads rely on holds at first, and after every step in turns.
LEMMA OrderlyInit == Init => Orderly
<1> SUFFICES ASSUME Init PROVE Orderly
  OBVIOUS
<1>1. ControlTypeOK /\ DataInv
  BY TypeInit, DataInit
<1>2. \A t \in Threads :
        pc[t] = "idle" /\ cur[t] = None /\ mem[t].plan = <<>> /\ ret[t] = "idle"
  BY DEF Init, EmptyMem
<1>3. ThreadInv
  BY <1>2
  DEF ThreadInv, Threads, LoopLabels, WorkerLabels, Labels, RemoveLabels, WriteLabels
<1>4. TakesTurns /\ \A t \in Threads : RewriteOK(t) /\ PlanOK(t) /\ ReadOK(t)
  BY <1>2 DEF TakesTurns, UsesFiles, Rewriting, RewriteOK, PlanOK, ReadOK, WriteLabels, Threads
<1>5. Rows = <<>>
  BY DEF Init, Rows, Present, Files
<1>6. RestInv
  BY <1>5 DEF Init, RestInv, FileOf
<1> QED BY <1>1, <1>3, <1>4, <1>6 DEF Orderly

LEMMA OrderlyStep == Orderly /\ [InTurns]_vars => Orderly'
<1> SUFFICES ASSUME Orderly, [InTurns]_vars PROVE Orderly'
  OBVIOUS
<1>1. [Next]_vars
  BY DEF InTurns
<1>2. ControlTypeOK' /\ DataInv' /\ ThreadInv'
  BY <1>1, TypeStep, DataStep, ThreadStep DEF Orderly
<1> QED BY <1>2, FilesInTurn DEF Orderly, FilesOK

-----------------------------------------------------------------------------
(* What is in the index and what the records say, while the threads take   *)
(* turns.                                                                  *)

\* What is served is a sequence of documents, whoever rewrites it.
LEMMA IndexRowsType ==
  ASSUME Orderly
  PROVE  IndexRows \in Seq(Docs)
<1>1. CASE \A t \in Threads : ~Rewriting(t)
  <2>1. IndexRows = Rows
    BY <1>1, RowsServed DEF Orderly
  <2> QED BY <1>1, <2>1, FilesWhole
<1>2. CASE \E t \in Threads : Rewriting(t)
  <2>1. PICK t \in Threads : Rewriting(t)
    BY <1>2
  <2>2. IndexRows = mem[t].recs
    BY <2>1, RowsServed DEF Orderly
  <2> QED BY <2>2 DEF Orderly, DataInv, MemType
<1> QED BY <1>1, <1>2

\* Appending a document adds it to what there is.
LEMMA DocsAppended ==
  ASSUME NEW rows \in Seq(Docs), NEW d \in Docs
  PROVE  DocsOf(Append(rows, d)) = DocsOf(rows) \cup {d}
<1> DEFINE new == Append(rows, d)
<1>1. /\ Len(rows) \in Nat /\ DOMAIN rows = 1 .. Len(rows)
      /\ DOMAIN new = 1 .. Len(rows) + 1
      /\ new[Len(rows) + 1] = d /\ \A i \in 1 .. Len(rows) : new[i] = rows[i]
  OBVIOUS
<1>2. \A i \in DOMAIN new : i \in DOMAIN rows \/ i = Len(rows) + 1
  BY <1>1
<1>3. DOMAIN rows \in SUBSET DOMAIN new /\ Len(rows) + 1 \in DOMAIN new
  BY <1>1
<1> HIDE DEF new
<1>4. DocsOf(new) = DocsOf(rows) \cup {d}
  BY <1>1, <1>2, <1>3 DEF DocsOf
<1> QED BY <1>4 DEF new

\* A file is done, and there is another to do; what is served stays.
LEMMA ServedStays ==
  ASSUME Orderly, [InTurns]_vars, ~\E t \in Threads : Finishes(t)
  PROVE  /\ UNCHANGED IndexRows
         /\ \A t \in Threads : Fill(t) \/ Unlink(t) => pc'[t] \in RewriteLabels
<1>1. UNCHANGED IndexRows
  BY FilesInTurn
<1>2. TakesTurns'
  BY FilesInTurn
<1>3. ASSUME NEW t \in Threads, Fill(t) \/ Unlink(t) PROVE pc'[t] \in RewriteLabels
  BY <1>2, <1>3, PutInTurn
<1> QED BY <1>1, <1>3

\* What the index serves once a thread has written its last file.
LEMMA DocsFinished ==
  ASSUME Orderly, NEW t \in Threads, Finishes(t)
  PROVE  /\ cur[t] \in Docs /\ cur' = cur /\ ret' = ret /\ records' = records
         /\ born' = born /\ queue' = queue /\ stranded' = stranded
         /\ pc'[t] = ret[t] /\ \A u \in Threads : u # t => pc'[u] = pc[u]
         /\ t = Loop => ret[t] = "removed"
         /\ ret[t] \in {"check", "removed"}
         /\ DocsOf(IndexRows') = IF ret[t] = "removed" THEN DocsOf(IndexRows) \ {cur[t]}
                                                      ELSE DocsOf(IndexRows) \cup {cur[t]}
<1>1. pc[t] \in WriteLabels /\ pc[t] # "idle"
  BY DEF Finishes, WriteLabels
<1>2. cur[t] \in Docs /\ (t = Loop => ret[t] = "removed") /\ ret[t] \in {"check", "removed"}
  BY <1>1 DEF Orderly, ThreadInv, ControlTypeOK, Finishes
<1>3. /\ cur' = cur /\ ret' = ret /\ records' = records
      /\ born' = born /\ queue' = queue /\ stranded' = stranded
      /\ pc'[t] = ret[t] /\ \A u \in Threads : u # t => pc'[u] = pc[u]
  BY DEF Finishes, Orderly, ControlTypeOK
<1>4. IndexRows \in Seq(Docs)
  BY IndexRowsType
<1>5. CASE ret[t] = "removed"
  <2>1. IndexRows' = KeptRows(IndexRows, cur[t])
    BY <1>5 DEF Finishes
  <2> QED BY <1>2, <1>3, <1>4, <1>5, <2>1, KeptFacts
<1>6. CASE ret[t] # "removed"
  <2>1. IndexRows' = Append(IndexRows, cur[t])
    BY <1>6 DEF Finishes
  <2>2. DocsOf(IndexRows') = DocsOf(IndexRows) \cup {cur[t]}
    BY <1>2, <1>4, <2>1, DocsAppended
  <2> QED BY <1>2, <1>3, <1>6, <2>2
<1> QED BY <1>5, <1>6

\* A removal that has the files to itself goes through, and where it writes
\* nothing, it has found nothing of the document.
LEMMA RemovalFinds ==
  ASSUME Orderly, TakesLongTurns, NEW t \in Threads,
         RemoveBegin(t) \/ RemoveReadRecords(t) \/ RemoveReadVectors(t)
  PROVE  /\ cur' = cur /\ ret' = ret /\ records' = records
         /\ \E label \in {"removeRecs", "removeVecs", "write", "removed"} :
              pc' = [pc EXCEPT ![t] = label]
         /\ pc'[t] = "removed" => cur[t] \notin DocsOf(IndexRows)
<1>1. /\ pc[t] \in {"remove", "removeRecs", "removeVecs"} /\ pc[t] # "idle"
      /\ ret[t] = "removed" /\ cur[t] \in Docs
  BY DEF RemoveBegin, RemoveReadRecords, RemoveReadVectors, Orderly,
     ThreadInv, RemoveLabels, Threads, ControlTypeOK
<1>2. \A u \in Threads : ~Rewriting(u)
  BY <1>1 DEF TakesLongTurns, HoldsIndex, UsesFiles, Rewriting, Threads
<1>3. IndexRows = Rows /\ Rows \in Seq(Docs)
  BY <1>2, RowsServed, FilesWhole DEF Orderly
<1>4. pc[t] \in {"removeRecs", "removeVecs"} =>
        Rows # <<>> /\ \A f \in Files : disk[f] = Rows /\ Readable(f)
  BY <1>2, FilesWhole DEF Orderly, ReadOK
<1>f. "vectors" \in Files /\ "metadata" \in Files /\ "faiss" \in Files
  BY DEF Files
<1>p. pc \in [Threads -> Labels] /\ ret \in [Threads -> ReturnLabels]
  BY DEF Orderly, ControlTypeOK
<1>5. CASE RemoveBegin(t)
  <2>1. cur' = cur /\ ret' = ret /\ records' = records
    BY <1>5 DEF RemoveBegin
  <2>2. CASE CorpusExists
    BY <1>5, <1>p, <2>1, <2>2 DEF RemoveBegin, Goto
  <2>3. CASE ~CorpusExists
    <3>1. Rows = <<>>
      BY <1>2, <1>f, <2>3, FilesWhole DEF CorpusExists
    <3>2. cur[t] \notin DocsOf(IndexRows)
      BY <1>3, <3>1 DEF DocsOf
    <3> QED BY <1>5, <1>p, <2>1, <2>3, <3>2 DEF RemoveBegin, Goto
  <2> QED BY <2>2, <2>3
<1>6. CASE RemoveReadRecords(t)
  BY <1>4, <1>6, <1>f, <1>p DEF RemoveReadRecords, Goto
<1>7. CASE RemoveReadVectors(t)
  <2>1. pc[t] = "removeVecs" /\ mem[t].recs = Rows
    BY <1>7 DEF RemoveReadVectors, Orderly, ReadOK
  <2>2. Readable("vectors") /\ disk["vectors"] = Rows
    BY <1>4, <1>f, <2>1
  <2>3. UNCHANGED <<records, cur>>
    BY <1>7, <2>1, <2>2 DEF RemoveReadVectors
  <2>4. CASE KeptRows(Rows, cur[t]) = Rows
    <3>1. Goto(t, "removed") /\ UNCHANGED ret
      BY <1>7, <2>1, <2>2, <2>4 DEF RemoveReadVectors
    <3>2. cur[t] \notin DocsOf(Rows)
      BY <1>3, <2>4, KeptFacts
    <3> QED BY <1>3, <1>p, <2>3, <3>1, <3>2 DEF Goto
  <2>5. CASE KeptRows(Rows, cur[t]) # Rows
    <3>1. Write(t, Rows, RemovalPlan(Rows, Rows, cur[t]), "removed")
      BY <1>7, <2>1, <2>2, <2>5 DEF RemoveReadVectors
    <3>2. ret' = ret /\ pc' = [pc EXCEPT ![t] = "write"]
      BY <1>1, <1>p, <3>1 DEF Write, Goto
    <3> QED BY <1>p, <2>3, <3>2
  <2> QED BY <2>4, <2>5
<1> QED BY <1>5, <1>6, <1>7

\* At first there is no index.
LEMMA StartsEmpty ==
  ASSUME Init
  PROVE  IndexRows = <<>> /\ DocsOf(IndexRows) = {} /\ Distinct(IndexRows)
<1>1. IndexRows = <<>>
  BY DEF Init, IndexRows, Rewriting, Rows, Present, Files
<1> QED BY <1>1 DEF DocsOf, Distinct

\* Between operations, the rows that are served are those of the metadata.
LEMMA ServedAtRest ==
  ASSUME Orderly, Quiet
  PROVE  /\ Readable("metadata") => disk["metadata"] = IndexRows
         /\ ~Readable("metadata") => IndexRows = <<>>
<1>1. \A t \in Threads : ~Rewriting(t)
  BY DEF Quiet, Rewriting
<1>2. IndexRows = Rows
  BY <1>1, RowsServed DEF Orderly
<1> QED BY <1>1, <1>2, FilesWhole DEF Readable, Files

\* What the properties of the index ask between operations.
LEMMA AlignedAtRest == Orderly => FilesAligned
<1> SUFFICES ASSUME Orderly, Quiet PROVE FilesAligned
  BY DEF FilesAligned
<1>1. \A t \in Threads : ~Rewriting(t)
  BY DEF Quiet, Rewriting
<1> QED BY <1>1, FilesWhole DEF FilesAligned, Files

\* What each invariant of the rows says between operations.
LEMMA ReadyAtRest ==
  ASSUME Orderly,
         Quiet => \A d \in Docs : records[d] = "READY" => d \in DocsOf(IndexRows)
  PROVE  ReadyIndexed
<1> SUFFICES ASSUME Quiet, NEW d \in Docs, records[d] = "READY"
             PROVE  Readable("metadata") /\ RowsOf(d, disk["metadata"]) # {}
  BY DEF ReadyIndexed
<1>1. d \in DocsOf(IndexRows)
  OBVIOUS
<1> QED BY <1>1, ServedAtRest DEF DocsOf, RowsOf

\* Rows that are distinct are chunks that are there once.
LEMMA OnceAtRest ==
  ASSUME Orderly, Distinct(IndexRows)
  PROVE  NoDuplicateChunks
<1> SUFFICES ASSUME Quiet, Readable("metadata"), NEW d \in Docs
             PROVE  Cardinality(RowsOf(d, disk["metadata"])) <= 1
  BY DEF NoDuplicateChunks
<1>1. disk["metadata"] = IndexRows
  BY ServedAtRest
<1>2. RowsOf(d, IndexRows) = {} \/ \E i : RowsOf(d, IndexRows) = {i}
  BY <1>1 DEF RowsOf, Distinct
<1>3. Cardinality({}) = 0 /\ \A i : Cardinality({i}) = 1
  BY FS_EmptySet, FS_Singleton
<1>4. Cardinality(RowsOf(d, IndexRows)) \in {0, 1}
  BY <1>2, <1>3
<1> QED BY <1>1, <1>4

\* Rows that have a record are no orphans.
LEMMA OwnedAtRest ==
  ASSUME Orderly, Quiet => \A d \in DocsOf(IndexRows) : records[d] # "none"
  PROVE  NoOrphanChunks
<1> SUFFICES ASSUME Quiet, Readable("metadata"), NEW i \in DOMAIN disk["metadata"]
             PROVE  records[disk["metadata"][i]] # "none"
  BY DEF NoOrphanChunks
<1>1. disk["metadata"][i] \in DocsOf(IndexRows)
  BY ServedAtRest DEF DocsOf
<1> QED BY <1>1

-----------------------------------------------------------------------------
(* A client whose deletes do not race, until a first fault: the threads    *)
(* take turns of themselves.                                               *)

\* What a step that is not a fault may rely on.
Sound ==
  /\ Orderly /\ ControlInv /\ AloneInv
  /\ Distinct(IndexRows) /\ DocsOf(IndexRows) = Served

\* No thread sees the other one at work on the files: a delete has the worker
\* idle, and the worker never removes a document.
LEMMA Exclusive ==
  ASSUME Sound
  PROVE  /\ Threads = {Worker, Loop} /\ Worker # Loop
         /\ pc[Worker] \notin RemoveLabels
         /\ pc[Worker] \in WriteLabels => ret[Worker] \in {"reloadVecs", "check"}
         /\ pc[Loop] \in RemoveLabels \cup WriteLabels =>
              /\ pc[Worker] = "idle" /\ ret[Loop] = "removed" /\ queue = <<>>
              /\ records[cur[Loop]] # "none"
         /\ \A t \in Threads : cur[t] = None <=> pc[t] = "idle"
         /\ pc[Loop] \in {"idle", "add", "enqueue"} \cup RemoveLabels \cup WriteLabels
<1> USE DEF Sound, ControlInv, ThreadInv, StatusInv, AloneInv, Threads, Worker,
     Loop, RemoveLabels, WriteLabels, LoopLabels
<1>1. pc[Worker] \in RemoveLabels \cup WriteLabels => ret[Worker] # "removed"
  BY SMTT(40)
<1> QED BY <1>1

\* What no step but a fault, or but an upload, changes.
LEMMA StepFrame ==
  ASSUME Startup \/ Request \/ Respond \/ Work
  PROVE  /\ UNCHANGED faults
         /\ phase' # "up" => phase # "up" /\ UNCHANGED born
  BY ZenonT(60) DEF Startup, StartWorker, ScanUnfinished, Requeue, Serve, Request, UploadStore,
     DeleteStart, Respond, UploadAdd, UploadEnqueue, DeleteRecord, FileStep,
     RemoveBegin, RemoveReadRecords, RemoveReadVectors, Truncate, Fill, Unlink, Work,
     TakeJob, Parsed, Chunked, Embedded, NextStage, StageFails, IndexBegin,
     AppendLoadVectors, LoadVectors, AppendRecords, ReloadVectors, ReloadRecords,
     CheckRecord, MarkReady, DiscardUpload

\* A delete goes on alone, and what is under way keeps its record.
LEMMA AloneStep ==
  ASSUME ~DeletesRace, Sound, Startup \/ Request \/ Respond \/ Work
  PROVE  AloneInv'
<1> USE DEF Sound, ControlInv, ControlTypeOK, AloneInv
<1>1. /\ Threads = {Worker, Loop} /\ Worker # Loop
      /\ \A t \in Threads : cur[t] = None <=> pc[t] = "idle"
      /\ pc[Worker] \notin RemoveLabels
      /\ pc[Loop] \in RemoveLabels \cup WriteLabels => ret[Loop] = "removed"
  BY Exclusive
<1>2. phase' # "up" => born' = {}
  BY StepFrame
<1>3. CASE Startup
  <2>1. \A d \in Docs : ~Requeue(d)
    BY DEF Requeue, StatusInv, Working
  <2>2. UNCHANGED <<records, queue, pc, cur>>
    BY <1>3, <2>1 DEF Startup, StartWorker, ScanUnfinished, Serve
  <2> QED BY <1>2, <2>2
<1>4. CASE \E d \in Docs : UploadStore(d)
  BY <1>1, <1>2, <1>4 DEF UploadStore, Goto, RemoveLabels, WriteLabels
<1>5. CASE \E d \in Docs : DeleteStart(d)
  BY <1>1, <1>2, <1>5 DEF DeleteStart, DeleteAllowed, Goto, RemoveLabels, WriteLabels
<1>6. CASE UploadAdd
  BY <1>1, <1>2, <1>6 DEF UploadAdd, Goto, RemoveLabels, WriteLabels
<1>7. CASE UploadEnqueue
  <2>1. /\ queue' = Append(queue, cur[Loop]) /\ cur[Loop] \in Docs
        /\ records[cur[Loop]] = "QUEUED" /\ UNCHANGED records /\ pc'[Loop] = "idle"
        /\ cur'[Worker] = cur[Worker]
    BY <1>1, <1>7 DEF UploadEnqueue, StatusInv, Rest, Goto
  <2>2. \A i \in DOMAIN queue' : \/ i \in DOMAIN queue /\ queue'[i] = queue[i]
                                 \/ queue'[i] = cur[Loop]
    BY <2>1, QueueAppended
  <2> QED BY <1>2, <2>1, <2>2 DEF RemoveLabels, WriteLabels
<1>8. CASE DeleteRecord
  <2>1. /\ queue = <<>> /\ cur[Worker] = None /\ UNCHANGED queue
        /\ pc'[Loop] = "idle" /\ cur'[Worker] = cur[Worker]
    BY <1>1, <1>8 DEF DeleteRecord, Rest, Goto, RemoveLabels
  <2> QED BY <1>2, <2>1 DEF RemoveLabels, WriteLabels
<1>9. CASE FileStep(Loop)
  <2>1. /\ pc[Loop] \in RemoveLabels \cup WriteLabels /\ UNCHANGED <<records, queue>>
        /\ pc'[Worker] = pc[Worker] /\ cur'[Worker] = cur[Worker]
        /\ pc'[Loop] = "idle" \/ cur'[Loop] = cur[Loop]
    BY <1>1, <1>9
    DEF FileStep, RemoveBegin, RemoveReadRecords, RemoveReadVectors, Truncate,
       Fill, Unlink, Advance, Abort, Rest, Write, Goto, RemoveLabels, WriteLabels
  <2> QED BY <1>2, <2>1 DEF RemoveLabels, WriteLabels
<1>10. CASE TakeJob
  <2>1. /\ queue # <<>> /\ pc'[Loop] = pc[Loop] /\ queue' = Tail(queue)
        /\ cur'[Worker] \in {cur[Worker], Head(queue)}
        /\ \A d \in Docs : records'[d] = "none" => records[d] = "none"
    BY <1>1, <1>10 DEF TakeJob, Goto, SetStatus
  <2>2. pc'[Loop] \notin RemoveLabels \cup WriteLabels
    BY <1>1, <2>1
  <2>3. \A i \in DOMAIN queue' : \E j \in DOMAIN queue : queue'[i] = queue[j]
    BY <2>1, QueueTaken
  <2>4. Head(queue) \in Docs /\ records[Head(queue)] # "none"
    BY <2>1, QueueTaken
  <2>5. \A i \in DOMAIN queue' : queue'[i] \in Docs /\ records[queue'[i]] # "none"
    BY <2>3
  <2>6. cur'[Worker] # None => cur'[Worker] \in Docs /\ records[cur'[Worker]] # "none"
    BY <1>1, <2>1, <2>4
  <2> QED BY <1>2, <2>1, <2>2, <2>5, <2>6
<1>11. CASE Work /\ ~TakeJob
  <2>1. /\ pc[Worker] # "idle" /\ pc'[Loop] = pc[Loop] /\ UNCHANGED queue
        /\ cur'[Worker] \in {cur[Worker], None}
    BY <1>1, <1>11, ZenonT(60)
    DEF Work, FileStep, RemoveBegin, RemoveReadRecords, RemoveReadVectors,
       Truncate, Fill, Unlink, Advance, Abort, Rest, Write, Goto, Parsed, Chunked,
       Embedded, NextStage, StageFails, IndexBegin, AppendLoadVectors, LoadVectors,
       AppendRecords, ReloadVectors, ReloadRecords, CheckRecord, MarkReady, DiscardUpload
  <2>2. \A d \in Docs : records'[d] = "none" => records[d] = "none"
    BY <1>1, <1>11, ZenonT(60)
    DEF Work, FileStep, RemoveBegin, RemoveReadRecords, RemoveReadVectors,
       Truncate, Fill, Unlink, Advance, Abort, Rest, Write, Goto, Parsed, Chunked,
       Embedded, NextStage, StageFails, IndexBegin, AppendLoadVectors, LoadVectors,
       AppendRecords, ReloadVectors, ReloadRecords, CheckRecord, MarkReady, DiscardUpload,
       SetStatus
  <2>3. pc'[Loop] \notin RemoveLabels \cup WriteLabels
    BY <1>1, <2>1
  <2>4. \A i \in DOMAIN queue : queue[i] \in Docs
    OBVIOUS
  <2>5. cur[Worker] # None => cur[Worker] \in Docs
    BY <1>1
  <2> QED BY <1>2, <2>1, <2>2, <2>3, <2>4, <2>5, SMTT(40)
<1> QED
  BY <1>3, <1>4, <1>5, <1>6, <1>7, <1>8, <1>9, <1>10, <1>11 DEF Request, Respond

\* With a delete alone, turns are taken, and the longer ones too.
LEMMA AloneTurns ==
  ASSUME ControlInv, AloneInv
  PROVE  TakesTurns /\ TakesLongTurns
<1>1. /\ pc[Loop] \in LoopLabels
      /\ pc[Loop] \in RemoveLabels \cup WriteLabels => pc[Worker] = "idle"
  BY DEF ControlInv, ThreadInv, AloneInv
<1> QED
  BY <1>1 DEF TakesTurns, TakesLongTurns, HoldsIndex, UsesFiles, Rewriting, LoopLabels,
     RemoveLabels, WriteLabels

\* And after a step of its kind they still do.
LEMMA AloneTurnsNext ==
  ASSUME ControlInv', AloneInv'
  PROVE  TakesTurns'
<1>1. /\ pc'[Loop] \in LoopLabels
      /\ pc'[Loop] \in RemoveLabels \cup WriteLabels => pc'[Worker] = "idle"
  BY DEF ControlInv, ThreadInv, AloneInv
<1> QED
  BY <1>1 DEF TakesTurns, UsesFiles, Rewriting, LoopLabels, RemoveLabels, WriteLabels

\* What is served changes only when a thread has written its last file.
LEMMA ServedSame ==
  ASSUME Sound, Startup \/ Request \/ Respond \/ Work, [InTurns]_vars,
         ~\E t \in Threads : Finishes(t)
  PROVE  Served' = Served
<1> DEFINE D == DocsOf(IndexRows)
           In(d) == \/ records[d] = "READY" /\ ~(pc[Loop] = "removed" /\ cur[Loop] = d)
                    \/ pc[Worker] \in {"check", "ready"} /\ cur[Worker] = d
           InNext(d) == \/ records'[d] = "READY" /\ ~(pc'[Loop] = "removed" /\ cur'[Loop] = d)
                        \/ pc'[Worker] \in {"check", "ready"} /\ cur'[Worker] = d
           Same == \A d \in Docs : InNext(d) <=> In(d)
<1> SUFFICES Same
  BY DEF Served
<1>0. \A d \in Docs : d \in D <=> In(d)
  BY DEF Sound, Served
<1>P. \A t \in Threads : Fill(t) \/ Unlink(t) =>
        pc'[t] \in {"write", "fill", "reloadVecs", "reloadRecs"}
  BY ServedStays DEF RewriteLabels, Sound
<1>T. /\ ControlTypeOK /\ ThreadInv /\ PhaseInv /\ JobInv /\ StatusInv
      /\ TakesLongTurns /\ AloneInv /\ Orderly
  BY AloneTurns DEF Sound, ControlInv
<1>R. ASSUME NEW t \in Threads, RemoveBegin(t) \/ RemoveReadRecords(t) \/ RemoveReadVectors(t)
      PROVE  /\ cur' = cur /\ ret' = ret /\ records' = records
             /\ \E label \in {"removeRecs", "removeVecs", "write", "removed"} :
                  pc' = [pc EXCEPT ![t] = label]
             /\ pc'[t] = "removed" => cur[t] \notin D
  BY <1>R, <1>T, RemovalFinds
<1> HIDE DEF D
<1> USE <1>0, <1>T, DocsAssumption DEF ThreadInv, ControlTypeOK, PhaseInv, JobInv, StatusInv,
      AloneInv, StageAt, Threads, Worker, Loop, RemoveLabels, WriteLabels, LoopLabels,
      WorkerLabels, Labels, ReturnLabels, Goto, Rest, SetStatus, Working, Statuses, Terminal
<1>s1. CASE StartWorker \/ ScanUnfinished \/ Serve
  BY <1>s1, SMT DEF StartWorker, ScanUnfinished, Serve
<1>s2. ASSUME NEW d \in Docs, Requeue(d) PROVE Same
  BY <1>s2, SMT DEF Requeue
<1>r1. ASSUME NEW d \in Docs, UploadStore(d) PROVE Same
  BY <1>r1, SMT DEF UploadStore
<1>r2. ASSUME NEW d \in Docs, DeleteStart(d) PROVE Same
  BY <1>r2, SMT DEF DeleteStart
<1>a. ASSUME Abort(Worker),
             pc[Worker] \in WorkerLabels \ ({"idle", "check", "ready"} \cup RemoveLabels)
      PROVE  Same
  BY <1>a, SMTT(30) DEF Abort
<1>f. ASSUME NEW t \in Threads, FileStep(t) PROVE Same
  <2>1. CASE RemoveBegin(t) \/ RemoveReadRecords(t) \/ RemoveReadVectors(t)
    <3>1. pc[t] \in (RemoveLabels \ {"removed"})
      BY <2>1 DEF RemoveBegin, RemoveReadRecords, RemoveReadVectors
    <3> QED BY <1>R, <2>1, <3>1, SMT
  <2>2. CASE Truncate(t)
    BY <2>2, SMT DEF Truncate
  <2>3. CASE Fill(t) \/ Unlink(t)
    <3>1. /\ \E label : pc' = [pc EXCEPT ![t] = label]
          /\ UNCHANGED <<records, cur>> /\ pc[t] \in WriteLabels
      BY <2>3 DEF Fill, Unlink, Advance
    <3>2. pc'[t] \in {"write", "fill", "reloadVecs", "reloadRecs"}
      BY <1>P, <2>3
    <3> QED BY <3>1, <3>2, SMT
  <2> QED BY <1>f, <2>1, <2>2, <2>3 DEF FileStep
<1>l. CASE UploadAdd \/ UploadEnqueue \/ DeleteRecord
  BY <1>l, SMT DEF UploadAdd, UploadEnqueue, DeleteRecord
<1>w1. CASE TakeJob
  <2>1. Head(queue) \in Docs /\ \E i \in DOMAIN queue : Head(queue) = queue[i]
    BY <1>w1, QueueTaken DEF TakeJob
  <2> QED BY <1>w1, <2>1, SMT DEF TakeJob
<1>w2. CASE Parsed \/ Chunked \/ Embedded
  BY <1>w2, SMT DEF Parsed, Chunked, Embedded, NextStage
<1>w3. CASE StageFails
  BY <1>a, <1>w3 DEF StageFails
<1>w4. CASE IndexBegin
  BY <1>w4, SMT DEF IndexBegin, Write
<1>w5. CASE AppendLoadVectors \/ ReloadVectors \/ AppendRecords \/ ReloadRecords
  <2>1. CASE Abort(Worker)
    BY <1>a, <1>w5, <2>1
    DEF AppendLoadVectors, ReloadVectors, LoadVectors, AppendRecords, ReloadRecords
  <2>2. CASE ~Abort(Worker)
    BY <1>w5, <2>2, SMT
    DEF AppendLoadVectors, ReloadVectors, LoadVectors, AppendRecords, ReloadRecords, Write
  <2> QED BY <2>1, <2>2
<1>w7. CASE CheckRecord \/ MarkReady \/ DiscardUpload
  BY <1>w7, SMT DEF CheckRecord, MarkReady, DiscardUpload
<1> HIDE DEF Same
<1> QED
  BY <1>s1, <1>s2, <1>r1, <1>r2, <1>f, <1>l, <1>w1, <1>w2, <1>w3, <1>w4, <1>w5, <1>w7
  DEF Startup, Request, Respond, Work

\* A delete takes its document from what is served, and a job adds its own.
LEMMA ServedFinished ==
  ASSUME Sound, NEW t \in Threads, Finishes(t)
  PROVE  /\ DocsOf(IndexRows') = Served' /\ Distinct(IndexRows')
         /\ Served' = IF t = Loop THEN Served \ {cur[t]} ELSE Served \cup {cur[t]}
         /\ t = Worker => cur[t] \notin Served
<1>1. /\ cur[t] \in Docs /\ UNCHANGED <<cur, ret, records>>
      /\ pc'[t] = ret[t] /\ \A u \in Threads : u # t => pc'[u] = pc[u]
      /\ pc[t] \in WriteLabels /\ ret[t] \in {"check", "removed"}
      /\ DocsOf(IndexRows') = IF ret[t] = "removed" THEN DocsOf(IndexRows) \ {cur[t]}
                                                    ELSE DocsOf(IndexRows) \cup {cur[t]}
  BY DocsFinished DEF Sound, Finishes
<1>2. IndexRows \in Seq(Docs) /\ Distinct(IndexRows) /\ DocsOf(IndexRows) = Served
  BY IndexRowsType DEF Sound
<1>3. CASE t = Loop
  <2>1. ret[t] = "removed" /\ pc[Worker] = "idle"
    BY <1>1, <1>3, Exclusive
  <2>2. Distinct(IndexRows')
    <3>1. IndexRows' = KeptRows(IndexRows, cur[t])
      BY <2>1 DEF Finishes
    <3> QED BY <1>2, <3>1, KeptFacts
  <2>3. Served' = Served \ {cur[t]}
    BY <1>1, <1>3, <2>1 DEF Served, Threads, Worker, Loop, WriteLabels
  <2> QED BY <1>1, <1>2, <1>3, <2>1, <2>2, <2>3 DEF Worker, Loop
<1>4. CASE t = Worker
  <2>1. ret[t] = "check" /\ pc[Loop] \notin RemoveLabels
    BY <1>1, <1>4, Exclusive DEF WriteLabels
  <2>2. records[cur[t]] # "READY" /\ cur[t] # None
    BY <1>1, <1>4, <2>1, DocsAssumption
    DEF Sound, ControlInv, StatusInv, StageAt, WriteLabels
  <2>3. cur[t] \notin Served
    BY <1>1, <1>4, <2>2 DEF Served, WriteLabels
  <2>4. Distinct(IndexRows')
    <3>1. IndexRows' = Append(IndexRows, cur[t])
      BY <2>1 DEF Finishes
    <3> QED BY <1>1, <1>2, <2>3, <3>1, AppendedRows
  <2>5. Served' = Served \cup {cur[t]}
    BY <1>1, <1>4, <2>1 DEF Served, Threads, Worker, Loop, WriteLabels, RemoveLabels
  <2> QED BY <1>1, <1>2, <1>4, <2>1, <2>3, <2>4, <2>5 DEF Worker, Loop
<1> QED BY <1>3, <1>4 DEF Threads

\* The invariant of the files holds when the process first starts.
LEMMA SoundInit == Init => Sound
<1> SUFFICES ASSUME Init PROVE Sound
  OBVIOUS
<1>1. AloneInv
  BY DEF Init, AloneInv, RemoveLabels, WriteLabels, Threads
<1>2. Served = {}
  BY DEF Init, Served, Threads, Worker, Loop
<1> QED BY <1>1, <1>2, OrderlyInit, ControlInit, StartsEmpty DEF Sound

\* A step that is not a fault keeps it, for a client whose deletes do not race.
LEMMA SoundStep ==
  ASSUME ~DeletesRace, ControlTypeOK, DataInv, faults = 0 => Sound, [Next]_vars
  PROVE  faults' = 0 => Sound'
<1> SUFFICES ASSUME faults' = 0 PROVE Sound'
  OBVIOUS
<1>1. ~Fault
  BY DEF Fault, Crash, WriteFails, ControlTypeOK
<1>2. faults = 0
  BY <1>1, StepFrame DEF Next, vars
<1>3. Sound
  BY <1>2
<1>4. ControlInv' /\ DataInv'
  BY <1>1, <1>3, ControlStep, DataStep DEF Sound, Fault
<1>5. CASE Startup \/ Request \/ Respond \/ Work
  <2>1. AloneInv'
    BY <1>3, <1>5, AloneStep
  <2>2. TakesTurns'
    BY <1>4, <2>1, AloneTurnsNext
  <2>3. InTurns
    BY <1>1, <1>5, <2>2 DEF InTurns, Next
  <2>4. Orderly'
    BY <1>3, <2>3, OrderlyStep DEF Sound
  <2>5. Distinct(IndexRows)' /\ (DocsOf(IndexRows) = Served)'
    <3>1. CASE \E t \in Threads : Finishes(t)
      BY <1>3, <3>1, ServedFinished
    <3>2. CASE ~\E t \in Threads : Finishes(t)
      <4>1. IndexRows' = IndexRows
        BY <1>3, <2>3, <3>2, ServedStays DEF Sound
      <4>2. Served' = Served
        BY <1>3, <1>5, <2>3, <3>2, ServedSame
      <4> QED BY <1>3, <4>1, <4>2 DEF Sound
    <3> QED BY <3>1, <3>2
  <2> QED BY <1>4, <2>1, <2>3, <2>4, <2>5 DEF Sound
<1>6. CASE UNCHANGED vars
  <2>1. Orderly'
    BY <1>3, <1>6, OrderlyStep DEF Sound
  <2>2. IndexRows' = IndexRows /\ Served' = Served /\ AloneInv'
    BY <1>3, <1>6
    DEF Sound, vars, IndexRows, Rewriting, Rows, Present, Served, AloneInv
  <2> QED BY <1>3, <1>4, <1>6, <2>1, <2>2 DEF Sound
<1> QED BY <1>1, <1>5, <1>6 DEF Next

\* Until a fault every step keeps it.
LEMMA SoundUntilFault ==
  ASSUME ~DeletesRace
  PROVE  Spec => [](ControlTypeOK /\ DataInv /\ (faults = 0 => Sound))
<1>1. Init => ControlTypeOK /\ DataInv /\ (faults = 0 => Sound)
  BY TypeInit, DataInit, SoundInit
<1>2. ControlTypeOK /\ DataInv /\ (faults = 0 => Sound) /\ [Next]_vars
        => (ControlTypeOK /\ DataInv /\ (faults = 0 => Sound))'
  BY TypeStep, DataStep, SoundStep
<1> QED BY <1>1, <1>2, PTL DEF Spec

\* Until a first fault, with deletes that do not race, the threads take turns
\* and each finds the files as it left them.
THEOREM FilesHold ==
  ASSUME ~DeletesRace
  PROVE  Spec => []FilesInv
<1>1. Sound => TurnsInv
  BY DataTyped DEF Sound, Orderly, TurnsInv
<1>2. (faults = 0 => Sound) => FilesInv
  BY <1>1 DEF FilesInv, Sound
<1> QED BY <1>2, SoundUntilFault, PTL

\* Between operations the three index files describe the same chunks in the
\* same order, or none is there, until a first fault.
THEOREM AlignedUntilFault ==
  ASSUME ~DeletesRace
  PROVE  Spec => [](faults = 0 => FilesAligned)
<1>1. Sound => FilesAligned
  BY AlignedAtRest DEF Sound
<1> QED BY <1>1, SoundUntilFault, PTL

\* A document that reports READY is in the index between operations, until a
\* first fault.
THEOREM ReadyUntilFault ==
  ASSUME ~DeletesRace
  PROVE  Spec => [](faults = 0 => ReadyIndexed)
<1>1. Sound => ReadyIndexed
  BY ReadyAtRest DEF Sound, Served, Quiet, Threads
<1> QED BY <1>1, SoundUntilFault, PTL

\* No document is in the index twice between operations, until a first fault.
THEOREM NoDuplicatesUntilFault ==
  ASSUME ~DeletesRace
  PROVE  Spec => [](faults = 0 => NoDuplicateChunks)
<1>1. Sound => NoDuplicateChunks
  BY OnceAtRest DEF Sound
<1> QED BY <1>1, SoundUntilFault, PTL

\* What is in the index between operations belongs to a record, so a deleted
\* document is not retrieved, until a first fault.
THEOREM NoOrphansUntilFault ==
  ASSUME ~DeletesRace
  PROVE  Spec => [](faults = 0 => NoOrphanChunks)
<1>1. Sound => NoOrphanChunks
  BY OwnedAtRest DEF Sound, Served, Quiet, Threads
<1> QED BY <1>1, SoundUntilFault, PTL

-----------------------------------------------------------------------------
(* What the files and threads implement.                                   *)

\* What is indexed is what the threads' places say is served.
LEMMA IndexedServed ==
  ASSUME Sound
  PROVE  IndexedDocs = Served
<1>1. CASE \E t \in Threads : Rewriting(t)
  BY <1>1 DEF Sound, IndexedDocs, IndexRows
<1>2. CASE \A t \in Threads : ~Rewriting(t)
  <2>1. IndexRows = Rows /\ DocsOf(Rows) = Served
    BY <1>2, RowsServed DEF Sound, Orderly
  <2>2. CASE Rows = <<>>
    <3>1. disk["metadata"] = None /\ Served = {}
      BY <1>2, <2>1, <2>2, FilesWhole DEF Sound, Files, DocsOf
    <3> QED BY <1>2, <3>1 DEF IndexedDocs, Readable
  <2>3. CASE Rows # <<>>
    <3>1. disk["metadata"] = Rows /\ Readable("metadata")
      BY <1>2, <2>3, FilesWhole DEF Sound, Files
    <3> QED BY <1>2, <2>1, <3>1 DEF IndexedDocs
  <2> QED BY <2>2, <2>3
<1> QED BY <1>1, <1>2

\* A step of the pipeline that is not a fault is a step of the corpus, or is
\* invisible there.
LEMMA CorpusStep ==
  ASSUME ~DeletesRace, Sound, Sound', [InTurns]_vars,
         Startup \/ Request \/ Respond \/ Work
  PROVE  Promised!Next \/ UNCHANGED Promised!vars
<1>i. IndexedDocs = Served /\ IndexedDocs' = Served'
  <2>1. (IndexedDocs = Served)'
    BY IndexedServed, PTL
  <2> QED BY <2>1, IndexedServed
<1>t. /\ Worker \in Threads /\ Loop \in Threads /\ Worker # Loop
      /\ records \in [Docs -> Statuses] /\ born \in SUBSET Docs
      /\ \A t \in Threads : pc[t] # "idle" => cur[t] \in Docs
      /\ \A t \in Threads : cur[t] = None <=> pc[t] = "idle"
  BY Exclusive DEF Sound, Orderly, DataInv, ControlInv, ControlTypeOK
<1>w. pc[Worker] \notin {"idle"} \cup RemoveLabels =>
        records[cur[Worker]] = StageAt(pc[Worker])
  <2>1. pc[Worker] \notin {"idle"} \cup RemoveLabels => ret[Worker] # "removed"
    BY Exclusive DEF Sound, ControlInv, ThreadInv
  <2> QED BY <1>t, <2>1 DEF Sound, AloneInv, ControlInv, StatusInv
<1>q. ASSUME UNCHANGED <<records, Served, born>>
      PROVE  UNCHANGED Promised!vars
  BY <1>i, <1>q DEF Promised!vars
<1>f. ASSUME NEW t \in Threads, Finishes(t)
      PROVE  Promised!Next \/ UNCHANGED Promised!vars
  <2> DEFINE d == cur[t]
  <2>1. /\ Served' = IF t = Loop THEN Served \ {d} ELSE Served \cup {d}
        /\ t = Worker => d \notin Served
    BY <1>f, ServedFinished
  <2>2. UNCHANGED <<records, born>> /\ pc[t] \in WriteLabels /\ d \in Docs
    BY <1>f, <1>t DEF Finishes, WriteLabels
  <2>3. CASE t = Loop /\ d \in Served
    <3>1. records[d] = "READY"
      BY <2>2, <2>3, Exclusive DEF Served
    <3>2. Promised!Withdraw(d)
      <4> HIDE DEF d
      <4> QED BY <1>i, <2>1, <2>2, <2>3, <3>1 DEF Promised!Withdraw
    <3> QED BY <2>2, <3>2 DEF Promised!Next
  <2>4. CASE t = Worker
    <3>1. records[d] = "INDEXING"
      BY <1>w, <2>2, <2>4 DEF StageAt, WriteLabels, RemoveLabels
    <3>2. Promised!Publish(d)
      <4> HIDE DEF d
      <4> QED BY <1>i, <1>t, <2>1, <2>2, <2>4, <3>1 DEF Promised!Publish
    <3> QED BY <2>2, <3>2 DEF Promised!Next
  <2>5. CASE t = Loop /\ d \notin Served
    BY <1>q, <2>1, <2>2, <2>5
  <2> QED BY <2>3, <2>4, <2>5 DEF Threads
<1> SUFFICES ASSUME ~\E t \in Threads : Finishes(t)
             PROVE  Promised!Next \/ UNCHANGED Promised!vars
  BY <1>f
<1>s. UNCHANGED Served
  BY ServedSame
<1>l. TakesLongTurns /\ TakesTurns'
  BY AloneTurns, AloneTurnsNext DEF Sound
<1>1. CASE Startup
  <2>2. \A d \in Docs : ~Requeue(d)
    BY DEF Requeue, Sound, AloneInv, ControlInv, StatusInv, Working
  <2> QED
    BY <1>1, <1>q, <1>s, <2>2 DEF Startup, StartWorker, ScanUnfinished, Serve
<1>2. ASSUME NEW d \in Docs, UploadStore(d) PROVE Promised!Next
  <2>2. Promised!Store(d)
    BY <1>2, <1>i, <1>s DEF UploadStore, Promised!Store
  <2> QED BY <2>2 DEF Promised!Next
<1>3. CASE UploadAdd
  <2> DEFINE d == cur[Loop]
  <2>2. /\ d \in Docs /\ d \in born /\ records[d] = "none" /\ d # cur[Worker]
        /\ records' = [records EXCEPT ![d] = "QUEUED"] /\ UNCHANGED born
    BY <1>3, <1>t DEF UploadAdd, Sound, ControlInv, JobInv, StatusInv
  <2>3. d \notin Served
    BY <2>2 DEF Served
  <2> HIDE DEF d
  <2>4. Promised!Accept(d)
    BY <1>i, <1>s, <2>2, <2>3 DEF Promised!Accept
  <2> QED BY <2>2, <2>4 DEF Promised!Next
<1>4. CASE UploadEnqueue
  <2> QED BY <1>4, <1>q, <1>s DEF UploadEnqueue
<1>5. ASSUME NEW d \in Docs, DeleteStart(d) PROVE UNCHANGED Promised!vars
  <2> QED BY <1>5, <1>q, <1>s DEF DeleteStart
<1>6. CASE DeleteRecord
  <2> DEFINE d == cur[Loop]
  <2>2. /\ d \in Docs /\ records' = [records EXCEPT ![d] = "none"] /\ UNCHANGED born
        /\ pc[Loop] = "removed"
    BY <1>6, <1>t DEF DeleteRecord
  <2>3. pc[Worker] = "idle" /\ cur[Worker] = None /\ queue = <<>> /\ records[d] # "none"
    BY <1>t, <2>2, Exclusive DEF RemoveLabels
  <2>4. records[d] \notin Working
    <3>1. ~Pending(d)
      BY <2>2, <2>3, DocsAssumption
      DEF Pending, InQueue, Sound, ControlInv, PhaseInv
    <3> QED BY <2>2, <3>1 DEF Sound, ControlInv, NothingStranded
  <2>5. records[d] \in {"READY", "FAILED"}
    BY <1>t, <2>2, <2>3, <2>4 DEF Statuses, Terminal
  <2>6. d \notin Served
    BY <2>2, <2>3 DEF Served
  <2> HIDE DEF d
  <2>7. Promised!Forget(d)
    BY <1>i, <1>s, <2>2, <2>5, <2>6 DEF Promised!Forget
  <2> QED BY <2>2, <2>7 DEF Promised!Next
<1>7. ASSUME NEW t \in Threads,
             RemoveBegin(t) \/ RemoveReadRecords(t) \/ RemoveReadVectors(t) \/ Truncate(t)
      PROVE  UNCHANGED Promised!vars
  <2>1. UNCHANGED records
    BY <1>7, <1>l, RemovalInTurn DEF Truncate, Sound
  <2> QED
    BY <1>7, <1>q, <1>s, <2>1 DEF RemoveBegin, RemoveReadRecords, RemoveReadVectors, Truncate
<1>8. ASSUME NEW t \in Threads, Fill(t) \/ Unlink(t)
      PROVE  UNCHANGED Promised!vars
  BY <1>8, <1>q, <1>s DEF Fill, Unlink
<1>9. CASE TakeJob \/ Parsed \/ Chunked \/ Embedded \/ StageFails \/ CheckRecord \/ MarkReady
  <2>2. UNCHANGED born
    BY <1>9 DEF TakeJob, Parsed, Chunked, Embedded, NextStage, StageFails, CheckRecord,
       MarkReady
  <2>3. ASSUME NEW d \in Docs, NEW i \in 1 .. 4, records[d] = Promised!Order[i],
               records' = [records EXCEPT ![d] = Promised!Order[i + 1]]
        PROVE  Promised!Next
    <3>1. Promised!Progress(d)
      BY <1>i, <1>s, <2>2, <2>3 DEF Promised!Progress
    <3> QED BY <3>1 DEF Promised!Next
  <2>o. /\ Promised!Order[1] = "QUEUED" /\ Promised!Order[2] = "PARSING"
        /\ Promised!Order[3] = "CHUNKING" /\ Promised!Order[4] = "EMBEDDING"
        /\ Promised!Order[5] = "INDEXING"
        /\ Promised!Order[1 + 1] = "PARSING" /\ Promised!Order[2 + 1] = "CHUNKING"
        /\ Promised!Order[3 + 1] = "EMBEDDING" /\ Promised!Order[4 + 1] = "INDEXING"
    BY DEF Promised!Order
  <2>4. CASE TakeJob
    <3> DEFINE d == Head(queue)
    <3>1. d \in Docs /\ records[d] = "QUEUED"
      BY <2>4, QueueTaken
      DEF TakeJob, Sound, ControlInv, ControlTypeOK, StatusInv, AloneInv
    <3>2. records' = [records EXCEPT ![d] = "PARSING"]
      BY <2>4, <3>1 DEF TakeJob, SetStatus
    <3> HIDE DEF d
    <3>3. /\ records[d] = Promised!Order[1] /\ 1 \in 1 .. 4
          /\ records' = [records EXCEPT ![d] = Promised!Order[1 + 1]]
      BY <2>o, <3>1, <3>2
    <3> QED BY <2>3, <3>1, <3>3
  <2>5. CASE Parsed \/ Chunked \/ Embedded
    <3> DEFINE d == cur[Worker]
    <3>1. /\ pc[Worker] \in {"parse", "chunk", "embed"} /\ d \in Docs
          /\ \/ pc[Worker] = "parse" /\ records' = SetStatus(d, "CHUNKING")
             \/ pc[Worker] = "chunk" /\ records' = SetStatus(d, "EMBEDDING")
             \/ pc[Worker] = "embed" /\ records' = SetStatus(d, "INDEXING")
      BY <1>t, <2>5 DEF Parsed, Chunked, Embedded, NextStage
    <3>2. records[d] = StageAt(pc[Worker])
      BY <1>w, <3>1 DEF RemoveLabels
    <3> HIDE DEF d
    <3>3. CASE pc[Worker] = "parse"
      BY <2>3, <2>o, <3>1, <3>2, <3>3 DEF StageAt, SetStatus
    <3>4. CASE pc[Worker] = "chunk"
      BY <2>3, <2>o, <3>1, <3>2, <3>4 DEF StageAt, SetStatus
    <3>5. CASE pc[Worker] = "embed"
      BY <2>3, <2>o, <3>1, <3>2, <3>5 DEF StageAt, SetStatus
    <3> QED BY <3>1, <3>3, <3>4, <3>5
  <2>6. CASE StageFails
    <3> DEFINE d == cur[Worker]
    <3>1. pc[Worker] \in {"parse", "chunk", "embed"} /\ d \in Docs
      BY <1>t, <2>6 DEF StageFails
    <3>2. records[d] = StageAt(pc[Worker]) /\ ret[Worker] # "removed"
      BY <1>w, <3>1 DEF RemoveLabels, WriteLabels, Sound, ControlInv, ThreadInv
    <3>3. records' = SetStatus(d, "FAILED")
      BY <2>6, <3>2 DEF StageFails, Abort
    <3>4. records[d] \in {"PARSING", "CHUNKING", "EMBEDDING"}
      BY <3>1, <3>2 DEF StageAt
    <3> HIDE DEF d
    <3>5. Promised!Fail(d)
      BY <1>i, <1>s, <2>2, <3>3, <3>4 DEF Promised!Fail, SetStatus
    <3> QED BY <3>1, <3>5 DEF Promised!Next
  <2>7. CASE CheckRecord
    BY <1>q, <1>s, <2>2, <2>7 DEF CheckRecord
  <2>8. CASE MarkReady
    <3> DEFINE d == cur[Worker]
    <3>1. pc[Worker] = "ready" /\ d \in Docs /\ records' = SetStatus(d, "READY")
      BY <1>t, <2>8 DEF MarkReady
    <3>2. records[d] = "INDEXING"
      BY <1>w, <3>1 DEF RemoveLabels, StageAt
    <3>3. d \in Served
      BY <3>1 DEF Served
    <3> HIDE DEF d
    <3>4. Promised!Ready(d)
      BY <1>i, <1>s, <2>2, <3>1, <3>2, <3>3 DEF Promised!Ready, SetStatus
    <3> QED BY <3>1, <3>4 DEF Promised!Next
  <2> QED BY <1>9, <2>4, <2>5, <2>6, <2>7, <2>8
<1>10. CASE IndexBegin \/ AppendLoadVectors \/ AppendRecords \/ ReloadVectors \/ ReloadRecords
  <2>1. UNCHANGED records
    BY <1>10, <1>l, IndexingInTurn, ReloadInTurn DEF Sound
  <2> QED
    BY <1>10, <1>q, <1>s, <2>1
    DEF IndexBegin, AppendLoadVectors, AppendRecords, ReloadVectors,
       ReloadRecords, LoadVectors
<1>11. ~DiscardUpload
  BY Exclusive DEF DiscardUpload, RemoveLabels
<1> QED
  BY <1>t, <1>1, <1>2, <1>3, <1>4, <1>5, <1>6, <1>7, <1>8, <1>9, <1>10, <1>11
  DEF Request, Respond, Work, FileStep

\* Without faults and with deletes that do not race, the pipeline keeps the
\* workspace's promise.
THEOREM CorpusImplemented ==
  ASSUME ~DeletesRace, MaxFaults = 0
  PROVE  Spec => ImplementsCorpus
<1>1. Spec => []Sound
  <2>1. Init => ControlTypeOK /\ faults = 0
    BY TypeInit DEF Init
  <2>2. ControlTypeOK /\ faults = 0 /\ [Next]_vars => (ControlTypeOK /\ faults = 0)'
    <3> SUFFICES ASSUME ControlTypeOK, faults = 0, [Next]_vars PROVE faults' = 0
      BY TypeStep
    <3>1. ~Fault
      BY DEF Fault, Crash, WriteFails
    <3> QED BY <3>1, StepFrame DEF Next, vars
  <2> QED BY <2>1, <2>2, SoundUntilFault, PTL DEF Spec
<1>2. Init => Promised!Init
  <2> SUFFICES ASSUME Init PROVE Promised!Init
    OBVIOUS
  <2>1. IndexedDocs = {}
    BY DEF Init, IndexedDocs, Rewriting, Readable, Files
  <2> QED BY <2>1 DEF Init, Promised!Init
<1>3. Sound /\ Sound' /\ [Next]_vars => [Promised!Next]_Promised!vars
  <2> SUFFICES ASSUME Sound, Sound', [Next]_vars
               PROVE  Promised!Next \/ UNCHANGED Promised!vars
    OBVIOUS
  <2>1. ~Fault
    BY DEF Fault, Crash, WriteFails, Sound, ControlInv, ControlTypeOK
  <2>i. [InTurns]_vars
    <3>1. TakesTurns'
      BY AloneTurnsNext DEF Sound
    <3> QED BY <2>1, <3>1 DEF InTurns
  <2>2. CASE UNCHANGED vars
    BY <2>2 DEF vars, Promised!vars, IndexedDocs, Rewriting, Readable
  <2> QED BY <2>1, <2>i, <2>2, CorpusStep DEF Next
<1> QED BY <1>1, <1>2, <1>3, PTL DEF Spec, ImplementsCorpus, Promised!Spec
=============================================================================
