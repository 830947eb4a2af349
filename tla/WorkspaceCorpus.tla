--------------------------- MODULE WorkspaceCorpus ---------------------------
(***************************************************************************)
(* What the workspace promises about one corpus, with no files, threads or *)
(* queue: an accepted document moves through the stages of STAGE_ORDER,    *)
(* its chunks appear in the index in one step while it is INDEXING, it is  *)
(* READY only once they are there, and a deleted document's chunks are out *)
(* of the index, in one step, before its record goes.                      *)
(***************************************************************************)
EXTENDS Naturals

CONSTANT Docs

VARIABLES
  status,   \* document -> its status, "none" before upload and after deletion
  index,    \* the documents whose chunks a query can retrieve
  known     \* the documents ever accepted

vars == <<status, index, known>>

Order == <<"QUEUED", "PARSING", "CHUNKING", "EMBEDDING", "INDEXING">>

Init ==
  /\ status = [d \in Docs |-> "none"]
  /\ index = {}
  /\ known = {}

\* An upload is stored under an id no document had before ...
Store(d) ==
  /\ d \notin known
  /\ known' = known \cup {d}
  /\ UNCHANGED <<status, index>>

\* ... and recorded.
Accept(d) ==
  /\ d \in known /\ status[d] = "none" /\ d \notin index
  /\ status' = [status EXCEPT ![d] = "QUEUED"]
  /\ UNCHANGED <<index, known>>

Progress(d) ==
  /\ \E i \in 1..4 : /\ status[d] = Order[i]
                     /\ status' = [status EXCEPT ![d] = Order[i + 1]]
  /\ UNCHANGED <<index, known>>

Publish(d) ==
  /\ status[d] = "INDEXING"
  /\ d \notin index
  /\ index' = index \cup {d}
  /\ UNCHANGED <<status, known>>

Ready(d) ==
  /\ status[d] = "INDEXING"
  /\ d \in index
  /\ status' = [status EXCEPT ![d] = "READY"]
  /\ UNCHANGED <<index, known>>

Fail(d) ==
  /\ status[d] \in {"PARSING", "CHUNKING", "EMBEDDING"}
  /\ status' = [status EXCEPT ![d] = "FAILED"]
  /\ UNCHANGED <<index, known>>

Withdraw(d) ==
  /\ status[d] = "READY"
  /\ d \in index
  /\ index' = index \ {d}
  /\ UNCHANGED <<status, known>>

Forget(d) ==
  /\ status[d] \in {"READY", "FAILED"}
  /\ d \notin index
  /\ status' = [status EXCEPT ![d] = "none"]
  /\ UNCHANGED <<index, known>>

Next == \E d \in Docs :
  \/ Store(d) \/ Accept(d) \/ Progress(d) \/ Publish(d)
  \/ Ready(d) \/ Fail(d) \/ Withdraw(d) \/ Forget(d)

Spec == Init /\ [][Next]_vars
=============================================================================
