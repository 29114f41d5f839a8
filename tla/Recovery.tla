------------------------------ MODULE Recovery ------------------------------
(* Retries.  Nothing in the code retries a job; an operator does, the way    *)
(* the worker tests do it: put the row back to queued, push the payload      *)
(* again.  What must then hold is that the second attempt reuses what the    *)
(* first one persisted (circuit.Service.Persist looks the job up first).     *)
EXTENDS Pipeline

CONSTANT MaxRequeues  \* how often the operator retries, over all jobs

ASSUME RecoveryAssumption == MaxRequeues \in Nat

VARIABLE requeues

recoveryVars == <<vars, requeues>>

RInit == Init /\ requeues = 0

(* The operator waits for the answer to the uploader and for the workers on  *)
(* that job to be gone, and gives every job at most one payload.             *)
Requeue(j) ==
  /\ requeues < MaxRequeues
  /\ upc[j] = "done"
  /\ jobs[j] \in Settled \cup {"queued", "extracting"}
  /\ \A w \in Workers : wjob[w] # j
  /\ j \notin Queued
  /\ jobs' = [jobs EXCEPT ![j] = "queued"]
  /\ queue' = Append(queue, j)
  /\ requeues' = requeues + 1
  /\ UNCHANGED <<uploads, extractions, circuits, decisions, objects, drawn>>
  /\ UNCHANGED <<uploadVars, workerVars>>

RNext == (Next /\ UNCHANGED requeues) \/ \E j \in Jobs : Requeue(j)
RSpec == RInit /\ [][RNext]_recoveryVars

-----------------------------------------------------------------------------
(* However often a job is retried, and wherever an earlier attempt stopped,  *)
(* it has one circuit revision.                                              *)
OneCircuitPerJob == \A j \in Jobs : Cardinality(CircuitsOf(j)) <= 1

(* A retried job ends with the status of the revision the first attempt      *)
(* left, even when the provider answers differently the second time.         *)
RetryKeepsStatus == \A j \in Jobs : jobs[j] \in {"needs_review", "ready"} =>
  \A c \in CircuitsOf(j) : c.status = jobs[j]

(* Retries break no promise about claims: a job is put back only when nobody *)
(* holds it, and each time it is claimed by one worker and settled by that   *)
(* worker only, whatever payloads are left of it.                            *)
ImplementsRetriedLedger == Claims!RetriedSpec

(* "Retries reuse the same job and must not create duplicate revisions."     *)
(* The two INSERTs of Save are not one transaction, and the lookup wants     *)
(* both rows: after a stop between them a retry inserts a second extraction. *)
NoDuplicateRevisions == \A j \in Jobs : Cardinality(ExtractionsOf(j)) <= 1
=============================================================================
