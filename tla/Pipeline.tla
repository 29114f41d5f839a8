------------------------------ MODULE Pipeline ------------------------------
(* Upload requests and workers on the shared store: the path of a job from   *)
(* the HTTP request to a settled status.                                     *)
EXTENDS Uploads, Worker

vars == <<store, uploadVars, workerVars>>

Init == StoreInit /\ UploadsInit /\ WorkerInit

UploadAction(j) == UploadNext(j) /\ UNCHANGED workerVars
WorkerAction(w) == WorkerNext(w) /\ UNCHANGED uploadVars

Next == \/ \E j \in Jobs : UploadAction(j)
        \/ \E w \in Workers : WorkerAction(w)

Spec == Init /\ [][Next]_vars

(* A request handler and a worker go on as long as they run: no call blocks  *)
(* for ever.  A worker that ended is started again: the binary is one shot   *)
(* and its operator must rerun it, which the code cannot do for itself.      *)
Fairness ==
  /\ \A j \in Jobs : WF_vars(UploadCall(j) /\ UNCHANGED workerVars)
  /\ \A w \in Workers : WF_vars((StartWorker(w) \/ WorkerCall(w)) /\ UNCHANGED uploadVars)
FairSpec == Spec /\ Fairness

-----------------------------------------------------------------------------
TypeOK == StoreTypeOK /\ UploadsTypeOK /\ WorkerTypeOK

(* A worker is working on a job from its claim to the end of ProcessNext.    *)
Working(w) == wpc[w] \in WorkerCalls \ {"dequeue", "claim"}
Held == {wjob[w] : w \in {v \in Workers : wpc[v] = "claim"}}
Queued == {queue[i] : i \in 1..Len(queue)}

(* No two workers ever work on the same job, though payloads are duplicated  *)
(* by the Redis client and nothing but the status of the row keeps them      *)
(* apart (ClaimQueued is a compare-and-swap).                                *)
OneExtractor ==
  \A v, w \in Workers : Working(v) /\ Working(w) /\ wjob[v] = wjob[w] => v = w

(* A payload a worker can get hold of belongs to a job that was moved to     *)
(* queued first: had the handler pushed earlier, the claim would fail and    *)
(* the payload be lost.                                                      *)
PayloadReleased ==
  \A j \in Queued \cup Held : jobs[j] \notin {"created", "uploaded"}

(* A job is extracted once at most: one extraction row and one circuit row,  *)
(* whatever the duplicates, the failures and the restarts.                   *)
AtMostOneAttempt ==
  \A j \in Jobs : Cardinality(ExtractionsOf(j)) <= 1 /\ Cardinality(CircuitsOf(j)) <= 1

(* Every circuit row leads to an extraction row and to both JSON objects,    *)
(* so the review detail of any job can be served in full.                    *)
RowsBacked ==
  \A c \in circuits :
    /\ c.extraction \in extractions
    /\ {<<"extraction", c.extraction>>, <<"circuit", c.id>>} \subseteq artifacts

(* A job shows needs_review or ready only when its one circuit revision is   *)
(* there with that status: polling never runs ahead of the review queue.     *)
StatusJustified ==
  \A j \in Jobs : jobs[j] \in {"needs_review", "ready"} =>
    \E c \in CircuitsOf(j) : c.status = jobs[j]

(* No worker hands the provider an image the handler did not write in full.  *)
ReadsWholeImage ==
  \A w \in Workers : wpc[w] = "getObject" => sources[wjob[w]] # "partial"

(* What one step may do to the row of a job: the edges of the state path,    *)
(* and its removal by the handler's own compensation, settled or not.        *)
Edges == {<<"none", "created">>, <<"created", "uploaded">>, <<"uploaded", "queued">>,
          <<"queued", "extracting">>, <<"extracting", "needs_review">>,
          <<"extracting", "ready">>, <<"extracting", "failed">>}
JobMoves == \A j \in Jobs : jobs'[j] # jobs[j] =>
  \/ <<jobs[j], jobs'[j]>> \in Edges
  \/ jobs'[j] = "none" /\ upc[j] \in {"undoJob", "undoUpload"}
JobsMoveForward == [][JobMoves]_vars

(* Every accepted upload is settled in the end: needs_review, ready, failed. *)
AcceptedIsSettled == \A j \in Jobs : upc[j] = "done" ~> jobs[j] \in Settled

-----------------------------------------------------------------------------
(* Why there is one extractor.  Until its job is queued a payload is in      *)
(* nobody's hands; what a worker works on is extracting, or was deleted; and *)
(* a deleted job is never created again.                                     *)
NotYetCreated == {"idle", "createUpload", "createJob"}
Persisting == {"putExtraction", "putCircuit", "insertExtraction", "insertCircuit"}

Locals == \A w \in Workers :
  /\ wpc[w] \in {"down", "dequeue"} <=> wjob[w] = NoJob
  /\ wpc[w] \in Persisting => wno[w] # 0
  /\ wpc[w] \in Persisting \cup {"persistCheck", "complete"} => wstatus[w] # "none"

Unreleased(j) == j \notin Queued /\ \A w \in Workers : wjob[w] # j
ReleasedLate == \A j \in Jobs :
  /\ upc[j] \in NotYetCreated => jobs[j] = "none" /\ Unreleased(j)
  /\ jobs[j] \in {"created", "uploaded"} => Unreleased(j)
  /\ upc[j] = "enqueue" => jobs[j] \notin {"created", "uploaded"}

ClaimedOrGone == \A w \in Workers : Working(w) => jobs[wjob[w]] \in {"extracting", "none"}

ClaimInv == Locals /\ ReleasedLate /\ ClaimedOrGone /\ OneExtractor

-----------------------------------------------------------------------------
(* Why the rows of a job agree with its status.  A worker that is about to   *)
(* write found no circuit revision, and nobody else works on the job; what   *)
(* it is about to report is in a row; and a row that lost its job is gone.   *)
RowsOwned ==
  /\ \A c \in circuits : c.extraction \in extractions /\ JobOf(c.extraction) = JobOf(c.id)
  /\ \A c, d \in circuits : JobOf(c.id) = JobOf(d.id) /\ c.version = d.version => c = d
  /\ \A j \in Jobs : jobs[j] = "none" => ExtractionsOf(j) = {} /\ CircuitsOf(j) = {}

ReportsRow == \A w \in Workers :
  /\ wpc[w] \in Persisting => CircuitsOf(wjob[w]) = {}
  /\ wpc[w] = "complete" => \/ jobs[wjob[w]] = "none"
                            \/ \E c \in CircuitsOf(wjob[w]) : c.status = wstatus[w]

FirstUntilClosed ==
  \A c \in circuits : jobs[JobOf(c.id)] \notin {"ready", "failed"} => c.version = 1

CircuitInv == RowsOwned /\ ReportsRow /\ FirstUntilClosed /\ StatusJustified

(* Workers alone write first versions only.                                  *)
FirstVersions == \A c \in circuits : c.version = 1

(* Without retries a job that is not claimed yet was never attempted.        *)
Unattempted == {"getUpload", "getObject", "extract", "persistCheck",
                "putExtraction", "putCircuit", "insertExtraction"}
AttemptInv ==
  /\ \A e, f \in extractions : JobOf(e) = JobOf(f) => e = f
  /\ \A j \in Jobs : jobs[j] \in {"created", "uploaded", "queued"} => ExtractionsOf(j) = {}
  /\ \A w \in Workers : wpc[w] \in Unattempted => ExtractionsOf(wjob[w]) = {}

(* The objects of a revision are written before its rows, and stay.          *)
HasWritten(w) ==
  /\ wpc[w] \in {"putCircuit", "insertExtraction", "insertCircuit"} =>
       <<"extraction", Id(w)>> \in artifacts
  /\ wpc[w] \in {"insertExtraction", "insertCircuit"} => <<"circuit", Id(w)>> \in artifacts
ArtifactInv == RowsBacked /\ \A w \in Workers : HasWritten(w)

(* The handler of an image that was cut off never gets to release its job.   *)
SourceInv == \A j \in Jobs :
  /\ upc[j] = "put" => jobs[j] = "created"
  /\ sources[j] = "partial" =>
       /\ upc[j] \in {"undoJob", "undoUpload", "failed", "crashed"}
       /\ Unreleased(j)

RevisionInv == CircuitInv /\ FirstVersions /\ AttemptInv /\ ArtifactInv /\ SourceInv

-----------------------------------------------------------------------------
(* Two things the documents of the repository say.                           *)

(* "no queued processing job is left behind" by an upload that failed: false *)
(* of a request whose client went away, since its compensation is cancelled  *)
(* with it; the object alone is deleted.                                     *)
NoQueuedJobLeftBehind == \A j \in Jobs : upc[j] = "failed" => jobs[j] # "queued"

(* "resiliencia frente a fallos temporales": an accepted job would survive   *)
(* one failing claim.  Its payload is gone by then and nobody pushes it.     *)
SurvivesTemporaryFailures == AcceptedIsSettled

-----------------------------------------------------------------------------
(* What the store looks like to somebody who only knows ClaimLedger.         *)
Phase(j) ==
  IF jobs[j] = "none" THEN IF upc[j] \in NotYetCreated THEN "absent" ELSE "withdrawn"
  ELSE IF jobs[j] \in {"created", "uploaded"} THEN "prepared"
  ELSE IF jobs[j] = "queued" THEN "offered"
  ELSE IF jobs[j] = "extracting" THEN "claimed" ELSE "settled"
HoldersOf(j) == {w \in Workers : Working(w) /\ wjob[w] = j}

Claims == INSTANCE ClaimLedger WITH
            phase <- [j \in Jobs |-> Phase(j)],
            holders <- [j \in Jobs |-> HoldersOf(j)]

(* The pipeline keeps the promise of the ledger: a job is offered once,      *)
(* claimed once, by one worker, settled by that worker only, and never comes *)
(* back after it was withdrawn.                                              *)
ImplementsClaimLedger == Claims!Spec
=============================================================================
