------------------------------- MODULE System -------------------------------
(* The whole backend: upload requests, workers and review requests on one    *)
(* store.                                                                    *)
EXTENDS Pipeline, Review

systemVars == <<vars, reviewVars>>

SystemInit == Init /\ ReviewInit

(* A DELETE of a job, or of its upload, takes the rows from the top: first   *)
(* those of the upload and the job, then by ON DELETE CASCADE the revisions. *)
(* A decision comes from below: without a correction it holds the revision,  *)
(* and no more, until its compare-and-swap has locked the job.  A successor  *)
(* holds the job from its INSERT, whose foreign keys share the parents.  The *)
(* DELETE takes effect when nobody holds any of its rows.                    *)
Deletes(j) == upc[j] \in {"undoJob", "undoUpload"}
Transactions(j) == {r \in Reviewers : rpc[r] \in InTx /\ req[r].job = j}
HoldsAbove(r) == Corrected(r) \/ HoldsJob(r)

(* The DELETE has the job row and waits for the revision of r, while the     *)
(* compare-and-swap of r matches the job row and waits for it.               *)
Deadlock(j, r) ==
  /\ Deletes(j) /\ j \notin disconnected
  /\ r \in Transactions(j) /\ StatusMatches(j, "needs_review")
  /\ \A s \in Transactions(j) : ~HoldsAbove(s)

(* Postgres aborts one of the two.  Either the DELETE: its handler discards  *)
(* the error and goes on, and the compare-and-swap gets the row.  Or the     *)
(* decision, which is rolled back and answered.                              *)
DeleteAborted(j) ==
  /\ \E r \in Reviewers : Deadlock(j, r) /\ Goto(r, "insertDecision")
  /\ upc' = [upc EXCEPT ![j] = IF @ = "undoJob" THEN "undoUpload" ELSE "failed"]
  /\ UNCHANGED <<store, disconnected, workerVars, req, pair, rno>>

DecisionAborted(r) ==
  /\ \E j \in Jobs : Deadlock(j, r)
  /\ Abort(r, "serverError")
  /\ UNCHANGED <<store, req, pair, rno>>

UploadPart(j) == /\ UploadAction(j)
                 /\ Deletes(j) /\ jobs[j] # "none" /\ Transactions(j) # {} => UNCHANGED rows
                 /\ UNCHANGED reviewVars
WorkerPart(w) == WorkerAction(w) /\ UNCHANGED reviewVars
ReviewPart(r) == /\ ReviewNext(r) \/ DecisionAborted(r)
                 /\ UNCHANGED <<uploadVars, workerVars>>

SystemNext == \/ \E j \in Jobs : UploadPart(j) \/ DeleteAborted(j)
              \/ \E w \in Workers : WorkerPart(w)
              \/ \E r \in Reviewers : ReviewPart(r)

SystemSpec == SystemInit /\ [][SystemNext]_systemVars
-----------------------------------------------------------------------------
SystemTypeOK == TypeOK /\ ReviewTypeOK

Final(d) == IF d.kind = "approve" THEN "ready" ELSE "failed"

(* A decision record, the job and the latest revision tell the same story:   *)
(* the three writes of SaveReviewDecision are one, and nobody undoes a part  *)
(* of it later, not even a worker that is still busy with the job.           *)
DecisionMatchesState ==
  \A d \in decisions :
    /\ jobs[JobOf(d.reviewed)] = Final(d)
    /\ \E c \in LatestPairs(JobOf(d.reviewed)) : c.id = d.resolved /\ c.status = Final(d)

(* "exactly one manual decision command per pending review state": a job is  *)
(* decided once, whoever races, and also when a correction left two          *)
(* revisions behind.                                                         *)
OneDecisionPerJob ==
  \A d, e \in decisions : JobOf(d.reviewed) = JobOf(e.reviewed) => d = e

(* What a reviewer was told is saved is saved, is the reviewer's own         *)
(* decision, and is about the revision and the job the reviewer had seen.    *)
AnsweredIsSaved ==
  \A r \in Reviewers : answer[r] = "ok" =>
    \/ \E d \in decisions : /\ d.reviewed = req[r].revision
                            /\ JobOf(d.reviewed) = req[r].job
                            /\ d.kind = req[r].kind
    \/ jobs[req[r].job] = "none" /\ upc[req[r].job] \in {"undoUpload", "failed", "crashed"}

(* A request that reports failure leaves no job, no revision and no decision *)
(* behind, even when a worker and a reviewer got hold of the job before the  *)
(* handler undid it: the foreign keys make their later writes fail.  Or else *)
(* a decision without a correction held the revision when the last DELETE    *)
(* came, and Postgres aborted the DELETE: then all of it is still there, the *)
(* revision that was decided on included.  The client must have waited for   *)
(* the answer, since its going away cancels the compensation too, and the    *)
(* last DELETE must have reached the database.                               *)
NothingLeft(j) == /\ jobs[j] = "none" /\ ExtractionsOf(j) = {} /\ CircuitsOf(j) = {}
                  /\ \A d \in decisions : JobOf(d.reviewed) # j
KeptBy(r, j) ==
  /\ req[r].job = j /\ ~Corrected(r) /\ rpc[r] \in InTx \cup {"answered", "crashed"}
  /\ uploads[j] # "none" /\ jobs[j] # "none"
  /\ \E c \in CircuitsOf(j) : c.id = pair[r].id
UndoneOrContested ==
  \A j \in Jobs : upc[j] = "failed" /\ j \notin disconnected =>
    NothingLeft(j) \/ \E r \in Reviewers : KeptBy(r, j)

(* What polling shows agrees with the latest revision of the job, after the  *)
(* worker as well as after a correction.                                     *)
JobAgreesWithLatest ==
  \A j \in Jobs : jobs[j] \in {"needs_review", "ready"} =>
    \E c \in LatestPairs(j) : c.status = jobs[j]

(* A decision is recorded on a job that waits for one, never on one a worker *)
(* still has or has given up: the revision row, which is all the review      *)
(* detail looks at, is pending before the job is.                            *)
DecidesPendingJob ==
  \A d \in decisions' \ decisions : jobs[JobOf(d.reviewed)] = "needs_review"
OnlyPendingDecided == [][DecidesPendingJob]_systemVars

(* What the system looks like to somebody who only knows ReviewLedger.       *)
Verdict(j) ==
  IF \E d \in decisions : JobOf(d.reviewed) = j
    THEN (CHOOSE d \in decisions : JobOf(d.reviewed) = j).kind
    ELSE IF jobs[j] = "needs_review" THEN "pending" ELSE "open"
Told(r) == IF answer[r] = "none" THEN "asking" ELSE IF answer[r] = "ok" THEN "saved" ELSE "refused"

Reviews == INSTANCE ReviewLedger WITH
             verdict <- [j \in Jobs |-> Verdict(j)],
             told <- [r \in Reviewers |-> Told(r)]

(* The transaction, the checks before it and the worker's own writes keep    *)
(* the promise of the ledger: one decision per job that waits for one, made  *)
(* in the step that tells its reviewer so, and none by a refused request.    *)
ImplementsReviewLedger == Reviews!Spec

-----------------------------------------------------------------------------
(* Why that is so.  A request that read the pending revision decides on that *)
(* revision: as long as its job is open the row stays as it was read.  The   *)
(* request that holds the lock of a job row is the only one, and its job     *)
(* still waits.                                                              *)
Deciding == {"putSuccessor", "ensure", "writeRevision"} \cup InTx
Closed == {"none", "ready", "failed"}

AsksFirst(r) ==
  /\ rpc[r] \in ReviewCalls \/ answer[r] = "ok" => req[r] \in SentRequests
  /\ rpc[r] \in {"idle"} \cup (ReviewCalls \ {"dropSuccessor"}) => answer[r] = "none"

ReadsPending(r) == rpc[r] \in Deciding =>
  /\ pair[r] \in Revisions
  /\ pair[r].id = req[r].revision /\ JobOf(pair[r].id) = req[r].job
  /\ rpc[r] = "putSuccessor" => Corrected(r)
  /\ Corrected(r) => rno[r] # 0
  /\ upc[req[r].job] \notin NotYetCreated
  /\ jobs[req[r].job] \in Closed \/ pair[r] \in circuits

LocksPending == \A r \in Reviewers : HoldsJob(r) =>
  /\ jobs[req[r].job] = "needs_review"
  /\ \A s \in Reviewers : HoldsJob(s) /\ req[s].job = req[r].job => s = r

(* A second version is written by a decision only.                           *)
SecondDecided ==
  \A c \in circuits : c.version # 1 => \E d \in decisions : JobOf(d.reviewed) = JobOf(c.id)

ReviewInv ==
  /\ \A r \in Reviewers : AsksFirst(r) /\ ReadsPending(r)
  /\ LocksPending
  /\ SecondDecided
  /\ DecisionMatchesState /\ OneDecisionPerJob /\ AnsweredIsSaved

(* The identifier of a correction is its request's own: no row has it, and   *)
(* neither a worker nor another request is about to write it.  The object of *)
(* one that is about to be committed is there.                               *)
HasSuccessor(r) == rpc[r] = "dropSuccessor" \/ (rpc[r] \in Deciding /\ Corrected(r))
OwnSuccessors ==
  /\ \A c \in circuits : c.id[2] <= drawn[JobOf(c.id)]
  /\ \A w \in Workers : wpc[w] \in Persisting => wno[w] <= drawn[wjob[w]]
  /\ \A r \in Reviewers : HasSuccessor(r) =>
       /\ rno[r] <= drawn[req[r].job]
       /\ \A c \in circuits : c.id # Successor(r)
       /\ \A w \in Workers : wpc[w] \in Persisting => Id(w) # Successor(r)
       /\ \A s \in Reviewers : HasSuccessor(s) /\ Successor(s) = Successor(r) => s = r
       /\ rpc[r] \in Deciding \ {"putSuccessor"} => <<"circuit", Successor(r)>> \in artifacts

-----------------------------------------------------------------------------
(* What the documents of the repository say, and the code does not do.       *)

(* "persists the decision and corrected circuit data atomically": when the   *)
(* answer to COMMIT is lost the handler deletes the object of the committed  *)
(* correction.                                                               *)
CorrectionPersisted ==
  \A c \in circuits : c.version > 1 /\ (\E d \in decisions : d.resolved = c.id) =>
    <<"circuit", c.id>> \in artifacts

(* "Reject ... already-resolved revisions with 404/409": the loser of a race *)
(* fails on the job's compare-and-swap, which is answered with 500.          *)
ResolvedIsConflict ==
  \A r \in Reviewers : answer[r] = "serverError" =>
    ~\E d \in decisions : d.reviewed = req[r].revision

(* Of a job "not in needs_review ... the system rejects the request as not   *)
(* reviewable": the workbench looks at the revision row, which Save writes   *)
(* before MarkCompleted moves the job.                                       *)
OffersOnlyPendingJobs == \A j \in ListReviewQueue : jobs[j] = "needs_review"
=============================================================================
