--------------------------- MODULE PipelineProofs ---------------------------
(* Theorems about Pipeline for any sets of jobs and workers, any faults, any *)
(* crashes and any disconnected clients.                                     *)
EXTENDS Pipeline, SequenceTheorems, TLAPS

(* The payloads in the list after a pop and after a push.                    *)
LEMMA PoppedPayloads ==
  ASSUME queue \in Seq(Jobs), queue # <<>>, queue' = Tail(queue)
  PROVE  Queued' \subseteq Queued /\ Head(queue) \in Queued /\ Head(queue) \in Jobs
  BY DEF Queued

(* A push, once or twice, adds one payload to those that wait.               *)
LEMMA PushedPayload ==
  ASSUME queue \in Seq(Jobs), NEW j \in Jobs,
         queue' = Append(queue, j) \/ queue' = Append(Append(queue, j), j)
  PROVE  Queued' \subseteq Queued \cup {j} /\ queue' \in Seq(Jobs)
  BY DEF Queued

(* A queue that stays holds the same payloads.                               *)
LEMMA SameQueue == ASSUME queue' = queue PROVE Queued' = Queued
  BY DEF Queued

(* What one call may do to the tables leaves them well formed.               *)
LEMMA UpdateTypeOK ==
  ASSUME StoreTypeOK, NEW j \in Jobs, NEW from, NEW to \in {"none"} \cup JobStatuses, NEW o,
         UpdateJobStatus(j, from, to, o)
  PROVE  jobs' \in [Jobs -> {"none"} \cup JobStatuses]
  BY DEF StoreTypeOK, UpdateJobStatus

(* A deleted job, and what is deleted with it, leaves rows of the same       *)
(* types.                                                                    *)
LEMMA DeleteTypeOK ==
  ASSUME StoreTypeOK, NEW j \in Jobs, NEW o, DeleteJob(j, o)
  PROVE  /\ jobs' \in [Jobs -> {"none"} \cup JobStatuses]
         /\ extractions' \subseteq extractions
         /\ circuits' \subseteq circuits
         /\ decisions' \subseteq decisions
  BY DEF StoreTypeOK, DeleteJob

(* A handler that returns, or undoes a step, is at one of its steps.         *)
LEMMA ReturnTypeOK ==
  ASSUME UploadsTypeOK, NEW j \in Jobs, NEW ok, Return(j, ok),
         upc[j] \in {"createUpload", "createJob", "put", "markUploaded",
                     "toUploaded", "toQueued", "enqueue"}
  PROVE  upc' \in [Jobs -> UploadSteps]
<1>1. Then[upc[j]] \in UploadSteps /\ Otherwise[upc[j]] \in UploadSteps
  BY DEF Then, Otherwise, UploadSteps, UploadCalls, UploadEnds
<1> QED
  BY <1>1 DEF UploadsTypeOK, Return

(* Every step of a handler keeps the types.                                  *)
LEMMA HandlerKeepsTypes ==
  ASSUME TypeOK, NEW j \in Jobs, UploadAction(j)
  PROVE  TypeOK'
<1> USE DEF TypeOK, store, rows, objects, workerVars, StoreTypeOK, UploadsTypeOK, WorkerTypeOK
<1>0. WorkerTypeOK'
  BY DEF UploadAction
<1>1. CASE Receive(j)
  BY <1>0, <1>1 DEF Receive, UploadSteps, UploadCalls, UploadEnds
<1>2. CASE CreateUpload(j)
  BY <1>0, <1>2, ReturnTypeOK DEF CreateUpload
<1>3. CASE CreateJob(j)
  BY <1>0, <1>3, ReturnTypeOK DEF CreateJob, JobStatuses
<1>4. CASE PutSource(j)
  BY <1>0, <1>4, ReturnTypeOK DEF PutSource
<1>5. CASE MarkUploaded(j)
  BY <1>0, <1>5, ReturnTypeOK DEF MarkUploaded
<1>6. CASE ToUploaded(j)
  <2>1. jobs' \in [Jobs -> {"none"} \cup JobStatuses]
    BY <1>6, UpdateTypeOK DEF ToUploaded, Transition, JobStatuses
  <2> QED
    BY <1>0, <1>6, <2>1, ReturnTypeOK DEF ToUploaded, Transition
<1>7. CASE ToQueued(j)
  <2>1. jobs' \in [Jobs -> {"none"} \cup JobStatuses]
    BY <1>7, UpdateTypeOK DEF ToQueued, Transition, JobStatuses
  <2> QED
    BY <1>0, <1>7, <2>1, ReturnTypeOK DEF ToQueued, Transition
<1>8. CASE Enqueue(j)
  <2>1. queue' \in Seq(Jobs)
    BY <1>8, PushedPayload DEF Enqueue
  <2> QED
    BY <1>0, <1>8, <2>1, ReturnTypeOK DEF Enqueue
<1>9. CASE UndoObject(j)
  BY <1>0, <1>9 DEF UndoObject, UploadSteps, UploadCalls
<1>10. CASE UndoJob(j)
  <2>1. PICK o : DeleteJob(j, o)
    BY <1>10 DEF UndoJob
  <2> QED
    BY <1>0, <1>10, <2>1, DeleteTypeOK DEF UndoJob, UploadSteps, UploadCalls
<1>11. CASE UndoUpload(j)
  <2>1. PICK o : DeleteJob(j, o)
    BY <1>11 DEF UndoUpload
  <2>2. uploads' \in [Jobs -> {"none", "created", "uploaded"}]
    BY <1>11 DEF UndoUpload
  <2> QED
    BY <1>0, <1>11, <2>1, <2>2, DeleteTypeOK DEF UndoUpload, UploadSteps, UploadEnds
<1>12. CASE Disconnect(j)
  BY <1>0, <1>12 DEF Disconnect
<1>13. CASE CrashApi(j)
  BY <1>0, <1>13 DEF CrashApi, UploadSteps, UploadEnds
<1> QED
  BY <1>1, <1>2, <1>3, <1>4, <1>5, <1>6, <1>7, <1>8, <1>9, <1>10, <1>11, <1>12, <1>13
  DEF UploadAction, UploadNext, UploadCall

-----------------------------------------------------------------------------
(* The steps of a worker that go on or fail, and those that leave the job.   *)
Going == {"claim", "getUpload", "getObject", "extract", "putExtraction",
          "putCircuit", "insertExtraction", "insertCircuit"}

(* A worker that goes on, or gives up, is at one of its steps.               *)
LEMMA ProceedTypeOK ==
  ASSUME WorkerTypeOK, NEW w \in Workers, NEW ok, Proceed(w, ok), wpc[w] \in Going
  PROVE  wpc' \in [Workers -> WorkerSteps]
<1>1. After[wpc[w]] \in WorkerSteps
  BY DEF After, Going, WorkerSteps, WorkerCalls
<1> QED
  BY <1>1 DEF WorkerTypeOK, Proceed, WorkerSteps, WorkerCalls

(* A worker that leaves a job holds nothing.                                 *)
LEMMA LeaveTypeOK ==
  ASSUME WorkerTypeOK, NEW w \in Workers, NEW step \in {"down", "dequeue"}, Leave(w, step)
  PROVE  WorkerTypeOK'
  BY DEF WorkerTypeOK, Leave, WorkerSteps, WorkerCalls

(* A worker that holds a payload holds the payload of a job.                 *)
LEMMA HeldPayload ==
  ASSUME TypeOK, Locals, NEW w \in Workers, wpc[w] \notin {"down", "dequeue"}
  PROVE  wjob[w] \in Jobs
  BY WorkerAssumption DEF TypeOK, WorkerTypeOK, Locals

(* A worker that persists writes under an identifier that was drawn.         *)
LEMMA IdTypeOK ==
  ASSUME TypeOK, Locals, NEW w \in Workers, wpc[w] \in Persisting
  PROVE  Id(w) \in RevisionIds
<1>1. wjob[w] \in Jobs
  BY HeldPayload DEF Persisting
<1>2. wno[w] \in Nat \ {0}
  BY DEF TypeOK, WorkerTypeOK, Locals
<1> QED
  BY <1>1, <1>2 DEF Id, RevisionIds

(* A stored revision has a settled status.                                   *)
LEMMA PairStatus ==
  ASSUME TypeOK, NEW j \in Jobs, NEW c \in LatestPairs(j)
  PROVE  c.status \in Settled
  BY DEF TypeOK, StoreTypeOK, LatestPairs, CircuitsOf, Revisions, RevisionStatuses, Settled

(* Every step of a worker keeps the types.                                   *)
LEMMA WorkerKeepsTypes ==
  ASSUME TypeOK, Locals, NEW w \in Workers, WorkerAction(w)
  PROVE  TypeOK'
<1> USE DEF TypeOK, store, rows, objects, local, uploadVars, StoreTypeOK, UploadsTypeOK
<1>0. UploadsTypeOK'
  BY DEF WorkerAction
<1>1. CASE StartWorker(w)
  BY <1>0, <1>1 DEF StartWorker, WorkerTypeOK, WorkerSteps, WorkerCalls
<1>2. CASE Dequeue(w)
  <2>1. \/ queue # <<>> /\ queue' = Tail(queue)
        \/ queue' = queue
    BY <1>2 DEF Dequeue, Applies
  <2>2. queue' \in Seq(Jobs)
    <3>1. queue \in Seq(Jobs)
      OBVIOUS
    <3>2. queue # <<>> => Tail(queue) \in Seq(Jobs)
      BY <3>1, HeadTailProperties
    <3> QED
      BY <2>1, <3>1, <3>2
  <2>3. queue # <<>> => Head(queue) \in Jobs
    OBVIOUS
  <2>4. WorkerTypeOK'
    BY <1>2, <2>3 DEF Dequeue, Applies, WorkerTypeOK, WorkerSteps, WorkerCalls
  <2> QED
    BY <1>0, <1>2, <2>2, <2>4 DEF Dequeue
<1>3. CASE ClaimQueued(w)
  <2>1. wjob[w] \in Jobs
    BY <1>3, HeldPayload DEF ClaimQueued
  <2>2. jobs' \in [Jobs -> {"none"} \cup JobStatuses]
    BY <1>3, <2>1, UpdateTypeOK DEF ClaimQueued, JobStatuses
  <2>3. WorkerTypeOK'
    BY <1>3, LeaveTypeOK, ProceedTypeOK DEF ClaimQueued, Going, WorkerTypeOK
  <2> QED
    BY <1>0, <1>3, <2>2, <2>3 DEF ClaimQueued
<1>4. CASE GetUpload(w)
  <2>1. WorkerTypeOK'
    BY <1>4, ProceedTypeOK DEF GetUpload, Going, WorkerTypeOK
  <2> QED
    BY <1>0, <1>4, <2>1 DEF GetUpload
<1>5. CASE GetObject(w)
  <2>1. WorkerTypeOK'
    BY <1>5, ProceedTypeOK DEF GetObject, Going, WorkerTypeOK
  <2> QED
    BY <1>0, <1>5, <2>1 DEF GetObject
<1>6. CASE Extract(w)
  <2>1. wpc' \in [Workers -> WorkerSteps]
    BY <1>6, ProceedTypeOK DEF Extract, Going
  <2>2. wstatus' \in [Workers -> {"none"} \cup Settled]
    BY <1>6 DEF Extract, DecideStatus, WorkerTypeOK, Settled
  <2> QED
    BY <1>0, <1>6, <2>1, <2>2 DEF Extract, WorkerTypeOK
<1>7. CASE PersistCheck(w)
  <2>1. wjob[w] \in Jobs
    BY <1>7, HeldPayload DEF PersistCheck
  <2>2. ASSUME NEW c \in LatestPairs(wjob[w]) PROVE c.status \in Settled
    BY <2>1, <2>2, PairStatus
  <2>3. wpc' \in [Workers -> WorkerSteps]
    BY <1>7 DEF PersistCheck, WorkerTypeOK, WorkerSteps, WorkerCalls
  <2>4. wstatus' \in [Workers -> {"none"} \cup Settled]
    BY <1>7, <2>2 DEF PersistCheck, KeptStatus, WorkerTypeOK
  <2>5. drawn[wjob[w]] \in Nat
    BY <2>1
  <2>6. /\ drawn' = drawn \/ drawn' = [drawn EXCEPT ![wjob[w]] = drawn[wjob[w]] + 1]
        /\ wno' = wno \/ wno' = [wno EXCEPT ![w] = drawn[wjob[w]] + 1]
    BY <1>7 DEF PersistCheck
  <2>7. drawn' \in [Jobs -> Nat] /\ wno' \in [Workers -> Nat]
    <3>1. drawn[wjob[w]] + 1 \in Nat
      BY <2>5
    <3>2. wno \in [Workers -> Nat] /\ drawn \in [Jobs -> Nat]
      BY DEF WorkerTypeOK
    <3> HIDE DEF TypeOK, StoreTypeOK, UploadsTypeOK
    <3>3. drawn' \in [Jobs -> Nat]
      BY <2>1, <2>6, <3>1, <3>2
    <3>4. wno' \in [Workers -> Nat]
      BY <2>6, <3>1, <3>2
    <3> QED
      BY <3>3, <3>4
  <2> QED
    BY <1>0, <1>7, <2>3, <2>4, <2>7 DEF PersistCheck, WorkerTypeOK
<1>8. CASE PutExtraction(w)
  <2>1. WorkerTypeOK'
    BY <1>8, ProceedTypeOK DEF PutExtraction, PutArtifact, Going, WorkerTypeOK
  <2>2. artifacts' \subseteq Artifacts
    <3>1. <<"extraction", Id(w)>> \in Artifacts
      BY <1>8, IdTypeOK DEF PutExtraction, PutArtifact, Persisting, Artifacts
    <3> QED
      BY <1>8, <3>1 DEF PutExtraction, PutArtifact
  <2> QED
    BY <1>0, <1>8, <2>1, <2>2 DEF PutExtraction, PutArtifact
<1>9. CASE PutCircuit(w)
  <2>1. WorkerTypeOK'
    BY <1>9, ProceedTypeOK DEF PutCircuit, PutArtifact, Going, WorkerTypeOK
  <2>2. artifacts' \subseteq Artifacts
    <3>1. <<"circuit", Id(w)>> \in Artifacts
      BY <1>9, IdTypeOK DEF PutCircuit, PutArtifact, Persisting, Artifacts
    <3> QED
      BY <1>9, <3>1 DEF PutCircuit, PutArtifact
  <2> QED
    BY <1>0, <1>9, <2>1, <2>2 DEF PutCircuit, PutArtifact
<1>10. CASE InsertExtraction(w)
  <2>1. WorkerTypeOK'
    BY <1>10, ProceedTypeOK DEF InsertExtraction, Going, WorkerTypeOK
  <2>2. extractions' \subseteq RevisionIds
    BY <1>10, IdTypeOK DEF InsertExtraction, Persisting
  <2> QED
    BY <1>0, <1>10, <2>1, <2>2 DEF InsertExtraction
<1>11. CASE InsertCircuit(w)
  <2>1. WorkerTypeOK'
    BY <1>11, ProceedTypeOK DEF InsertCircuit, Going, WorkerTypeOK
  <2>2. [id |-> Id(w), extraction |-> Id(w), version |-> 1, status |-> wstatus[w]] \in Revisions
    <3>1. wstatus[w] \in RevisionStatuses
      BY <1>11 DEF InsertCircuit, WorkerTypeOK, Locals, Persisting, Settled, RevisionStatuses
    <3> QED
      BY <1>11, <3>1, IdTypeOK DEF InsertCircuit, Persisting, Revisions
  <2>3. circuits' \subseteq Revisions
    BY <1>11, <2>2 DEF InsertCircuit
  <2> QED
    BY <1>0, <1>11, <2>1, <2>3 DEF InsertCircuit
<1>12. CASE MarkCompleted(w)
  <2>1. wjob[w] \in Jobs
    BY <1>12, HeldPayload DEF MarkCompleted
  <2>2. jobs' \in [Jobs -> {"none"} \cup JobStatuses]
    BY <1>12, <2>1, UpdateTypeOK DEF MarkCompleted, StatusFromCircuit, JobStatuses
  <2>3. WorkerTypeOK'
    BY <1>12, LeaveTypeOK DEF MarkCompleted
  <2> QED
    BY <1>0, <1>12, <2>2, <2>3 DEF MarkCompleted
<1>13. CASE MarkFailed(w)
  <2>1. wjob[w] \in Jobs
    BY <1>13, HeldPayload DEF MarkFailed
  <2>2. jobs' \in [Jobs -> {"none"} \cup JobStatuses]
    BY <1>13, <2>1, UpdateTypeOK DEF MarkFailed, JobStatuses
  <2>3. WorkerTypeOK'
    BY <1>13, LeaveTypeOK DEF MarkFailed
  <2> QED
    BY <1>0, <1>13, <2>2, <2>3 DEF MarkFailed
<1>14. CASE CrashWorker(w)
  BY <1>0, <1>14, LeaveTypeOK DEF CrashWorker
<1> QED
  BY <1>1, <1>2, <1>3, <1>4, <1>5, <1>6, <1>7, <1>8, <1>9, <1>10, <1>11, <1>12, <1>13, <1>14
  DEF WorkerAction, WorkerNext, WorkerCall

-----------------------------------------------------------------------------
(* What a step of a handler may do to its job, and to nobody else's.         *)
HandlerEffect(j) ==
  /\ \A k \in Jobs \ {j} : jobs'[k] = jobs[k] /\ upc'[k] = upc[k]
  /\ Queued' \subseteq Queued \cup {j}
  /\ upc[j] # "enqueue" => Queued' = Queued
  /\ \/ /\ jobs'[j] = jobs[j]
        /\ upc'[j] \in NotYetCreated => upc[j] \in NotYetCreated
        /\ upc'[j] = "enqueue" => upc[j] = "enqueue"
     \/ /\ upc[j] = "createJob" /\ jobs'[j] = "created"
        /\ upc'[j] \in {"put", "undoUpload"}
     \/ /\ jobs[j] = "created" /\ jobs'[j] = "uploaded"
        /\ upc'[j] \in {"toQueued", "undoObject"}
     \/ /\ jobs[j] = "uploaded" /\ jobs'[j] = "queued"
        /\ upc'[j] \in {"enqueue", "undoObject"}
     \/ /\ upc[j] \in {"undoJob", "undoUpload"} /\ jobs'[j] = "none"
        /\ upc'[j] \in {"undoUpload", "failed"}

(* Where a call leads.                                                       *)
LEMMA ReturnSteps ==
  ASSUME UploadsTypeOK, NEW j \in Jobs, NEW ok, Return(j, ok)
  PROVE  /\ \A k \in Jobs \ {j} : upc'[k] = upc[k]
         /\ upc[j] = "createUpload" => upc'[j] \in {"createJob", "failed"}
         /\ upc[j] = "createJob" => upc'[j] \in {"put", "undoUpload"}
         /\ upc[j] = "put" => upc'[j] \in {"markUploaded", "undoJob"}
         /\ upc[j] = "markUploaded" => upc'[j] \in {"toUploaded", "undoObject"}
         /\ upc[j] = "toUploaded" => upc'[j] \in {"toQueued", "undoObject"}
         /\ upc[j] = "toQueued" => upc'[j] = IF ok THEN "enqueue" ELSE "undoObject"
         /\ upc[j] = "enqueue" => upc'[j] \in {"done", "undoObject"}
  BY DEF UploadsTypeOK, Return, Then, Otherwise

(* A conditional update moves one job, from the status it names, or none.    *)
LEMMA UpdateEffect ==
  ASSUME StoreTypeOK, NEW j \in Jobs, NEW from, NEW to, NEW o, UpdateJobStatus(j, from, to, o)
  PROVE  \/ jobs' = jobs /\ ~Applies(o, StatusMatches(j, from))
         \/ /\ jobs[j] = from /\ jobs'[j] = to
            /\ \A k \in Jobs \ {j} : jobs'[k] = jobs[k]
  BY DEF StoreTypeOK, UpdateJobStatus, StatusMatches, Applies

(* A deletion takes one job at most.                                         *)
LEMMA DeleteEffect ==
  ASSUME StoreTypeOK, NEW j \in Jobs, NEW o, DeleteJob(j, o)
  PROVE  /\ \A k \in Jobs \ {j} : jobs'[k] = jobs[k]
         /\ jobs'[j] \in {jobs[j], "none"}
  BY DEF StoreTypeOK, DeleteJob

(* Every step of a handler does one of the things it may do to a job.        *)
LEMMA HandlerHasEffect ==
  ASSUME TypeOK, NEW j \in Jobs, UploadAction(j)
  PROVE  HandlerEffect(j)
<1> USE DEF TypeOK, store, rows, objects, NotYetCreated
<1>1. CASE Receive(j) \/ Disconnect(j) \/ CrashApi(j)
  <2>1. Queued' = Queued /\ jobs' = jobs
    BY <1>1, SameQueue DEF Receive, Disconnect, CrashApi
  <2>2. \/ upc' = upc
        \/ upc[j] = "idle" /\ \E s \in {"createUpload", "rejected"} : upc' = [upc EXCEPT ![j] = s]
        \/ upc' = [upc EXCEPT ![j] = "crashed"]
    BY <1>1 DEF Receive, Disconnect, CrashApi
  <2> QED
    BY <2>1, <2>2 DEF HandlerEffect, UploadsTypeOK
<1>2. CASE CreateUpload(j) \/ PutSource(j) \/ MarkUploaded(j)
  <2>1. Queued' = Queued /\ jobs' = jobs
    BY <1>2, SameQueue DEF CreateUpload, PutSource, MarkUploaded
  <2>2. upc[j] \in {"createUpload", "put", "markUploaded"} /\ \E ok \in BOOLEAN : Return(j, ok)
    BY <1>2 DEF CreateUpload, PutSource, MarkUploaded, Succeeds
  <2> QED
    BY <2>1, <2>2, ReturnSteps DEF HandlerEffect
<1>3. CASE CreateJob(j)
  <2>1. Queued' = Queued
    BY <1>3, SameQueue DEF CreateJob
  <2>2. upc[j] = "createJob" /\ jobs' \in {jobs, [jobs EXCEPT ![j] = "created"]}
    BY <1>3 DEF CreateJob
  <2>3. \E ok : Return(j, ok)
    BY <1>3 DEF CreateJob
  <2> QED
    BY <2>1, <2>2, <2>3, ReturnSteps DEF HandlerEffect, StoreTypeOK
<1>4. CASE ToUploaded(j)
  <2>1. Queued' = Queued
    BY <1>4, SameQueue DEF ToUploaded, Transition
  <2>2. PICK o : upc[j] = "toUploaded" /\ UpdateJobStatus(j, "created", "uploaded", o)
    BY <1>4 DEF ToUploaded, Transition
  <2>3. \E ok : Return(j, ok)
    BY <1>4 DEF ToUploaded, Transition
  <2> QED
    BY <2>1, <2>2, <2>3, ReturnSteps, UpdateEffect DEF HandlerEffect
<1>5. CASE ToQueued(j)
  <2>1. Queued' = Queued
    BY <1>5, SameQueue DEF ToQueued, Transition
  <2>2. PICK o : /\ upc[j] = "toQueued"
                 /\ UpdateJobStatus(j, "uploaded", "queued", o)
                 /\ Return(j, Succeeds(o, StatusMatches(j, "uploaded")))
    BY <1>5 DEF ToQueued, Transition
  <2>3. CASE Applies(o, StatusMatches(j, "uploaded"))
    <3>1. jobs[j] = "uploaded" /\ jobs' = [jobs EXCEPT ![j] = "queued"]
      BY <2>2, <2>3 DEF UpdateJobStatus, StatusMatches, Applies
    <3> QED
      BY <2>1, <2>2, <3>1, ReturnSteps DEF HandlerEffect, StoreTypeOK
  <2>4. CASE ~Applies(o, StatusMatches(j, "uploaded"))
    <3>1. jobs' = jobs /\ ~Succeeds(o, StatusMatches(j, "uploaded"))
      BY <2>2, <2>4 DEF UpdateJobStatus, Applies, Succeeds
    <3> QED
      BY <2>1, <2>2, <3>1, ReturnSteps DEF HandlerEffect
  <2> QED
    BY <2>3, <2>4
<1>6. CASE Enqueue(j)
  <2>1. Queued' \subseteq Queued \cup {j}
    BY <1>6, PushedPayload, SameQueue DEF Enqueue, StoreTypeOK
  <2>2. upc[j] = "enqueue" /\ jobs' = jobs
    BY <1>6 DEF Enqueue
  <2>3. \E ok : Return(j, ok)
    BY <1>6 DEF Enqueue
  <2> QED
    BY <2>1, <2>2, <2>3, ReturnSteps DEF HandlerEffect
<1>7. CASE UndoObject(j)
  <2>1. Queued' = Queued /\ jobs' = jobs
    BY <1>7, SameQueue DEF UndoObject
  <2> QED
    BY <1>7, <2>1 DEF UndoObject, HandlerEffect, UploadsTypeOK
<1>8. CASE UndoJob(j) \/ UndoUpload(j)
  <2>1. Queued' = Queued
    BY <1>8, SameQueue DEF UndoJob, UndoUpload
  <2>2. PICK o : DeleteJob(j, o)
    BY <1>8 DEF UndoJob, UndoUpload
  <2>3. /\ upc[j] \in {"undoJob", "undoUpload"}
        /\ \E s \in {"undoUpload", "failed"} : upc' = [upc EXCEPT ![j] = s]
    BY <1>8 DEF UndoJob, UndoUpload
  <2> QED
    BY <2>1, <2>2, <2>3, DeleteEffect DEF HandlerEffect, UploadsTypeOK
<1> QED
  BY <1>1, <1>2, <1>3, <1>4, <1>5, <1>6, <1>7, <1>8 DEF UploadAction, UploadNext, UploadCall

-----------------------------------------------------------------------------
(* What a step of a worker may do: to its own state, and to the job it has.  *)
WorkerEffect(w) ==
  /\ upc' = upc
  /\ Queued' \subseteq Queued
  /\ \A v \in Workers \ {w} : wpc'[v] = wpc[v] /\ wjob'[v] = wjob[v]
  /\ wjob'[w] \in {wjob[w], NoJob} \cup Queued
  /\ \A k \in Jobs \ {wjob[w]} : jobs'[k] = jobs[k]
  /\ \/ jobs' = jobs /\ ~Working(w)'
     \/ jobs' = jobs /\ Working(w) /\ wjob'[w] = wjob[w]
     \/ /\ wpc[w] = "claim" /\ wjob[w] \in Jobs
        /\ jobs[wjob[w]] = "queued" /\ jobs'[wjob[w]] = "extracting"
        /\ Working(w)' => wjob'[w] = wjob[w]
     \/ /\ Working(w) /\ ~Working(w)' /\ wjob[w] \in Jobs
        /\ jobs[wjob[w]] = "extracting" /\ jobs'[wjob[w]] \in Settled

(* What the types say of the state of worker w, and where its steps lead.    *)
LEMMA ProceedSteps ==
  ASSUME WorkerTypeOK, NEW w \in Workers, NEW ok, Proceed(w, ok), wpc[w] \in Going
  PROVE  /\ \A v \in Workers \ {w} : wpc'[v] = wpc[v]
         /\ Working(w)'
         /\ wpc'[w] \in Persisting =>
              wpc[w] \in Persisting \/ wpc[w] \in {"persistCheck"}
         /\ wpc'[w] \in {"persistCheck"} => wpc[w] = "extract" /\ ok
         /\ wpc'[w] = "complete" => wpc[w] = "insertCircuit"
  BY DEF WorkerTypeOK, Proceed, After, Going, Working, WorkerCalls, Persisting

(* A worker that leaves a job is idle, and the others go on.                 *)
LEMMA LeaveSteps ==
  ASSUME WorkerTypeOK, NEW w \in Workers, NEW step \in {"down", "dequeue"}, Leave(w, step)
  PROVE  /\ \A v \in Workers \ {w} : wpc'[v] = wpc[v] /\ wjob'[v] = wjob[v]
         /\ ~Working(w)' /\ wpc'[w] \in {"down", "dequeue"} /\ wjob'[w] = NoJob
  BY DEF WorkerTypeOK, Leave, Working, WorkerCalls

(* Every step of a worker does one of the things it may do to a job.         *)
LEMMA WorkerHasEffect ==
  ASSUME TypeOK, Locals, NEW w \in Workers, WorkerAction(w)
  PROVE  WorkerEffect(w)
<1> USE DEF TypeOK, store, rows, objects, local
<1>0. upc' = upc
  BY DEF WorkerAction, uploadVars
<1>1. CASE StartWorker(w)
  <2>1. jobs' = jobs /\ Queued' = Queued /\ wjob' = wjob
    BY <1>1, SameQueue DEF StartWorker
  <2>2. wpc[w] = "down" /\ wpc' = [wpc EXCEPT ![w] = "dequeue"]
    BY <1>1 DEF StartWorker
  <2> QED
    BY <1>0, <2>1, <2>2 DEF WorkerEffect, WorkerTypeOK, Working, WorkerCalls
<1>2. CASE Dequeue(w)
  <2>1. /\ jobs' = jobs
        /\ \E s \in {"claim", "down"} : wpc' = [wpc EXCEPT ![w] = s]
    BY <1>2 DEF Dequeue
  <2>2. Queued' \subseteq Queued
    BY <1>2, PoppedPayloads, SameQueue DEF Dequeue, Applies, StoreTypeOK
  <2>3. wjob' = wjob \/ \E q \in Queued : wjob' = [wjob EXCEPT ![w] = q]
    BY <1>2, PoppedPayloads DEF Dequeue, Applies, StoreTypeOK
  <2> QED
    BY <1>0, <2>1, <2>2, <2>3 DEF WorkerEffect, WorkerTypeOK, Working, WorkerCalls
<1>3. CASE ClaimQueued(w)
  <2>1. Queued' = Queued
    BY <1>3, SameQueue DEF ClaimQueued
  <2>2. wpc[w] = "claim" /\ wjob[w] \in Jobs
    BY <1>3, HeldPayload DEF ClaimQueued
  <2>3. PICK o : /\ UpdateJobStatus(wjob[w], "queued", "extracting", o)
                 /\ IF Succeeds(o, StatusMatches(wjob[w], "queued"))
                      THEN Proceed(w, TRUE) /\ UNCHANGED local
                      ELSE Leave(w, "down")
    BY <1>3 DEF ClaimQueued
  <2>4. CASE Succeeds(o, StatusMatches(wjob[w], "queued"))
    <3>1. Applies(o, StatusMatches(wjob[w], "queued"))
      BY <2>4 DEF Succeeds, Applies
    <3>2. wjob' = wjob /\ Proceed(w, TRUE)
      BY <2>3, <2>4
    <3>3. /\ jobs[wjob[w]] = "queued" /\ jobs'[wjob[w]] = "extracting"
          /\ \A k \in Jobs \ {wjob[w]} : jobs'[k] = jobs[k]
      BY <2>2, <2>3, <3>1, UpdateEffect
    <3>4. \A v \in Workers \ {w} : wpc'[v] = wpc[v]
      BY <2>2, <3>2, ProceedSteps DEF Going
    <3> QED
      BY <1>0, <2>1, <2>2, <3>2, <3>3, <3>4 DEF WorkerEffect
  <2>5. CASE ~Succeeds(o, StatusMatches(wjob[w], "queued"))
    <3>1. Leave(w, "down")
      BY <2>3, <2>5
    <3> QED
      BY <1>0, <2>1, <2>2, <2>3, <3>1, UpdateEffect, LeaveSteps DEF WorkerEffect
  <2> QED
    BY <2>4, <2>5
<1>4. CASE \/ GetUpload(w) \/ GetObject(w) \/ Extract(w) \/ PutExtraction(w) \/ PutCircuit(w)
           \/ InsertExtraction(w) \/ InsertCircuit(w)
  <2>1. jobs' = jobs /\ Queued' = Queued /\ wjob' = wjob
    BY <1>4, SameQueue DEF GetUpload, GetObject, Extract, PutExtraction, PutCircuit, PutArtifact,
                           InsertExtraction, InsertCircuit
  <2>2. /\ wpc[w] \in Going \ {"claim"}
        /\ \E ok : Proceed(w, ok)
    BY <1>4 DEF GetUpload, GetObject, Extract, PutExtraction, PutCircuit, PutArtifact,
                InsertExtraction, InsertCircuit, Going
  <2>3. Working(w)
    BY <2>2 DEF Working, Going, WorkerCalls
  <2> QED
    BY <1>0, <2>1, <2>2, <2>3, ProceedSteps DEF WorkerEffect
<1>5. CASE PersistCheck(w)
  <2>1. jobs' = jobs /\ Queued' = Queued /\ wjob' = wjob
    BY <1>5, SameQueue DEF PersistCheck
  <2>2. /\ wpc[w] = "persistCheck"
        /\ \E s : wpc' = [wpc EXCEPT ![w] = s]
    BY <1>5 DEF PersistCheck
  <2> QED
    BY <1>0, <2>1, <2>2 DEF WorkerEffect, WorkerTypeOK, Working, WorkerCalls
<1>6. CASE MarkCompleted(w) \/ MarkFailed(w)
  <2>1. Queued' = Queued
    BY <1>6, SameQueue DEF MarkCompleted, MarkFailed
  <2>2. Working(w) /\ wjob[w] \in Jobs
    BY <1>6, HeldPayload DEF MarkCompleted, MarkFailed, Working, WorkerCalls
  <2>3. \E o : \E to \in Settled : UpdateJobStatus(wjob[w], "extracting", to, o)
    <3>1. CASE MarkCompleted(w)
      <4>1. StatusFromCircuit(wstatus[w]) \in Settled
        BY DEF StatusFromCircuit, Settled
      <4>2. PICK o : UpdateJobStatus(wjob[w], "extracting", StatusFromCircuit(wstatus[w]), o)
        BY <3>1 DEF MarkCompleted
      <4> QED
        BY <4>1, <4>2
    <3>2. CASE MarkFailed(w)
      <4>1. PICK o : UpdateJobStatus(wjob[w], "extracting", "failed", o)
        BY <3>2 DEF MarkFailed
      <4>2. "failed" \in Settled
        BY DEF Settled
      <4> QED
        BY <4>1, <4>2
    <3> QED
      BY <1>6, <3>1, <3>2
  <2>4. \E step \in {"down", "dequeue"} : Leave(w, step)
    BY <1>6 DEF MarkCompleted, MarkFailed
  <2> QED
    BY <1>0, <2>1, <2>2, <2>3, <2>4, UpdateEffect, LeaveSteps DEF WorkerEffect
<1>7. CASE CrashWorker(w)
  <2>1. jobs' = jobs /\ Queued' = Queued /\ Leave(w, "down")
    BY <1>7, SameQueue DEF CrashWorker
  <2> QED
    BY <1>0, <2>1, LeaveSteps DEF WorkerEffect
<1> QED
  BY <1>1, <1>2, <1>3, <1>4, <1>5, <1>6, <1>7 DEF WorkerAction, WorkerNext, WorkerCall

-----------------------------------------------------------------------------
(* The claim invariant, part by part.                                        *)
LEMMA HandlerKeepsClaims ==
  ASSUME TypeOK, ClaimInv, NEW j \in Jobs, UploadAction(j)
  PROVE  ClaimInv'
<1> USE DEF ClaimInv
<1>0. UNCHANGED <<wpc, wjob, wstatus, wno>>
  BY DEF UploadAction, workerVars
<1>1. HandlerEffect(j)
  BY HandlerHasEffect
<1>2. Locals'
  BY <1>0 DEF Locals
<1>3. OneExtractor'
  BY <1>0 DEF OneExtractor, Working
<1>4. ReleasedLate'
  <2>1. ASSUME NEW k \in Jobs \ {j}
        PROVE  /\ upc'[k] = upc[k] /\ jobs'[k] = jobs[k]
               /\ Unreleased(k) => Unreleased(k)'
    BY <1>0, <1>1, <2>1 DEF HandlerEffect, Unreleased
  <2>2. upc[j] # "enqueue" => (Unreleased(j) => Unreleased(j)')
    BY <1>0, <1>1 DEF HandlerEffect, Unreleased
  <2>3. /\ upc'[j] \in NotYetCreated => jobs'[j] = "none" /\ Unreleased(j)'
        /\ jobs'[j] \in {"created", "uploaded"} => Unreleased(j)'
        /\ upc'[j] = "enqueue" => jobs'[j] \notin {"created", "uploaded"}
    BY <1>1, <2>2 DEF HandlerEffect, ReleasedLate, NotYetCreated
  <2> QED
    BY <2>1, <2>3 DEF ReleasedLate
<1>5. ClaimedOrGone'
  <2> SUFFICES ASSUME NEW v \in Workers, Working(v)
               PROVE  jobs'[wjob[v]] \in {"extracting", "none"}
    BY <1>0 DEF ClaimedOrGone, Working
  <2>1. jobs[wjob[v]] \in {"extracting", "none"} /\ wjob[v] \in Jobs
    BY HeldPayload DEF ClaimedOrGone, Working, WorkerCalls
  <2>2. CASE wjob[v] # j
    BY <1>1, <2>1, <2>2 DEF HandlerEffect
  <2>3. CASE wjob[v] = j
    <3>1. upc[j] \notin NotYetCreated
      BY <2>3 DEF ReleasedLate, Unreleased
    <3> QED
      BY <1>1, <2>1, <2>3, <3>1 DEF HandlerEffect, NotYetCreated
  <2> QED
    BY <2>2, <2>3
<1> QED
  BY <1>2, <1>3, <1>4, <1>5

(* No worker gives a job away that its handler still has.                    *)
LEMMA WorkerKeepsReleasedLate ==
  ASSUME TypeOK, ReleasedLate, NEW w \in Workers, WorkerEffect(w)
  PROVE  ReleasedLate'
<1>1. ASSUME NEW k \in Jobs, Unreleased(k) PROVE Unreleased(k)'
  BY <1>1, WorkerAssumption DEF WorkerEffect, Unreleased
<1>2. ASSUME NEW k \in Jobs
      PROVE  \/ jobs'[k] = jobs[k]
             \/ jobs[k] = "queued" /\ jobs'[k] = "extracting"
             \/ jobs[k] = "extracting" /\ jobs'[k] \in Settled
  BY DEF WorkerEffect
<1>3. upc' = upc
  BY DEF WorkerEffect
<1> QED
  BY <1>1, <1>2, <1>3 DEF ReleasedLate, Settled

(* A claim excludes every other worker until the job is settled.             *)
LEMMA WorkerKeepsClaimed ==
  ASSUME TypeOK, ClaimInv, NEW w \in Workers, WorkerEffect(w)
  PROVE  ClaimedOrGone' /\ OneExtractor'
<1> USE DEF ClaimInv
<1>1. ASSUME NEW v \in Workers, Working(v)
      PROVE  wjob[v] \in Jobs /\ jobs[wjob[v]] \in {"extracting", "none"}
  BY <1>1, HeldPayload DEF ClaimedOrGone, Working, WorkerCalls
<1>2. ASSUME NEW v \in Workers \ {w}
      PROVE  (Working(v)' <=> Working(v)) /\ wjob'[v] = wjob[v]
  BY DEF WorkerEffect, Working
<1>3. ClaimedOrGone'
  <2> SUFFICES ASSUME NEW v \in Workers, Working(v)'
               PROVE  jobs'[wjob'[v]] \in {"extracting", "none"}
    BY DEF ClaimedOrGone
  <2>1. CASE v = w
    BY <1>1, <2>1 DEF WorkerEffect
  <2>2. CASE v # w
    <3>1. Working(v) /\ wjob'[v] = wjob[v] /\ wjob[v] \in Jobs
          /\ jobs[wjob[v]] \in {"extracting", "none"}
      BY <1>1, <1>2, <2>2
    <3>2. ~(Working(w) /\ wjob[v] = wjob[w])
      BY <2>2, <3>1 DEF OneExtractor
    <3> QED
      BY <3>1, <3>2 DEF WorkerEffect
  <2> QED
    BY <2>1, <2>2
<1>4. OneExtractor'
  <2>1. ASSUME NEW v \in Workers \ {w}, Working(v)', Working(w)', wjob'[v] = wjob'[w]
        PROVE  FALSE
    <3>1. Working(v) /\ wjob[v] = wjob[w]
      BY <1>2, <2>1 DEF WorkerEffect
    <3>2. ~Working(w)
      BY <3>1 DEF OneExtractor
    <3> QED
      BY <1>1, <2>1, <3>1, <3>2 DEF WorkerEffect
  <2> QED
    BY <1>2, <2>1 DEF OneExtractor
<1> QED
  BY <1>3, <1>4

(* The locals of one worker.                                                 *)
LocalsOf(w) ==
  /\ wpc[w] \in {"down", "dequeue"} <=> wjob[w] = NoJob
  /\ wpc[w] \in Persisting => wno[w] # 0
  /\ wpc[w] \in Persisting \cup {"persistCheck", "complete"} => wstatus[w] # "none"

(* What a worker holds in its variables suits the call it makes next.        *)
LEMMA WorkerKeepsLocals ==
  ASSUME TypeOK, Locals, NEW w \in Workers, WorkerAction(w)
  PROVE  Locals'
<1> USE DEF TypeOK, WorkerTypeOK, local
<1>0. LocalsOf(w)
  BY DEF Locals, LocalsOf
<1>1. ASSUME NEW v \in Workers \ {w}, LocalsOf(v), wpc'[v] = wpc[v], wjob'[v] = wjob[v],
             wstatus'[v] = wstatus[v], wno'[v] = wno[v]
      PROVE  LocalsOf(v)'
  BY <1>1 DEF LocalsOf
<1>2. SUFFICES /\ LocalsOf(w)'
               /\ \A v \in Workers \ {w} : /\ wpc'[v] = wpc[v] /\ wjob'[v] = wjob[v]
                                           /\ wstatus'[v] = wstatus[v] /\ wno'[v] = wno[v]
  BY <1>1 DEF Locals, LocalsOf
<1>3. CASE StartWorker(w)
  BY <1>0, <1>3 DEF StartWorker, LocalsOf, Persisting
<1>4. CASE Dequeue(w)
  <2>1. queue # <<>> => Head(queue) # NoJob
    BY WorkerAssumption DEF StoreTypeOK
  <2> QED
    BY <1>0, <1>4, <2>1 DEF Dequeue, Applies, LocalsOf, Persisting
<1>5. CASE ClaimQueued(w)
  <2>1. PICK ok : IF ok THEN Proceed(w, TRUE) /\ UNCHANGED local ELSE Leave(w, "down")
    BY <1>5 DEF ClaimQueued
  <2>2. wpc[w] = "claim"
    BY <1>5 DEF ClaimQueued
  <2>3. CASE ok
    BY <1>0, <2>1, <2>2, <2>3 DEF Proceed, After, LocalsOf, Persisting
  <2>4. CASE ~ok
    BY <2>1, <2>4 DEF Leave, LocalsOf, Persisting
  <2> QED
    BY <2>3, <2>4
<1>6. CASE GetUpload(w) \/ GetObject(w) \/ PutExtraction(w) \/ PutCircuit(w)
           \/ InsertExtraction(w) \/ InsertCircuit(w)
  <2>1. UNCHANGED <<wjob, wstatus, wno>>
    BY <1>6 DEF GetUpload, GetObject, PutExtraction, PutCircuit, PutArtifact,
                InsertExtraction, InsertCircuit
  <2>2. /\ wpc[w] \in {"getUpload", "getObject"} \cup Persisting
        /\ \E ok : Proceed(w, ok)
    BY <1>6 DEF GetUpload, GetObject, PutExtraction, PutCircuit, PutArtifact,
                InsertExtraction, InsertCircuit, Persisting
  <2> QED
    BY <1>0, <2>1, <2>2 DEF Proceed, After, LocalsOf, Persisting
<1>7. CASE Extract(w)
  <2>1. PICK o \in Outcomes("extract"), r \in Results :
          /\ wpc[w] = "extract"
          /\ Proceed(w, Succeeds(o, TRUE))
          /\ wstatus' = IF Succeeds(o, TRUE) THEN [wstatus EXCEPT ![w] = DecideStatus(r)] ELSE wstatus
          /\ wjob' = wjob /\ wno' = wno
    BY <1>7 DEF Extract
  <2>2. DecideStatus(r) # "none"
    BY DEF DecideStatus
  <2>3. CASE Succeeds(o, TRUE)
    <3>1. /\ wpc' = [wpc EXCEPT ![w] = "persistCheck"]
          /\ wstatus' = [wstatus EXCEPT ![w] = DecideStatus(r)]
      BY <2>1, <2>3 DEF Proceed, After
    <3> QED
      BY <1>0, <2>1, <2>2, <3>1 DEF LocalsOf, Persisting
  <2>4. CASE ~Succeeds(o, TRUE)
    <3>1. wpc' = [wpc EXCEPT ![w] = "fail"] /\ wstatus' = wstatus
      BY <2>1, <2>4 DEF Proceed
    <3> QED
      BY <1>0, <2>1, <3>1 DEF LocalsOf, Persisting
  <2> QED
    BY <2>3, <2>4
<1>8. CASE PersistCheck(w)
  <2>1. wjob[w] \in Jobs /\ wpc[w] = "persistCheck" /\ wjob' = wjob
    BY <1>8, HeldPayload DEF PersistCheck
  <2>2. ASSUME NEW c \in LatestPairs(wjob[w]) PROVE c.status # "none"
    BY <2>1, <2>2, PairStatus DEF Settled
  <2>3. \/ wpc' = [wpc EXCEPT ![w] = "fail"] /\ wstatus' = wstatus /\ wno' = wno
        \/ /\ wpc' = [wpc EXCEPT ![w] = "complete"] /\ wno' = wno
           /\ \E s : s # "none" /\ wstatus' = [wstatus EXCEPT ![w] = s]
        \/ /\ wpc' = [wpc EXCEPT ![w] = "putExtraction"] /\ wstatus' = wstatus
           /\ wno' = [wno EXCEPT ![w] = drawn[wjob[w]] + 1]
    BY <1>8, <2>2 DEF PersistCheck, KeptStatus
  <2>4. drawn[wjob[w]] + 1 # 0
    BY <2>1 DEF StoreTypeOK
  <2> QED
    BY <1>0, <2>1, <2>3, <2>4 DEF LocalsOf, Persisting
<1>9. CASE MarkCompleted(w) \/ MarkFailed(w) \/ CrashWorker(w)
  <2>1. PICK step \in {"down", "dequeue"} : Leave(w, step)
    BY <1>9 DEF MarkCompleted, MarkFailed, CrashWorker
  <2> QED
    BY <2>1 DEF Leave, LocalsOf, Persisting
<1> QED
  BY <1>3, <1>4, <1>5, <1>6, <1>7, <1>8, <1>9 DEF WorkerAction, WorkerNext, WorkerCall

-----------------------------------------------------------------------------
(* TypeOK and ClaimInv are inductive together: the types of the revisions a  *)
(* worker writes follow from its locals, and its locals from the types.      *)
LEMMA InitClaims == Init => TypeOK /\ ClaimInv
<1> SUFFICES ASSUME Init PROVE TypeOK /\ ClaimInv
  OBVIOUS
<1> USE DEF Init, StoreInit, UploadsInit, WorkerInit
<1>1. StoreTypeOK
  BY DEF StoreTypeOK
<1>2. UploadsTypeOK /\ WorkerTypeOK
  BY DEF UploadsTypeOK, UploadSteps, WorkerTypeOK, WorkerSteps
<1>3. Locals
  BY DEF Locals, Persisting
<1>4. ReleasedLate
  BY WorkerAssumption DEF ReleasedLate, Unreleased, Queued, NotYetCreated
<1>5. ClaimedOrGone /\ OneExtractor
  BY DEF ClaimedOrGone, OneExtractor, Working, WorkerCalls
<1> QED
  BY <1>1, <1>2, <1>3, <1>4, <1>5 DEF TypeOK, ClaimInv

(* Every step of a handler or a worker keeps the claims.                     *)
LEMMA NextKeepsClaims == TypeOK /\ ClaimInv /\ [Next]_vars => TypeOK' /\ ClaimInv'
<1> SUFFICES ASSUME TypeOK, ClaimInv, [Next]_vars PROVE TypeOK' /\ ClaimInv'
  OBVIOUS
<1>0. Locals
  BY DEF ClaimInv
<1>1. ASSUME NEW j \in Jobs, UploadAction(j) PROVE TypeOK' /\ ClaimInv'
  BY <1>1, HandlerKeepsTypes, HandlerKeepsClaims
<1>2. ASSUME NEW w \in Workers, WorkerAction(w) PROVE TypeOK' /\ ClaimInv'
  <2>1. WorkerEffect(w)
    BY <1>0, <1>2, WorkerHasEffect
  <2>2. ReleasedLate' /\ ClaimedOrGone' /\ OneExtractor'
    BY <2>1, WorkerKeepsReleasedLate, WorkerKeepsClaimed DEF ClaimInv
  <2> QED
    BY <1>0, <1>2, <2>2, WorkerKeepsTypes, WorkerKeepsLocals DEF ClaimInv
<1>3. CASE UNCHANGED vars
  BY <1>3 DEF vars, store, uploadVars, workerVars, TypeOK, StoreTypeOK, UploadsTypeOK,
     WorkerTypeOK, ClaimInv, Locals, ReleasedLate, Unreleased, Queued, ClaimedOrGone,
     OneExtractor, Working
<1> QED
  BY <1>1, <1>2, <1>3 DEF Next

-----------------------------------------------------------------------------
(* Rows, objects, the queue and the program counters of the handlers and the *)
(* workers are well formed, whatever fails, dies or is cancelled.            *)
THEOREM PipelineTypes == Spec => []TypeOK
<1>1. Init => TypeOK /\ ClaimInv
  BY InitClaims
<1>2. TypeOK /\ ClaimInv /\ [Next]_vars => (TypeOK /\ ClaimInv)'
  BY NextKeepsClaims
<1> QED
  BY <1>1, <1>2, PTL DEF Spec

(* A payload gets into the hands of a worker only when its job is queued or  *)
(* later; the job of a worker at work is extracting or was deleted.          *)
THEOREM PipelineClaims == Spec => []ClaimInv
<1>1. Init => TypeOK /\ ClaimInv
  BY InitClaims
<1>2. TypeOK /\ ClaimInv /\ [Next]_vars => (TypeOK /\ ClaimInv)'
  BY NextKeepsClaims
<1> QED
  BY <1>1, <1>2, PTL DEF Spec

(* ProcessNext never runs twice at the same time for one job, though the     *)
(* Redis client may duplicate its payload: the claim of worker.go is atomic. *)
THEOREM ExclusiveExtraction == Spec => []OneExtractor
<1>1. ClaimInv => OneExtractor
  BY DEF ClaimInv
<1> QED
  BY <1>1, PipelineClaims, PTL

(* While a job is not queued, its payload is in nobody's hands.              *)
LEMMA ReleasedPayloads ==
  ASSUME TypeOK, ClaimInv
  PROVE  PayloadReleased
<1> SUFFICES ASSUME NEW j \in Queued \cup Held
             PROVE  jobs[j] \notin {"created", "uploaded"}
  BY DEF PayloadReleased
<1>1. CASE j \in Queued
  <2>1. j \in Jobs
    BY <1>1 DEF TypeOK, StoreTypeOK, Queued
  <2> QED
    BY <1>1, <2>1 DEF ClaimInv, ReleasedLate, Unreleased
<1>2. CASE j \in Held
  <2>1. PICK w \in Workers : wpc[w] = "claim" /\ wjob[w] = j
    BY <1>2 DEF Held
  <2>2. j \in Jobs
    BY <2>1, HeldPayload DEF ClaimInv
  <2> QED
    BY <2>1, <2>2 DEF ClaimInv, ReleasedLate, Unreleased
<1> QED
  BY <1>1, <1>2

(* Upload pushes a payload after it moved the job to queued, so a claim      *)
(* never fails because the worker was faster than the handler.               *)
THEOREM PayloadAfterRelease == Spec => []PayloadReleased
  BY ReleasedPayloads, PipelineTypes, PipelineClaims, PTL

(* A handler moves its job along the path or takes it back, and a worker     *)
(* moves the one it works on.                                                *)
LEMMA StepMovesJobs ==
  ASSUME TypeOK, ClaimInv, Next
  PROVE  JobMoves
<1> SUFFICES ASSUME NEW k \in Jobs, jobs'[k] # jobs[k]
             PROVE  \/ <<jobs[k], jobs'[k]>> \in Edges
                    \/ jobs'[k] = "none" /\ upc[k] \in {"undoJob", "undoUpload"}
  BY DEF JobMoves
<1>1. CASE \E j \in Jobs : UploadAction(j)
  <2>1. PICK j \in Jobs : HandlerEffect(j)
    BY <1>1, HandlerHasEffect
  <2>2. k = j
    BY <2>1 DEF HandlerEffect
  <2>3. upc[k] = "createJob" => jobs[k] = "none"
    BY DEF ClaimInv, ReleasedLate, NotYetCreated
  <2> QED
    BY <2>1, <2>2, <2>3 DEF HandlerEffect, Edges
<1>2. CASE \E w \in Workers : WorkerAction(w)
  <2>1. PICK w \in Workers : WorkerEffect(w)
    BY <1>2, WorkerHasEffect DEF ClaimInv
  <2> QED
    BY <2>1 DEF WorkerEffect, Edges, Settled
<1> QED
  BY <1>1, <1>2 DEF Next

(* Every change of a job's row is an edge of the state path, or its removal  *)
(* by the compensation of its own upload.                                    *)
THEOREM JobPath == Spec => JobsMoveForward
<1>1. TypeOK /\ ClaimInv /\ [Next]_vars => [JobMoves]_vars
  BY StepMovesJobs
<1> QED
  BY <1>1, PipelineTypes, PipelineClaims, PTL DEF Spec, JobsMoveForward

-----------------------------------------------------------------------------
(* Pipeline implements ClaimLedger, step by step.                            *)
LEMMA HandlerImplements ==
  ASSUME TypeOK, ClaimInv, NEW j \in Jobs, UploadAction(j)
  PROVE  Claims!Next \/ UNCHANGED Claims!ledger
<1>1. HandlerEffect(j)
  BY HandlerHasEffect
<1>2. \A k \in Jobs : HoldersOf(k)' = HoldersOf(k)
  BY DEF UploadAction, workerVars, HoldersOf, Working
<1>3. \A k \in Jobs \ {j} : Phase(k)' = Phase(k)
  BY <1>1 DEF HandlerEffect, Phase
<1>4. Unreleased(j) => HoldersOf(j) = {}
  BY DEF HoldersOf, Unreleased
<1>5. /\ upc[j] \in NotYetCreated => jobs[j] = "none" /\ Unreleased(j)
      /\ jobs[j] \in {"created", "uploaded"} => Unreleased(j)
  BY DEF ClaimInv, ReleasedLate
<1>6. \/ Phase(j)' = Phase(j)
      \/ Phase(j) = "absent" /\ Phase(j)' = "prepared" /\ HoldersOf(j) = {}
      \/ Phase(j) = "prepared" /\ Phase(j)' = "offered" /\ HoldersOf(j) = {}
      \/ Phase(j) # "withdrawn" /\ Phase(j)' = "withdrawn"
  BY <1>1, <1>4, <1>5 DEF HandlerEffect, Phase, NotYetCreated
<1>7. CASE Phase(j)' = Phase(j)
  BY <1>2, <1>3, <1>7 DEF Claims!ledger
<1>8. CASE Phase(j) = "absent" /\ Phase(j)' = "prepared" /\ HoldersOf(j) = {}
  <2>1. Claims!Prepare(j)
    BY <1>2, <1>3, <1>8 DEF Claims!Prepare, Claims!Move
  <2> QED
    BY <2>1 DEF Claims!Next
<1>9. CASE Phase(j) = "prepared" /\ Phase(j)' = "offered" /\ HoldersOf(j) = {}
  <2>1. Claims!Offer(j)
    BY <1>2, <1>3, <1>9 DEF Claims!Offer, Claims!Move
  <2> QED
    BY <2>1 DEF Claims!Next
<1>10. CASE Phase(j) # "withdrawn" /\ Phase(j)' = "withdrawn"
  <2>1. Claims!Withdraw(j)
    BY <1>2, <1>3, <1>10 DEF Claims!Withdraw
  <2> QED
    BY <2>1 DEF Claims!Next
<1> QED
  BY <1>6, <1>7, <1>8, <1>9, <1>10

(* Who holds a job that worker w lets go of or has just claimed.             *)
LEMMA HoldersAfter ==
  ASSUME TypeOK, ClaimInv, NEW w \in Workers, WorkerEffect(w), NEW k \in Jobs
  PROVE  /\ k # wjob[w] => HoldersOf(k)' = HoldersOf(k)
         /\ Working(w) /\ wjob[w] = k => HoldersOf(k) = {w}
         /\ ~Working(w)' => HoldersOf(k)' = HoldersOf(k) \ {w}
         /\ Working(w)' /\ wjob[w] = k => HoldersOf(k)' = HoldersOf(k) \cup {w}
         /\ jobs[k] = "queued" => HoldersOf(k) = {}
<1>1. ASSUME NEW v \in Workers \ {w}
      PROVE  (Working(v)' <=> Working(v)) /\ wjob'[v] = wjob[v]
  BY DEF WorkerEffect, Working
<1>2. Working(w)' => wjob'[w] = wjob[w]
  BY DEF WorkerEffect
<1>3. ~Working(w)' => HoldersOf(k)' = HoldersOf(k) \ {w}
  BY <1>1 DEF HoldersOf
<1>4. Working(w)' /\ wjob[w] = k => HoldersOf(k)' = HoldersOf(k) \cup {w}
  BY <1>1, <1>2 DEF HoldersOf
<1>5. k # wjob[w] => HoldersOf(k)' = HoldersOf(k)
  BY <1>1, <1>2 DEF HoldersOf
<1>6. Working(w) /\ wjob[w] = k => HoldersOf(k) = {w}
  BY DEF HoldersOf, ClaimInv, OneExtractor
<1>7. jobs[k] = "queued" => HoldersOf(k) = {}
  BY DEF HoldersOf, ClaimInv, ClaimedOrGone
<1> QED
  BY <1>2, <1>3, <1>4, <1>5, <1>6, <1>7

(* Every step of a worker is one of the claim ledger or none.                *)
LEMMA WorkerImplements ==
  ASSUME TypeOK, ClaimInv, NEW w \in Workers, WorkerAction(w)
  PROVE  Claims!Next \/ UNCHANGED Claims!ledger
<1>0. PICK j : j = wjob[w]
  OBVIOUS
<1>1. WorkerEffect(w)
  BY WorkerHasEffect DEF ClaimInv
<1>2. \A k \in Jobs : k # j => Phase(k)' = Phase(k) /\ HoldersOf(k)' = HoldersOf(k)
  BY <1>0, <1>1, HoldersAfter DEF WorkerEffect, Phase
<1>3. CASE jobs' = jobs
  <2>1. \A k \in Jobs : Phase(k)' = Phase(k)
    BY <1>0, <1>1, <1>3 DEF WorkerEffect, Phase
  <2>2. CASE j \in Jobs /\ HoldersOf(j) # {} /\ HoldersOf(j)' = {}
    <3>1. Claims!Abandon(j)
      BY <1>0, <1>2, <2>1, <2>2 DEF Claims!Abandon
    <3> QED
      BY <2>2, <3>1 DEF Claims!Next
  <2>3. CASE \A k \in Jobs : HoldersOf(k)' = HoldersOf(k)
    BY <2>1, <2>3 DEF Claims!ledger
  <2>4. j \in Jobs => HoldersOf(j)' = HoldersOf(j) \/ (HoldersOf(j) # {} /\ HoldersOf(j)' = {})
    <3>1. CASE Working(w)
      BY <1>0, <1>1, <3>1, HoldersAfter
    <3>2. CASE ~Working(w)
      <4>1. ~Working(w)' /\ w \notin HoldersOf(j)
        BY <1>0, <1>1, <1>3, <3>2 DEF WorkerEffect, HoldersOf
      <4> QED
        BY <1>0, <1>1, <4>1, HoldersAfter
    <3> QED
      BY <3>1, <3>2
  <2> QED
    BY <1>0, <1>2, <2>2, <2>3, <2>4
<1>4. CASE j \in Jobs /\ jobs[j] = "queued" /\ jobs'[j] = "extracting"
  <2>1. Phase(j) = "offered" /\ Phase(j)' = "claimed" /\ HoldersOf(j) = {}
    BY <1>0, <1>1, <1>4, HoldersAfter DEF Phase
  <2>2. HoldersOf(j)' \in {{}, {w}}
    BY <1>0, <1>1, <1>4, <2>1, HoldersAfter
  <2>3. Claims!Claim(j, HoldersOf(j)')
    BY <1>0, <1>2, <1>4, <2>1 DEF Claims!Claim, Claims!Move
  <2> QED
    BY <1>4, <2>2, <2>3 DEF Claims!Next
<1>5. CASE /\ j \in Jobs /\ jobs[j] = "extracting" /\ jobs'[j] \in Settled
           /\ Working(w) /\ ~Working(w)'
  <2>1. Phase(j) = "claimed" /\ Phase(j)' = "settled"
    BY <1>5 DEF Phase, Settled
  <2>2. HoldersOf(j) = {w} /\ HoldersOf(j)' = {}
    BY <1>0, <1>1, <1>5, HoldersAfter
  <2>3. Claims!Settle(j, w)
    BY <1>0, <1>2, <1>5, <2>1, <2>2 DEF Claims!Settle, Claims!Move
  <2> QED
    BY <1>5, <2>3 DEF Claims!Next
<1> QED
  BY <1>0, <1>1, <1>3, <1>4, <1>5 DEF WorkerEffect

(* Before the first request every job is absent from the ledger.             *)
LEMMA InitImplements == Init => Claims!Init
<1> SUFFICES ASSUME Init PROVE Claims!Init
  OBVIOUS
<1>1. \A j \in Jobs : Phase(j) = "absent" /\ HoldersOf(j) = {}
  BY DEF Init, StoreInit, UploadsInit, WorkerInit, Phase, HoldersOf, Working, NotYetCreated,
         WorkerCalls
<1> QED
  BY <1>1 DEF Claims!Init

(* A job is offered to the workers once, claimed once, by one worker, and    *)
(* settled by that worker only: handlers, workers, queue and rows together   *)
(* implement the ledger of claims.                                           *)
THEOREM ClaimRefinement == Spec => ImplementsClaimLedger
<1>1. TypeOK /\ ClaimInv /\ [Next]_vars => [Claims!Next]_Claims!ledger
  <2> SUFFICES ASSUME TypeOK, ClaimInv, [Next]_vars
               PROVE  Claims!Next \/ UNCHANGED Claims!ledger
    OBVIOUS
  <2>1. CASE UNCHANGED vars
    BY <2>1 DEF vars, store, uploadVars, workerVars, Claims!ledger, Phase, HoldersOf, Working
  <2>2. CASE Next
    BY <2>2, HandlerImplements, WorkerImplements DEF Next
  <2> QED
    BY <2>1, <2>2
<1> QED
  BY <1>1, InitImplements, PipelineTypes, PipelineClaims, PTL DEF Spec, ImplementsClaimLedger, Claims!Spec
=============================================================================
