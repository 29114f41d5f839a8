--------------------------- MODULE RevisionProofs ---------------------------
(* Theorems about the revisions a job gets from the workers: for any jobs    *)
(* and workers, any faults, any crashes and any disconnected clients.        *)
EXTENDS PipelineProofs, FiniteSetTheorems

(* The jobs of rows are jobs.                                                *)
LEMMA RowTypes ==
  ASSUME StoreTypeOK
  PROVE  /\ \A e \in extractions : JobOf(e) \in Jobs
         /\ \A c \in circuits : JobOf(c.id) \in Jobs /\ c.version \in Nat \ {0}
  BY DEF StoreTypeOK, Revisions, RevisionIds, JobOf

(* What a step of a handler does to the rows of revisions: nothing, or it    *)
(* deletes those of its job together with the job.                           *)
RowsKept(j) == /\ circuits' = circuits /\ extractions' = extractions
               /\ jobs'[j] = "none" => jobs[j] = "none"
RowsDeleted(j) == /\ circuits' = circuits \ CircuitsOf(j)
                  /\ extractions' = extractions \ ExtractionsOf(j)
                  /\ jobs'[j] = "none"

(* A handler keeps the revisions, or deletes those of its own job.           *)
LEMMA HandlerRows ==
  ASSUME TypeOK, NEW j \in Jobs, UploadAction(j)
  PROVE  RowsKept(j) \/ RowsDeleted(j)
<1> USE DEF TypeOK, StoreTypeOK, store, rows
<1>1. CASE UndoJob(j) \/ UndoUpload(j)
  <2>1. PICK o : DeleteJob(j, o)
    BY <1>1 DEF UndoJob, UndoUpload
  <2> QED
    BY <2>1 DEF DeleteJob, RowsKept, RowsDeleted
<1>2. CASE ToUploaded(j) \/ ToQueued(j)
  <2>1. \E o : \/ UpdateJobStatus(j, "created", "uploaded", o)
               \/ UpdateJobStatus(j, "uploaded", "queued", o)
    BY <1>2 DEF ToUploaded, ToQueued, Transition
  <2>2. circuits' = circuits /\ extractions' = extractions
    BY <1>2 DEF ToUploaded, ToQueued, Transition
  <2> QED
    BY <2>1, <2>2 DEF UpdateJobStatus, RowsKept
<1>3. CASE \/ Receive(j) \/ CreateUpload(j) \/ CreateJob(j) \/ PutSource(j) \/ MarkUploaded(j)
           \/ Enqueue(j) \/ UndoObject(j) \/ Disconnect(j) \/ CrashApi(j)
  BY <1>3 DEF Receive, CreateUpload, CreateJob, PutSource, MarkUploaded, Enqueue, UndoObject,
              Disconnect, CrashApi, RowsKept
<1> QED
  BY <1>1, <1>2, <1>3 DEF UploadAction, UploadNext, UploadCall

(* Every step of a handler keeps the rows in agreement with the jobs.        *)
LEMMA HandlerKeepsCircuits ==
  ASSUME TypeOK, ClaimInv, CircuitInv, NEW j \in Jobs, UploadAction(j)
  PROVE  CircuitInv'
<1>1. HandlerEffect(j) /\ (RowsKept(j) \/ RowsDeleted(j))
  BY HandlerHasEffect, HandlerRows
<1>2. UNCHANGED <<wpc, wjob, wstatus>>
  BY DEF UploadAction, workerVars
<1>3. \A k \in Jobs \ {j} : /\ jobs'[k] = jobs[k]
                            /\ CircuitsOf(k)' = CircuitsOf(k)
                            /\ ExtractionsOf(k)' = ExtractionsOf(k)
  BY <1>1 DEF HandlerEffect, RowsKept, RowsDeleted, CircuitsOf, ExtractionsOf
<1>4. /\ circuits' \subseteq circuits
      /\ CircuitsOf(j)' \subseteq CircuitsOf(j)
      /\ jobs'[j] # "none" => CircuitsOf(j)' = CircuitsOf(j)
      /\ jobs'[j] = "none" => CircuitsOf(j)' = {} /\ ExtractionsOf(j)' = {}
  BY <1>1 DEF RowsKept, RowsDeleted, CircuitsOf, ExtractionsOf, CircuitInv, RowsOwned
<1>5. RowsOwned'
  <2>1. \A c \in circuits' : c.extraction \in extractions' /\ JobOf(c.extraction) = JobOf(c.id)
    BY <1>1 DEF RowsKept, RowsDeleted, CircuitsOf, ExtractionsOf, CircuitInv, RowsOwned
  <2>2. \A k \in Jobs : jobs'[k] = "none" => ExtractionsOf(k)' = {} /\ CircuitsOf(k)' = {}
    BY <1>3, <1>4 DEF CircuitInv, RowsOwned
  <2> QED
    BY <1>4, <2>1, <2>2 DEF CircuitInv, RowsOwned
<1>6. ReportsRow'
  <2> SUFFICES ASSUME NEW v \in Workers, wpc[v] \in Persisting \cup {"complete"},
                      NEW k \in Jobs, k = wjob[v]
               PROVE  /\ wpc[v] \in Persisting => CircuitsOf(k)' = {}
                      /\ wpc[v] = "complete" =>
                           jobs'[k] = "none" \/ \E c \in CircuitsOf(k)' : c.status = wstatus[v]
    <3>1. \A v \in Workers : wpc[v] \in Persisting \cup {"complete"} => wjob[v] \in Jobs
      BY HeldPayload DEF ClaimInv, Persisting
    <3> QED
      BY <1>2, <3>1 DEF ReportsRow, CircuitsOf
  <2>1. /\ wpc[v] \in Persisting => CircuitsOf(k) = {}
        /\ wpc[v] = "complete" =>
             jobs[k] = "none" \/ \E c \in CircuitsOf(k) : c.status = wstatus[v]
    BY DEF CircuitInv, ReportsRow
  <2>2. CASE k # j
    BY <1>3, <2>1, <2>2
  <2>3. CASE k = j
    <3>1. jobs[j] = "none" => CircuitsOf(j) = {} /\ jobs'[j] = "none"
      <4>1. upc[j] # "createJob"
        BY <2>3 DEF ClaimInv, ReleasedLate, Unreleased, NotYetCreated
      <4> QED
        BY <1>1, <4>1 DEF HandlerEffect, CircuitInv, RowsOwned
    <3> QED
      BY <1>4, <2>1, <2>3, <3>1
  <2> QED
    BY <2>2, <2>3
<1>7. FirstUntilClosed' /\ StatusJustified'
  <2>1. jobs'[j] = jobs[j] \/ jobs'[j] \in {"created", "uploaded", "queued", "none"}
    BY <1>1 DEF HandlerEffect
  <2>2. jobs[j] \in {"ready", "failed"} =>
          jobs'[j] = jobs[j] \/ jobs'[j] = "none" \/ CircuitsOf(j) = {}
    <3>1. upc[j] = "createJob" => jobs[j] = "none"
      BY DEF ClaimInv, ReleasedLate, NotYetCreated
    <3> QED
      BY <1>1, <3>1 DEF HandlerEffect, CircuitInv, RowsOwned
  <2>3. FirstUntilClosed'
    <3> SUFFICES ASSUME NEW c \in circuits', jobs'[JobOf(c.id)] \notin {"ready", "failed"}
                 PROVE  c.version = 1
      BY DEF FirstUntilClosed
    <3>1. c \in circuits /\ JobOf(c.id) \in Jobs
      BY <1>4, RowTypes DEF TypeOK
    <3>2. c \in CircuitsOf(JobOf(c.id))'
      BY DEF CircuitsOf
    <3> QED
      BY <1>3, <1>4, <2>2, <3>1, <3>2 DEF CircuitInv, FirstUntilClosed
  <2>4. StatusJustified'
    BY <1>3, <1>4, <2>1 DEF CircuitInv, StatusJustified
  <2> QED
    BY <2>3, <2>4
<1> QED
  BY <1>5, <1>6, <1>7 DEF CircuitInv

-----------------------------------------------------------------------------
(* What a step of a worker does to the rows of revisions.                    *)
NewCircuit(w) == [id |-> Id(w), extraction |-> Id(w), version |-> 1, status |-> wstatus[w]]
SameRows == circuits' = circuits /\ extractions' = extractions
AddsExtraction(w) == /\ wpc[w] = "insertExtraction" /\ wjob[w] \in Jobs
                     /\ circuits' = circuits /\ extractions' = extractions \cup {Id(w)}
                     /\ jobs' = jobs /\ jobs[wjob[w]] # "none"
AddsCircuit(w) == /\ wpc[w] = "insertCircuit" /\ wjob[w] \in Jobs
                  /\ extractions' = extractions /\ circuits' = circuits \cup {NewCircuit(w)}
                  /\ jobs' = jobs /\ jobs[wjob[w]] # "none" /\ Id(w) \in extractions

(* A worker keeps the rows, or adds one extraction or one circuit.           *)
LEMMA WorkerRows ==
  ASSUME TypeOK, Locals, NEW w \in Workers, WorkerAction(w)
  PROVE  SameRows \/ AddsExtraction(w) \/ AddsCircuit(w)
<1> USE DEF store, rows, SameRows
<1>1. CASE InsertExtraction(w)
  <2>1. wjob[w] \in Jobs
    BY <1>1, HeldPayload DEF InsertExtraction
  <2> QED
    BY <1>1, <2>1 DEF InsertExtraction, JobRowExists, Applies, AddsExtraction
<1>2. CASE InsertCircuit(w)
  <2>1. wjob[w] \in Jobs
    BY <1>2, HeldPayload DEF InsertCircuit
  <2> QED
    BY <1>2, <2>1 DEF InsertCircuit, JobRowExists, Applies, AddsCircuit, NewCircuit
<1>3. CASE \/ StartWorker(w) \/ Dequeue(w) \/ ClaimQueued(w) \/ GetUpload(w) \/ GetObject(w)
           \/ Extract(w) \/ PersistCheck(w) \/ PutExtraction(w) \/ PutCircuit(w)
           \/ MarkCompleted(w) \/ MarkFailed(w) \/ CrashWorker(w)
  BY <1>3 DEF StartWorker, Dequeue, ClaimQueued, GetUpload, GetObject, Extract, PersistCheck,
              PutExtraction, PutCircuit, PutArtifact, MarkCompleted, MarkFailed, CrashWorker
<1> QED
  BY <1>1, <1>2, <1>3 DEF WorkerAction, WorkerNext, WorkerCall

(* A worker leaves the locals of the others alone.                           *)
LEMMA OthersKeepLocals ==
  ASSUME TypeOK, NEW w \in Workers, WorkerAction(w), NEW v \in Workers \ {w}
  PROVE  /\ wpc'[v] = wpc[v] /\ wjob'[v] = wjob[v]
         /\ wstatus'[v] = wstatus[v] /\ wno'[v] = wno[v]
<1> USE DEF TypeOK, WorkerTypeOK, local
<1>1. CASE StartWorker(w) \/ Dequeue(w)
  BY <1>1 DEF StartWorker, Dequeue
<1>2. CASE ClaimQueued(w)
  BY <1>2 DEF ClaimQueued, Proceed, Leave
<1>3. CASE \/ GetUpload(w) \/ GetObject(w) \/ PutExtraction(w) \/ PutCircuit(w)
           \/ InsertExtraction(w) \/ InsertCircuit(w)
  BY <1>3 DEF GetUpload, GetObject, PutExtraction, PutCircuit, PutArtifact, InsertExtraction,
              InsertCircuit, Proceed
<1>4. CASE Extract(w)
  BY <1>4 DEF Extract, Proceed
<1>5. CASE PersistCheck(w)
  BY <1>5 DEF PersistCheck
<1>6. CASE MarkCompleted(w) \/ MarkFailed(w) \/ CrashWorker(w)
  BY <1>6 DEF MarkCompleted, MarkFailed, CrashWorker, Leave
<1> QED
  BY <1>1, <1>2, <1>3, <1>4, <1>5, <1>6 DEF WorkerAction, WorkerNext, WorkerCall

(* A lookup that found no pair of a job that is still open found no circuit  *)
(* revision at all: its revisions are first versions, and have extractions.  *)
LEMMA NoPairNoCircuit ==
  ASSUME CircuitInv, NEW j \in Jobs, jobs[j] \notin {"ready", "failed"}, LatestPairs(j) = {}
  PROVE  CircuitsOf(j) = {}
<1> SUFFICES ASSUME NEW c \in CircuitsOf(j) PROVE c \in LatestPairs(j)
  OBVIOUS
<1>1. c \in circuits /\ c.extraction \in extractions
  BY DEF CircuitsOf, CircuitInv, RowsOwned
<1>2. \A d \in CircuitsOf(j) : d.version = 1
  BY DEF CircuitsOf, CircuitInv, FirstUntilClosed
<1> QED
  BY <1>1, <1>2 DEF LatestPairs

(* What a worker that goes on relies on, after each of its steps.            *)
LEMMA WorkerKeepsReports ==
  ASSUME TypeOK, ClaimInv, CircuitInv, NEW w \in Workers, WorkerAction(w)
  PROVE  \A k \in Jobs : k = wjob'[w] =>
           /\ wpc'[w] \in Persisting => CircuitsOf(k)' = {}
           /\ wpc'[w] = "complete" =>
                jobs'[k] = "none" \/ \E c \in CircuitsOf(k)' : c.status = wstatus'[w]
<1> SUFFICES ASSUME NEW k \in Jobs, k = wjob'[w], wpc'[w] \in Persisting \cup {"complete"}
             PROVE  /\ wpc'[w] \in Persisting => CircuitsOf(k)' = {}
                    /\ wpc'[w] = "complete" =>
                         jobs'[k] = "none" \/ \E c \in CircuitsOf(k)' : c.status = wstatus'[w]
  OBVIOUS
<1> USE DEF TypeOK, WorkerTypeOK
<1>1. CASE \/ StartWorker(w) \/ Dequeue(w) \/ ClaimQueued(w) \/ GetUpload(w) \/ GetObject(w)
           \/ Extract(w) \/ MarkCompleted(w) \/ MarkFailed(w) \/ CrashWorker(w)
  <2>1. ASSUME NEW ok, wpc[w] \in {"claim", "getUpload", "getObject", "extract"}, Proceed(w, ok)
        PROVE  wpc'[w] \notin Persisting \cup {"complete"}
    BY <2>1 DEF Proceed, After, Persisting
  <2>2. ASSUME NEW step \in {"down", "dequeue"}, Leave(w, step)
        PROVE  wpc'[w] \notin Persisting \cup {"complete"}
    BY <2>2 DEF Leave, Persisting
  <2>3. CASE StartWorker(w) \/ Dequeue(w)
    BY <2>3 DEF StartWorker, Dequeue, Persisting
  <2>4. CASE ClaimQueued(w)
    <3>1. wpc[w] = "claim" /\ (Leave(w, "down") \/ \E ok : Proceed(w, ok))
      BY <2>4 DEF ClaimQueued
    <3> QED
      BY <2>1, <2>2, <3>1
  <2>5. CASE GetUpload(w) \/ GetObject(w) \/ Extract(w)
    <3>1. wpc[w] \in {"getUpload", "getObject", "extract"} /\ \E ok : Proceed(w, ok)
      BY <2>5 DEF GetUpload, GetObject, Extract
    <3> QED
      BY <2>1, <3>1
  <2>6. CASE MarkCompleted(w) \/ MarkFailed(w) \/ CrashWorker(w)
    BY <2>2, <2>6 DEF MarkCompleted, MarkFailed, CrashWorker
  <2> QED
    BY <1>1, <2>3, <2>4, <2>5, <2>6
<1>2. CASE PersistCheck(w)
  <2>1. wpc[w] = "persistCheck" /\ wjob[w] = k /\ jobs' = jobs /\ circuits' = circuits
    BY <1>2 DEF PersistCheck, rows
  <2>2. CircuitsOf(k)' = CircuitsOf(k)
    BY <2>1 DEF CircuitsOf
  <2>3. CASE wpc'[w] = "complete"
    <3>1. \E c \in LatestPairs(k) : wstatus' = [wstatus EXCEPT ![w] = c.status]
      BY <1>2, <2>1, <2>3 DEF PersistCheck, KeptStatus
    <3> QED
      BY <2>2, <2>3, <3>1 DEF LatestPairs, Persisting
  <2>4. CASE wpc'[w] # "complete"
    <3>1. LatestPairs(k) = {}
      BY <1>2, <2>1, <2>4 DEF PersistCheck, Succeeds, Persisting
    <3>2. jobs[k] \notin {"ready", "failed"}
      BY <2>1 DEF ClaimInv, ClaimedOrGone, Working, WorkerCalls
    <3> QED
      BY <2>2, <2>4, <3>1, <3>2, NoPairNoCircuit
  <2> QED
    BY <2>3, <2>4
<1>3. CASE PutExtraction(w) \/ PutCircuit(w) \/ InsertExtraction(w)
  <2>0. /\ wpc[w] \in Persisting \ {"insertCircuit"} /\ wjob[w] = k /\ circuits' = circuits
        /\ \E ok : Proceed(w, ok)
    BY <1>3 DEF PutExtraction, PutCircuit, PutArtifact, InsertExtraction, rows, local, Persisting
  <2>1. wpc'[w] # "complete"
    BY <2>0 DEF Proceed, After, Persisting
  <2>2. CircuitsOf(k)' = CircuitsOf(k)
    BY <2>0 DEF CircuitsOf
  <2> QED
    BY <2>0, <2>1, <2>2 DEF CircuitInv, ReportsRow
<1>4. CASE InsertCircuit(w)
  <2>1. PICK ok : /\ wpc[w] = "insertCircuit" /\ wjob[w] = k /\ wstatus' = wstatus
                  /\ Proceed(w, ok)
                  /\ ok => circuits' = circuits \cup {NewCircuit(w)}
    BY <1>4 DEF InsertCircuit, local, Applies, Succeeds, NewCircuit
  <2>2. wpc'[w] = "complete" /\ ok
    BY <2>1 DEF Proceed, After, Persisting
  <2>3. NewCircuit(w) \in CircuitsOf(k)' /\ NewCircuit(w).status = wstatus'[w]
    BY <2>1, <2>2 DEF NewCircuit, CircuitsOf, JobOf, Id
  <2> QED
    BY <2>2, <2>3 DEF Persisting
<1> QED
  BY <1>1, <1>2, <1>3, <1>4 DEF WorkerAction, WorkerNext, WorkerCall

(* Every step of a worker keeps the rows in agreement with the jobs.         *)
LEMMA WorkerKeepsCircuits ==
  ASSUME TypeOK, ClaimInv, CircuitInv, NEW w \in Workers, WorkerAction(w)
  PROVE  CircuitInv'
<1>1. WorkerEffect(w) /\ (SameRows \/ AddsExtraction(w) \/ AddsCircuit(w))
  BY WorkerHasEffect, WorkerRows DEF ClaimInv
<1>2. /\ circuits \subseteq circuits' /\ extractions \subseteq extractions'
      /\ \A k \in Jobs : CircuitsOf(k) \subseteq CircuitsOf(k)'
      /\ circuits' # circuits => AddsCircuit(w)
  BY <1>1 DEF SameRows, AddsExtraction, AddsCircuit, CircuitsOf
<1>3. \A k \in Jobs : \/ jobs'[k] = jobs[k]
                      \/ k = wjob[w] /\ jobs[k] \notin {"none", "ready", "failed"}
                         /\ jobs'[k] # "none"
  BY <1>1 DEF WorkerEffect, Settled
<1>4. JobOf(Id(w)) = wjob[w] /\ NewCircuit(w).id = Id(w) /\ NewCircuit(w).extraction = Id(w)
      /\ NewCircuit(w).version = 1
  BY DEF JobOf, Id, NewCircuit
<1>5. AddsCircuit(w) => CircuitsOf(wjob[w]) = {}
  BY DEF AddsCircuit, CircuitInv, ReportsRow, Persisting
<1>6. RowsOwned'
  <2>1. \A c \in circuits' : c.extraction \in extractions' /\ JobOf(c.extraction) = JobOf(c.id)
    BY <1>1, <1>2, <1>4 DEF SameRows, AddsExtraction, AddsCircuit, CircuitInv, RowsOwned
  <2>2. \A c, d \in circuits' : JobOf(c.id) = JobOf(d.id) /\ c.version = d.version => c = d
    BY <1>1, <1>4, <1>5 DEF SameRows, AddsExtraction, AddsCircuit, CircuitInv, RowsOwned, CircuitsOf
  <2>3. ASSUME NEW k \in Jobs, jobs'[k] = "none"
        PROVE  ExtractionsOf(k)' = {} /\ CircuitsOf(k)' = {}
    <3>1. jobs[k] = "none" /\ ExtractionsOf(k) = {} /\ CircuitsOf(k) = {}
      BY <1>3, <2>3 DEF CircuitInv, RowsOwned
    <3> QED
      BY <1>1, <1>4, <3>1 DEF SameRows, AddsExtraction, AddsCircuit, ExtractionsOf, CircuitsOf
  <2> QED
    BY <2>1, <2>2, <2>3 DEF RowsOwned
<1>7. ReportsRow'
  <2> SUFFICES ASSUME NEW v \in Workers, wpc'[v] \in Persisting \cup {"complete"},
                      NEW k \in Jobs, k = wjob'[v]
               PROVE  /\ wpc'[v] \in Persisting => CircuitsOf(k)' = {}
                      /\ wpc'[v] = "complete" =>
                           jobs'[k] = "none" \/ \E c \in CircuitsOf(k)' : c.status = wstatus'[v]
    <3>1. TypeOK' /\ Locals'
      BY WorkerKeepsTypes, WorkerKeepsLocals DEF ClaimInv
    <3>2. \A v \in Workers : wpc'[v] \in Persisting \cup {"complete"} => wjob'[v] \in Jobs
      BY <3>1, WorkerAssumption DEF TypeOK, WorkerTypeOK, Locals, Persisting
    <3> QED
      BY <3>2 DEF ReportsRow, CircuitsOf
  <2>1. CASE v = w
    BY <2>1, WorkerKeepsReports
  <2>2. CASE v # w
    <3>1. wpc'[v] = wpc[v] /\ wjob[v] = k /\ wstatus'[v] = wstatus[v]
      BY <2>2, OthersKeepLocals
    <3>2. AddsCircuit(w) => wjob[w] # k
      BY <2>2, <3>1 DEF AddsCircuit, ClaimInv, OneExtractor, Working, WorkerCalls, Persisting
    <3>3. CircuitsOf(k)' = CircuitsOf(k)
      BY <1>2, <1>4, <3>2 DEF AddsCircuit, CircuitsOf
    <3> QED
      BY <1>3, <3>1, <3>3 DEF CircuitInv, ReportsRow
  <2> QED
    BY <2>1, <2>2
<1>8. FirstUntilClosed'
  <2> SUFFICES ASSUME NEW c \in circuits', jobs'[JobOf(c.id)] \notin {"ready", "failed"}
               PROVE  c.version = 1
    BY DEF FirstUntilClosed
  <2>1. CASE c \in circuits
    BY <1>3, <2>1, RowTypes DEF TypeOK, CircuitInv, FirstUntilClosed
  <2>2. CASE c \notin circuits
    BY <1>2, <1>4, <2>2 DEF AddsCircuit
  <2> QED
    BY <2>1, <2>2
<1>9. StatusJustified'
  <2> SUFFICES ASSUME NEW k \in Jobs, jobs'[k] \in {"needs_review", "ready"}
               PROVE  \E c \in CircuitsOf(k)' : c.status = jobs'[k]
    BY DEF StatusJustified, CircuitsOf
  <2>1. CASE jobs'[k] = jobs[k]
    BY <1>2, <2>1 DEF CircuitInv, StatusJustified
  <2>2. CASE jobs'[k] # jobs[k]
    <3>1. k = wjob[w] /\ jobs'[k] \in Settled
      BY <1>1, <2>2 DEF WorkerEffect, Settled
    <3>2. ASSUME NEW to, NEW from, NEW o, UpdateJobStatus(wjob[w], from, to, o)
          PROVE  jobs[k] = from /\ jobs'[k] = to
      BY <2>2, <3>1, <3>2, UpdateEffect DEF TypeOK
    <3>3. MarkCompleted(w)
      <4>1. ~ClaimQueued(w) /\ ~MarkFailed(w)
        <5>1. ClaimQueued(w) => \E o : UpdateJobStatus(wjob[w], "queued", "extracting", o)
          BY DEF ClaimQueued
        <5>2. MarkFailed(w) => \E o : UpdateJobStatus(wjob[w], "extracting", "failed", o)
          BY DEF MarkFailed
        <5> QED
          BY <3>2, <5>1, <5>2
      <4>2. CASE \/ StartWorker(w) \/ Dequeue(w) \/ GetUpload(w) \/ GetObject(w) \/ Extract(w)
                 \/ PersistCheck(w) \/ PutExtraction(w) \/ PutCircuit(w) \/ InsertExtraction(w)
                 \/ InsertCircuit(w) \/ CrashWorker(w)
        BY <2>2, <4>2 DEF StartWorker, Dequeue, GetUpload, GetObject, Extract, PersistCheck,
           PutExtraction, PutCircuit, PutArtifact, InsertExtraction, InsertCircuit, CrashWorker,
           store, rows
      <4> QED
        BY <4>1, <4>2 DEF WorkerAction, WorkerNext, WorkerCall
    <3>4. wpc[w] = "complete" /\ jobs[k] = "extracting"
          /\ jobs'[k] = StatusFromCircuit(wstatus[w])
      BY <3>2, <3>3 DEF MarkCompleted
    <3>5. StatusFromCircuit(wstatus[w]) = wstatus[w]
      BY <3>4 DEF StatusFromCircuit, TypeOK, WorkerTypeOK, ClaimInv, Locals, Settled
    <3> QED
      BY <1>2, <3>1, <3>4, <3>5 DEF CircuitInv, ReportsRow
  <2> QED
    BY <2>1, <2>2
<1> QED
  BY <1>6, <1>7, <1>8, <1>9 DEF CircuitInv

-----------------------------------------------------------------------------
(* Handlers and workers write first versions only.                           *)
LEMMA HandlerKeepsFirst ==
  ASSUME TypeOK, FirstVersions, NEW j \in Jobs, UploadAction(j)
  PROVE  FirstVersions'
  BY HandlerRows DEF FirstVersions, RowsKept, RowsDeleted

(* The revisions of workers are first versions.                              *)
LEMMA WorkerKeepsFirst ==
  ASSUME TypeOK, Locals, FirstVersions, NEW w \in Workers, WorkerAction(w)
  PROVE  FirstVersions'
<1>1. NewCircuit(w).version = 1
  BY DEF NewCircuit
<1> QED
  BY <1>1, WorkerRows DEF FirstVersions, SameRows, AddsExtraction, AddsCircuit

(* One attempt per job, as long as nobody retries.                           *)
LEMMA HandlerKeepsAttempts ==
  ASSUME TypeOK, ClaimInv, CircuitInv, AttemptInv, NEW j \in Jobs, UploadAction(j)
  PROVE  AttemptInv'
<1>1. HandlerEffect(j) /\ (RowsKept(j) \/ RowsDeleted(j))
  BY HandlerHasEffect, HandlerRows
<1>2. circuits' \subseteq circuits /\ extractions' \subseteq extractions
  BY <1>1 DEF RowsKept, RowsDeleted
<1>3. UNCHANGED <<wpc, wjob>>
  BY DEF UploadAction, workerVars
<1>4. upc[j] = "createJob" => jobs[j] = "none"
  BY DEF ClaimInv, ReleasedLate, NotYetCreated
<1>5. ASSUME NEW k \in Jobs, jobs'[k] \in {"created", "uploaded", "queued"}
      PROVE  ExtractionsOf(k) = {}
  BY <1>1, <1>4, <1>5 DEF HandlerEffect, AttemptInv, CircuitInv, RowsOwned
<1> QED
  BY <1>2, <1>3, <1>5 DEF AttemptInv, ExtractionsOf

(* A worker that has inserted nothing claimed the job and came straight      *)
(* here.                                                                     *)
LEMMA UnattemptedSteps ==
  ASSUME TypeOK, NEW w \in Workers, WorkerAction(w), wpc'[w] \in Unattempted
  PROVE  /\ wjob'[w] = wjob[w]
         /\ \/ wpc[w] \in Unattempted \ {"insertExtraction"}
            \/ wpc[w] = "claim" /\ jobs[wjob[w]] = "queued"
<1> USE DEF TypeOK, WorkerTypeOK, Unattempted, local
<1>1. ASSUME NEW ok, wpc[w] \in {"insertExtraction", "insertCircuit"}, Proceed(w, ok)
      PROVE  wpc'[w] \notin Unattempted
  BY <1>1 DEF Proceed, After
<1>2. ASSUME NEW step \in {"down", "dequeue"}, Leave(w, step)
      PROVE  wpc'[w] \notin Unattempted
  BY <1>2 DEF Leave
<1>3. CASE ClaimQueued(w)
  BY <1>2, <1>3 DEF ClaimQueued, Succeeds, StatusMatches
<1>4. CASE InsertExtraction(w) \/ InsertCircuit(w)
  <2>1. wpc[w] \in {"insertExtraction", "insertCircuit"} /\ \E ok : Proceed(w, ok)
    BY <1>4 DEF InsertExtraction, InsertCircuit
  <2> QED
    BY <1>1, <2>1
<1>5. CASE GetUpload(w) \/ GetObject(w) \/ Extract(w) \/ PutExtraction(w) \/ PutCircuit(w)
  BY <1>5 DEF GetUpload, GetObject, Extract, PutExtraction, PutCircuit, PutArtifact
<1>6. CASE PersistCheck(w)
  BY <1>6 DEF PersistCheck
<1>7. CASE MarkCompleted(w) \/ MarkFailed(w) \/ CrashWorker(w)
  BY <1>2, <1>7 DEF MarkCompleted, MarkFailed, CrashWorker
<1>8. CASE StartWorker(w) \/ Dequeue(w)
  BY <1>8 DEF StartWorker, Dequeue
<1> QED
  BY <1>3, <1>4, <1>5, <1>6, <1>7, <1>8 DEF WorkerAction, WorkerNext, WorkerCall

(* An attempt that inserted nothing found nothing of its job either.         *)
LEMMA WorkerKeepsAttempts ==
  ASSUME TypeOK, ClaimInv, AttemptInv, NEW w \in Workers, WorkerAction(w)
  PROVE  AttemptInv'
<1>1. WorkerEffect(w) /\ (SameRows \/ AddsExtraction(w) \/ AddsCircuit(w))
  BY WorkerHasEffect, WorkerRows DEF ClaimInv
<1>2. JobOf(Id(w)) = wjob[w]
  BY DEF JobOf, Id
<1>3. AddsExtraction(w) => ExtractionsOf(wjob[w]) = {} /\ jobs[wjob[w]] = "extracting"
  BY DEF AddsExtraction, AttemptInv, Unattempted, ClaimInv, ClaimedOrGone, Working, WorkerCalls
<1>4. \A e, f \in extractions' : JobOf(e) = JobOf(f) => e = f
  BY <1>1, <1>2, <1>3 DEF SameRows, AddsExtraction, AddsCircuit, AttemptInv, ExtractionsOf
<1>5. ASSUME NEW k \in Jobs, jobs'[k] \in {"created", "uploaded", "queued"}
      PROVE  ExtractionsOf(k)' = {}
  <2>1. jobs[k] = jobs'[k] /\ ExtractionsOf(k) = {}
    BY <1>1, <1>5 DEF WorkerEffect, Settled, AttemptInv
  <2> QED
    BY <1>1, <1>2, <1>3, <1>5, <2>1 DEF SameRows, AddsExtraction, AddsCircuit, ExtractionsOf
<1>6. ASSUME NEW v \in Workers, wpc'[v] \in Unattempted, NEW k, k = wjob'[v]
      PROVE  ExtractionsOf(k)' = {}
  <2>1. CASE v = w
    <3>1. /\ wjob[w] = k
          /\ \/ wpc[w] \in Unattempted \ {"insertExtraction"}
             \/ wpc[w] = "claim" /\ jobs[wjob[w]] = "queued"
      BY <1>6, <2>1, UnattemptedSteps
    <3>2. wjob[w] \in Jobs
      BY <3>1, HeldPayload DEF ClaimInv, Unattempted
    <3>3. ExtractionsOf(k) = {} /\ ~AddsExtraction(w)
      BY <3>1, <3>2 DEF AttemptInv, AddsExtraction, Unattempted
    <3> QED
      BY <1>1, <3>3 DEF SameRows, AddsCircuit, ExtractionsOf
  <2>2. CASE v # w
    <3>1. wpc[v] \in Unattempted /\ wjob[v] = k
      BY <1>6, <2>2, OthersKeepLocals
    <3>2. AddsExtraction(w) => wjob[w] # k
      BY <2>2, <3>1 DEF AddsExtraction, ClaimInv, OneExtractor, Working, WorkerCalls, Unattempted
    <3> QED
      BY <1>1, <1>2, <3>1, <3>2 DEF SameRows, AddsExtraction, AddsCircuit, AttemptInv, ExtractionsOf
  <2> QED
    BY <2>1, <2>2
<1> QED
  BY <1>4, <1>5, <1>6 DEF AttemptInv, ExtractionsOf

-----------------------------------------------------------------------------
(* Objects come before rows and are never deleted with them.                 *)
LEMMA HandlerKeepsArtifacts ==
  ASSUME TypeOK, CircuitInv, ArtifactInv, NEW j \in Jobs, UploadAction(j), CircuitInv'
  PROVE  ArtifactInv'
<1>1. artifacts' = artifacts
  BY DEF UploadAction, UploadNext, UploadCall, Receive, CreateUpload, CreateJob, PutSource,
     MarkUploaded, ToUploaded, ToQueued, Transition, Enqueue, UndoObject, UndoJob, UndoUpload,
     Disconnect, CrashApi, store, objects
<1>2. circuits' \subseteq circuits
  BY HandlerRows DEF RowsKept, RowsDeleted
<1>3. UNCHANGED <<wpc, wjob, wno>>
  BY DEF UploadAction, workerVars
<1>4. RowsBacked'
  BY <1>1, <1>2 DEF ArtifactInv, RowsBacked, CircuitInv, RowsOwned
<1> QED
  BY <1>1, <1>3, <1>4 DEF ArtifactInv, HasWritten, Id

(* The objects of a revision are written before its rows, and stay.          *)
LEMMA WritesBeforeRows ==
  ASSUME TypeOK, ArtifactInv, NEW w \in Workers, WorkerAction(w)
  PROVE  HasWritten(w)' /\ artifacts \subseteq artifacts'
<1> USE DEF TypeOK, WorkerTypeOK
<1>0. HasWritten(w)
  BY DEF ArtifactInv
<1>1. CASE PutExtraction(w)
  <2>1. PICK ok : /\ wpc[w] = "putExtraction" /\ Proceed(w, ok) /\ UNCHANGED <<wjob, wno>>
                  /\ artifacts \subseteq artifacts'
                  /\ ok => <<"extraction", Id(w)>> \in artifacts'
    BY <1>1 DEF PutExtraction, PutArtifact, local, Applies, Succeeds
  <2>2. wpc'[w] = IF ok THEN "putCircuit" ELSE "fail"
    BY <2>1 DEF Proceed, After
  <2> QED
    BY <2>1, <2>2 DEF HasWritten, Id
<1>2. CASE PutCircuit(w)
  <2>1. PICK ok : /\ wpc[w] = "putCircuit" /\ Proceed(w, ok) /\ UNCHANGED <<wjob, wno>>
                  /\ artifacts \subseteq artifacts'
                  /\ ok => <<"circuit", Id(w)>> \in artifacts'
    BY <1>2 DEF PutCircuit, PutArtifact, local, Applies, Succeeds
  <2>2. wpc'[w] = IF ok THEN "insertExtraction" ELSE "fail"
    BY <2>1 DEF Proceed, After
  <2> QED
    BY <1>0, <2>1, <2>2 DEF HasWritten, Id
<1>3. CASE InsertExtraction(w) \/ InsertCircuit(w)
  <2>1. PICK ok : /\ wpc[w] \in {"insertExtraction", "insertCircuit"} /\ Proceed(w, ok)
                  /\ UNCHANGED <<wjob, wno, artifacts>>
    BY <1>3 DEF InsertExtraction, InsertCircuit, local, objects
  <2>2. wpc'[w] \in {"insertCircuit", "complete", "fail"}
    BY <2>1 DEF Proceed, After
  <2> QED
    BY <1>0, <2>1, <2>2 DEF HasWritten, Id
<1>4. CASE \/ StartWorker(w) \/ Dequeue(w) \/ ClaimQueued(w) \/ GetUpload(w) \/ GetObject(w)
           \/ Extract(w) \/ PersistCheck(w) \/ MarkCompleted(w) \/ MarkFailed(w) \/ CrashWorker(w)
  <2>1. artifacts' = artifacts
    BY <1>4 DEF StartWorker, Dequeue, ClaimQueued, GetUpload, GetObject, Extract, PersistCheck,
                MarkCompleted, MarkFailed, CrashWorker, store, objects
  <2>2. ASSUME NEW ok, Proceed(w, ok), wpc[w] \in {"claim", "getUpload", "getObject", "extract"}
        PROVE  wpc'[w] \in {"getUpload", "getObject", "extract", "persistCheck", "fail"}
    BY <2>2 DEF Proceed, After
  <2>3. \/ wpc'[w] \in {"down", "dequeue", "claim", "putExtraction", "complete", "fail"}
        \/ wpc[w] \in {"claim", "getUpload", "getObject", "extract"} /\ \E ok : Proceed(w, ok)
    BY <1>4 DEF StartWorker, Dequeue, ClaimQueued, GetUpload, GetObject, Extract, PersistCheck,
                MarkCompleted, MarkFailed, CrashWorker, Leave
  <2> QED
    BY <2>1, <2>2, <2>3 DEF HasWritten
<1> QED
  BY <1>1, <1>2, <1>3, <1>4 DEF WorkerAction, WorkerNext, WorkerCall

(* Every row a worker adds has its object.                                   *)
LEMMA WorkerKeepsArtifacts ==
  ASSUME TypeOK, Locals, CircuitInv, ArtifactInv, NEW w \in Workers, WorkerAction(w), CircuitInv'
  PROVE  ArtifactInv'
<1>1. HasWritten(w)' /\ artifacts \subseteq artifacts'
  BY WritesBeforeRows
<1>2. ASSUME NEW v \in Workers \ {w} PROVE HasWritten(v)'
  BY <1>1, <1>2, OthersKeepLocals DEF ArtifactInv, HasWritten, Id
<1>3. RowsBacked'
  <2> SUFFICES ASSUME NEW c \in circuits'
               PROVE  {<<"extraction", c.extraction>>, <<"circuit", c.id>>} \subseteq artifacts
    BY <1>1 DEF RowsBacked, CircuitInv, RowsOwned
  <2>1. CASE c \in circuits
    BY <2>1 DEF ArtifactInv, RowsBacked
  <2>2. CASE c \notin circuits
    <3>1. wpc[w] = "insertCircuit" /\ c = NewCircuit(w)
      BY <2>2, WorkerRows DEF SameRows, AddsExtraction, AddsCircuit
    <3> QED
      BY <3>1 DEF NewCircuit, ArtifactInv, HasWritten
  <2> QED
    BY <2>1, <2>2
<1> QED
  BY <1>1, <1>2, <1>3 DEF ArtifactInv

-----------------------------------------------------------------------------
(* A handler whose image was cut off goes the way of its compensation.       *)
LEMMA HandlerKeepsSources ==
  ASSUME TypeOK, ClaimInv, SourceInv, NEW j \in Jobs, UploadAction(j)
  PROVE  SourceInv'
<1> DEFINE Cut == {"undoJob", "undoUpload", "failed", "crashed"}
<1> USE DEF TypeOK, UploadsTypeOK, StoreTypeOK
<1>1. HandlerEffect(j)
  BY HandlerHasEffect
<1>2. UNCHANGED wjob
  BY DEF UploadAction, workerVars
<1>3. /\ upc'[j] = "put" => jobs'[j] = "created"
      /\ sources'[j] = "partial" =>
           /\ upc'[j] \in Cut
           /\ sources[j] = "partial" \/ upc[j] = "put"
      /\ \A k \in Jobs \ {j} : sources'[k] = sources[k]
  <2>1. CASE CreateJob(j)
    <3>1. PICK o : LET parent == uploads[j] # "none"
                   IN /\ jobs' = IF Applies(o, parent) THEN [jobs EXCEPT ![j] = "created"] ELSE jobs
                      /\ Return(j, Succeeds(o, parent))
      BY <2>1 DEF CreateJob
    <3>2. upc[j] = "createJob" /\ sources' = sources
      BY <2>1 DEF CreateJob, objects
    <3>3. upc'[j] = IF Succeeds(o, uploads[j] # "none") THEN "put" ELSE "undoUpload"
      BY <3>1, <3>2 DEF Return, Then, Otherwise
    <3> QED
      BY <3>1, <3>2, <3>3 DEF SourceInv, Succeeds, Applies
  <2>2. CASE PutSource(j)
    <3>1. PICK o : /\ sources' = IF o = "error" THEN sources
                                 ELSE [sources EXCEPT ![j] = IF o = "ok" THEN "whole" ELSE "partial"]
                   /\ Return(j, o = "ok")
      BY <2>2 DEF PutSource
    <3>2. upc[j] = "put"
      BY <2>2 DEF PutSource
    <3>3. upc'[j] = IF o = "ok" THEN "markUploaded" ELSE "undoJob"
      BY <3>1, <3>2 DEF Return, Then, Otherwise
    <3> QED
      BY <3>1, <3>2, <3>3
  <2>3. CASE UndoObject(j)
    BY <2>3 DEF UndoObject, SourceInv
  <2>4. CASE UndoJob(j) \/ UndoUpload(j) \/ CrashApi(j) \/ Disconnect(j)
    BY <2>4 DEF UndoJob, UndoUpload, CrashApi, Disconnect, store, objects, SourceInv
  <2>5. CASE Receive(j)
    BY <2>5 DEF Receive, store, objects, SourceInv
  <2>6. CASE \/ CreateUpload(j) \/ MarkUploaded(j) \/ ToUploaded(j) \/ ToQueued(j) \/ Enqueue(j)
    <3>1. /\ upc[j] \in {"createUpload", "markUploaded", "toUploaded", "toQueued", "enqueue"}
          /\ sources' = sources
          /\ \E ok : Return(j, ok)
      BY <2>6 DEF CreateUpload, MarkUploaded, ToUploaded, ToQueued, Transition, Enqueue, objects
    <3> QED
      BY <3>1, ReturnSteps DEF SourceInv
  <2> QED
    BY <2>1, <2>2, <2>3, <2>4, <2>5, <2>6 DEF UploadAction, UploadNext, UploadCall
<1>4. \A k \in Jobs : upc'[k] = "put" => jobs'[k] = "created"
  BY <1>1, <1>3 DEF HandlerEffect, SourceInv
<1>5. ASSUME NEW k \in Jobs, sources'[k] = "partial" PROVE upc'[k] \in Cut /\ Unreleased(k)'
  <2>1. upc'[k] \in Cut
    BY <1>1, <1>3, <1>5 DEF HandlerEffect, SourceInv
  <2>2. Unreleased(k) /\ (k = j => upc[j] # "enqueue")
    BY <1>3, <1>5 DEF SourceInv, ClaimInv, ReleasedLate
  <2>3. k \notin Queued'
    BY <1>1, <2>2 DEF HandlerEffect, Unreleased
  <2> QED
    BY <1>2, <2>1, <2>2, <2>3 DEF Unreleased
<1> QED
  BY <1>4, <1>5 DEF SourceInv

(* No worker takes the image of a job away.                                  *)
LEMMA WorkerKeepsSources ==
  ASSUME TypeOK, ClaimInv, SourceInv, NEW w \in Workers, WorkerAction(w)
  PROVE  SourceInv'
<1>1. WorkerEffect(w)
  BY WorkerHasEffect DEF ClaimInv
<1>2. sources' = sources
  BY DEF WorkerAction, WorkerNext, WorkerCall, StartWorker, Dequeue, ClaimQueued, GetUpload,
     GetObject, Extract, PersistCheck, PutExtraction, PutCircuit, PutArtifact, InsertExtraction,
     InsertCircuit, MarkCompleted, MarkFailed, CrashWorker, store, objects
<1>3. \A k \in Jobs : upc[k] = "put" => jobs'[k] = "created"
  BY <1>1 DEF WorkerEffect, SourceInv
<1>4. ASSUME NEW k \in Jobs, Unreleased(k) PROVE Unreleased(k)'
  <2>1. k # NoJob
    BY WorkerAssumption
  <2> QED
    BY <1>1, <1>4, <2>1 DEF WorkerEffect, Unreleased
<1> QED
  BY <1>1, <1>2, <1>3, <1>4 DEF SourceInv, WorkerEffect

-----------------------------------------------------------------------------
(* All parts are inductive together with the types and the claims.           *)
LEMMA InitRevisions == Init => RevisionInv
<1> SUFFICES ASSUME Init PROVE RevisionInv
  OBVIOUS
<1> USE DEF Init, StoreInit, UploadsInit, WorkerInit, RevisionInv
<1>1. CircuitInv /\ FirstVersions
  BY DEF CircuitInv, RowsOwned, ReportsRow, FirstUntilClosed, StatusJustified, FirstVersions,
         Persisting, CircuitsOf, ExtractionsOf
<1>2. AttemptInv /\ ArtifactInv /\ SourceInv
  BY DEF AttemptInv, Unattempted, ExtractionsOf, ArtifactInv, HasWritten, RowsBacked, SourceInv
<1> QED
  BY <1>1, <1>2

(* Every step of a handler or a worker keeps the revisions.                  *)
LEMMA NextKeepsRevisions ==
  TypeOK /\ ClaimInv /\ RevisionInv /\ [Next]_vars => RevisionInv'
<1> SUFFICES ASSUME TypeOK, ClaimInv, RevisionInv, [Next]_vars PROVE RevisionInv'
  OBVIOUS
<1> USE DEF RevisionInv
<1>1. ASSUME NEW j \in Jobs, UploadAction(j) PROVE RevisionInv'
  BY <1>1, HandlerKeepsCircuits, HandlerKeepsFirst, HandlerKeepsAttempts, HandlerKeepsArtifacts,
     HandlerKeepsSources
<1>2. ASSUME NEW w \in Workers, WorkerAction(w) PROVE RevisionInv'
  BY <1>2, WorkerKeepsCircuits, WorkerKeepsFirst, WorkerKeepsAttempts, WorkerKeepsArtifacts,
     WorkerKeepsSources
  DEF ClaimInv
<1>3. CASE UNCHANGED vars
  <2> USE <1>3 DEF vars, store, uploadVars, workerVars
  <2>1. CircuitInv' /\ FirstVersions'
    BY DEF CircuitInv, RowsOwned, ReportsRow, FirstUntilClosed, StatusJustified, FirstVersions,
           CircuitsOf, ExtractionsOf
  <2>2. AttemptInv' /\ ArtifactInv' /\ SourceInv'
    BY DEF AttemptInv, ExtractionsOf, ArtifactInv, HasWritten, Id, RowsBacked, SourceInv,
           Unreleased, Queued
  <2> QED
    BY <2>1, <2>2
<1> QED
  BY <1>1, <1>2, <1>3 DEF Next

(* The rows of every job agree with its status and its objects, in every     *)
(* reachable state.                                                          *)
THEOREM PipelineRevisions == Spec => []RevisionInv
<1>1. Init => TypeOK /\ ClaimInv /\ RevisionInv
  BY InitClaims, InitRevisions
<1>2. TypeOK /\ ClaimInv /\ RevisionInv /\ [Next]_vars => (TypeOK /\ ClaimInv /\ RevisionInv)'
  BY NextKeepsClaims, NextKeepsRevisions
<1> QED
  BY <1>1, <1>2, PTL DEF Spec

(* A set any two members of which are equal has one member at most.          *)
LEMMA AtMostOneMember ==
  ASSUME NEW S, \A x, y \in S : x = y
  PROVE  Cardinality(S) <= 1
<1>1. CASE S = {}
  BY <1>1, FS_EmptySet
<1>2. CASE S # {}
  <2>1. PICK x : S = {x}
    BY <1>2
  <2> QED
    BY <2>1, FS_Singleton
<1> QED
  BY <1>1, <1>2

(* However often a payload is duplicated, a worker dies or a call fails, a   *)
(* job gets one extraction row and one circuit row: worker.go claims before  *)
(* it persists, and a claimed job is never queued again.                     *)
THEOREM SingleAttempt == Spec => []AtMostOneAttempt
<1>1. RevisionInv => AtMostOneAttempt
  <2> SUFFICES ASSUME RevisionInv, NEW j \in Jobs
               PROVE  Cardinality(ExtractionsOf(j)) <= 1 /\ Cardinality(CircuitsOf(j)) <= 1
    BY DEF AtMostOneAttempt
  <2>1. \A e, f \in ExtractionsOf(j) : e = f
    BY DEF ExtractionsOf, RevisionInv, AttemptInv
  <2>2. \A c, d \in CircuitsOf(j) : c = d
    BY DEF CircuitsOf, RevisionInv, CircuitInv, RowsOwned, FirstVersions
  <2> QED
    BY <2>1, <2>2, AtMostOneMember
<1> QED
  BY <1>1, PipelineRevisions, PTL

(* A circuit row never stands without its extraction row and without the two *)
(* JSON objects the review detail loads: Persist puts the objects first.     *)
THEOREM BackedRows == Spec => []RowsBacked
<1>1. RevisionInv => RowsBacked
  BY DEF RevisionInv, ArtifactInv
<1> QED
  BY <1>1, PipelineRevisions, PTL

(* Polling never shows needs_review or ready before a revision with that     *)
(* status is stored.                                                         *)
THEOREM JustifiedStatus == Spec => []StatusJustified
<1>1. RevisionInv => StatusJustified
  BY DEF RevisionInv, CircuitInv
<1> QED
  BY <1>1, PipelineRevisions, PTL

(* A payload in somebody's hands is that of a whole image.                   *)
LEMMA SourcesAreWhole ==
  ASSUME TypeOK, ClaimInv, SourceInv
  PROVE  ReadsWholeImage
<1> SUFFICES ASSUME NEW w \in Workers, wpc[w] = "getObject"
             PROVE  sources[wjob[w]] # "partial"
  BY DEF ReadsWholeImage
<1>1. wjob[w] \in Jobs
  BY HeldPayload DEF ClaimInv
<1> QED
  BY <1>1 DEF SourceInv, Unreleased

(* The payload of an image that was cut off is never pushed, so no worker    *)
(* reads half an image.                                                      *)
THEOREM WholeImages == Spec => []ReadsWholeImage
<1>1. RevisionInv => SourceInv
  BY DEF RevisionInv
<1> QED
  BY <1>1, SourcesAreWhole, PipelineTypes, PipelineClaims, PipelineRevisions, PTL
=============================================================================
