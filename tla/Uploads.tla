------------------------------ MODULE Uploads ------------------------------
(* The upload request handler, uploads.Service.Upload: seven calls in a row  *)
(* on three stores, with the compensation the handler runs when one of them  *)
(* fails.  Requests run concurrently; each step below is one call.           *)
EXTENDS Store

CONSTANT CanDisconnect  \* requests whose client may go away before the answer

ASSUME UploadsAssumption == CanDisconnect \subseteq Jobs

VARIABLES upc,          \* the call request j makes next, or how it ended
          disconnected  \* requests whose context is cancelled

uploadVars == <<upc, disconnected>>

UploadEnds == {"done", "failed", "rejected", "crashed"}
UploadSteps == {"idle"} \cup UploadCalls \cup UploadEnds
Undoing == {"undoObject", "undoJob", "undoUpload"}

UploadsTypeOK == /\ upc \in [Jobs -> UploadSteps]
                 /\ disconnected \subseteq Jobs

UploadsInit == /\ upc = [j \in Jobs |-> "idle"]
               /\ disconnected = {}

(* What Upload checks before it writes anything.                             *)
Requests == [project : {"known", "unknown", "blank"},
             file : {"png", "jpeg", "webp", "other", "missing"}]
Admitted(r) == r.project = "known" /\ r.file \in {"png", "jpeg", "webp"}

(* The call that follows a successful one, and where a failed one leads.     *)
Then_EnqueueFirst ==
  [createUpload |-> "createJob", createJob |-> "put", put |-> "markUploaded",
   markUploaded |-> "toUploaded", toUploaded |-> "enqueue", enqueue |-> "toQueued",
   toQueued |-> "done"]
Then ==
  [createUpload |-> "createJob", createJob |-> "put", put |-> "markUploaded",
   markUploaded |-> "toUploaded", toUploaded |-> "toQueued", toQueued |-> "enqueue",
   enqueue |-> "done"]

Otherwise_IgnorePut ==
  [createUpload |-> "failed", createJob |-> "undoUpload", put |-> "markUploaded",
   markUploaded |-> "undoObject", toUploaded |-> "undoObject", toQueued |-> "undoObject",
   enqueue |-> "undoObject"]
Otherwise ==
  [createUpload |-> "failed", createJob |-> "undoUpload", put |-> "undoJob",
   markUploaded |-> "undoObject", toUploaded |-> "undoObject", toQueued |-> "undoObject",
   enqueue |-> "undoObject"]

Return(j, ok) ==
  upc' = [upc EXCEPT ![j] = IF ok THEN Then[upc[j]] ELSE Otherwise[upc[j]]]

(* Every call is made with the context of the request.  Once that context is *)
(* cancelled, Postgres and Redis calls fail before they are sent.  The file  *)
(* system storage ignores its context.                                       *)
RequestOutcomes(j) == IF j \in disconnected THEN {"error"} ELSE Outcomes(upc[j])

-----------------------------------------------------------------------------
Receive(j) ==
  /\ upc[j] = "idle"
  /\ \E r \in Requests :
       upc' = [upc EXCEPT ![j] = IF Admitted(r) THEN "createUpload" ELSE "rejected"]
  /\ UNCHANGED <<store, disconnected>>

CreateUpload(j) ==
  /\ upc[j] = "createUpload"
  /\ \E o \in RequestOutcomes(j) :
       /\ uploads' = IF Applies(o, TRUE) THEN [uploads EXCEPT ![j] = "created"] ELSE uploads
       /\ Return(j, Succeeds(o, TRUE))
  /\ UNCHANGED <<jobs, extractions, circuits, decisions, objects, queue, drawn, disconnected>>

CreateJob(j) ==
  /\ upc[j] = "createJob"
  /\ LET parent == uploads[j] # "none"
     IN \E o \in RequestOutcomes(j) :
          /\ jobs' = IF Applies(o, parent) THEN [jobs EXCEPT ![j] = "created"] ELSE jobs
          /\ Return(j, Succeeds(o, parent))
  /\ UNCHANGED <<uploads, extractions, circuits, decisions, objects, queue, drawn, disconnected>>

(* A write that fails half way leaves the part it wrote.                     *)
PutSource(j) ==
  /\ upc[j] = "put"
  /\ \E o \in Outcomes("put") :
       /\ sources' = IF o = "error" THEN sources
                     ELSE [sources EXCEPT ![j] = IF o = "ok" THEN "whole" ELSE "partial"]
       /\ Return(j, o = "ok")
  /\ UNCHANGED <<rows, artifacts, queue, drawn, disconnected>>

MarkUploaded(j) ==
  /\ upc[j] = "markUploaded"
  /\ LET row == uploads[j] # "none"
     IN \E o \in RequestOutcomes(j) :
          /\ uploads' = IF Applies(o, row) THEN [uploads EXCEPT ![j] = "uploaded"] ELSE uploads
          /\ Return(j, Succeeds(o, row))
  /\ UNCHANGED <<jobs, extractions, circuits, decisions, objects, queue, drawn, disconnected>>

Transition(j, from, to) ==
  /\ \E o \in RequestOutcomes(j) :
       /\ UpdateJobStatus(j, from, to, o)
       /\ Return(j, Succeeds(o, StatusMatches(j, from)))
  /\ UNCHANGED <<uploads, extractions, circuits, decisions, objects, queue, drawn, disconnected>>

ToUploaded(j) == upc[j] = "toUploaded" /\ Transition(j, "created", "uploaded")
ToQueued(j) == upc[j] = "toQueued" /\ Transition(j, "uploaded", "queued")

Enqueue(j) ==
  /\ upc[j] = "enqueue"
  /\ \E o \in RequestOutcomes(j) :
       /\ queue' = IF o = "error" THEN queue
                   ELSE IF o = "duplicate" THEN Append(Append(queue, j), j)
                   ELSE Append(queue, j)
       /\ Return(j, Succeeds(o, TRUE))
  /\ UNCHANGED <<rows, objects, drawn, disconnected>>

-----------------------------------------------------------------------------
(* The compensation: each call's error is discarded and the next one made.   *)
UndoObject(j) ==
  /\ upc[j] = "undoObject"
  /\ \E o \in Outcomes("undoObject") :
       sources' = IF o # "error" THEN [sources EXCEPT ![j] = "absent"] ELSE sources
  /\ upc' = [upc EXCEPT ![j] = "undoJob"]
  /\ UNCHANGED <<rows, artifacts, queue, drawn, disconnected>>

UndoJob(j) ==
  /\ upc[j] = "undoJob"
  /\ \E o \in RequestOutcomes(j) : DeleteJob(j, o)
  /\ upc' = [upc EXCEPT ![j] = "undoUpload"]
  /\ UNCHANGED <<uploads, objects, queue, drawn, disconnected>>

(* Deleting the uploads row cascades to the job and to its revisions.        *)
UndoUpload(j) ==
  /\ upc[j] = "undoUpload"
  /\ \E o \in RequestOutcomes(j) :
       /\ uploads' = IF o # "error" THEN [uploads EXCEPT ![j] = "none"] ELSE uploads
       /\ DeleteJob(j, o)
  /\ upc' = [upc EXCEPT ![j] = "failed"]
  /\ UNCHANGED <<objects, queue, drawn, disconnected>>

-----------------------------------------------------------------------------
InProgress(j) == upc[j] \in UploadCalls

UploadCall(j) ==
  \/ Receive(j) \/ CreateUpload(j) \/ CreateJob(j) \/ PutSource(j) \/ MarkUploaded(j)
  \/ ToUploaded(j) \/ ToQueued(j) \/ Enqueue(j)
  \/ UndoObject(j) \/ UndoJob(j) \/ UndoUpload(j)

(* The HTTP server cancels the context of a request whose client went away.  *)
Disconnect(j) ==
  /\ j \in CanDisconnect \ disconnected
  /\ InProgress(j)
  /\ disconnected' = disconnected \cup {j}
  /\ UNCHANGED <<store, upc>>

(* The API process dies between two calls of the request.                    *)
CrashApi(j) ==
  /\ "api" \in CanCrash
  /\ InProgress(j)
  /\ upc' = [upc EXCEPT ![j] = "crashed"]
  /\ UNCHANGED <<store, disconnected>>

UploadNext(j) == UploadCall(j) \/ Disconnect(j) \/ CrashApi(j)
=============================================================================
