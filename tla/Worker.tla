------------------------------- MODULE Worker -------------------------------
(* The worker process: ProcessUntilEmpty takes payloads off the queue one    *)
(* after the other and, for each, claims the job, reads the image, asks the  *)
(* provider for a result, persists it (circuit.Service.Persist) and settles  *)
(* the job.  It ends when the queue is empty and at the first error, and     *)
(* whoever schedules it starts it again.  Each step below is one call.       *)
EXTENDS Store

CONSTANTS Workers,   \* worker processes that may run at the same time
          NoJob      \* what a worker that holds no payload holds

ASSUME WorkerAssumption == NoJob \notin Jobs

VARIABLES wpc,      \* the call worker w makes next, "down" when it does not run
          wjob,     \* the payload it holds
          wstatus,  \* the status of the circuit revision it persists or found
          wno       \* the number of the revision identifiers it drew

workerVars == <<wpc, wjob, wstatus, wno>>

WorkerSteps == {"down"} \cup WorkerCalls
WorkerTypeOK == /\ wpc \in [Workers -> WorkerSteps]
                /\ wjob \in [Workers -> Jobs \cup {NoJob}]
                /\ wstatus \in [Workers -> {"none"} \cup Settled]
                /\ wno \in [Workers -> Nat]

WorkerInit == /\ wpc = [w \in Workers |-> "down"]
              /\ wjob = [w \in Workers |-> NoJob]
              /\ wstatus = [w \in Workers |-> "none"]
              /\ wno = [w \in Workers |-> 0]

(* A provider result, as far as the review policy looks at it: confidence at *)
(* the threshold or above, and a warning that blocks.                        *)
Results == [confident : BOOLEAN, blocked : BOOLEAN]
DecideStatus_Validated(r) == IF ~r.confident \/ r.blocked THEN "needs_review" ELSE "validated"
DecideStatus(r) == IF ~r.confident \/ r.blocked THEN "needs_review" ELSE "ready"

(* The call that follows a successful one while a job is being processed.    *)
After_OmitPut ==
  [claim |-> "getUpload", getUpload |-> "getObject", getObject |-> "extract",
   extract |-> "persistCheck", putExtraction |-> "insertExtraction",
   insertExtraction |-> "insertCircuit", insertCircuit |-> "complete"]
After_CompleteEarly ==
  [claim |-> "getUpload", getUpload |-> "getObject", getObject |-> "extract",
   extract |-> "persistCheck", putExtraction |-> "putCircuit",
   putCircuit |-> "insertExtraction", insertExtraction |-> "complete"]
After ==
  [claim |-> "getUpload", getUpload |-> "getObject", getObject |-> "extract",
   extract |-> "persistCheck", putExtraction |-> "putCircuit",
   putCircuit |-> "insertExtraction", insertExtraction |-> "insertCircuit",
   insertCircuit |-> "complete"]

(* A failure after the claim leads to MarkFailed.                            *)
Proceed_NoMarkFailed(w, ok) ==
  wpc' = [wpc EXCEPT ![w] = IF ok THEN After[wpc[w]] ELSE "down"]
Proceed(w, ok) ==
  wpc' = [wpc EXCEPT ![w] = IF ok THEN After[wpc[w]] ELSE "fail"]

(* ProcessNext returned: take the next payload after a success, end the      *)
(* process after an error.                                                   *)
Leave(w, step) ==
  /\ wpc' = [wpc EXCEPT ![w] = step]
  /\ wjob' = [wjob EXCEPT ![w] = NoJob]
  /\ wstatus' = [wstatus EXCEPT ![w] = "none"]
  /\ wno' = [wno EXCEPT ![w] = 0]

local == <<wjob, wstatus, wno>>
Id(w) == <<wjob[w], wno[w]>>

-----------------------------------------------------------------------------
StartWorker(w) ==
  /\ wpc[w] = "down"
  /\ wpc' = [wpc EXCEPT ![w] = "dequeue"]
  /\ UNCHANGED <<store, local>>

(* LPOP takes the payload off the list for good, before anything was done.   *)
Dequeue(w) ==
  /\ wpc[w] = "dequeue"
  /\ \E o \in Outcomes("dequeue") :
       IF Applies(o, queue # <<>>) THEN
         /\ queue' = Tail(queue)
         /\ IF Succeeds(o, TRUE)
              THEN /\ wpc' = [wpc EXCEPT ![w] = "claim"]
                   /\ wjob' = [wjob EXCEPT ![w] = Head(queue)]
              ELSE wpc' = [wpc EXCEPT ![w] = "down"] /\ UNCHANGED wjob
       ELSE wpc' = [wpc EXCEPT ![w] = "down"] /\ UNCHANGED <<queue, wjob>>
  /\ UNCHANGED <<rows, objects, drawn, wstatus, wno>>

ClaimQueued(w) ==
  /\ wpc[w] = "claim"
  /\ \E o \in Outcomes("claim") :
       /\ UpdateJobStatus(wjob[w], "queued", "extracting", o)
       /\ IF Succeeds(o, StatusMatches(wjob[w], "queued"))
            THEN Proceed(w, TRUE) /\ UNCHANGED local
            ELSE Leave(w, "down")
  /\ UNCHANGED <<uploads, extractions, circuits, decisions, objects, queue, drawn>>

GetUpload(w) ==
  /\ wpc[w] = "getUpload"
  /\ \E o \in Outcomes("getUpload") : Proceed(w, Succeeds(o, uploads[wjob[w]] # "none"))
  /\ UNCHANGED <<store, local>>

(* Get opens the object and ReadAll reads it.                                *)
GetObject(w) ==
  /\ wpc[w] = "getObject"
  /\ \E o \in Outcomes("getObject") : Proceed(w, Succeeds(o, sources[wjob[w]] # "absent"))
  /\ UNCHANGED <<store, local>>

(* The status is a function of the result alone, so it is decided here.      *)
Extract(w) ==
  /\ wpc[w] = "extract"
  /\ \E o \in Outcomes("extract"), r \in Results :
       /\ Proceed(w, Succeeds(o, TRUE))
       /\ wstatus' = IF Succeeds(o, TRUE) THEN [wstatus EXCEPT ![w] = DecideStatus(r)] ELSE wstatus
  /\ UNCHANGED <<store, wjob, wno>>

(* The status a worker goes on with when the job already has a revision c.   *)
KeptStatus_OwnResult(w, c) == wstatus[w]
KeptStatus(w, c) == c.status

(* Persist: a job that already has revisions keeps them, and the worker goes *)
(* on with their status.  Otherwise new identifiers are drawn.               *)
PersistCheck(w) ==
  /\ wpc[w] = "persistCheck"
  /\ \E o \in Outcomes("persistCheck") :
       \/ /\ ~Succeeds(o, TRUE)
          /\ wpc' = [wpc EXCEPT ![w] = "fail"]
          /\ UNCHANGED <<wstatus, wno, drawn>>
       \/ /\ Succeeds(o, TRUE)
          /\ \E c \in LatestPairs(wjob[w]) : wstatus' = [wstatus EXCEPT ![w] = KeptStatus(w, c)]
          /\ wpc' = [wpc EXCEPT ![w] = "complete"]
          /\ UNCHANGED <<wno, drawn>>
       \/ /\ Succeeds(o, LatestPairs(wjob[w]) = {})
          /\ drawn' = [drawn EXCEPT ![wjob[w]] = @ + 1]
          /\ wno' = [wno EXCEPT ![w] = drawn[wjob[w]] + 1]
          /\ wpc' = [wpc EXCEPT ![w] = "putExtraction"]
          /\ UNCHANGED wstatus
  /\ UNCHANGED <<rows, objects, queue, wjob>>

PutArtifact(w, step, kind) ==
  /\ wpc[w] = step
  /\ \E o \in Outcomes(step) :
       /\ artifacts' = IF Applies(o, TRUE) THEN artifacts \cup {<<kind, Id(w)>>} ELSE artifacts
       /\ Proceed(w, Succeeds(o, TRUE))
  /\ UNCHANGED <<rows, sources, queue, drawn, local>>
PutExtraction(w) == PutArtifact(w, "putExtraction", "extraction")
PutCircuit(w) == PutArtifact(w, "putCircuit", "circuit")

(* Repository.Save: two INSERTs, each a transaction of its own.              *)
InsertExtraction(w) ==
  /\ wpc[w] = "insertExtraction"
  /\ LET parent == JobRowExists(wjob[w])
     IN \E o \in Outcomes("insertExtraction") :
          /\ extractions' = IF Applies(o, parent) THEN extractions \cup {Id(w)} ELSE extractions
          /\ Proceed(w, Succeeds(o, parent))
  /\ UNCHANGED <<uploads, jobs, circuits, decisions, objects, queue, drawn, local>>

InsertCircuit(w) ==
  /\ wpc[w] = "insertCircuit"
  /\ LET parents == JobRowExists(wjob[w]) /\ Id(w) \in extractions
         row == [id |-> Id(w), extraction |-> Id(w), version |-> 1, status |-> wstatus[w]]
     IN \E o \in Outcomes("insertCircuit") :
          /\ circuits' = IF Applies(o, parents) THEN circuits \cup {row} ELSE circuits
          /\ Proceed(w, Succeeds(o, parents))
  /\ UNCHANGED <<uploads, jobs, extractions, decisions, objects, queue, drawn, local>>

MarkCompleted(w) ==
  /\ wpc[w] = "complete"
  /\ \E o \in Outcomes("complete") :
       /\ UpdateJobStatus(wjob[w], "extracting", StatusFromCircuit(wstatus[w]), o)
       /\ Leave(w, IF Succeeds(o, StatusMatches(wjob[w], "extracting")) THEN "dequeue" ELSE "down")
  /\ UNCHANGED <<uploads, extractions, circuits, decisions, objects, queue, drawn>>

MarkFailed(w) ==
  /\ wpc[w] = "fail"
  /\ \E o \in Outcomes("fail") : UpdateJobStatus(wjob[w], "extracting", "failed", o)
  /\ Leave(w, "down")
  /\ UNCHANGED <<uploads, extractions, circuits, decisions, objects, queue, drawn>>

-----------------------------------------------------------------------------
WorkerCall(w) ==
  \/ Dequeue(w) \/ ClaimQueued(w) \/ GetUpload(w) \/ GetObject(w) \/ Extract(w)
  \/ PersistCheck(w) \/ PutExtraction(w) \/ PutCircuit(w)
  \/ InsertExtraction(w) \/ InsertCircuit(w) \/ MarkCompleted(w) \/ MarkFailed(w)

(* The process dies between two calls; what it held in memory is gone.       *)
CrashWorker(w) ==
  /\ "worker" \in CanCrash
  /\ wpc[w] # "down"
  /\ Leave(w, "down")
  /\ UNCHANGED store

WorkerNext(w) == StartWorker(w) \/ WorkerCall(w) \/ CrashWorker(w)
=============================================================================
