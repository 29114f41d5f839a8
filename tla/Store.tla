------------------------------- MODULE Store -------------------------------
(* What the API server, the workers and the reviewers share: the Postgres   *)
(* rows, the object storage and the Redis list.                              *)
(*                                                                           *)
(* Every identifier is drawn at random by the code and is unique.  One       *)
(* upload request creates one uploads row, one processing_jobs row and one   *)
(* queue payload, and j \in Jobs names all three.  The revisions of job j    *)
(* are identified by <<j, n>>, n being the n-th identifier drawn for j.      *)
(*                                                                           *)
(* A definition called Name_Variant is a wrong form of Name that the code     *)
(* could have had; nothing uses it but the mutation of Name.                 *)

EXTENDS Naturals, Sequences, FiniteSets

CONSTANTS Jobs,     \* the upload requests, and the upload, job and payload of each
          Faults,   \* Faults[c] : the ways call c may misbehave
          CanCrash  \* subset of {"api", "worker"} : the processes that may die

(* The calls the code makes on a database, a queue, an object storage or the *)
(* extraction provider, named after the step of the caller that makes them.  *)
UploadCalls == {"createUpload", "createJob", "put", "markUploaded",
                "toUploaded", "toQueued", "enqueue",
                "undoObject", "undoJob", "undoUpload"}
WorkerCalls == {"dequeue", "claim", "getUpload", "getObject", "extract",
                "persistCheck", "putExtraction", "putCircuit",
                "insertExtraction", "insertCircuit", "complete", "fail"}
ReviewCalls == {"getDecision", "getReviewable", "putSuccessor", "ensure",
                "writeRevision", "moveJob", "insertDecision", "commit",
                "dropSuccessor"}
Calls == UploadCalls \cup WorkerCalls \cup ReviewCalls

(* "error": the call has no effect and reports a failure.                    *)
(* "lost": the call takes effect, and its caller is told it failed.          *)
(* "duplicate": the client library repeats a push whose reply it missed.     *)
FaultsOf(c) == IF c = "enqueue" THEN {"error", "lost", "duplicate"} ELSE {"error", "lost"}

ASSUME FaultsAssumption == \A c \in Calls : Faults[c] \subseteq FaultsOf(c)
ASSUME CrashAssumption == CanCrash \subseteq {"api", "worker"}

Outcomes(c) == {"ok"} \cup Faults[c]

(* A call whose condition g (a row is there, its status matches, a foreign   *)
(* key exists) does not hold changes nothing and fails whatever the outcome. *)
Applies(o, g) == o # "error" /\ g
Succeeds(o, g) == o \in {"ok", "duplicate"} /\ g

JobStatuses == {"created", "uploaded", "queued", "extracting",
                "needs_review", "ready", "failed"}
Settled == {"needs_review", "ready", "failed"}
RevisionStatuses == {"needs_review", "ready", "failed"}
RevisionIds == Jobs \X (Nat \ {0})
Revisions == [id : RevisionIds, extraction : RevisionIds,
              version : Nat \ {0}, status : RevisionStatuses]
Decisions == [reviewed : RevisionIds, resolved : RevisionIds,
              kind : {"approve", "reject"}]
Artifacts == {"extraction", "circuit"} \X RevisionIds

VARIABLES uploads,      \* uploads rows: status by upload, "none" when there is no row
          jobs,         \* processing_jobs rows: status by job, "none" when there is no row
          extractions,  \* ids of the extraction_revisions rows
          circuits,     \* circuit_revisions rows
          decisions,    \* circuit_review_decisions rows
          sources,      \* the uploaded image of j in object storage
          artifacts,    \* the JSON objects of revisions in object storage
          queue,        \* the Redis list of payloads
          drawn         \* how many revision identifiers were drawn for j

rows == <<uploads, jobs, extractions, circuits, decisions>>
objects == <<sources, artifacts>>
store == <<uploads, jobs, extractions, circuits, decisions, sources, artifacts, queue, drawn>>

StoreTypeOK ==
  /\ uploads \in [Jobs -> {"none", "created", "uploaded"}]
  /\ jobs \in [Jobs -> {"none"} \cup JobStatuses]
  /\ extractions \subseteq RevisionIds
  /\ circuits \subseteq Revisions
  /\ decisions \subseteq Decisions
  /\ sources \in [Jobs -> {"absent", "partial", "whole"}]
  /\ artifacts \subseteq Artifacts
  /\ queue \in Seq(Jobs)
  /\ drawn \in [Jobs -> Nat]

StoreInit ==
  /\ uploads = [j \in Jobs |-> "none"]
  /\ jobs = [j \in Jobs |-> "none"]
  /\ extractions = {}
  /\ circuits = {}
  /\ decisions = {}
  /\ sources = [j \in Jobs |-> "absent"]
  /\ artifacts = {}
  /\ queue = <<>>
  /\ drawn = [j \in Jobs |-> 0]

JobOf(id) == id[1]
CircuitsOf(j) == {c \in circuits : JobOf(c.id) = j}
ExtractionsOf(j) == {e \in extractions : JobOf(e) = j}

(* The latest circuit revision of a job, joined with its extraction row.     *)
LatestPairs_NoLookup(j) == {}
LatestPairs(j) == {c \in CircuitsOf(j) :
                     /\ c.extraction \in extractions
                     /\ \A d \in CircuitsOf(j) : d.version <= c.version}

(* The status of a job whose latest revision has status s.                   *)
StatusFromCircuit_NoFailed(s) == IF s = "needs_review" THEN "needs_review" ELSE "ready"
StatusFromCircuit(s) == IF s \in {"needs_review", "failed"} THEN s ELSE "ready"

(* UPDATE processing_jobs SET status = to WHERE id = j AND status = from.    *)
StatusMatches_IdOnly(j, from) == jobs[j] # "none"
StatusMatches(j, from) == jobs[j] = from
UpdateJobStatus(j, from, to, o) ==
  jobs' = IF Applies(o, StatusMatches(j, from)) THEN [jobs EXCEPT ![j] = to] ELSE jobs

(* The foreign key of every revision row on its job.                         *)
JobRowExists_NoForeignKey(j) == TRUE
JobRowExists(j) == jobs[j] # "none"

(* DELETE FROM processing_jobs and what ON DELETE CASCADE removes with it.   *)
DeleteJob(j, o) ==
  /\ jobs' = IF o # "error" THEN [jobs EXCEPT ![j] = "none"] ELSE jobs
  /\ extractions' = IF o # "error" THEN extractions \ ExtractionsOf(j) ELSE extractions
  /\ circuits' = IF o # "error" THEN circuits \ CircuitsOf(j) ELSE circuits
  /\ decisions' = IF o # "error" THEN {d \in decisions : JobOf(d.reviewed) # j} ELSE decisions
=============================================================================
