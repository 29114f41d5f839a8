# Cirquint in TLA+

Cirquint turns uploaded schematic images into circuit revisions that people review. These
modules model its backend (`src/backend`, Go) and the review web application (`src/apps/web`,
Next.js): the upload handler, the job queue, the worker and the review workbench on one shared
store, the browsers in front of the workbench, the settings the processes are started with, and
the same backend on its in-memory repositories. TLC checks them on small instances; TLAPS proves
every safety property and every refinement those checks ask for, for any number of jobs, workers,
reviewers, browsers and connections.

## The system

| Component | State it keeps | Operations | What makes it correct |
|---|---|---|---|
| Upload service (`internal/uploads`) | none between requests; `uploads` rows, the image object | `Upload`: seven calls on Postgres, object storage and Redis, with compensation after each failure | a failed upload whose client waits leaves nothing behind, unless a decision kept it from being deleted; an accepted one gets settled; the payload is pushed last |
| Processing jobs (`internal/processing`) | `processing_jobs` rows, the Redis list | `CreateJob`, `Transition` (compare-and-swap), `Enqueue` (RPUSH), `Dequeue` (LPOP), `ClaimQueued`, `MarkCompleted`, `MarkFailed`, `DeleteJob` | the status follows one path; a job is claimed once |
| Worker (`internal/worker`, `cmd/worker`) | the payload and the result in its memory | `ProcessNext`, `ProcessUntilEmpty`: one shot, ends at an empty queue or at the first error | one worker per job; nothing half-read or half-written is shown |
| Circuit persistence (`internal/circuit`, `Persist`, `Save`) | `extraction_revisions`, `circuit_revisions`, two JSON objects per revision | look up by job, write the objects, insert the rows | rows are backed by objects; a retry reuses them |
| Review workbench API (`internal/circuit`, `SubmitReviewDecision`) | `circuit_review_decisions`, corrected revisions | queue, detail, decision (one transaction) | one decision per job, on the revision the reviewer saw, agreeing with job and revision |
| Schema (`migrations`) | foreign keys, cascades, uniqueness | | late writes of a deleted job fail |
| Object storage, provider (`internal/storage`, `internal/provider`) | files or a map; nothing | `Put`, `Get`, `Delete`; `ExtractCircuit` | no partial image is read; no object is left over |
| Workspaces and projects (`internal/workspace`) | `workspaces`, `projects` | create, look up | nothing is created for a project nobody created |
| HTTP routing, identity (`internal/server`, `internal/identity`) | none | match method and path, answer | only POST changes anything; a job is decided under its own project |
| In-memory repositories and queue | maps behind one mutex each, a slice | those of the Postgres repositories and of Redis | the same promises as on Postgres |
| Configuration and start-up (`internal/config`, `cmd/*`) | the environment of each process | read it, refuse it, build the resources | a worker writes only about jobs it sees all of; the review policy is that of the worker that wrote the revision |
| Review web application (`apps/web`) | the page of each browser; the form's revision and pending submission | open a review, submit the form, show the answer or a banner | the page a reviewer ends on tells the truth, also after a lost answer and a second submission |

The API process serves concurrent requests; any number of worker processes run beside it. They
meet only in Postgres, Redis and the object storage. There is no lock, no lease and no reaper:
what keeps them apart is the compare-and-swap on the job's status, the foreign keys and one
transaction in the review path. The hard behaviours are therefore: calls that fail without the
caller knowing whether they took effect, processes that die between two calls, a request context
that is cancelled under its own compensation, payloads that are lost or repeated, retries, and
reviewers racing with each other and with the worker. `PROJECT.json` lists each hazard at its line.

## The modules

`Store` holds the shared state and the primitive writes. `Uploads`, `Worker` and `Review` extend it
with one action per call of their code. `Pipeline` runs uploads and workers together, `Recovery`
adds an operator who retries jobs, `System` adds the reviewers to `Pipeline`, and `Workbench` puts
browsers in front of `System`, whose forms are then its only clients. There are two abstract
specifications. `ClaimLedger` is what `Pipeline` implements, and in its form with retries
(`RetriedSpec`) `Recovery`, `Deployment` and `MemoryServer`; `ReviewLedger` is what `System` and
`MemoryServer` implement.
`Deployment` adds to `Recovery` what each process was started with. `MemoryServer` stands on its own:
it is the same program on other repositories, in one process, where no call fails and every call is
atomic. The `MC*` modules give the constants their values for TLC.

The theorems have modules of their own, each extending what it is about and the proofs it uses:
`PipelineProofs` (claims) and `RevisionProofs` (rows and objects) about `Pipeline`, `RecoveryProofs`
and `DeploymentProofs` on top of them, `SystemProofs` (the review transaction, and what it leaves of
the pipeline's promises) and `DecisionProofs` (the ledger, corrections, compensated uploads) about
`System`, `WorkbenchProofs` on top of both, and `MemoryProofs` about `MemoryServer`.

| Module | State | Code |
|---|---|---|
| `Store` | `uploads`, `jobs` (status by upload request, `"none"` without a row), `extractions`, `circuits`, `decisions` (rows), `sources`, `artifacts` (objects), `queue`, `drawn` | the migrations, `processing/postgres_repository.go`, `storage` |
| `Uploads` | `upc` (next call of each request), `disconnected` | `uploads.go`, `server.go: handleUploadRoute` |
| `Worker` | `wpc`, `wjob`, `wstatus`, `wno` | `worker.go`, `cmd/worker/main.go`, `circuit.go: Persist`, `postgres_repository.go: Save` |
| `Review` | `rpc`, `req`, `pair`, `rno`, `answer` | `circuit.go: SubmitReviewDecision`, `postgres_repository.go: SaveReviewDecision`, `server.go: handleReviewDecision` |
| `Workbench` | `page`, `shown`, `asked` | `actions.ts`, `review-api.ts`, `review-decision-form.tsx`, the queue and review pages |
| `Deployment` | `apiEnv`, `env`, `result`, `measured` | `config.go`, `cmd/api/main.go`, `cmd/worker/main.go`, `circuit.go: DecideStatus, putJSON`, `provider.go` |
| `MemoryServer` | the maps of the memory repositories, `queue`, `at`, `req`, `draft`, `code` (connections), `runner` | `server.go`, `workspace/service.go`, the `memory_*.go` files, `uploads.go`, `circuit.go`, `worker.go` |
| `ClaimLedger` | `phase`, `holders` | what the pipeline promises of a job |
| `ReviewLedger` | `verdict`, `told` | what the workbench promises of a job and tells a reviewer |

How the code maps:

- One action is one call on a store, a queue, a bucket or the provider, together with everything
  the code does between it and the next call. `Then`, `Otherwise` and `After` say which call comes
  next: they are the bodies of `Upload` and `ProcessNext`.
- A call has an outcome: it works, fails without effect (`"error"`) or takes effect and is
  reported as failed (`"lost"`); for a write to the object storage the last one leaves a partial
  file. `"duplicate"` is the Redis client repeating a push whose reply it missed. A repeated LPOP
  is a lost one followed by a working one. `Faults` says which outcomes an instance allows.
- Identifiers are random and unique, so an upload, its job and its payload share one name, and the
  revisions of a job are numbered in the order they are drawn.
- Deleting a job deletes its revisions and its decisions. `0002` declares `ON DELETE RESTRICT` from
  decisions to revisions, but the decisions also cascade from the job, and Postgres runs the
  cascades a deletion queued on the job before it runs the restrictive checks their deletions of
  revisions queue; so the whole family goes.
- The review transaction is READ COMMITTED. Its reads take no lock; the row of the reviewed
  revision is locked from its UPDATE and that of the job from the compare-and-swap, both until the
  transaction ends, and others wait for them (`RevisionLocked`, `JobLocked`). The writes appear at
  the commit. A reviewer who goes away is an `"error"` of the call under way.
- A compensating DELETE and a decision can lock each other's rows. The DELETE takes the upload and
  the job first and the revisions by cascade after them; a decision without a correction takes the
  revision first and the job with its compare-and-swap. So `Deadlock` is a DELETE under way and a
  decision at that compare-and-swap, and Postgres aborts one of them: `DeleteAborted`, whose error
  the handler drops and goes on, or `DecisionAborted`, which is answered with 500. There is no deadlock
  where the compare-and-swap matches no row, since an UPDATE does not wait for a row its snapshot
  rules out, nor where a transaction holds the job already (`HoldsAbove`): the INSERT of a correction
  takes a share of the job's row for its foreign key, so the DELETE waits for it at the job. When a
  DELETE was aborted the decision gets the job's row, and the next DELETE waits for its end. A DELETE
  that waits takes effect when no transaction is left (`UploadPart`). Other waits form no cycle: a
  worker's statements commit one by one and an INSERT takes shares from the top, as the DELETE does; two
  decisions take the revision before the job, and the shares of a correction keep no decision waiting.
- In `System` a client may send any revision id, of this job, of another, or of none, and any
  combination of decision, fields and correction. In `Workbench` it sends what the form can send.
- A submission takes any request that is left, so two of them cover two rivals as well as one
  browser that sends its form again while its first request is still running.
- In `MemoryServer` a path is the sequence of its segments, with an empty one for a slash too many;
  `Route` and `ProjectRoute` match it as the code does, first as written and then trimmed and split.
  A request that is refused or only reads takes one step, since it makes at most one call.
  `SaveReviewDecision` is one step because it holds its mutex throughout; the job's own mutex is
  taken inside it. An upload and its job share one name here too, and the identifier a handler is
  about to use is drawn when the request arrives. `Retry` is the operator of `Recovery`, but one who
  waits only for the job to be settled.
- In `Deployment` an environment is a record of the variables that decide something. Using another
  database, list or bucket than the API comes down to a call that fails: another list is empty,
  another database has no such job, another bucket no such image. Confidences and thresholds are
  tenths and NaN; a threshold that does not parse is the default one. The worker binary is built
  with the provider that always fails; `"static"` stands for any provider in its place.
- `X_Suffix` definitions are wrong forms of `X`. No action uses them: they are what `X` is
  replaced by to see that a property notices.

## What is checked

| Run | Instance | Shows |
|---|---|---|
| `pipeline_faults` | 1 upload, 2 workers, every fault, both processes die, the client may leave | `TypeOK`, `OneExtractor`, `PayloadReleased`, `AtMostOneAttempt`, `ReadsWholeImage`, the path `JobsMoveForward`, the inductive `ClaimInv` and `RevisionInv` (with `RowsBacked` and `StatusJustified` in it), and that `ClaimLedger` is implemented |
| `pipeline_live` | 2 uploads, 2 workers, fair, failures that end in `MarkFailed` | `AcceptedIsSettled` |
| `deployment_retry` | 1 upload, 2 workers, 2 retries, 3 environments of the API and 12 of a worker, every fault of a worker, payloads pushed twice, deaths | `OneCircuitPerJob`, `RetryKeepsStatus`, `PolicyOfTheWriter`, `PersistsOnlyShared`, and that `ClaimLedger` with retries is implemented |
| `system_review` | 1 upload, 1 worker, 2 reviewers, every fault but a `DeleteUpload` that does not reach the database and a lost answer to COMMIT, deadlocks, both processes die, the client may leave | `DecisionMatchesState`, `OneDecisionPerJob`, `AnsweredIsSaved`, `JobAgreesWithLatest`, `RowsBacked`, `UndoneOrContested`, `OnlyPendingDecided`, the inductive `ReviewInv`, and that `ReviewLedger` is implemented |
| `memory_server` | 2 connections with any request, 1 workspace, 2 projects, 1 upload, 1 runner, 1 retry | `VerdictStands`, `NoLooseObjects`, `NoOrphans`, `DecidedAtHome`, `RacersGetConflict`, `WritesOnlyByPost`, the inductive `MemoryInv`, and that `ReviewLedger` and `ClaimLedger` with retries are implemented |
| `workbench_pages` | 1 upload, 1 worker, 2 browsers, 2 submissions, fair, failing review calls, lost answers | `BannerIsSaved`, `StaleIsResolved`, `FormsSettle` |

Bounds. Jobs do not share rows, objects or payloads, so one job shows what can happen to a job;
two are there where jobs compete for workers. Two workers suffice for
a race on one job, and the theorems hold for any number. Two reviewers suffice for a winner and a
loser at any place of the handler; the invariants of `system_review` were also checked with three
reviewers and an upload that is undone while they decide (520 thousand states). Two projects suffice for a request under the wrong one, and two
connections for a race. `MaxRequeues` cuts off the retries of `Deployment`: two allow a second
failure during the first retry. `MaxRetries` does the same in `MemoryServer`, where one retry
suffices to have a decided job retried. `MaxRevisions` is the number of identifiers `MemoryServer` draws for
a job, two for an extraction and a correction; with three, for two rival corrections, the run has
970 thousand states and the same result. In the other modules identifiers are drawn once per
attempt or correction, so `drawn` needs no bound. The environments of a worker differ from a sound
one in one variable each, which is what a slip in a deployment looks like, or only in how the same
queue is written; the confidences lie below, between and at the two thresholds. `pipeline_faults` was also run with two uploads (1.5 million
states), and the invariants of `system_review` with two uploads that are undone and a reviewer who may send
a revision of the other job (550 thousand states), with the same result.

Symmetry is used for workers, reviewers, connections and projects in runs that check safety only.

Fairness. A handler and a worker take their next step as long as they run: no call waits for
ever, since Postgres, Redis and file calls return or fail. In `FairWorkbench` the API also delivers
an answer it has, but nobody has to submit, and the time limit of `fetch` is not relied on. Fairness of `StartWorker` stands for
whoever runs `cmd/worker` again; the binary itself ends when the queue is empty, and without
reruns no job would be processed. Nothing makes the retries of `Recovery`, deaths, disconnects or
submissions happen.

What fairness does not give: in `pipeline_live` the calls `dequeue`, `claim`, `complete` and `fail`
do not fail and no process dies. Each of these leaves a job `queued` or `extracting` for ever, by
design of the code (`worker_temporary` is the shortest example).

Two implementations of one ledger. `System` and `MemoryServer` both implement `ReviewLedger`: a
job that waits for a decision gets one, in the step that tells its reviewer so, and a refused request
leaves none. They differ in what they tell the loser of a race. In memory everything is checked again
under the mutex, the revision before the job, and the loser gets 404 or 409 (`RacersGetConflict`); on
Postgres it may get 500 (`review_race` below). The tests of `internal/server` run on the memory repositories, so
they cannot see this.

### Where the code and its documents differ

Six runs check what a document of the repository says and find it violated.

| Run | Statement | What happens |
|---|---|---|
| `upload_disconnect` | `NoQueuedJobLeftBehind` (ingestion spec) | the client leaves, `Enqueue` fails, the compensation fails with the same context |
| `worker_temporary` | `SurvivesTemporaryFailures` (ADR-004) | one failed claim after LPOP, and the job is queued for ever |
| `recovery_duplicate` | `NoDuplicateRevisions` (ingestion design) | death between the INSERTs of `Save`, then a retry |
| `review_lost_commit` | `CorrectionPersisted` (workbench spec) | the answer to COMMIT is lost, the correction's object is deleted |
| `review_race` | `ResolvedIsConflict` (workbench design) | the loser of a race gets 500; the web application shows an error instead of the stale banner |
| `review_offer` | `OffersOnlyPendingJobs` (workbench spec) | the revision is pending before the job is |

`CorrectionPersisted` holds in `system_review` as a part of `RowsBacked`: there every other review
call may fail either way and only the answer to COMMIT is not lost.

## What is proved

The theorems hold for any sets of jobs, workers, reviewers, browsers, connections and projects, for
any bounds and any schedule. Every invariant, every action property and every refinement the passing
runs check is among them.

| Module | Theorems (`Spec => []P` unless said otherwise) |
|---|---|
| `PipelineProofs` | `PipelineTypes` (`TypeOK`), `PipelineClaims` (`ClaimInv`), `ExclusiveExtraction` (`OneExtractor`), `PayloadAfterRelease` (`PayloadReleased`), `JobPath` (the action property `JobsMoveForward`), `ClaimRefinement` (`ClaimLedger` is implemented) |
| `RevisionProofs` | `PipelineRevisions` (`RevisionInv`), `SingleAttempt` (`AtMostOneAttempt`), `BackedRows` (`RowsBacked`), `JustifiedStatus` (`StatusJustified`), `WholeImages` (`ReadsWholeImage`) |
| `RecoveryProofs` | `RecoveryInvariant`, `OneCircuit` (`OneCircuitPerJob`), `RetriedStatus` (`RetryKeepsStatus`), `RetryRefinement` (`ClaimLedger` with retries is implemented) |
| `DeploymentProofs` | `DeploymentIsRecovery` (a deployment implements `Recovery`), `DeploymentInvariant`, `DeploymentTypes`, `WriterDecides` (`PolicyOfTheWriter`), `OnlySharedWrites` (the action property `PersistsOnlyShared`), `DeployedRetryRefinement` (as `RetryRefinement`) |
| `SystemProofs` | `SystemInvariant`, `ReviewInvariant` (`ReviewInv`), `SystemTypes`, `DecisionsMatch` (`DecisionMatchesState`), `DecidedOnce` (`OneDecisionPerJob`), `AnswersAreSaved` (`AnsweredIsSaved`), `PollingAgrees` (`JobAgreesWithLatest`), `PendingDecided` (the action property `OnlyPendingDecided`); from `OpenSpec`: `OpenInvariant`, `OpenPending`, `OpenPipeline` (`OneExtractor`, `PayloadReleased`, `ReadsWholeImage`, `StatusJustified`, one extraction per job), `OpenJobPath` (the action property `BackendMoves`), `OpenClaimRefinement` (`ClaimLedger` is implemented) |
| `DecisionProofs` | `ReviewRefinement` (`ReviewLedger` is implemented), `BackedRevisions` (`RowsBacked`), `CorrectionsKept` (`CorrectionPersisted`), `FailedUploads` (`UndoneOrContested`); from `OpenSpec`: `OpenReviewRefinement`, `OpenFailedUploads` |
| `WorkbenchProofs` | `WorkbenchInvariant`, `WorkbenchTypes`, `StaleBanners` (`StaleIsResolved`), `SavedBanners` (`BannerIsSaved`), `HonestBanners` (`BannerIsHonest`); of the backend under the pages: `WorkbenchPipeline`, `WorkbenchDecisions`, `WorkbenchRefinement`, `WorkbenchFailedUploads` |
| `MemoryProofs` | `MemoryInvariant` (`MemoryInv`), `MemoryTypes`, `StandingVerdicts` (`VerdictStands`), `OrphanFree` (`NoOrphans`), `ObjectsAccountedFor` (`NoLooseObjects`), `HomeDecisions` (`DecidedAtHome`), `ConflictsAreTold` (`RacersGetConflict`), `OnlyPostWrites` (the action property `WritesOnlyByPost`), `MemoryRefinement` (`ReviewLedger` is implemented), `MemoryClaimRefinement` (`ClaimLedger` with retries is implemented) |

### Assumptions

Of the modules: `Faults` gives each call only outcomes it can have, only the API, workers and
reviewers die, `NoJob` is no job, `None` is neither an identifier nor a row. `Deployment` assumes that the API is
none of the workers and that the calls a wrong setting breaks may fail (`"error"`).
`MemoryServer` has at least one identifier per job, since `persistCheck` draws the first one.

Some theorems have a hypothesis on what may fail, stated in the theorem. Each is needed:

| Hypothesis | Theorems | Without it |
|---|---|---|
| `AnswersCommit`: the answer to COMMIT is not lost | `ReviewRefinement`, `BackedRevisions`, `CorrectionsKept`, `WorkbenchRefinement` | `review_lost_commit`: the request reports a failure of what was committed, and deletes its object |
| `UndoWorks`: the DELETE of the uploads row reaches the database, which may still abort it; every other call of the compensation may fail. `UndoneOrContested` itself speaks of clients that waited | `FailedUploads`, `WorkbenchFailedUploads` | the job of a failed upload stays; with a client that leaves it is `upload_disconnect` |
| `PushAnswered`: a push that took effect is not reported as failed | `SavedBanners` | the handler takes back a job a worker has already finished, with its revision and decision; `HonestBanners` says that this is the only way a success banner can outlive its decision |

### The arguments

Claims. That two workers never hold one job is not inductive: nothing in it says that a job
is not claimed while somebody works on it. `ClaimedOrGone` does: what a worker works on is
`extracting` or was deleted. A claim needs `queued`, so it cannot hit a job somebody works on. But
could such a job become `queued` again? Only its handler moves it there, from `uploaded`, and only
from `created`; `ReleasedLate` says that in those states, and before the job exists, no payload of
it is in the list or in a worker's hands. The types of what a worker writes need `Locals` (a
worker that persists holds a job, an identifier and a status). `TypeOK` and these parts are
inductive together (`NextKeepsClaims`). The proof first shows what a step of a handler and of a
worker can do to jobs, payloads and holders (`HandlerHasEffect`, `WorkerHasEffect`), action by
action, and derives the invariant, the path and the refinement from those two facts.

Revisions. `RevisionInv` has five parts. `CircuitInv` says that a worker about to write found no
circuit of its job, that what a worker is about to report is in a row, and that a job that is
gone left no rows: together with exclusive claims this makes `StatusJustified` inductive. `FirstVersions`
says that workers write first versions only. `AttemptInv` extends `AtMostOneAttempt` to the workers
that have not yet written their extraction, and to the jobs nobody has claimed. `ArtifactInv`
extends `RowsBacked` to the objects a worker has written and not yet inserted the rows of.
`SourceInv` says why no cut-off image is read: its handler is on its way out and never releases
the job. `HandlerRows` and `WorkerRows` list the only ways the rows can change.

Retries. `AttemptInv` does not survive a retry (`recovery_duplicate`); `RecoveryInv` is what does: types,
claims, `CircuitInv` and `FirstVersions`. A retry that finds a circuit skips the writes, and one that
finds none works on a job that has none, so one circuit per job remains. `RetryRefinement` maps a retry to
the ledger's `Reoffer`, which asks that nobody holds the job; every other step keeps its mapping
from `ClaimRefinement`, since that rests on `ClaimInv` alone and retries keep it.

Deployments. Every step of `Deployment` is one of `Recovery`, in which a wrong setting is an
`"error"` (`DeploymentIsRecovery`); so `RecoveryInv` holds of it. `DeploymentInv` adds what a worker must share to have
got to each call (`ReachedShared`), that the status it holds is that of its result under its own
threshold until it is stored (`HoldsResult`), and that every row has both on record (`OnRecord`).

Reviews. `SystemInv` is types, `ClaimInv`, `CircuitInv` and `ReviewInv`. `FirstVersions` is false with
corrections; what the workers need of it is `FirstUntilClosed`. In `ReviewInv`, `ReadsPending` is
the stale read: a request keeps a copy of the revision it read, and as long as the job is not
closed the stored row still equals the copy. `LocksPending` is what the row lock gives: one holder, and a job that
still waits. `SecondDecided` says that a second version comes with a decision. The proof abstracts the
request's code into `RequestEffect` (seven kinds of step), shows from it that a write happens to a pending
undecided job (`DecidesPending`, `WriteHasEffect`), and that handlers and workers leave the rest alone.
Nothing in this uses what clients know. So it is all proved of `OpenSpec`, in which a client may
name any revision identifier, drawn or not, and `SystemSpec`, whose clients name those there are,
inherits it (`SystemIsOpen`). The same facts about a request show that it disturbs nothing the pipeline promised
(`RequestMovesJobs`, `RequestKeepsAttempts`): `OpenPipeline`, `OpenJobPath` and `OpenClaimRefinement`
are the pipeline's theorems again, with any number of reviewers on the same rows.

The ledger and corrections. `ReviewRefinement` maps a commit to the ledger's decision and
every other step to an answer or a stutter. `BackedRevisions` extends `RowsBacked` from the pipeline
to corrections; `CorrectionsKept` is a part of it. It needs `OwnSuccessors`: the identifier of a
correction is no row's, no other request's and no worker's that is about to write, so a request
deletes no object but its own, and deletes it only when nothing was committed; and until then the
object is there.

Compensation. `UndoneOrContested` says of a failed upload whose client waited that nothing of it is
left, or that a decision without a correction kept it: upload and job are there, and so is the
revision that decision read and holds or held. `FailedUploads` proves it from `UndoInv`: a job has
its upload (`UploadRowExists`), and the job of a failed upload is gone or has such a holder
(`FailedHeld`). A DELETE that takes effect leaves no job, and none comes back (`HandlerKeepsUndo`);
one that is aborted has a holder whose revision is still there, since the job waited for its
decision (`AbortedKeepsUndo`); and afterwards rows go only with their job (`WorkerKeepsUndo`,
`RequestKeepsUndo`). What is stronger, that nothing is ever left (`NothingLeft` alone), is false:
put in its place in `system_review`, TLC shows the push whose answer is lost, the job extracted, a
decision that holds its revision when the last DELETE comes, and that DELETE aborted: upload, job,
revision and decision of a request that reported failure stay.

Browsers. `FormInv` says that a form was offered (`WasOffered`), that the request it waits for is about
what it shows (`AsksForForm`) and that a stale review is past: decided, or its job deleted. Past is
stable, and no past revision is in the queue. `BannerInv` adds what makes a success banner true:
a job that a worker has got is no longer its handler's to take back (`NotReleased`). `HonestBanners` does
without it, since what was saved either stays or goes with its job (`SavedStays`). A page may ask
for a revision that was deleted since, so the backend below the pages is `OpenSpec` and not `SystemSpec`
(`WorkbenchIsOpen`); all results about `OpenSpec` hold of it.

The in-memory backend. A connection's part of `MemoryInv` says what its request may assume of the maps at each
call: the identifier it drew is its own (`OwnIds`), the job and project it is about to use are as it left them
(`RequestInv`, `UploadInv`), the draft of a decision was made from a revision that is still its job's
(`DraftInv`). `RunnerInv` and `PairInv` are the claims and revisions of the other modules on these maps, and
`VerdictInv` ties a decision to its revision and job. `NoLooseObjects` is inductive together with it.
The claims are those of `RunnerInv`: who works on a job is alone and finds it `extracting` until it settles it,
so `MemoryClaimRefinement` needs neither the ledger's `Abandon` nor its `Withdraw`. A decision moves a job only
within what the ledger calls settled, which is what the check of the status under the mutex is for.
Routing is proved for every path of `Paths`, with its trimming and splitting, in the lemmas on `Trimmed` and `Route`.

The inductive parts that are not invariants of a run (`DeploymentInv`, `OwnSuccessors`, `UndoInv`,
`FormInv`, `BannerInv`, `CodeInv` of `MemoryProofs`, and `ArtifactInv`, `AttemptInv` and `SourceInv` with reviewers)
were checked on the instances of the run of their module before they were proved; the runs keep the
properties they are there for.

### What is only model-checked

- Liveness: `AcceptedIsSettled` and `FormsSettle`. They rest on fairness and ENABLED, which are out
  of the prover's reach.
- The six violations, which are counterexamples and need no proof.

## Not modelled

- `server.New` choosing repositories of its own where none are given: the API binary gives them all,
  and tests that rely on it have no review in progress. The fallback circuit repository has no job
  repository, so a decision there would not move the job.
- What happens to one process alone and ends it before it serves: a database that does not answer
  its ping, an address that is taken.
- A push that is both repeated by the Redis client and reported as failed: a push is repeated, or
  takes effect and is reported as failed. So a second payload of a job its handler takes back is not there.
- `DeleteJob` and `DeleteUpload` of the memory repositories: they run after a failed call, and none
  fails on memory. `byProject` of the memory circuit repository: it is written and never read.
- Failing inserts of workspaces and projects in Postgres: single statements, answered with 500.
- What the pages of the web application render of a review, and its error boundary.
- `ResolveReview` of the processing service, which nothing calls, and `internal/testpostgres`, which
  only starts a database for the tests.

## Plan

1. Done: the store, uploads, worker and pipeline; retries; the review transaction; the system and
   the web application; the claim invariant and the refinement of `ClaimLedger`.
2. Done: `ReviewLedger` and its two implementations; the in-memory backend with routing, workspaces
   and projects; deployments with their review policy.
3. Done: the proofs about revisions, retries, deployments, the review transaction, the browsers and
   the in-memory backend, and of the two implementations of `ReviewLedger`.
4. Done: `ClaimLedger` with retries and its three implementations; the pipeline's results with reviewers and
   with the web application on the same rows; hypotheses no stronger than their counterexamples.
5. Left: what no run states yet, such as what a retry leaves unreferenced in the object storage of the
   Postgres backend.
