-------------------------- MODULE WorkbenchProofs --------------------------
(* What the pages of the review application may tell, for any number of      *)
(* browsers, rivals, failures and crashes.                                   *)
EXTENDS Workbench, DecisionProofs

-----------------------------------------------------------------------------
(* What is past stays past, and a revision outlives everything but its job.  *)
LEMMA RequestHistory ==
  ASSUME SystemInv, NEW r \in Reviewers, ReviewStep(r)
  PROVE  /\ decisions \subseteq decisions' /\ upc' = upc
         /\ \A k \in Jobs : jobs[k] = "none" => jobs'[k] = "none"
         /\ \A c \in circuits : \E n \in circuits' : n.id = c.id
<1>1. RequestEffect(r) /\ upc' = upc
  BY RequestHasEffect DEF SystemInv, TypeOK, ReviewStep, uploadVars
<1>2. CASE Writes(r)
  <2>1. PICK j : j = req[r].job
    OBVIOUS
  <2>2. AboutToDecide(r, j) /\ WriteEffect(r, j)
    BY <1>2, <2>1, WriteHasEffect
  <2>3. ASSUME NEW c \in circuits PROVE \E n \in circuits' : n.id = c.id
    BY <1>2 DEF Writes, Write
  <2> QED
    BY <1>1, <2>2, <2>3 DEF AboutToDecide, WriteEffect
<1>3. CASE ~Writes(r)
  <2>1. UNCHANGED <<jobs, circuits, decisions>>
    BY <1>1, <1>3 DEF RequestEffect, Asks, Refused, GoesOn, Reads, Drops, Dies, SameRow, store, rows
  <2> QED
    BY <1>1, <2>1
<1> QED
  BY <1>2, <1>3

(* Workers delete nothing that a page may have shown.                        *)
LEMMA WorkerHistory ==
  ASSUME SystemInv, NEW w \in Workers, WorkerPart(w)
  PROVE  /\ decisions \subseteq decisions' /\ upc' = upc
         /\ \A k \in Jobs : jobs[k] = "none" => jobs'[k] = "none"
         /\ circuits \subseteq circuits'
<1>1. /\ WorkerEffect(w) /\ decisions' = decisions
      /\ SameRows \/ AddsExtraction(w) \/ AddsCircuit(w)
  BY WorkerHasEffect, WorkerRows, WorkerDecidesNothing DEF WorkerPart, SystemInv, ClaimInv
<1> QED
  BY <1>1 DEF WorkerEffect, SameRows, AddsExtraction, AddsCircuit

(* A handler deletes only what belongs to the job it gives up.               *)
LEMMA HandlerHistory ==
  ASSUME SystemInv, NEW j \in Jobs, UploadPart(j)
  PROVE  /\ \A k \in Jobs : upc[k] \notin NotYetCreated => upc'[k] \notin NotYetCreated
         /\ \A k \in Jobs : upc[k] \notin NotYetCreated /\ jobs[k] = "none" => jobs'[k] = "none"
         /\ \A d \in decisions \ decisions' : JobOf(d.reviewed) = j /\ jobs'[j] = "none"
         /\ \A c \in circuits \ circuits' : JobOf(c.id) = j /\ jobs'[j] = "none"
<1>1. /\ HandlerEffect(j)
      /\ \/ RowsKept(j) /\ decisions' = decisions
         \/ RowsDeleted(j) /\ decisions' = {d \in decisions : JobOf(d.reviewed) # j}
  BY HandlerHasEffect, HandlerDecisions DEF UploadPart, SystemInv
<1> QED
  BY <1>1 DEF HandlerEffect, NotYetCreated, RowsKept, RowsDeleted, CircuitsOf

(* A DELETE that is aborted deletes nothing, and its handler goes on.        *)
LEMMA AbortedHistory ==
  ASSUME SystemInv, NEW j \in Jobs, DeleteAborted(j)
  PROVE  /\ UNCHANGED <<jobs, circuits, decisions>>
         /\ \A k \in Jobs : upc[k] \notin NotYetCreated => upc'[k] \notin NotYetCreated
         /\ \A k \in Jobs : upc[k] \in {"undoUpload", "failed", "crashed"} =>
                           upc'[k] \in {"undoUpload", "failed", "crashed"}
<1>1. /\ UNCHANGED store /\ upc'[j] \in {"undoUpload", "failed"}
      /\ \A k \in Jobs \ {j} : upc'[k] = upc[k]
  BY AbortedDelete DEF SystemInv
<1> QED
  BY <1>1 DEF store, NotYetCreated

(* A revision that is no longer pending never is again.                      *)
LEMMA PastStays ==
  ASSUME SystemInv, OpenNext, NEW v, JobOf(v) \in Jobs, Past(v)
  PROVE  Past(v)'
<1>1. CASE \E r \in Reviewers : ReviewStep(r)
  BY <1>1, RequestHistory DEF Past, JobOf
<1>2. CASE \E w \in Workers : WorkerPart(w)
  BY <1>2, WorkerHistory DEF Past, JobOf
<1>3. ASSUME NEW j \in Jobs, UploadPart(j) PROVE Past(v)'
  <2>1. PICK k \in Jobs : k = JobOf(v)
    OBVIOUS
  <2>2. \A d \in decisions : JobOf(d.reviewed) = k => upc[k] \notin NotYetCreated
    BY DEF SystemInv, ReviewInv, DecisionMatchesState, Final, ClaimInv, ReleasedLate
  <2>3. \/ \E d \in decisions' : d.reviewed = v
        \/ jobs'[k] = "none" /\ upc'[k] \notin NotYetCreated
    BY <1>3, <2>1, <2>2, HandlerHistory DEF Past
  <2> QED
    BY <2>1, <2>3 DEF Past, JobOf
<1>4. ASSUME NEW j \in Jobs, DeleteAborted(j) PROVE Past(v)'
  BY <1>4, AbortedHistory DEF Past, JobOf
<1> QED
  BY <1>1, <1>2, <1>3, <1>4 DEF OpenNext

(* A revision that was offered stays pending until it is past.               *)
LEMMA OfferedStays ==
  ASSUME SystemInv, OpenNext, NEW j \in Jobs, NEW v, Offered(j, v)
  PROVE  Offered(j, v)'
<1>1. CASE \E r \in Reviewers : ReviewStep(r)
  BY <1>1, RequestHistory DEF Offered, JobOf
<1>2. CASE \E w \in Workers : WorkerPart(w)
  BY <1>2, WorkerHistory DEF Offered, JobOf
<1>3. ASSUME NEW i \in Jobs, UploadPart(i) PROVE Offered(j, v)'
  BY <1>3, HandlerHistory DEF Offered, JobOf
<1>4. ASSUME NEW i \in Jobs, DeleteAborted(i) PROVE Offered(j, v)'
  BY <1>4, AbortedHistory DEF Offered, JobOf
<1> QED
  BY <1>1, <1>2, <1>3, <1>4 DEF OpenNext

-----------------------------------------------------------------------------
(* A job has one latest revision, and when it was decided that one is final. *)
LEMMA OneLatest ==
  ASSUME SystemInv, NEW j, NEW c \in LatestPairs(j), NEW d \in LatestPairs(j)
  PROVE  c = d
<1>1. /\ c \in circuits /\ d \in circuits /\ JobOf(c.id) = j /\ JobOf(d.id) = j
      /\ c.version <= d.version /\ d.version <= c.version
  BY DEF LatestPairs, CircuitsOf
<1>2. c.version = d.version
  BY <1>1 DEF SystemInv, TypeOK, StoreTypeOK, Revisions
<1> QED
  BY <1>1, <1>2 DEF SystemInv, CircuitInv, RowsOwned

(* A job with a decision is offered to nobody.                               *)
LEMMA DecidedNotReviewable ==
  ASSUME SystemInv, NEW d \in decisions
  PROVE  Reviewable(JobOf(d.reviewed)) = {}
<1>1. PICK j : j = JobOf(d.reviewed)
  OBVIOUS
<1>2. PICK e \in LatestPairs(j) : e.status = Final(d)
  BY <1>1 DEF SystemInv, ReviewInv, DecisionMatchesState
<1>3. \A c \in LatestPairs(j) : c = e
  BY OneLatest
<1> QED
  BY <1>1, <1>2, <1>3 DEF Reviewable, Final

(* A job whose revision is past is offered to nobody.                        *)
LEMMA PastNotReviewable ==
  ASSUME SystemInv, NEW v, JobOf(v) \in Jobs, Past(v)
  PROVE  Reviewable(JobOf(v)) = {}
<1>1. CASE \E d \in decisions : d.reviewed = v
  BY <1>1, DecidedNotReviewable
<1>2. CASE jobs[JobOf(v)] = "none"
  BY <1>2 DEF SystemInv, CircuitInv, RowsOwned, Reviewable, LatestPairs
<1> QED
  BY <1>1, <1>2 DEF Past

(* The pending revision of a job is the one a form was bound to, if any.     *)
LEMMA PendingIsOffered ==
  ASSUME SystemInv, NEW j \in Jobs, NEW v, Offered(j, v), NEW c \in Reviewable(j)
  PROVE  c.id = v
<1>1. c \in circuits /\ JobOf(c.id) = j /\ c \in LatestPairs(j) /\ c.status = "needs_review"
  BY DEF Reviewable, LatestPairs, CircuitsOf
<1>2. PICK x \in circuits : x.id = v /\ JobOf(x.id) = j
  BY <1>1 DEF Offered, SystemInv, CircuitInv, RowsOwned, CircuitsOf
<1>3. c.version = 1
  <2>1. \A d \in decisions : JobOf(d.reviewed) # j
    BY DecidedNotReviewable
  <2> QED
    BY <1>1, <2>1 DEF SystemInv, ReviewInv, SecondDecided
<1>4. x.version = 1
  <2>1. x.version \in Nat \ {0} /\ x.version <= c.version
    BY <1>1, <1>2 DEF SystemInv, TypeOK, StoreTypeOK, Revisions, LatestPairs, CircuitsOf
  <2> QED
    BY <1>3, <2>1
<1> QED
  BY <1>1, <1>2, <1>3, <1>4 DEF SystemInv, CircuitInv, RowsOwned

-----------------------------------------------------------------------------
(* A step that moves a request is its own, or takes it out of a deadlock.    *)
LEMMA RequestMoves ==
  ASSUME OpenNext
  PROVE  \/ UNCHANGED reviewVars
         \/ \E r \in Reviewers : ReviewStep(r)
         \/ \E j \in Jobs : DeleteAborted(j)
  BY DEF OpenNext, UploadPart, WorkerPart

(* A request that was sent stays what it is, and so does its answer.         *)
LEMMA AnswerStays ==
  ASSUME SystemInv, OpenNext, NEW s \in Reviewers, rpc[s] # "idle"
  PROVE  /\ rpc'[s] # "idle" /\ req'[s] = req[s]
         /\ answer[s] # "none" => answer'[s] = answer[s]
<1>1. CASE UNCHANGED reviewVars
  BY <1>1 DEF reviewVars
<1>2. ASSUME NEW r \in Reviewers, ReviewStep(r)
      PROVE  /\ rpc'[s] # "idle" /\ req'[s] = req[s]
             /\ answer[s] # "none" => answer'[s] = answer[s]
  <2>1. RequestEffect(r)
    BY <1>2, RequestHasEffect DEF SystemInv, TypeOK
  <2>2. CASE s # r
    BY <2>1, <2>2 DEF RequestEffect, OthersWait
  <2>3. CASE s = r
    <3>1. AsksFirst(r)
      BY DEF SystemInv, ReviewInv
    <3> QED
      BY <2>1, <2>3, <3>1 DEF RequestEffect, AsksFirst, Asks, Refused, GoesOn, Onwards, Reads, Writes,
         Drops, Dies, SameRequest, ReviewCalls
  <2> QED
    BY <2>2, <2>3
<1>3. ASSUME NEW j \in Jobs, DeleteAborted(j)
      PROVE  /\ rpc'[s] # "idle" /\ req'[s] = req[s]
             /\ answer[s] # "none" => answer'[s] = answer[s]
  BY <1>3, AbortedDelete DEF SystemInv
<1> QED
  BY <1>1, <1>2, <1>3, RequestMoves

(* A request is told of a conflict when its revision was decided, or another *)
(* revision of its job is pending.                                           *)
LEMMA ConflictMeans ==
  ASSUME SystemInv, NEW r \in Reviewers, ReviewStep(r), NEW s \in Reviewers, rpc[s] # "idle",
         answer[s] # "conflict", answer'[s] = "conflict"
  PROVE  \/ \E d \in decisions : d.reviewed = req[s].revision
         \/ \E c \in Reviewable(req[s].job) : c.id # req[s].revision
<1>1. s = r /\ RequestEffect(r)
  BY RequestHasEffect DEF SystemInv, TypeOK, RequestEffect, OthersWait
<1> USE DEF SystemInv, ReviewTypeOK
<1>2. CASE GetDecision(r)
  BY <1>1, <1>2 DEF GetDecision, Answer, Goto
<1>3. CASE GetReviewable(r)
  BY <1>1, <1>3 DEF GetReviewable, Answer, Goto, IsSeen
<1>4. CASE ~GetDecision(r) /\ ~GetReviewable(r)
  <2>1. \/ answer' = answer
        \/ \E a \in {"serverError", "notFound", "ok"} : Answer(r, a) \/ Abort(r, a)
    BY <1>1, <1>4 DEF ReviewStep, SubmitSome, Submit, ReviewCall, PutSuccessor, EnsureReviewable,
       WriteRevision, MoveJob, InsertDecision, Commit, DropSuccessor, CrashReview,
       DecisionAborted, Goto
  <2> QED
    BY <1>1, <2>1, AnswerEffect, AbortEffect
<1> QED
  BY <1>2, <1>3, <1>4

-----------------------------------------------------------------------------
(* What the pages rely on, after a step of the backend ...                   *)
WorkbenchInv == SystemInv /\ WorkbenchTypeOK /\ FormInv

(* What the backend does leaves the form of a page true.                     *)
LEMMA BackendKeepsForm ==
  ASSUME WorkbenchInv, OpenNext,
         NEW b \in Browsers, page'[b] = page[b], shown'[b] = shown[b], asked'[b] = asked[b]
  PROVE  WasOffered(b)' /\ AsksForForm(b)' /\ (page'[b] = "stale" => Past(shown[b].revision)')
<1> USE DEF WorkbenchInv
<1>1. WasOffered(b) /\ AsksForForm(b) /\ (page[b] = "stale" => Past(shown[b].revision))
  BY DEF FormInv
<1> DEFINE j == shown[b].job
           v == shown[b].revision
<1>2. CASE page[b] = "queue"
  BY <1>2 DEF WasOffered, AsksForForm
<1>3. CASE page[b] # "queue"
  <2>1. j \in Jobs /\ JobOf(v) = j /\ Offered(j, v)
    BY <1>1, <1>3 DEF WasOffered, Offered
  <2>2. Offered(j, v)' /\ (Past(v) => Past(v)')
    BY <2>1, OfferedStays, PastStays
  <2>3. WasOffered(b)'
    BY <1>1, <1>3, <2>2 DEF WasOffered, Offered, JobOf
  <2>4. AsksForForm(b)'
    <3> SUFFICES ASSUME page[b] = "submitting", NEW s \in Reviewers, s = asked[b], rpc[s] # "idle"
                 PROVE  /\ rpc'[s] # "idle"
                        /\ answer'[s] # "badRequest" => req'[s].job = j /\ req'[s].revision = v
                        /\ answer'[s] = "conflict" => Past(v)'
      BY <1>1 DEF AsksForForm, Past, JobOf
    <3>1. /\ rpc'[s] # "idle" /\ req'[s] = req[s]
          /\ answer[s] # "none" => answer'[s] = answer[s]
      BY AnswerStays
    <3>2. answer[s] # "badRequest" => req[s].job = j /\ req[s].revision = v
      BY <1>1 DEF AsksForForm
    <3>3. ASSUME answer'[s] = "conflict" PROVE Past(v)
      <4>1. CASE answer[s] = "conflict"
        BY <1>1, <4>1 DEF AsksForForm
      <4>2. CASE answer[s] # "conflict"
        <5>1. PICK r \in Reviewers : ReviewStep(r)
          <6>1. answer' # answer
            BY <3>3, <4>2
          <6> QED
            BY <6>1, RequestMoves, AbortedDelete DEF reviewVars, WorkbenchInv, SystemInv
        <5>2. req[s].job = j /\ req[s].revision = v
          BY <3>1, <3>2, <3>3, <4>2
        <5>3. \/ \E d \in decisions : d.reviewed = v
              \/ \E c \in Reviewable(j) : c.id # v
          BY <3>3, <4>2, <5>1, <5>2, ConflictMeans
        <5> QED
          BY <2>1, <5>3, PendingIsOffered DEF Past
      <4> QED
        BY <4>1, <4>2
    <3> QED
      BY <2>2, <3>1, <3>2, <3>3
  <2> QED
    BY <1>1, <2>2, <2>3, <2>4
<1> QED
  BY <1>2, <1>3

(* ... and after a step of a browser.                                        *)
LEMMA QuietKeepsForm ==
  ASSUME WorkbenchInv, UNCHANGED systemVars,
         NEW b \in Browsers, page'[b] = page[b], shown'[b] = shown[b], asked'[b] = asked[b]
  PROVE  WasOffered(b)' /\ AsksForForm(b)' /\ (page'[b] = "stale" => Past(shown[b].revision)')
<1>1. UNCHANGED <<jobs, circuits, decisions, upc, rpc, req, answer>>
  BY DEF systemVars, vars, store, uploadVars, reviewVars
<1> QED
  BY <1>1 DEF WorkbenchInv, FormInv, WasOffered, Offered, AsksForForm, Past, JobOf

(* A step of the page alone leaves the backend as it was.                    *)
LEMMA QuietKeepsSystem ==
  ASSUME SystemInv, UNCHANGED systemVars
  PROVE  SystemInv'
  BY NextKeepsSystem

OthersShow(b) == \A a \in Browsers \ {b} :
  page'[a] = page[a] /\ shown'[a] = shown[a] /\ asked'[a] = asked[a]

(* A page that opens shows a revision the backend offers.                    *)
LEMMA OpenKeepsForm ==
  ASSUME WorkbenchInv, NEW b \in Browsers, OpenReview(b)
  PROVE  WorkbenchInv'
<1> USE DEF WorkbenchInv, WorkbenchTypeOK
<1>0. PICK j \in ListReviewQueue : \E c \in Reviewable(j) :
        shown' = [shown EXCEPT ![b] = [job |-> j, revision |-> c.id]]
  BY DEF OpenReview
<1>1. PICK c \in Reviewable(j) : shown' = [shown EXCEPT ![b] = [job |-> j, revision |-> c.id]]
  BY <1>0
<1> DEFINE m == [job |-> j, revision |-> c.id]
<1>2. /\ page' = [page EXCEPT ![b] = "review"] /\ asked' = asked /\ UNCHANGED systemVars
  BY DEF OpenReview, Turn
<1>3. /\ c \in circuits /\ JobOf(c.id) = j /\ j \in Jobs /\ c.id \in Jobs \X Nat
  BY DEF ListReviewQueue, Reviewable, LatestPairs, CircuitsOf, SystemInv, TypeOK, StoreTypeOK,
     Revisions, RevisionIds
<1>4. m \in [job : Jobs, revision : Jobs \X Nat] /\ m.job = j /\ m.revision = c.id
  BY <1>3
<1> HIDE DEF m
<1>5. shown' = [shown EXCEPT ![b] = m]
  BY <1>1 DEF m
<1>6. SystemInv' /\ SystemTypeOK'
  BY <1>2, QuietKeepsSystem DEF SystemInv, SystemTypeOK
<1>7. WorkbenchTypeOK'
  BY <1>2, <1>4, <1>5, <1>6 DEF Pages
<1>8. Offered(j, c.id)
  BY <1>3 DEF Offered, SystemInv, CircuitInv, RowsOwned, CircuitsOf, ClaimInv, ReleasedLate
<1>9. WasOffered(b)' /\ AsksForForm(b)' /\ (page'[b] = "stale" => Past(shown[b].revision)')
  <2>1. UNCHANGED <<jobs, circuits, upc>> /\ page'[b] = "review" /\ shown'[b] = m
    BY <1>2, <1>5 DEF systemVars, vars, store, uploadVars
  <2> QED
    BY <1>4, <1>8, <2>1 DEF WasOffered, AsksForForm, Offered
<1>10. \A a \in Browsers \ {b} :
         WasOffered(a)' /\ AsksForForm(a)' /\ (page'[a] = "stale" => Past(shown[a].revision)')
  BY <1>2, <1>5, QuietKeepsForm
<1> QED
  BY <1>6, <1>7, <1>9, <1>10 DEF FormInv

(* An answer that is shown or lost leaves the form true.                     *)
LEMMA PageKeepsForm ==
  ASSUME WorkbenchInv, NEW b \in Browsers, FailBeforeRequest(b) \/ ShowAnswer(b) \/ LoseAnswer(b)
  PROVE  WorkbenchInv'
<1> USE DEF WorkbenchInv, WorkbenchTypeOK
<1>1. PICK p : /\ page' = [page EXCEPT ![b] = p]
               /\ \/ p = "error"
                  \/ /\ page[b] = "submitting"
                     /\ p = PageAfter(asked[b])
               /\ asked' = asked \/ asked' = [asked EXCEPT ![b] = "none"]
               /\ shown' = shown /\ UNCHANGED systemVars
               /\ page[b] # "queue"
  BY DEF FailBeforeRequest, ShowAnswer, LoseAnswer, Turn
<1>2. p \in {"error", "approved", "rejected", "stale"}
  BY <1>1 DEF PageAfter, Success
<1>3. SystemInv' /\ SystemTypeOK'
  BY <1>1, QuietKeepsSystem DEF SystemInv, SystemTypeOK
<1>4. WorkbenchTypeOK'
  BY <1>1, <1>2, <1>3 DEF Pages, Banners
<1>5. UNCHANGED <<jobs, circuits, upc, decisions>>
  BY <1>1 DEF systemVars, vars, store, uploadVars
<1>6. WasOffered(b)' /\ AsksForForm(b)'
  <2>1. WasOffered(b) /\ page'[b] = p
    BY <1>1 DEF FormInv
  <2> QED
    BY <1>1, <1>2, <1>5, <2>1 DEF WasOffered, AsksForForm, Offered
<1>7. page'[b] = "stale" => Past(shown[b].revision)'
  <2> SUFFICES ASSUME p = "stale" PROVE Past(shown[b].revision)
    BY <1>1, <1>5 DEF Past, JobOf
  <2>1. page[b] = "submitting" /\ answer[asked[b]] = "conflict"
    BY <1>1 DEF PageAfter, Success
  <2> QED
    BY <2>1 DEF FormInv, AsksForForm
<1>8. \A a \in Browsers \ {b} :
        WasOffered(a)' /\ AsksForForm(a)' /\ (page'[a] = "stale" => Past(shown[a].revision)')
  BY <1>1, QuietKeepsForm
<1> QED
  BY <1>3, <1>4, <1>6, <1>7, <1>8 DEF FormInv

(* A form is sent as it is shown.                                            *)
LEMMA SubmitKeepsForm ==
  ASSUME WorkbenchInv, NEW b \in Browsers, SubmitForm(b)
  PROVE  WorkbenchInv'
<1> USE DEF WorkbenchInv, WorkbenchTypeOK
<1>1. PICK r \in Reviewers, c \in FormCommands :
        /\ Submit(r, shown[b].job, shown[b].revision, c)
        /\ asked' = [asked EXCEPT ![b] = r]
  BY DEF SubmitForm
<1> DEFINE j == shown[b].job
           v == shown[b].revision
<1>2. /\ page' = [page EXCEPT ![b] = "submitting"] /\ shown' = shown
      /\ UNCHANGED <<uploadVars, workerVars>> /\ page[b] \in {"review", "error"}
  BY DEF SubmitForm, Turn, HasForm
<1>3. WasOffered(b) /\ j \in Jobs /\ v \in Jobs \X Nat
  BY <1>2 DEF FormInv, WasOffered
<1>4. ReviewStep(r) /\ OpenNext
  <2>1. c \in Commands
    BY DEF FormCommands
  <2>2. SubmitSome(r)
    BY <1>1, <1>3, <2>1 DEF SubmitSome
  <2> QED
    BY <1>2, <2>2 DEF ReviewStep, OpenNext
<1>5. SystemInv' /\ SystemTypeOK'
  BY <1>4, NextKeepsSystem DEF SystemInv, SystemTypeOK
<1>6. WorkbenchTypeOK'
  BY <1>1, <1>2, <1>5 DEF Pages
<1>7. UNCHANGED <<jobs, circuits, upc, decisions>>
  BY <1>1, <1>2 DEF Submit, store, uploadVars
<1>8. WasOffered(b)'
  BY <1>2, <1>3, <1>7 DEF WasOffered, Offered
<1>9. AsksForForm(b)'
  <2>1. /\ rpc[r] = "idle" /\ rpc'[r] # "idle"
        /\ answer'[r] # "badRequest" => req'[r].job = j /\ req'[r].revision = v
        /\ answer'[r] # "conflict"
    <3>1. AsksFirst(r)
      BY DEF SystemInv, ReviewInv
    <3>2. CASE Wellformed(c)
      <4>1. /\ rpc[r] = "idle" /\ Goto(r, "getDecision")
            /\ req' = [req EXCEPT ![r] = [job |-> j, revision |-> v, kind |-> c.kind, spec |-> c.spec]]
        BY <1>1, <3>2 DEF Submit
      <4> QED
        BY <3>1, <4>1, GotoEffect DEF SystemInv, ReviewTypeOK, AsksFirst
    <3>3. CASE ~Wellformed(c)
      BY <1>1, <3>3, AnswerEffect DEF SystemInv, Submit
    <3> QED
      BY <3>2, <3>3
  <2> QED
    BY <1>1, <1>2, <2>1 DEF AsksForForm
<1>10. \A a \in Browsers \ {b} :
         WasOffered(a)' /\ AsksForForm(a)' /\ (page'[a] = "stale" => Past(shown[a].revision)')
  BY <1>1, <1>2, <1>4, BackendKeepsForm
<1> QED
  BY <1>2, <1>5, <1>6, <1>8, <1>9, <1>10 DEF FormInv, Past, JobOf

(* A form that is sent is a step of the backend.                             *)
LEMMA SubmitIsStep ==
  ASSUME WorkbenchInv, NEW b \in Browsers, SubmitForm(b)
  PROVE  /\ OpenNext /\ page' = [page EXCEPT ![b] = "submitting"] /\ shown' = shown
         /\ \E r \in Reviewers : ReviewStep(r)
         /\ decisions' = decisions
<1>1. PICK r \in Reviewers, c \in FormCommands : Submit(r, shown[b].job, shown[b].revision, c)
  BY DEF SubmitForm
<1>2. /\ page' = [page EXCEPT ![b] = "submitting"] /\ shown' = shown
      /\ UNCHANGED <<uploadVars, workerVars>> /\ page[b] # "queue"
  BY DEF SubmitForm, Turn, HasForm
<1>3. shown[b].job \in Jobs /\ shown[b].revision \in Jobs \X Nat
  BY <1>2 DEF WorkbenchInv, FormInv, WasOffered
<1>4. ReviewStep(r) /\ OpenNext
  BY <1>1, <1>2, <1>3 DEF FormCommands, SubmitSome, ReviewStep, OpenNext
<1> QED
  BY <1>1, <1>2, <1>4 DEF Submit, store

(* A step of the backend changes no page.                                    *)
LEMMA BackendIsStep ==
  ASSUME BackendStep
  PROVE  OpenNext /\ UNCHANGED pageVars
  BY DEF BackendStep, OpenNext, ReviewStep

(* The backend keeps what holds of the pages.                                *)
LEMMA BackendKeepsWorkbench ==
  ASSUME WorkbenchInv, BackendStep
  PROVE  WorkbenchInv'
<1>1. UNCHANGED <<page, shown, asked>>
  BY BackendIsStep DEF pageVars
<1>2. SystemInv'
  BY BackendIsStep, NextKeepsSystem DEF WorkbenchInv
<1>3. WorkbenchTypeOK'
  BY <1>1, <1>2 DEF WorkbenchInv, WorkbenchTypeOK, SystemInv, SystemTypeOK
<1>4. FormInv'
  <2>1. \A b \in Browsers :
          WasOffered(b)' /\ AsksForForm(b)' /\ (page'[b] = "stale" => Past(shown[b].revision)')
    BY <1>1, BackendIsStep, BackendKeepsForm
  <2> QED
    BY <1>1, <2>1 DEF FormInv, Past, JobOf
<1> QED
  BY <1>2, <1>3, <1>4 DEF WorkbenchInv

(* The invariant holds before any page is open.                              *)
LEMMA InitWorkbench == WorkbenchInit => WorkbenchInv
<1> SUFFICES ASSUME WorkbenchInit PROVE WorkbenchInv
  OBVIOUS
<1>1. SystemInv
  BY InitSystem DEF WorkbenchInit
<1>2. WorkbenchTypeOK
  BY <1>1 DEF WorkbenchInit, WorkbenchTypeOK, SystemInv, SystemTypeOK, Pages
<1>3. FormInv
  BY DEF WorkbenchInit, FormInv, WasOffered, AsksForForm
<1> QED
  BY <1>1, <1>2, <1>3 DEF WorkbenchInv

(* Every step of a page and of the backend keeps it.                         *)
LEMMA NextKeepsWorkbench == WorkbenchInv /\ [WorkbenchNext]_workbenchVars => WorkbenchInv'
<1> SUFFICES ASSUME WorkbenchInv, [WorkbenchNext]_workbenchVars PROVE WorkbenchInv'
  OBVIOUS
<1>1. CASE UNCHANGED workbenchVars
  <2>1. UNCHANGED systemVars /\ UNCHANGED <<page, shown, asked>>
    BY <1>1 DEF workbenchVars, pageVars
  <2>2. SystemInv' /\ WorkbenchTypeOK'
    BY <2>1, QuietKeepsSystem DEF WorkbenchInv, WorkbenchTypeOK, SystemInv, SystemTypeOK
  <2>3. \A b \in Browsers :
          WasOffered(b)' /\ AsksForForm(b)' /\ (page'[b] = "stale" => Past(shown[b].revision)')
    BY <2>1, QuietKeepsForm
  <2> QED
    BY <2>2, <2>3 DEF WorkbenchInv, FormInv
<1> QED
  BY <1>1, BackendKeepsWorkbench, OpenKeepsForm, SubmitKeepsForm, PageKeepsForm DEF WorkbenchNext

(* Whatever the browsers, the rivals and the backend do, a form is about a   *)
(* revision of its job, and a stale banner about one that is past.           *)
THEOREM WorkbenchInvariant == WorkbenchSpec => []WorkbenchInv
<1> QED
  BY InitWorkbench, NextKeepsWorkbench, PTL DEF WorkbenchSpec

(* The backend's types, and those of what the browsers show and wait for.    *)
THEOREM WorkbenchTypes == WorkbenchSpec => []WorkbenchTypeOK
<1>1. WorkbenchInv => WorkbenchTypeOK
  BY DEF WorkbenchInv
<1> QED
  BY <1>1, WorkbenchInvariant, PTL

(* Nobody who is told that a review is stale would find that revision in the *)
(* queue: requestJSON's 409 means that it was decided or deleted.            *)
THEOREM StaleBanners == WorkbenchSpec => []StaleIsResolved
<1>1. WorkbenchInv => StaleIsResolved
  <2> SUFFICES ASSUME WorkbenchInv, NEW b \in Browsers, page[b] = "stale"
               PROVE  Reviewable(shown[b].job) = {}
    BY DEF StaleIsResolved
  <2>1. /\ shown[b].job \in Jobs /\ JobOf(shown[b].revision) = shown[b].job
        /\ Past(shown[b].revision)
    BY DEF WorkbenchInv, FormInv, WasOffered, Offered
  <2> QED
    BY <2>1, PastNotReviewable DEF WorkbenchInv
<1> QED
  BY <1>1, WorkbenchInvariant, PTL

-----------------------------------------------------------------------------
(* Below the pages, a step is one of the backend or none.                    *)
LEMMA StepIsOpen ==
  ASSUME WorkbenchInv, [WorkbenchNext]_workbenchVars
  PROVE  [OpenNext]_systemVars
<1>1. CASE BackendStep
  BY <1>1, BackendIsStep
<1>2. ASSUME NEW b \in Browsers, SubmitForm(b) PROVE OpenNext
  BY <1>2, SubmitIsStep
<1>3. ASSUME NEW b \in Browsers,
             OpenReview(b) \/ FailBeforeRequest(b) \/ ShowAnswer(b) \/ LoseAnswer(b)
      PROVE  UNCHANGED systemVars
  BY <1>3 DEF OpenReview, FailBeforeRequest, ShowAnswer, LoseAnswer
<1>4. CASE UNCHANGED workbenchVars
  BY <1>4 DEF workbenchVars
<1> QED
  BY <1>1, <1>2, <1>3, <1>4 DEF WorkbenchNext

(* The backend below the pages is the one whose clients name any revision:   *)
(* a page asks for the one it shows, which may have been deleted since.      *)
LEMMA WorkbenchIsOpen == WorkbenchSpec => OpenSpec
<1>1. WorkbenchInit => SystemInit
  BY DEF WorkbenchInit
<1>2. WorkbenchInv /\ [WorkbenchNext]_workbenchVars => [OpenNext]_systemVars
  BY StepIsOpen
<1> QED
  BY <1>1, <1>2, WorkbenchInvariant, PTL DEF WorkbenchSpec, OpenSpec

(* So with the pages on top, too, a job is extracted once at most and from a *)
(* whole image, its status follows the path, and it is claimed as the ledger *)
(* of claims says.                                                           *)
THEOREM WorkbenchPipeline ==
  WorkbenchSpec => /\ [](OneExtractor /\ PayloadReleased /\ ReadsWholeImage /\ StatusJustified)
                   /\ [][BackendMoves]_systemVars
                   /\ ImplementsClaimLedger
<1>1. OpenSpec => [](OneExtractor /\ PayloadReleased /\ ReadsWholeImage /\ StatusJustified)
  BY OpenPipeline, PTL
<1> QED
  BY <1>1, WorkbenchIsOpen, OpenJobPath, OpenClaimRefinement, PTL

(* The decisions the pages lead to are right: one per job, only while it     *)
(* waits for one, and in agreement with what polling reports.                *)
THEOREM WorkbenchDecisions ==
  WorkbenchSpec => [](ReviewInv /\ JobAgreesWithLatest) /\ OnlyPendingDecided
<1>1. SystemInv => ReviewInv /\ JobAgreesWithLatest
  BY StatusOfLatest DEF SystemInv
<1> QED
  BY <1>1, WorkbenchIsOpen, OpenInvariant, OpenPending, PTL

(* Where commits are always answered the pages use the ledger of reviews,    *)
(* and every revision they could show has its rows and objects.              *)
THEOREM WorkbenchRefinement ==
  ASSUME AnswersCommit
  PROVE  WorkbenchSpec => ImplementsReviewLedger /\ []RowsBacked
<1>1. OwnSuccessors /\ ArtifactInv => RowsBacked
  BY DEF ArtifactInv
<1> QED
  BY <1>1, WorkbenchIsOpen, OpenReviewRefinement, SuccessorsKept, PTL

(* Nor do the pages bring back a job whose upload failed for a client that   *)
(* waited for the answer, unless a decision kept it from being deleted.      *)
THEOREM WorkbenchFailedUploads ==
  ASSUME UndoWorks
  PROVE  WorkbenchSpec => []UndoneOrContested
  BY WorkbenchIsOpen, OpenFailedUploads, PTL

-----------------------------------------------------------------------------
(* A decision that was saved stays, unless its job is taken back by the      *)
(* handler of its own upload.                                                *)
Saved(v, kind) == \/ \E d \in decisions : d.reviewed = v /\ d.kind = kind
                  \/ jobs[JobOf(v)] = "none" /\ upc[JobOf(v)] \in Over

(* No step of the backend undoes that.                                       *)
LEMMA SavedStays ==
  ASSUME SystemInv, OpenNext, NEW v, NEW kind, JobOf(v) \in Jobs, Saved(v, kind)
  PROVE  Saved(v, kind)'
<1>1. CASE \E r \in Reviewers : ReviewStep(r)
  BY <1>1, RequestHistory DEF Saved, JobOf
<1>2. CASE \E w \in Workers : WorkerPart(w)
  BY <1>2, WorkerHistory DEF Saved, JobOf
<1>3. ASSUME NEW j \in Jobs, UploadPart(j) PROVE Saved(v, kind)'
  <2>1. PICK k \in Jobs : k = JobOf(v)
    OBVIOUS
  <2>2. HandlerEffect(j) /\ (upc[j] \in Over => upc'[j] \in Over)
    BY <1>3, HandlerHasEffect, HandlerEnds DEF UploadPart, SystemInv
  <2>3. CASE jobs[k] = "none" /\ upc[k] \in Over
    <3>1. upc'[k] \in Over /\ jobs'[k] = "none"
      BY <1>3, <2>1, <2>2, <2>3, HandlerHistory DEF HandlerEffect, Over, NotYetCreated
    <3> QED
      BY <2>1, <3>1 DEF Saved, JobOf
  <2>4. CASE ~(jobs[k] = "none" /\ upc[k] \in Over)
    <3>1. PICK d \in decisions : d.reviewed = v /\ d.kind = kind
      BY <2>1, <2>4 DEF Saved
    <3>2. CASE d \notin decisions'
      <4>1. k = j /\ jobs'[j] = "none"
        BY <1>3, <2>1, <3>1, <3>2, HandlerHistory
      <4>2. jobs[j] # "none"
        BY <2>1, <3>1, <4>1 DEF SystemInv, ReviewInv, DecisionMatchesState, Final
      <4>3. upc'[j] \in Over
        BY <2>2, <4>1, <4>2 DEF HandlerEffect, Over
      <4> QED
        BY <2>1, <4>1, <4>3 DEF Saved, JobOf
    <3> QED
      BY <3>1, <3>2 DEF Saved
  <2> QED
    BY <2>3, <2>4
<1>4. ASSUME NEW j \in Jobs, DeleteAborted(j) PROVE Saved(v, kind)'
  BY <1>4, AbortedHistory DEF Saved, JobOf, Over
<1> QED
  BY <1>1, <1>2, <1>3, <1>4 DEF OpenNext

(* What a success banner is worth whatever fails.                            *)
BannerKind(b) == IF page[b] = "approved" THEN "approve" ELSE "reject"
BannerIsHonest == \A b \in Browsers : page[b] \in {"approved", "rejected"} =>
  Saved(shown[b].revision, BannerKind(b))

(* A banner is the page after an answer, or was there before.                *)
LEMMA BannerSteps ==
  ASSUME WorkbenchInv, [WorkbenchNext]_workbenchVars,
         NEW b \in Browsers, page'[b] \in {"approved", "rejected"}
  PROVE  ShowAnswer(b) \/ (page'[b] = page[b] /\ shown'[b] = shown[b])
<1> USE DEF WorkbenchInv, WorkbenchTypeOK
<1>1. CASE BackendStep \/ UNCHANGED workbenchVars
  BY <1>1, BackendIsStep DEF pageVars, workbenchVars
<1>2. ASSUME NEW a \in Browsers, SubmitForm(a) PROVE page'[b] = page[b] /\ shown'[b] = shown[b]
  BY <1>2, SubmitIsStep
<1>3. ASSUME NEW a \in Browsers, OpenReview(a) PROVE page'[b] = page[b] /\ shown'[b] = shown[b]
  <2>1. /\ page' = [page EXCEPT ![a] = "review"]
        /\ \A x \in Browsers \ {a} : shown'[x] = shown[x]
    BY <1>3 DEF OpenReview, Turn
  <2> QED
    BY <2>1
<1>4. ASSUME NEW a \in Browsers, FailBeforeRequest(a) \/ LoseAnswer(a)
      PROVE  page'[b] = page[b] /\ shown'[b] = shown[b]
  BY <1>4 DEF FailBeforeRequest, LoseAnswer, Turn
<1>5. ASSUME NEW a \in Browsers, ShowAnswer(a), a # b
      PROVE  page'[b] = page[b] /\ shown'[b] = shown[b]
  BY <1>5 DEF ShowAnswer, Turn
<1> QED
  BY <1>1, <1>2, <1>3, <1>4, <1>5 DEF WorkbenchNext

(* A success banner follows the answer ok to the request of its form.        *)
LEMMA ShownAnswer ==
  ASSUME WorkbenchInv, NEW b \in Browsers, ShowAnswer(b), page'[b] \in {"approved", "rejected"}
  PROVE  /\ asked[b] \in Reviewers /\ answer[asked[b]] = "ok"
         /\ req[asked[b]].job = shown[b].job /\ req[asked[b]].revision = shown[b].revision
         /\ JobOf(shown[b].revision) = shown[b].job
         /\ req[asked[b]].kind = BannerKind(b)'
<1>1. page[b] = "submitting" /\ page'[b] = PageAfter(asked[b])
  BY DEF ShowAnswer, Turn, WorkbenchInv, WorkbenchTypeOK
<1>2. /\ asked[b] \in Reviewers
      /\ answer[asked[b]] # "badRequest" =>
           req[asked[b]].job = shown[b].job /\ req[asked[b]].revision = shown[b].revision
      /\ JobOf(shown[b].revision) = shown[b].job
  BY <1>1 DEF WorkbenchInv, FormInv, AsksForForm, WasOffered, Offered
<1>3. /\ answer[asked[b]] = "ok"
      /\ page'[b] = IF req[asked[b]].kind = "approve" THEN "approved" ELSE "rejected"
  BY <1>1 DEF PageAfter, Success
<1>4. req[asked[b]].kind \in {"approve", "reject"}
  BY <1>2, <1>3 DEF WorkbenchInv, SystemInv, ReviewInv, AsksFirst, SentRequests
<1> QED
  BY <1>2, <1>3, <1>4 DEF BannerKind

(* A success banner was earned: the decision of that kind on the revision    *)
(* the form showed is on record, unless the handler of the image's own       *)
(* upload has taken the whole job back, which its push being answered with   *)
(* an error although it took effect makes possible.                          *)
THEOREM HonestBanners == WorkbenchSpec => []BannerIsHonest
<1>1. WorkbenchInit => BannerIsHonest
  BY DEF WorkbenchInit, BannerIsHonest
<1>2. WorkbenchInv /\ BannerIsHonest /\ [WorkbenchNext]_workbenchVars => BannerIsHonest'
  <2> SUFFICES ASSUME WorkbenchInv, BannerIsHonest, [WorkbenchNext]_workbenchVars,
                      NEW b \in Browsers, page'[b] \in {"approved", "rejected"}
               PROVE  Saved(shown[b].revision, BannerKind(b))'
    BY DEF BannerIsHonest
  <2>1. [OpenNext]_systemVars
    BY StepIsOpen
  <2>2. CASE page'[b] = page[b] /\ shown'[b] = shown[b]
    <3>1. Saved(shown[b].revision, BannerKind(b)) /\ JobOf(shown[b].revision) \in Jobs
      BY <2>2 DEF BannerIsHonest, WorkbenchInv, FormInv, WasOffered, Offered
    <3>2. PICK v, kind : v = shown[b].revision /\ kind = BannerKind(b)
      OBVIOUS
    <3>3. v = shown'[b].revision /\ kind = BannerKind(b)'
      BY <2>2, <3>2 DEF BannerKind
    <3>4. Saved(v, kind)'
      <4>1. CASE OpenNext
        BY <3>1, <3>2, <4>1, SavedStays DEF WorkbenchInv
      <4>2. CASE UNCHANGED systemVars
        BY <3>1, <3>2, <4>2 DEF systemVars, vars, store, uploadVars, Saved, JobOf
      <4> QED
        BY <2>1, <4>1, <4>2
    <3> QED
      BY <3>3, <3>4 DEF Saved, JobOf
  <2>3. CASE ShowAnswer(b)
    <3>1. Saved(shown[b].revision, BannerKind(b)')
      BY <2>3, ShownAnswer DEF WorkbenchInv, SystemInv, ReviewInv, AnsweredIsSaved, Saved, Over
    <3>2. shown' = shown /\ UNCHANGED <<decisions, jobs, upc>>
      BY <2>3 DEF ShowAnswer, systemVars, vars, store, uploadVars
    <3> QED
      BY <3>1, <3>2 DEF Saved, JobOf
  <2> QED
    BY <2>2, <2>3, BannerSteps
<1> QED
  BY <1>1, <1>2, WorkbenchInvariant, PTL DEF WorkbenchSpec

-----------------------------------------------------------------------------
(* The push of a payload is never answered with an error after it took       *)
(* effect.  Otherwise the handler takes the job back while it is extracted   *)
(* and decided, and the banner outlives the decision.                        *)
PushAnswered == "lost" \notin Faults["enqueue"]
Unpushed == {"idle"} \cup UploadCalls

(* A handler has pushed its payload when it is done, and never before.       *)
LEMMA PushEndsHandler ==
  ASSUME PushAnswered, TypeOK, NEW j \in Jobs, UploadAction(j), upc'[j] \in Unpushed
  PROVE  upc[j] \in Unpushed /\ Queued' = Queued
<1> USE DEF TypeOK, StoreTypeOK, UploadsTypeOK, Unpushed, UploadCalls, store, rows
<1>1. CASE Enqueue(j)
  <2>1. PICK o \in RequestOutcomes(j) :
          /\ queue' = IF o = "error" THEN queue
                      ELSE IF o = "duplicate" THEN Append(Append(queue, j), j)
                      ELSE Append(queue, j)
          /\ Return(j, Succeeds(o, TRUE))
    BY <1>1 DEF Enqueue
  <2>2. upc[j] = "enqueue"
    BY <1>1 DEF Enqueue
  <2>3. o \in {"ok", "error", "duplicate"}
    <3>1. Faults["enqueue"] \subseteq {"error", "lost", "duplicate"}
      BY FaultsAssumption DEF Calls, FaultsOf
    <3> QED
      BY <2>1, <2>2, <3>1 DEF RequestOutcomes, Outcomes, PushAnswered
  <2>4. Succeeds(o, TRUE) => upc'[j] = "done"
    BY <2>1, <2>2 DEF Return, Then
  <2>5. o = "error"
    BY <2>3, <2>4 DEF Succeeds
  <2> QED
    BY <2>1, <2>2, <2>5, SameQueue
<1>2. CASE Disconnect(j)
  BY <1>2, SameQueue DEF Disconnect
<1>3. CASE CrashApi(j)
  BY <1>3 DEF CrashApi
<1>4. CASE Receive(j)
  BY <1>4, SameQueue DEF Receive
<1>5. CASE ~(Enqueue(j) \/ Disconnect(j) \/ CrashApi(j) \/ Receive(j))
  <2>1. queue' = queue /\ upc[j] \in UploadCalls
    BY <1>5 DEF UploadAction, UploadNext, UploadCall, CreateUpload, CreateJob, PutSource,
       MarkUploaded, ToUploaded, ToQueued, Transition, UndoObject, UndoJob, UndoUpload
  <2> QED
    BY <2>1, SameQueue
<1> QED
  BY <1>1, <1>2, <1>3, <1>4, <1>5

(* Where every push is answered, a failed upload has released no job.        *)
LEMMA StepKeepsUnreleased ==
  ASSUME PushAnswered, SystemInv, NotReleased, OpenNext
  PROVE  NotReleased'
<1> USE DEF SystemInv, NotReleased
<1>1. ASSUME NEW j \in Jobs, UploadPart(j) PROVE NotReleased'
  <2>1. UploadAction(j) /\ HandlerEffect(j) /\ wjob' = wjob
    BY <1>1, HandlerHasEffect DEF UploadPart, UploadAction, workerVars
  <2>2. ASSUME NEW k \in Jobs, upc'[k] \in Unpushed
        PROVE  Unreleased(k)' /\ jobs'[k] \notin {"extracting"} \cup Settled
    <3>1. CASE k # j
      BY <2>1, <2>2, <3>1 DEF HandlerEffect, Unreleased, Unpushed
    <3>2. CASE k = j
      <4>1. upc[j] \in Unpushed /\ Queued' = Queued
        BY <2>1, <2>2, <3>2, PushEndsHandler
      <4>2. jobs'[j] \in {jobs[j], "created", "uploaded", "queued", "none"}
        BY <2>1 DEF HandlerEffect
      <4> QED
        BY <2>1, <3>2, <4>1, <4>2 DEF Unreleased, Unpushed, Settled
    <3> QED
      BY <3>1, <3>2
  <2> QED
    BY <2>2 DEF Unpushed
<1>2. ASSUME NEW w \in Workers, WorkerPart(w) PROVE NotReleased'
  <2>1. WorkerEffect(w)
    BY <1>2, WorkerHasEffect DEF WorkerPart, ClaimInv
  <2>2. ASSUME NEW k \in Jobs, Unreleased(k) PROVE jobs'[k] = jobs[k] /\ Unreleased(k)'
    BY <2>1, <2>2, WorkerAssumption DEF WorkerEffect, Unreleased
  <2> QED
    BY <2>1, <2>2 DEF WorkerEffect
<1>3. ASSUME NEW r \in Reviewers, ReviewStep(r) PROVE NotReleased'
  <2>1. RequestEffect(r) /\ upc' = upc /\ wjob' = wjob
    BY <1>3, RequestHasEffect DEF TypeOK, ReviewStep, uploadVars, workerVars
  <2>2. Queued' = Queued
    <3>1. queue' = queue
      BY <2>1 DEF RequestEffect, Asks, Refused, GoesOn, Reads, Writes, Drops, Dies, SameRow, store
    <3> QED
      BY <3>1, SameQueue
  <2>3. CASE Writes(r)
    <3>1. PICK j : j = req[r].job
      OBVIOUS
    <3>2. AboutToDecide(r, j) /\ WriteEffect(r, j)
      BY <2>3, <3>1, WriteHasEffect
    <3>3. upc[j] \notin Unpushed
      BY <3>2 DEF AboutToDecide, Settled, Unpushed
    <3> QED
      BY <2>1, <2>2, <3>2, <3>3 DEF WriteEffect, Unreleased, Unpushed
  <2>4. CASE ~Writes(r)
    <3>1. jobs' = jobs
      BY <2>1, <2>4 DEF RequestEffect, Asks, Refused, GoesOn, Reads, Drops, Dies, SameRow, store, rows
    <3> QED
      BY <2>1, <2>2, <3>1 DEF Unreleased
  <2> QED
    BY <2>3, <2>4
<1>4. ASSUME NEW j \in Jobs, DeleteAborted(j) PROVE FALSE
  BY <1>4, AbortedDelete DEF Deletes, Settled, UploadCalls
<1> QED
  BY <1>1, <1>2, <1>3, <1>4 DEF OpenNext

(* So a job that was decided is never taken back, nor is its decision.       *)
LEMMA DecisionsStay ==
  ASSUME SystemInv, NotReleased, OpenNext
  PROVE  decisions \subseteq decisions'
<1>1. ASSUME NEW j \in Jobs, UploadPart(j), NEW d \in decisions PROVE d \in decisions'
  <2>1. HandlerEffect(j) /\ (d \in decisions' \/ (JobOf(d.reviewed) = j /\ jobs'[j] = "none"))
    BY <1>1, HandlerHasEffect, HandlerHistory DEF UploadPart, SystemInv
  <2>2. JobOf(d.reviewed) = j => jobs[j] \in {"ready", "failed"}
    BY DEF SystemInv, ReviewInv, DecisionMatchesState, Final
  <2>3. jobs[j] \in {"ready", "failed"} => upc[j] \notin {"undoJob", "undoUpload"}
    BY DEF NotReleased, Settled, UploadCalls
  <2> QED
    BY <2>1, <2>2, <2>3 DEF HandlerEffect
<1> QED
  BY <1>1, WorkerHistory, RequestHistory, AbortedHistory DEF OpenNext

(* What a page calls saved stays in the rows.                                *)
LEMMA StepKeepsSaved ==
  ASSUME SystemInv, NotReleased, SavedIsThere, OpenNext
  PROVE  SavedIsThere'
<1> SUFFICES ASSUME NEW s \in Reviewers, answer'[s] = "ok"
             PROVE  \E d \in decisions' : d.reviewed = req'[s].revision /\ d.kind = req'[s].kind
  BY DEF SavedIsThere
<1>1. CASE answer[s] = "ok"
  <2>1. rpc[s] # "idle"
    BY <1>1 DEF SystemInv, ReviewInv, AsksFirst
  <2>2. req'[s] = req[s]
    BY <2>1, AnswerStays
  <2> QED
    BY <1>1, <2>2, DecisionsStay DEF SavedIsThere
<1>2. CASE answer[s] # "ok"
  <2>1. PICK r \in Reviewers : ReviewStep(r)
    <3>1. answer' # answer
      BY <1>2
    <3> QED
      BY <3>1, RequestMoves, AbortedDelete DEF reviewVars, SystemInv
  <2>2. RequestEffect(r)
    BY <2>1, RequestHasEffect DEF SystemInv, TypeOK
  <2>3. s = r /\ Writes(r)
    BY <1>2, <2>2 DEF RequestEffect, OthersWait, Asks, Refused, GoesOn, Reads, Drops, Dies, Failures
  <2>4. PICK j : j = req[r].job
    OBVIOUS
  <2>5. AboutToDecide(r, j) /\ WriteEffect(r, j) /\ req' = req
    BY <2>3, <2>4, WriteHasEffect DEF Writes, SameRequest
  <2>6. /\ NewDecision(r) \in decisions' /\ NewDecision(r).kind = req[r].kind
        /\ NewDecision(r).reviewed = req[r].revision
    BY <2>5 DEF AboutToDecide, WriteEffect, NewDecision
  <2> QED
    BY <2>3, <2>5, <2>6
<1> QED
  BY <1>1, <1>2

(* What the banner of a browser rests on.                                    *)
BannerInv == NotReleased /\ SavedIsThere /\ BannerIsSaved

(* Every step of a page and of the backend keeps the banners true.           *)
LEMMA NextKeepsBanners ==
  ASSUME PushAnswered, WorkbenchInv, BannerInv, [WorkbenchNext]_workbenchVars
  PROVE  BannerInv'
<1> USE DEF WorkbenchInv, BannerInv
<1>1. [OpenNext]_systemVars
  BY StepIsOpen
<1>2. NotReleased' /\ SavedIsThere' /\ decisions \subseteq decisions'
  <2>1. CASE OpenNext
    BY <2>1, StepKeepsUnreleased, StepKeepsSaved, DecisionsStay
  <2>2. CASE UNCHANGED systemVars
    <3>1. UNCHANGED <<jobs, decisions, queue, upc, wjob, req, answer>>
      BY <2>2 DEF systemVars, vars, store, uploadVars, workerVars, reviewVars
    <3> QED
      BY <3>1, SameQueue DEF NotReleased, Unreleased, SavedIsThere
  <2> QED
    BY <1>1, <2>1, <2>2
<1>3. BannerIsSaved'
  <2> SUFFICES ASSUME NEW b \in Browsers, page'[b] \in {"approved", "rejected"}
               PROVE  \E d \in decisions' : /\ d.reviewed = shown'[b].revision
                                            /\ d.kind = BannerKind(b)'
    BY DEF BannerIsSaved, BannerKind
  <2>1. CASE page'[b] = page[b] /\ shown'[b] = shown[b]
    BY <1>2, <2>1 DEF BannerIsSaved, BannerKind
  <2>2. CASE ShowAnswer(b)
    BY <1>2, <2>2, ShownAnswer DEF SavedIsThere, ShowAnswer
  <2> QED
    BY <2>1, <2>2, BannerSteps
<1> QED
  BY <1>2, <1>3

(* A success banner is about a decision on record, of that kind, on the      *)
(* revision the form showed: what the server action was told, the            *)
(* transaction has committed, and no compensation undoes it.                 *)
THEOREM SavedBanners ==
  ASSUME PushAnswered
  PROVE  WorkbenchSpec => []BannerIsSaved
<1>1. WorkbenchInit => BannerInv
  BY WorkerAssumption DEF WorkbenchInit, SystemInit, Init, StoreInit, WorkerInit, ReviewInit, BannerInv, NotReleased,
     Unreleased, Queued, Settled, SavedIsThere, BannerIsSaved
<1>2. WorkbenchInv /\ BannerInv /\ [WorkbenchNext]_workbenchVars => BannerInv'
  BY NextKeepsBanners
<1>3. BannerInv => BannerIsSaved
  BY DEF BannerInv
<1> QED
  BY <1>1, <1>2, <1>3, WorkbenchInvariant, PTL DEF WorkbenchSpec
=============================================================================
