---------------------------- MODULE SystemProofs ----------------------------
(* Theorems about uploads, workers and reviewers together: for any jobs,     *)
(* workers and requests, any faults and any crashes.                         *)
EXTENDS System, RevisionProofs

(* A request, whatever its client knows of identifiers.                      *)
SubmitSome(r) == \E j \in Jobs, v \in Jobs \X Nat, c \in Commands : Submit(r, j, v, c)
ReviewStep(r) == /\ SubmitSome(r) \/ ReviewCall(r) \/ CrashReview(r) \/ DecisionAborted(r)
                 /\ UNCHANGED <<uploadVars, workerVars>>

(* The backend with such clients: what holds of it holds for every client    *)
(* that is composed with it, above all for the pages of the workbench.       *)
OpenNext == \/ \E j \in Jobs : UploadPart(j) \/ DeleteAborted(j)
            \/ \E w \in Workers : WorkerPart(w)
            \/ \E r \in Reviewers : ReviewStep(r)
OpenSpec == SystemInit /\ [][OpenNext]_systemVars

(* What a reviewer does to the whole system is a step of his request.        *)
LEMMA PartIsStep ==
  ASSUME StoreTypeOK, NEW r \in Reviewers, ReviewPart(r)
  PROVE  ReviewStep(r)
<1>1. SentRevisions \subseteq Jobs \X Nat
  BY DEF SentRevisions, StoreTypeOK, Revisions, RevisionIds
<1> QED
  BY <1>1 DEF ReviewPart, ReviewNext, SubmitAnything, ReviewStep, SubmitSome

-----------------------------------------------------------------------------
(* What a step of a request does, apart from the details of its call.        *)
Failures == {"badRequest", "notFound", "conflict", "serverError"}
Onwards == {<<"getDecision", "getReviewable">>, <<"putSuccessor", "ensure">>,
            <<"ensure", "writeRevision">>, <<"writeRevision", "moveJob">>,
            <<"moveJob", "insertDecision">>, <<"insertDecision", "commit">>}
SameRow == UNCHANGED <<rows, sources, queue>>
SameRequest(r) == req' = req /\ pair' = pair /\ rno' = rno

Asks(r) == /\ rpc[r] = "idle" /\ rpc'[r] = "getDecision" /\ req'[r] \in SentRequests
           /\ UNCHANGED <<store, answer, pair, rno>>
Refused(r) ==
  /\ rpc[r] \in {"idle"} \cup (ReviewCalls \ {"dropSuccessor"})
  /\ answer'[r] \in Failures
  /\ \/ rpc'[r] = "answered"
     \/ rpc'[r] = "dropSuccessor" /\ rpc[r] \in Deciding \ {"putSuccessor"} /\ Corrected(r)
  /\ SameRow /\ SameRequest(r) /\ drawn' = drawn /\ artifacts \subseteq artifacts'
GoesOn(r) ==
  /\ <<rpc[r], rpc'[r]>> \in Onwards
  /\ rpc[r] = "moveJob" => ~JobLocked(r) /\ jobs[req[r].job] = "needs_review"
  /\ rpc[r] = "putSuccessor" => <<"circuit", Successor(r)>> \in artifacts'
  /\ SameRow /\ SameRequest(r) /\ answer' = answer /\ drawn' = drawn
  /\ artifacts \subseteq artifacts'
Reads(r) ==
  /\ rpc[r] = "getReviewable"
  /\ pair'[r] \in Reviewable(req[r].job) /\ pair'[r].id = req[r].revision
  /\ \/ /\ Corrected(r) /\ rpc'[r] = "putSuccessor"
        /\ rno'[r] = drawn[req[r].job] + 1
        /\ drawn' = [drawn EXCEPT ![req[r].job] = @ + 1]
     \/ ~Corrected(r) /\ rpc'[r] = "ensure" /\ rno' = rno /\ drawn' = drawn
  /\ SameRow /\ req' = req /\ answer' = answer /\ artifacts' = artifacts
Writes(r) ==
  /\ rpc[r] = "commit" /\ Write(r)
  /\ \/ rpc'[r] = "answered" /\ answer'[r] = "ok"
     \/ /\ "lost" \in Faults["commit"] /\ answer'[r] = "serverError"
        /\ rpc'[r] = "answered" \/ (rpc'[r] = "dropSuccessor" /\ Corrected(r))
  /\ SameRequest(r) /\ UNCHANGED <<uploads, extractions, objects, queue, drawn>>
Drops(r) ==
  /\ rpc[r] = "dropSuccessor" /\ rpc'[r] = "answered"
  /\ artifacts \ {<<"circuit", Successor(r)>>} \subseteq artifacts'
  /\ artifacts' \subseteq artifacts
  /\ SameRow /\ SameRequest(r) /\ answer' = answer /\ drawn' = drawn
Dies(r) == /\ rpc[r] \in ReviewCalls /\ rpc'[r] = "crashed"
           /\ SameRequest(r) /\ UNCHANGED <<store, answer>>

OthersWait(r) == \A s \in Reviewers \ {r} :
  /\ rpc'[s] = rpc[s] /\ req'[s] = req[s] /\ pair'[s] = pair[s]
  /\ rno'[s] = rno[s] /\ answer'[s] = answer[s]
RequestEffect(r) ==
  /\ OthersWait(r)
  /\ Asks(r) \/ Refused(r) \/ GoesOn(r) \/ Reads(r) \/ Writes(r) \/ Drops(r) \/ Dies(r)

(* An answer is one of this request only.                                    *)
LEMMA AnswerEffect ==
  ASSUME ReviewTypeOK, NEW r \in Reviewers, NEW a, Answer(r, a)
  PROVE  /\ rpc'[r] = "answered" /\ answer'[r] = a
         /\ \A s \in Reviewers \ {r} : rpc'[s] = rpc[s] /\ answer'[s] = answer[s]
  BY DEF ReviewTypeOK, Answer

(* A request that goes on leaves every answer alone.                         *)
LEMMA GotoEffect ==
  ASSUME ReviewTypeOK, NEW r \in Reviewers, NEW step, Goto(r, step)
  PROVE  /\ rpc'[r] = step /\ answer' = answer
         /\ \A s \in Reviewers \ {r} : rpc'[s] = rpc[s]
  BY DEF ReviewTypeOK, Goto

(* A refused request answers, or deletes the object of its successor first.  *)
LEMMA AbortEffect ==
  ASSUME ReviewTypeOK, NEW r \in Reviewers, NEW a, Abort(r, a)
  PROVE  /\ rpc'[r] = "answered" \/ (rpc'[r] = "dropSuccessor" /\ Corrected(r))
         /\ answer'[r] = a
         /\ \A s \in Reviewers \ {r} : rpc'[s] = rpc[s] /\ answer'[s] = answer[s]
  BY DEF ReviewTypeOK, Abort

(* Every step of a request does one of the things it may do.                 *)
LEMMA RequestHasEffect ==
  ASSUME StoreTypeOK, ReviewTypeOK, NEW r \in Reviewers, ReviewStep(r)
  PROVE  RequestEffect(r)
<1> USE DEF RequestEffect, OthersWait, SameRow, SameRequest, store, rows, objects
<1>0. ASSUME NEW a, Answer(r, a), a \in Failures, rpc[r] \in {"idle"} \cup (ReviewCalls \ {"dropSuccessor"}),
             SameRow, SameRequest(r), drawn' = drawn, artifacts \subseteq artifacts'
      PROVE  RequestEffect(r)
  BY <1>0, AnswerEffect DEF Refused
<1>1. CASE SubmitSome(r)
  <2>1. PICK j \in Jobs, v \in Jobs \X Nat, c \in Commands : Submit(r, j, v, c)
    BY <1>1 DEF SubmitSome
  <2>2. CASE Wellformed(c)
    <3> DEFINE m == [job |-> j, revision |-> v, kind |-> c.kind, spec |-> c.spec]
    <3>1. rpc[r] = "idle" /\ req' = [req EXCEPT ![r] = m] /\ Goto(r, "getDecision")
          /\ UNCHANGED <<store, pair, rno>>
      BY <2>1, <2>2 DEF Submit
    <3>2. m \in SentRequests
      BY <2>2 DEF Commands, Wellformed, SentRequests
    <3> HIDE DEF m
    <3> QED
      BY <3>1, <3>2, GotoEffect DEF Asks, ReviewTypeOK
  <2>3. CASE ~Wellformed(c)
    <3>1. rpc[r] = "idle" /\ Answer(r, "badRequest") /\ UNCHANGED <<store, req, pair, rno>>
      BY <2>1, <2>3 DEF Submit
    <3> QED
      BY <1>0, <3>1 DEF Failures
  <2> QED
    BY <2>2, <2>3
<1>2. CASE GetDecision(r)
  <2>1. /\ rpc[r] = "getDecision" /\ UNCHANGED <<store, req, pair, rno>>
        /\ Answer(r, "serverError") \/ Answer(r, "conflict") \/ Goto(r, "getReviewable")
    BY <1>2 DEF GetDecision
  <2>2. CASE Goto(r, "getReviewable")
    BY <2>1, <2>2, GotoEffect DEF GoesOn, Onwards
  <2> QED
    BY <1>0, <2>1, <2>2 DEF Failures, ReviewCalls
<1>3. CASE GetReviewable(r)
  <2>1. /\ rpc[r] = "getReviewable" /\ UNCHANGED <<rows, objects, queue, req>>
        /\ \/ /\ \E a \in Failures : Answer(r, a)
              /\ UNCHANGED <<pair, rno, drawn>>
           \/ \E c \in Reviewable(req[r].job) :
                /\ IsSeen(r, c) /\ pair' = [pair EXCEPT ![r] = c]
                /\ \/ /\ Corrected(r) /\ Goto(r, "putSuccessor")
                      /\ rno' = [rno EXCEPT ![r] = drawn[req[r].job] + 1]
                      /\ drawn' = [drawn EXCEPT ![req[r].job] = @ + 1]
                   \/ ~Corrected(r) /\ Goto(r, "ensure") /\ UNCHANGED <<rno, drawn>>
    BY <1>3 DEF GetReviewable, Failures
  <2>2. CASE (\E a \in Failures : Answer(r, a)) /\ UNCHANGED <<pair, rno, drawn>>
    BY <1>0, <2>1, <2>2 DEF ReviewCalls
  <2>3. CASE \E c \in Reviewable(req[r].job) :
               /\ IsSeen(r, c) /\ pair' = [pair EXCEPT ![r] = c]
               /\ \/ /\ Corrected(r) /\ Goto(r, "putSuccessor")
                     /\ rno' = [rno EXCEPT ![r] = drawn[req[r].job] + 1]
                     /\ drawn' = [drawn EXCEPT ![req[r].job] = @ + 1]
                  \/ ~Corrected(r) /\ Goto(r, "ensure") /\ UNCHANGED <<rno, drawn>>
    BY <2>1, <2>3, GotoEffect DEF Reads, IsSeen, ReviewTypeOK
  <2> QED
    BY <2>1, <2>2, <2>3
<1>4. CASE PutSuccessor(r)
  <2>1. PICK o : /\ rpc[r] = "putSuccessor"
                 /\ artifacts' = IF Applies(o, TRUE) THEN artifacts \cup {<<"circuit", Successor(r)>>}
                                 ELSE artifacts
                 /\ IF SuccessorStored(o) THEN Goto(r, "ensure") ELSE Answer(r, "serverError")
                 /\ UNCHANGED <<rows, sources, queue, drawn, req, pair, rno>>
    BY <1>4 DEF PutSuccessor
  <2>2. CASE SuccessorStored(o)
    BY <2>1, <2>2, GotoEffect DEF GoesOn, Onwards, SuccessorStored, Succeeds, Applies
  <2>3. CASE ~SuccessorStored(o)
    BY <1>0, <2>1, <2>3 DEF Failures, ReviewCalls
  <2> QED
    BY <2>2, <2>3
<1>5. CASE EnsureReviewable(r) \/ WriteRevision(r) \/ InsertDecision(r)
  <2>1. /\ rpc[r] \in {"ensure", "writeRevision", "insertDecision"}
        /\ UNCHANGED <<store, req, pair, rno>>
        /\ \/ \E a \in Failures : Abort(r, a)
           \/ \E step : Goto(r, step) /\ <<rpc[r], step>> \in Onwards
    BY <1>5 DEF EnsureReviewable, WriteRevision, InsertDecision, Failures, Onwards
  <2>2. ASSUME NEW a \in Failures, Abort(r, a) PROVE RequestEffect(r)
    BY <2>1, <2>2, AbortEffect DEF Refused, ReviewCalls, Deciding, InTx
  <2>3. ASSUME NEW step, Goto(r, step), <<rpc[r], step>> \in Onwards PROVE RequestEffect(r)
    BY <2>1, <2>3, GotoEffect DEF GoesOn
  <2> QED
    BY <2>1, <2>2, <2>3
<1>6. CASE MoveJob(r)
  <2>1. /\ rpc[r] = "moveJob" /\ ~JobLocked(r)
        /\ UNCHANGED <<store, req, pair, rno>>
        /\ \/ Abort(r, "serverError")
           \/ Goto(r, "insertDecision") /\ jobs[req[r].job] = "needs_review"
    BY <1>6 DEF MoveJob, StatusMatches, Succeeds
  <2>2. CASE Abort(r, "serverError")
    BY <2>1, <2>2, AbortEffect DEF Refused, ReviewCalls, Deciding, InTx, Failures
  <2>3. CASE Goto(r, "insertDecision") /\ jobs[req[r].job] = "needs_review"
    BY <2>1, <2>3, GotoEffect DEF GoesOn, Onwards
  <2> QED
    BY <2>1, <2>2, <2>3
<1>7. CASE Commit(r)
  <2>1. PICK o \in Outcomes("commit") :
          /\ rpc[r] = "commit"
          /\ IF Applies(o, TRUE) THEN Write(r) ELSE UNCHANGED <<circuits, jobs, decisions>>
          /\ IF Succeeds(o, TRUE) THEN Answer(r, "ok") ELSE Abort(r, "serverError")
          /\ UNCHANGED <<uploads, extractions, objects, queue, drawn, req, pair, rno>>
    BY <1>7 DEF Commit
  <2>2. CASE Succeeds(o, TRUE)
    BY <2>1, <2>2, AnswerEffect DEF Succeeds, Applies, Writes
  <2>3. CASE ~Succeeds(o, TRUE) /\ Applies(o, TRUE)
    <3>1. "lost" \in Faults["commit"]
      <4>1. o \in Faults["commit"] /\ o \notin {"ok", "error", "duplicate"}
        BY <2>3 DEF Outcomes, Succeeds, Applies
      <4>2. Faults["commit"] \subseteq {"error", "lost"}
        BY FaultsAssumption DEF Calls, ReviewCalls, FaultsOf
      <4> QED
        BY <4>1, <4>2
    <3> QED
      BY <2>1, <2>3, <3>1, AbortEffect DEF Writes
  <2>4. CASE ~Succeeds(o, TRUE) /\ ~Applies(o, TRUE)
    BY <2>1, <2>4, AbortEffect DEF Refused, ReviewCalls, Deciding, InTx, Failures
  <2> QED
    BY <2>2, <2>3, <2>4
<1>8. CASE DropSuccessor(r)
  <2>1. /\ rpc[r] = "dropSuccessor" /\ Goto(r, "answered")
        /\ artifacts' \in {artifacts, artifacts \ {<<"circuit", Successor(r)>>}}
        /\ UNCHANGED <<rows, sources, queue, drawn, req, pair, rno>>
    BY <1>8 DEF DropSuccessor
  <2> QED
    BY <2>1, GotoEffect DEF Drops
<1>9. CASE CrashReview(r)
  BY <1>9 DEF CrashReview, Dies, ReviewTypeOK
<1>10. CASE DecisionAborted(r)
  <2>1. rpc[r] = "moveJob"
    BY <1>10 DEF DecisionAborted, Deadlock, Transactions, HoldsAbove, HoldsJob, InTx
  <2> QED
    BY <1>10, <2>1, AbortEffect DEF DecisionAborted, Refused, ReviewCalls, Deciding, InTx, Failures
<1> QED
  BY <1>1, <1>2, <1>3, <1>4, <1>5, <1>6, <1>7, <1>8, <1>9, <1>10 DEF ReviewStep, ReviewCall

-----------------------------------------------------------------------------
(* Every step of a request keeps the types of the requests ...               *)
LEMMA RequestKeepsTypes ==
  ASSUME StoreTypeOK, ReviewTypeOK, NEW r \in Reviewers, AsksFirst(r), ReviewStep(r)
  PROVE  ReviewTypeOK'
<1> USE DEF ReviewTypeOK
<1>1. ASSUME NEW a \in Answers, Answer(r, a) \/ Abort(r, a), req' = req, pair' = pair, rno' = rno
      PROVE  ReviewTypeOK'
  BY <1>1 DEF Answer, Abort, ReviewSteps, ReviewCalls
<1>2. ASSUME NEW step \in ReviewSteps, Goto(r, step)
      PROVE  rpc' \in [Reviewers -> ReviewSteps] /\ answer' \in [Reviewers -> Answers]
  BY <1>2 DEF Goto
<1>3. Failures \subseteq Answers /\ {"ok", "serverError", "notFound"} \subseteq Answers
  BY DEF Failures, Answers
<1>4. CASE SubmitSome(r)
  <2>1. PICK j \in Jobs, v \in Jobs \X Nat, c \in Commands : Submit(r, j, v, c)
    BY <1>4 DEF SubmitSome
  <2>2. CASE Wellformed(c)
    <3> DEFINE m == [job |-> j, revision |-> v, kind |-> c.kind, spec |-> c.spec]
    <3>1. req' = [req EXCEPT ![r] = m] /\ Goto(r, "getDecision") /\ UNCHANGED <<pair, rno>>
      BY <2>1, <2>2 DEF Submit
    <3>2. m \in SentRequests
      BY <2>2 DEF Commands, Wellformed, SentRequests
    <3> HIDE DEF m
    <3> QED
      BY <1>2, <3>1, <3>2 DEF ReviewSteps, ReviewCalls
  <2>3. CASE ~Wellformed(c)
    BY <1>1, <1>3, <2>1, <2>3 DEF Submit, Failures
  <2> QED
    BY <2>2, <2>3
<1>5. CASE GetReviewable(r)
  <2>1. req[r] \in SentRequests
    BY <1>5 DEF AsksFirst, GetReviewable, ReviewCalls
  <2>2. drawn[req[r].job] + 1 \in Nat
    BY <2>1 DEF SentRequests, StoreTypeOK
  <2>3. \A c \in Reviewable(req[r].job) : c \in Revisions
    BY DEF Reviewable, LatestPairs, CircuitsOf, StoreTypeOK
  <2>4. \/ (\E a \in Failures : Answer(r, a)) /\ UNCHANGED <<req, pair, rno>>
        \/ /\ \E c \in Reviewable(req[r].job) : pair' = [pair EXCEPT ![r] = c]
           /\ Goto(r, "putSuccessor") \/ Goto(r, "ensure")
           /\ rno' = rno \/ rno' = [rno EXCEPT ![r] = drawn[req[r].job] + 1]
           /\ req' = req
    BY <1>5 DEF GetReviewable, Failures
  <2>5. CASE (\E a \in Failures : Answer(r, a)) /\ UNCHANGED <<req, pair, rno>>
    BY <1>1, <1>3, <2>5
  <2>6. CASE /\ \E c \in Reviewable(req[r].job) : pair' = [pair EXCEPT ![r] = c]
             /\ Goto(r, "putSuccessor") \/ Goto(r, "ensure")
             /\ rno' = rno \/ rno' = [rno EXCEPT ![r] = drawn[req[r].job] + 1]
             /\ req' = req
    <3>1. rno' \in [Reviewers -> Nat]
      BY <2>2, <2>6
    <3>2. pair' \in [Reviewers -> {NoPair} \cup Revisions]
      BY <2>3, <2>6
    <3> QED
      BY <1>2, <2>6, <3>1, <3>2 DEF ReviewSteps, ReviewCalls
  <2> QED
    BY <2>4, <2>5, <2>6
<1>6. CASE ReviewCall(r) /\ ~GetReviewable(r)
  <2>1. /\ \/ \E a \in Answers : Answer(r, a) \/ Abort(r, a)
           \/ \E step \in ReviewSteps : Goto(r, step)
        /\ UNCHANGED <<req, pair, rno>>
    BY <1>6 DEF ReviewCall, GetDecision, PutSuccessor, EnsureReviewable, WriteRevision, MoveJob,
       InsertDecision, Commit, DropSuccessor, Answers, ReviewSteps, ReviewCalls
  <2> QED
    BY <1>1, <1>2, <2>1
<1>7. CASE CrashReview(r)
  BY <1>7 DEF CrashReview, ReviewSteps
<1>8. CASE DecisionAborted(r)
  BY <1>1, <1>3, <1>8 DEF DecisionAborted
<1> QED
  BY <1>4, <1>5, <1>6, <1>7, <1>8 DEF ReviewStep

(* ... and those of the tables.                                              *)
LEMMA ResolvedRow ==
  ASSUME ReviewTypeOK, NEW r \in Reviewers, req[r] \in SentRequests, pair[r] \in Revisions,
         JobOf(pair[r].id) = req[r].job, Corrected(r) => rno[r] # 0
  PROVE  /\ Resolved(r) \in Revisions
         /\ JobOf(Resolved(r).id) = req[r].job
         /\ Resolved(r).extraction = pair[r].extraction
         /\ Resolved(r).status = ResolvedStatus(r)
         /\ ResolvedStatus(r) \in {"ready", "failed"}
         /\ Corrected(r) => Resolved(r).id = Successor(r) /\ Resolved(r).version = pair[r].version + 1
         /\ ~Corrected(r) => Resolved(r).id = pair[r].id /\ Resolved(r).version = pair[r].version
<1> USE DEF Revisions, SentRequests
<1>1. ResolvedStatus(r) \in {"ready", "failed"}
  BY DEF ResolvedStatus
<1>2. Corrected(r) => Successor(r) \in RevisionIds /\ JobOf(Successor(r)) = req[r].job
  BY DEF ReviewTypeOK, Successor, RevisionIds, JobOf
<1>3. PICK p \in Revisions : p = pair[r]
  OBVIOUS
<1>4. p.version + 1 \in Nat \ {0} /\ ResolvedStatus(r) \in RevisionStatuses
  BY <1>1 DEF RevisionStatuses
<1>5. CASE Corrected(r)
  <2>1. Resolved(r) = [id |-> Successor(r), extraction |-> p.extraction,
                       version |-> p.version + 1, status |-> ResolvedStatus(r)]
    BY <1>3, <1>5 DEF Resolved
  <2> QED
    BY <1>1, <1>2, <1>3, <1>4, <1>5, <2>1
<1>6. CASE ~Corrected(r)
  <2>1. Resolved(r) = [id |-> p.id, extraction |-> p.extraction,
                       version |-> p.version, status |-> ResolvedStatus(r)]
    BY <1>3, <1>6 DEF Resolved
  <2> QED
    BY <1>1, <1>3, <1>4, <1>6, <2>1
<1> QED
  BY <1>5, <1>6

-----------------------------------------------------------------------------
(* What the whole backend relies on from one step to the next.               *)
SystemInv == TypeOK /\ ReviewTypeOK /\ ClaimInv /\ CircuitInv /\ ReviewInv

(* At its COMMIT a request of job j decides on the only revision of a job    *)
(* that still waits, that nobody decided and that no worker has.             *)
Undecided(j) == \A d \in decisions : JobOf(d.reviewed) # j
AboutToDecide(r, j) ==
  /\ j \in Jobs /\ req[r] \in SentRequests /\ pair[r] \in Revisions
  /\ jobs[j] = "needs_review" /\ upc[j] \notin NotYetCreated
  /\ pair[r].id = req[r].revision /\ JobOf(pair[r].id) = j
  /\ pair[r].version = 1 /\ pair[r].extraction \in extractions
  /\ JobOf(pair[r].extraction) = j
  /\ CircuitsOf(j) = {pair[r]}
  /\ Undecided(j)
  /\ \A w \in Workers : Working(w) => wjob[w] # j
  /\ Corrected(r) => rno[r] # 0

(* A request at its commit is about to decide a job that waits.              *)
LEMMA DecidesPending ==
  ASSUME SystemInv, NEW r \in Reviewers, rpc[r] = "commit", NEW j, j = req[r].job
  PROVE  AboutToDecide(r, j)
<1> USE DEF SystemInv, ReviewInv
<1>1. req[r] \in SentRequests /\ j \in Jobs
  BY DEF AsksFirst, ReviewCalls, SentRequests
<1>2. jobs[j] = "needs_review"
  BY DEF LocksPending, HoldsJob
<1>3. /\ pair[r] \in Revisions /\ pair[r].id = req[r].revision /\ JobOf(pair[r].id) = j
      /\ upc[j] \notin NotYetCreated /\ pair[r] \in circuits
      /\ Corrected(r) => rno[r] # 0
  BY <1>2 DEF ReadsPending, Deciding, InTx, Closed
<1>4. /\ pair[r].version = 1 /\ pair[r].extraction \in extractions
      /\ JobOf(pair[r].extraction) = j
  BY <1>2, <1>3 DEF CircuitInv, FirstUntilClosed, RowsOwned
<1>5. CircuitsOf(j) = {pair[r]}
  <2>1. ASSUME NEW c \in CircuitsOf(j) PROVE c = pair[r]
    <3>1. c \in circuits /\ JobOf(c.id) = j
      BY DEF CircuitsOf
    <3>2. c.version = 1
      BY <1>2, <3>1 DEF CircuitInv, FirstUntilClosed
    <3> QED
      BY <1>3, <1>4, <3>1, <3>2 DEF CircuitInv, RowsOwned
  <2> QED
    BY <1>3, <2>1 DEF CircuitsOf
<1>6. Undecided(j)
  BY <1>2 DEF Undecided, DecisionMatchesState, Final
<1>7. \A w \in Workers : Working(w) => wjob[w] # j
  BY <1>2 DEF ClaimInv, ClaimedOrGone
<1> QED
  BY <1>1, <1>2, <1>3, <1>4, <1>5, <1>6, <1>7 DEF AboutToDecide

NewDecision(r) == [reviewed |-> pair[r].id, resolved |-> Resolved(r).id, kind |-> req[r].kind]
WriteEffect(r, j) ==
  /\ \A k \in Jobs \ {j} : jobs'[k] = jobs[k] /\ CircuitsOf(k)' = CircuitsOf(k)
  /\ jobs'[j] = ResolvedStatus(r)
  /\ CircuitsOf(j)' \in {{Resolved(r)}, {pair[r], Resolved(r)}}
  /\ Resolved(r) \in circuits' /\ circuits' \subseteq circuits \cup {Resolved(r)}
  /\ Corrected(r) /\ Resolved(r).id # pair[r].id => pair[r] \in circuits'
  /\ decisions' = decisions \cup {NewDecision(r)}
  /\ extractions' = extractions

(* A commit writes the decision, the revision and the status together.       *)
LEMMA WriteHasEffect ==
  ASSUME SystemInv, NEW r \in Reviewers, Writes(r), NEW j, j = req[r].job
  PROVE  AboutToDecide(r, j) /\ WriteEffect(r, j)
<1>1. AboutToDecide(r, j) /\ Write(r) /\ extractions' = extractions
  BY DecidesPending DEF Writes
<1>2. /\ Resolved(r) \in Revisions /\ JobOf(Resolved(r).id) = j
      /\ ResolvedStatus(r) \in {"ready", "failed"}
  BY <1>1, ResolvedRow DEF AboutToDecide, SystemInv
<1>3. PICK n : n = Resolved(r)
  OBVIOUS
<1>4. circuits' = {c \in circuits : c.id # n.id} \cup {n}
  BY <1>1, <1>3 DEF Write
<1>5. \A c \in circuits : c.id = n.id => c = pair[r]
  BY <1>1, <1>2, <1>3 DEF AboutToDecide, CircuitsOf
<1>6. \A k \in Jobs \ {j} : CircuitsOf(k)' = CircuitsOf(k)
  BY <1>1, <1>2, <1>3, <1>4, <1>5 DEF CircuitsOf, AboutToDecide
<1>7. CircuitsOf(j)' \in {{n}, {pair[r], n}}
  <2>1. pair[r] \in circuits /\ JobOf(pair[r].id) = j
        /\ \A c \in circuits : JobOf(c.id) = j => c = pair[r]
    BY <1>1 DEF AboutToDecide, CircuitsOf
  <2> QED
    BY <1>2, <1>3, <1>4, <2>1 DEF CircuitsOf
<1>8. /\ \A k \in Jobs \ {j} : jobs'[k] = jobs[k]
      /\ jobs'[j] = ResolvedStatus(r)
      /\ decisions' = decisions \cup {NewDecision(r)}
  BY <1>1, <1>2 DEF Write, StatusFromCircuit, AboutToDecide, SystemInv, TypeOK, StoreTypeOK,
     NewDecision
<1>9. Corrected(r) /\ n.id # pair[r].id => pair[r] \in circuits'
  BY <1>1, <1>4 DEF AboutToDecide, CircuitsOf
<1> QED
  BY <1>1, <1>3, <1>4, <1>6, <1>7, <1>8, <1>9 DEF WriteEffect

(* Requests write no object but that of their own correction.                *)
LEMMA RequestWritesOwnObject ==
  ASSUME NEW r \in Reviewers, ReviewStep(r)
  PROVE  \/ artifacts' \subseteq artifacts
         \/ rpc[r] = "putSuccessor" /\ artifacts' = artifacts \cup {<<"circuit", Successor(r)>>}
  BY DEF ReviewStep, SubmitSome, Submit, ReviewCall, GetDecision, GetReviewable, PutSuccessor,
     EnsureReviewable, WriteRevision, MoveJob, InsertDecision, Commit, DropSuccessor, CrashReview,
     DecisionAborted, store, objects

(* Every step of a request keeps what the pipeline relies on: until the      *)
(* COMMIT nothing is written but an object, and a worker has nothing to do   *)
(* with the job that is decided.                                             *)
LEMMA RequestKeepsTables ==
  ASSUME SystemInv, NEW r \in Reviewers, ReviewStep(r)
  PROVE  TypeOK' /\ ReviewTypeOK'
<1> USE DEF SystemInv, ReviewInv, TypeOK, StoreTypeOK
<1>0. /\ AsksFirst(r) /\ ReadsPending(r) /\ StoreTypeOK /\ ReviewTypeOK
      /\ rpc[r] \in ReviewCalls => req[r] \in SentRequests
  BY DEF AsksFirst
<1>1. ReviewTypeOK' /\ RequestEffect(r)
  BY <1>0, RequestKeepsTypes, RequestHasEffect
<1>2. UploadsTypeOK' /\ WorkerTypeOK'
  BY DEF ReviewStep, uploadVars, workerVars, UploadsTypeOK, WorkerTypeOK
<1>3. artifacts' \subseteq Artifacts
  <2>1. ASSUME rpc[r] = "putSuccessor" PROVE <<"circuit", Successor(r)>> \in Artifacts
    <3>1. req[r] \in SentRequests /\ (Corrected(r) => rno[r] \in Nat \ {0})
      BY <1>0, <2>1 DEF ReviewCalls, ReviewTypeOK, ReadsPending, Deciding
    <3>2. Corrected(r)
      BY <1>0, <2>1 DEF ReadsPending, Deciding
    <3> QED
      BY <3>1, <3>2 DEF SentRequests, Successor, Artifacts, RevisionIds
  <2> QED
    BY <2>1, RequestWritesOwnObject
<1>4. CASE Writes(r)
  <2>1. PICK j : j = req[r].job
    OBVIOUS
  <2>2. AboutToDecide(r, j) /\ WriteEffect(r, j) /\ Write(r)
    BY <1>4, <2>1, WriteHasEffect DEF Writes
  <2>3. Resolved(r) \in Revisions /\ ResolvedStatus(r) \in {"ready", "failed"}
    BY <2>1, <2>2, ResolvedRow DEF AboutToDecide
  <2>4. NewDecision(r) \in Decisions
    <3>1. pair[r].id \in RevisionIds /\ Resolved(r).id \in RevisionIds /\ req[r].kind \in {"approve", "reject"}
      BY <2>2, <2>3 DEF AboutToDecide, Revisions, SentRequests
    <3> QED
      BY <3>1 DEF NewDecision, Decisions
  <2>5. jobs' \in [Jobs -> {"none"} \cup JobStatuses]
    BY <2>1, <2>2, <2>3 DEF Write, StatusFromCircuit, JobStatuses
  <2> QED
    BY <1>1, <1>2, <1>3, <1>4, <2>2, <2>3, <2>4, <2>5 DEF Writes, WriteEffect, objects
<1>5. CASE ~Writes(r)
  <2>1. SameRow
    BY <1>1, <1>5 DEF RequestEffect, Asks, Refused, GoesOn, Reads, Drops, Dies, SameRow, store, rows
  <2>2. drawn' \in [Jobs -> Nat]
    <3>1. CASE Reads(r)
      <4>1. drawn[req[r].job] + 1 \in Nat
        BY <1>0, <3>1 DEF Reads, ReviewCalls, SentRequests
      <4> QED
        BY <3>1, <4>1 DEF Reads
    <3> QED
      BY <1>1, <1>5, <3>1 DEF RequestEffect, Asks, Refused, GoesOn, Drops, Dies, store
  <2> QED
    BY <1>1, <1>2, <1>3, <2>1, <2>2 DEF SameRow, rows
<1> QED
  BY <1>4, <1>5

(* A request breaks no claim and no revision of the pipeline.                *)
LEMMA RequestKeepsPipeline ==
  ASSUME SystemInv, NEW r \in Reviewers, ReviewStep(r)
  PROVE  ClaimInv' /\ CircuitInv'
<1> USE DEF SystemInv, ReviewInv
<1>1. RequestEffect(r)
  BY RequestHasEffect DEF TypeOK
<1>2. UNCHANGED <<upc, wpc, wjob, wstatus, wno>>
  BY DEF ReviewStep, uploadVars, workerVars
<1>3. CASE ~Writes(r)
  <2>1. UNCHANGED <<jobs, circuits, extractions, queue>>
    BY <1>1, <1>3 DEF RequestEffect, Asks, Refused, GoesOn, Reads, Drops, Dies, SameRow, store, rows
  <2>2. ClaimInv'
    BY <1>2, <2>1 DEF ClaimInv, Locals, ReleasedLate, Unreleased, Queued, ClaimedOrGone,
       OneExtractor, Working
  <2>3. CircuitInv'
    BY <1>2, <2>1 DEF CircuitInv, RowsOwned, ReportsRow, FirstUntilClosed, StatusJustified,
       CircuitsOf, ExtractionsOf
  <2> QED
    BY <2>2, <2>3
<1>4. CASE Writes(r)
  <2>0. PICK j : j = req[r].job
    OBVIOUS
  <2>1. AboutToDecide(r, j) /\ WriteEffect(r, j) /\ queue' = queue
    BY <1>4, <2>0, WriteHasEffect DEF Writes
  <2>2. /\ JobOf(Resolved(r).id) = j /\ Resolved(r).extraction = pair[r].extraction
        /\ Resolved(r).status = ResolvedStatus(r) /\ ResolvedStatus(r) \in {"ready", "failed"}
        /\ Corrected(r) => Resolved(r).version = 2
        /\ ~Corrected(r) => Resolved(r).version = 1 /\ Resolved(r).id = pair[r].id
    BY <2>0, <2>1, ResolvedRow DEF AboutToDecide
  <2>3. \A k \in Jobs : /\ jobs'[k] = "none" <=> jobs[k] = "none"
                        /\ k # j => jobs'[k] = jobs[k]
    BY <2>1, <2>2 DEF AboutToDecide, WriteEffect
  <2>4. Locals' /\ OneExtractor' /\ ClaimedOrGone'
    <3>1. \A w \in Workers : Working(w) => wjob[w] \in Jobs
      BY HeldPayload DEF ClaimInv, Working, WorkerCalls
    <3> QED
      BY <1>2, <2>1, <2>3, <3>1 DEF ClaimInv, Locals, OneExtractor, ClaimedOrGone, Working,
         AboutToDecide
  <2>5. ReleasedLate'
    BY <1>2, <2>1, <2>2, <2>3 DEF ClaimInv, ReleasedLate, Unreleased, Queued, WriteEffect,
       AboutToDecide
  <2>6. RowsOwned'
    <3>1. \A c \in circuits' : c.extraction \in extractions' /\ JobOf(c.extraction) = JobOf(c.id)
      BY <2>1, <2>2 DEF WriteEffect, AboutToDecide, CircuitInv, RowsOwned
    <3>2. ASSUME NEW c \in circuits', NEW d \in circuits', JobOf(c.id) = JobOf(d.id),
                 c.version = d.version
          PROVE  c = d
      <4>1. CASE JobOf(c.id) = j
        <5>1. {c, d} \subseteq {pair[r], Resolved(r)}
          BY <2>1, <3>2, <4>1 DEF WriteEffect, CircuitsOf
        <5>2. Corrected(r) => pair[r].version # Resolved(r).version
          BY <2>1, <2>2 DEF AboutToDecide
        <5>3. ~Corrected(r) => Resolved(r) = c /\ Resolved(r) = d
          <6>1. ASSUME ~Corrected(r), NEW e \in circuits', JobOf(e.id) = j PROVE e = Resolved(r)
            <7>1. e \in circuits => e = pair[r]
              BY <2>1, <6>1 DEF AboutToDecide, CircuitsOf
            <7>2. e \in {x \in circuits : x.id # Resolved(r).id} \cup {Resolved(r)}
              BY <1>4, <6>1 DEF Writes, Write
            <7> QED
              BY <2>2, <6>1, <7>1, <7>2
          <6> QED
            BY <3>2, <4>1, <6>1
        <5> QED
          BY <3>2, <5>1, <5>2, <5>3
      <4>2. CASE JobOf(c.id) # j
        <5>1. c \in circuits /\ d \in circuits
          BY <2>1, <2>2, <3>2, <4>2 DEF WriteEffect
        <5> QED
          BY <3>2, <5>1 DEF CircuitInv, RowsOwned
      <4> QED
        BY <4>1, <4>2
    <3>3. \A k \in Jobs : jobs'[k] = "none" => ExtractionsOf(k)' = {} /\ CircuitsOf(k)' = {}
      <4>1. \A k \in Jobs : ExtractionsOf(k)' = ExtractionsOf(k)
        BY <2>1 DEF WriteEffect, ExtractionsOf
      <4> QED
        BY <2>1, <2>3, <4>1 DEF WriteEffect, AboutToDecide, CircuitInv, RowsOwned
    <3> QED
      BY <3>1, <3>2, <3>3 DEF RowsOwned
  <2>7. ReportsRow'
    <3> SUFFICES ASSUME NEW w \in Workers, wpc[w] \in Persisting \cup {"complete"},
                        NEW k \in Jobs, k = wjob[w]
                 PROVE  /\ wpc[w] \in Persisting => CircuitsOf(k)' = {}
                        /\ wpc[w] = "complete" =>
                             jobs'[k] = "none" \/ \E c \in CircuitsOf(k)' : c.status = wstatus[w]
      <4>1. \A v \in Workers : wpc[v] \in Persisting \cup {"complete"} => wjob[v] \in Jobs
        BY HeldPayload DEF ClaimInv, Persisting
      <4> QED
        BY <1>2, <4>1 DEF ReportsRow, CircuitsOf
    <3>1. k # j
      BY <2>1 DEF AboutToDecide, Working, WorkerCalls, Persisting
    <3> QED
      BY <2>1, <2>3, <3>1 DEF WriteEffect, CircuitInv, ReportsRow
  <2>8. FirstUntilClosed'
    <3> SUFFICES ASSUME NEW c \in circuits', jobs'[JobOf(c.id)] \notin {"ready", "failed"}
                 PROVE  c.version = 1
      BY DEF FirstUntilClosed
    <3>1. JobOf(c.id) # j
      BY <2>1, <2>2 DEF WriteEffect
    <3>2. c \in circuits /\ JobOf(c.id) \in Jobs
      BY <2>1, <2>2, <3>1, RowTypes DEF WriteEffect, TypeOK
    <3> QED
      BY <2>1, <3>1, <3>2 DEF WriteEffect, CircuitInv, FirstUntilClosed
  <2>9. StatusJustified'
    BY <2>1, <2>2 DEF WriteEffect, AboutToDecide, CircuitInv, StatusJustified
  <2> QED
    BY <2>4, <2>5, <2>6, <2>7, <2>8, <2>9 DEF ClaimInv, CircuitInv
<1> QED
  BY <1>3, <1>4

-----------------------------------------------------------------------------
(* What a request relies on, after its own steps and after those of another. *)
LEMMA RequestKeepsReads ==
  ASSUME SystemInv, NEW r \in Reviewers, ReviewStep(r), NEW s \in Reviewers
  PROVE  AsksFirst(s)' /\ ReadsPending(s)'
<1> USE DEF SystemInv, ReviewInv, ReviewCalls, Deciding, InTx
<1>1. RequestEffect(r) /\ upc' = upc
  BY RequestHasEffect DEF TypeOK, ReviewStep, uploadVars
<1>2. AsksFirst(r) /\ ReadsPending(r) /\ AsksFirst(s) /\ ReadsPending(s)
  OBVIOUS
<1>3. CASE ~Writes(r)
  <2>1. UNCHANGED <<jobs, circuits>>
    BY <1>1, <1>3 DEF RequestEffect, Asks, Refused, GoesOn, Reads, Drops, Dies, SameRow, store, rows
  <2>2. CASE s # r
    BY <1>1, <1>2, <2>1, <2>2 DEF RequestEffect, OthersWait, AsksFirst, ReadsPending, Corrected
  <2>3. CASE s = r /\ Asks(r)
    BY <1>2, <2>3 DEF Asks, AsksFirst, ReadsPending
  <2>4. CASE s = r /\ (Refused(r) \/ Drops(r) \/ Dies(r))
    BY <1>2, <2>4 DEF Refused, Drops, Dies, Failures, SameRequest, AsksFirst, ReadsPending
  <2>5. CASE s = r /\ GoesOn(r)
    BY <1>1, <1>2, <2>1, <2>5 DEF GoesOn, Onwards, SameRequest, AsksFirst, ReadsPending, Corrected
  <2>6. CASE s = r /\ Reads(r)
    <3>1. PICK c \in Reviewable(req[r].job) : pair'[r] = c /\ c.id = req[r].revision
      BY <2>6 DEF Reads
    <3>2. req[r] \in SentRequests /\ req[r].job \in Jobs
      BY <1>2, <2>6 DEF Reads, AsksFirst, SentRequests
    <3>3. c \in circuits /\ JobOf(c.id) = req[r].job
      BY <3>1 DEF Reviewable, LatestPairs, CircuitsOf
    <3>4. c \in Revisions
      BY <3>3 DEF TypeOK, StoreTypeOK
    <3>5. jobs[req[r].job] # "none"
      BY <3>2, <3>3 DEF CircuitInv, RowsOwned, CircuitsOf
    <3>6. upc[req[r].job] \notin NotYetCreated
      BY <3>2, <3>5 DEF ClaimInv, ReleasedLate
    <3>7. drawn[req[r].job] + 1 # 0
      BY <3>2 DEF TypeOK, StoreTypeOK
    <3>8. /\ rpc'[r] \in {"putSuccessor", "ensure"} /\ req' = req /\ answer' = answer
          /\ rpc'[r] = "putSuccessor" => Corrected(r)
          /\ Corrected(r) => rno'[r] = drawn[req[r].job] + 1
      BY <2>6 DEF Reads
    <3>9. AsksFirst(r)'
      BY <1>2, <2>6, <3>8 DEF Reads, AsksFirst
    <3>10. ReadsPending(r)'
      BY <1>1, <2>1, <3>1, <3>3, <3>4, <3>6, <3>7, <3>8 DEF ReadsPending, Corrected
    <3> QED
      BY <2>6, <3>9, <3>10
  <2> QED
    BY <1>1, <1>3, <2>2, <2>3, <2>4, <2>5, <2>6 DEF RequestEffect
<1>4. CASE Writes(r)
  <2>0. PICK j : j = req[r].job
    OBVIOUS
  <2>1. AboutToDecide(r, j) /\ WriteEffect(r, j) /\ ResolvedStatus(r) \in {"ready", "failed"}
    BY <1>4, <2>0, WriteHasEffect DEF ResolvedStatus
  <2>2. CASE s = r
    BY <1>2, <1>4, <2>2 DEF Writes, SameRequest, AsksFirst, ReadsPending
  <2>3. CASE s # r
    <3>1. rpc'[s] = rpc[s] /\ req'[s] = req[s] /\ pair'[s] = pair[s] /\ rno'[s] = rno[s]
          /\ answer'[s] = answer[s]
      BY <1>1, <2>3 DEF RequestEffect, OthersWait
    <3>2. AsksFirst(s)'
      BY <1>2, <3>1 DEF AsksFirst
    <3>3. CASE rpc[s] \in Deciding
      <4>1. PICK k \in Jobs : k = req[s].job
        BY <1>2, <3>3 DEF AsksFirst, SentRequests
      <4>2. JobOf(pair[s].id) = k /\ (jobs[k] \in Closed \/ pair[s] \in CircuitsOf(k))
        BY <1>2, <3>3, <4>1 DEF ReadsPending, CircuitsOf
      <4>3. jobs'[k] \in Closed \/ pair[s] \in CircuitsOf(k)'
        BY <2>1, <4>2 DEF WriteEffect, Closed
      <4>4. jobs'[k] \in Closed \/ pair[s] \in circuits'
        BY <4>3 DEF CircuitsOf
      <4> QED
        BY <1>1, <1>2, <3>1, <3>2, <3>3, <4>1, <4>4 DEF ReadsPending, Corrected
    <3>4. CASE rpc[s] \notin Deciding
      BY <3>1, <3>2, <3>4 DEF ReadsPending
    <3> QED
      BY <3>3, <3>4
  <2> QED
    BY <2>2, <2>3
<1> QED
  BY <1>3, <1>4

(* The compare-and-swap of MoveJob waits for whoever has the job's row.      *)
LEMMA RequestKeepsLocks ==
  ASSUME SystemInv, NEW r \in Reviewers, ReviewStep(r)
  PROVE  LocksPending'
<1> USE DEF SystemInv, ReviewInv, ReviewCalls, Deciding, InTx
<1>1. RequestEffect(r)
  BY RequestHasEffect DEF TypeOK
<1>2. \A s \in Reviewers \ {r} : (HoldsJob(s)' <=> HoldsJob(s)) /\ req'[s] = req[s]
  BY <1>1 DEF RequestEffect, OthersWait, HoldsJob
<1>3. CASE Writes(r)
  <2>0. PICK j : j = req[r].job
    OBVIOUS
  <2>1. WriteEffect(r, j) /\ HoldsJob(r) /\ ~HoldsJob(r)'
    BY <1>3, <2>0, WriteHasEffect DEF Writes, HoldsJob
  <2> SUFFICES ASSUME NEW s \in Reviewers \ {r}, HoldsJob(s)
               PROVE  /\ jobs'[req[s].job] = "needs_review"
                      /\ \A t \in Reviewers \ {r} : HoldsJob(t) /\ req[t].job = req[s].job => t = s
    BY <1>2, <2>1 DEF LocksPending
  <2>2. req[s].job \in Jobs
    BY DEF AsksFirst, HoldsJob, SentRequests
  <2>3. req[s].job # j
    BY <2>0, <2>1 DEF LocksPending
  <2> QED
    BY <2>1, <2>2, <2>3 DEF WriteEffect, LocksPending
<1>4. CASE ~Writes(r)
  <2>1. UNCHANGED jobs
    BY <1>1, <1>4 DEF RequestEffect, Asks, Refused, GoesOn, Reads, Drops, Dies, SameRow, store, rows
  <2>2. HoldsJob(r)' => /\ req'[r] = req[r]
                        /\ \/ HoldsJob(r)
                           \/ ~JobLocked(r) /\ jobs[req[r].job] = "needs_review"
    BY <1>1, <1>4 DEF RequestEffect, Asks, Refused, GoesOn, Onwards, Reads, Drops, Dies, SameRequest,
       HoldsJob
  <2> QED
    BY <1>2, <2>1, <2>2 DEF LocksPending, JobLocked
<1> QED
  BY <1>3, <1>4

(* The three writes of a COMMIT agree, and a decided job is not decided      *)
(* again.                                                                    *)
LEMMA RequestKeepsDecisions ==
  ASSUME SystemInv, NEW r \in Reviewers, ReviewStep(r)
  PROVE  SecondDecided' /\ DecisionMatchesState' /\ OneDecisionPerJob'
<1> USE DEF SystemInv, ReviewInv
<1>1. RequestEffect(r)
  BY RequestHasEffect DEF TypeOK
<1>2. CASE ~Writes(r)
  <2>1. UNCHANGED <<jobs, circuits, extractions, decisions>>
    BY <1>1, <1>2 DEF RequestEffect, Asks, Refused, GoesOn, Reads, Drops, Dies, SameRow, store, rows
  <2> QED
    BY <2>1 DEF SecondDecided, DecisionMatchesState, OneDecisionPerJob, LatestPairs, CircuitsOf
<1>3. CASE Writes(r)
  <2>0. PICK j : j = req[r].job
    OBVIOUS
  <2>1. AboutToDecide(r, j) /\ WriteEffect(r, j)
    BY <1>3, <2>0, WriteHasEffect
  <2>2. /\ JobOf(Resolved(r).id) = j /\ Resolved(r).extraction = pair[r].extraction
        /\ Resolved(r).status = ResolvedStatus(r)
        /\ Resolved(r).version \in {1, 2}
    <3>1. Corrected(r) => Resolved(r).version = 2
      BY <2>0, <2>1, ResolvedRow DEF AboutToDecide
    <3> QED
      BY <2>0, <2>1, <3>1, ResolvedRow DEF AboutToDecide
  <2>3. /\ NewDecision(r).reviewed = pair[r].id /\ NewDecision(r).resolved = Resolved(r).id
        /\ Final(NewDecision(r)) = ResolvedStatus(r)
    BY DEF NewDecision, Final, ResolvedStatus
  <2>4. \A d \in decisions : JobOf(d.reviewed) \in Jobs \ {j}
    BY <2>1 DEF AboutToDecide, Undecided, TypeOK, StoreTypeOK, Decisions, RevisionIds, JobOf
  <2>5. SecondDecided'
    BY <2>1, <2>2, <2>3 DEF WriteEffect, SecondDecided, AboutToDecide
  <2>6. OneDecisionPerJob'
    BY <2>1, <2>3, <2>4 DEF WriteEffect, OneDecisionPerJob, AboutToDecide
  <2>7. DecisionMatchesState'
    <3>1. ASSUME NEW d \in decisions
          PROVE  /\ jobs'[JobOf(d.reviewed)] = Final(d)
                 /\ \E c \in LatestPairs(JobOf(d.reviewed))' : c.id = d.resolved /\ c.status = Final(d)
      <4>1. PICK k \in Jobs \ {j} : k = JobOf(d.reviewed)
        BY <2>4
      <4>2. CircuitsOf(k)' = CircuitsOf(k) /\ jobs'[k] = jobs[k] /\ extractions' = extractions
        BY <2>1, <4>1 DEF WriteEffect
      <4>3. LatestPairs(k)' = LatestPairs(k)
        BY <4>2 DEF LatestPairs
      <4>4. jobs[k] = Final(d) /\ \E c \in LatestPairs(k) : c.id = d.resolved /\ c.status = Final(d)
        BY <4>1 DEF DecisionMatchesState
      <4>5. \E c \in LatestPairs(k)' : c.id = d.resolved /\ c.status = Final(d)
        BY <4>3, <4>4
      <4>6. LatestPairs(JobOf(d.reviewed))' = LatestPairs(k)'
        BY <4>1 DEF LatestPairs, CircuitsOf
      <4> QED
        BY <4>1, <4>2, <4>4, <4>5, <4>6
    <3>2. Resolved(r) \in LatestPairs(j)'
      BY <2>1, <2>2 DEF WriteEffect, AboutToDecide, LatestPairs
    <3>3. ASSUME NEW d \in decisions', d = NewDecision(r)
          PROVE  /\ jobs'[JobOf(d.reviewed)] = Final(d)
                 /\ \E c \in LatestPairs(JobOf(d.reviewed))' : c.id = d.resolved /\ c.status = Final(d)
      <4>1. JobOf(d.reviewed) = j /\ Final(d) = ResolvedStatus(r) /\ d.resolved = Resolved(r).id
        BY <2>1, <2>3, <3>3 DEF AboutToDecide, JobOf
      <4>2. LatestPairs(JobOf(d.reviewed))' = LatestPairs(j)'
        BY <4>1 DEF LatestPairs, CircuitsOf
      <4>3. PICK n : n = Resolved(r)
        OBVIOUS
      <4>4. n \in LatestPairs(JobOf(d.reviewed))' /\ n.id = d.resolved /\ n.status = Final(d)
        BY <2>2, <3>2, <4>1, <4>2, <4>3
      <4> QED
        BY <2>1, <4>1, <4>4 DEF WriteEffect
    <3> QED
      BY <2>1, <3>1, <3>3 DEF DecisionMatchesState, WriteEffect
  <2> QED
    BY <2>5, <2>6, <2>7
<1> QED
  BY <1>2, <1>3

(* Who is told that the decision is saved has just saved it.                 *)
LEMMA RequestKeepsAnswers ==
  ASSUME SystemInv, NEW r \in Reviewers, ReviewStep(r)
  PROVE  AnsweredIsSaved'
<1> USE DEF SystemInv, ReviewInv
<1>1. RequestEffect(r) /\ upc' = upc
  BY RequestHasEffect DEF TypeOK, ReviewStep, uploadVars
<1>2. decisions \subseteq decisions' /\ \A k \in Jobs : jobs[k] = "none" => jobs'[k] = "none"
  <2>1. CASE Writes(r)
    <3>1. PICK j : j = req[r].job
      OBVIOUS
    <3>2. AboutToDecide(r, j) /\ WriteEffect(r, j)
      BY <2>1, <3>1, WriteHasEffect
    <3> QED
      BY <3>2 DEF AboutToDecide, WriteEffect
  <2>2. CASE ~Writes(r)
    BY <1>1, <2>2 DEF RequestEffect, Asks, Refused, GoesOn, Reads, Drops, Dies, SameRow, store, rows
  <2> QED
    BY <2>1, <2>2
<1> SUFFICES ASSUME NEW s \in Reviewers, answer'[s] = "ok"
             PROVE  \/ \E d \in decisions' : /\ d.reviewed = req'[s].revision
                                            /\ JobOf(d.reviewed) = req'[s].job
                                            /\ d.kind = req'[s].kind
                    \/ jobs'[req'[s].job] = "none" /\ upc[req'[s].job] \in {"undoUpload", "failed", "crashed"}
  BY <1>1 DEF AnsweredIsSaved, JobOf
<1>3. CASE s = r /\ Writes(r)
  <2>1. PICK j : j = req[r].job
    OBVIOUS
  <2>2. AboutToDecide(r, j) /\ WriteEffect(r, j) /\ req' = req
    BY <1>3, <2>1, WriteHasEffect DEF Writes, SameRequest
  <2>3. PICK d : d = NewDecision(r)
    OBVIOUS
  <2>4. d.reviewed = req[r].revision /\ JobOf(d.reviewed) = j /\ d.kind = req[r].kind
    BY <2>2, <2>3 DEF AboutToDecide, NewDecision
  <2>5. d \in decisions'
    BY <2>2, <2>3 DEF WriteEffect
  <2> QED
    BY <1>3, <2>1, <2>2, <2>4, <2>5
<1>4. CASE ~(s = r /\ Writes(r))
  <2>1. answer[s] = "ok" /\ req'[s] = req[s]
    <3>1. CASE s # r
      BY <1>1, <3>1 DEF RequestEffect, OthersWait
    <3>2. CASE s = r
      <4>1. rpc[r] = "idle" => answer[r] = "none"
        BY DEF AsksFirst
      <4> QED
        BY <1>1, <1>4, <3>2, <4>1 DEF RequestEffect, Asks, Refused, Failures, GoesOn, Reads, Drops,
           Dies, SameRequest
    <3> QED
      BY <3>1, <3>2
  <2>2. req[s].job \in Jobs
    BY <2>1 DEF AsksFirst, SentRequests
  <2> QED
    BY <1>2, <2>1, <2>2 DEF AnsweredIsSaved
<1> QED
  BY <1>3, <1>4

-----------------------------------------------------------------------------
(* What handlers and workers do to the decisions: a handler deletes those of *)
(* its job together with the job.                                            *)
LEMMA HandlerDecisions ==
  ASSUME TypeOK, NEW j \in Jobs, UploadAction(j)
  PROVE  \/ RowsKept(j) /\ decisions' = decisions
         \/ RowsDeleted(j) /\ decisions' = {d \in decisions : JobOf(d.reviewed) # j}
<1>1. CASE UndoJob(j) \/ UndoUpload(j)
  <2>1. PICK o : DeleteJob(j, o)
    BY <1>1 DEF UndoJob, UndoUpload
  <2> QED
    BY <2>1 DEF TypeOK, StoreTypeOK, DeleteJob, RowsKept, RowsDeleted
<1>2. CASE ~(UndoJob(j) \/ UndoUpload(j))
  <2>1. decisions' = decisions /\ circuits' = circuits /\ extractions' = extractions
    BY <1>2 DEF UploadAction, UploadNext, UploadCall, Receive, CreateUpload, CreateJob, PutSource,
       MarkUploaded, ToUploaded, ToQueued, Transition, Enqueue, UndoObject, Disconnect, CrashApi,
       store, rows
  <2>2. jobs'[j] = "none" => jobs[j] = "none"
    <3>1. CASE ToUploaded(j) \/ ToQueued(j)
      <4>1. \E o : \/ UpdateJobStatus(j, "created", "uploaded", o)
                   \/ UpdateJobStatus(j, "uploaded", "queued", o)
        BY <3>1 DEF ToUploaded, ToQueued, Transition
      <4> QED
        BY <4>1 DEF UpdateJobStatus, TypeOK, StoreTypeOK
    <3>2. CASE ~(ToUploaded(j) \/ ToQueued(j))
      BY <1>2, <3>2 DEF UploadAction, UploadNext, UploadCall, Receive, CreateUpload, CreateJob,
         PutSource, MarkUploaded, Enqueue, UndoObject, Disconnect, CrashApi, store, rows, TypeOK,
         StoreTypeOK
    <3> QED
      BY <3>1, <3>2
  <2> QED
    BY <2>1, <2>2 DEF RowsKept
<1> QED
  BY <1>1, <1>2

(* Workers make no decision.                                                 *)
LEMMA WorkerDecidesNothing ==
  ASSUME NEW w \in Workers, WorkerAction(w)
  PROVE  decisions' = decisions
  BY DEF WorkerAction, WorkerNext, WorkerCall, StartWorker, Dequeue, ClaimQueued, GetUpload,
     GetObject, Extract, PersistCheck, PutExtraction, PutCircuit, PutArtifact, InsertExtraction,
     InsertCircuit, MarkCompleted, MarkFailed, CrashWorker, store, rows

(* A handler that took its job back is over, or about to be.                 *)
Over == {"undoUpload", "failed", "crashed"}
(* A handler that has returned does not start again.                         *)
LEMMA HandlerEnds ==
  ASSUME TypeOK, NEW j \in Jobs, UploadAction(j), upc[j] \in Over
  PROVE  upc'[j] \in Over
  BY DEF Over, UploadAction, UploadNext, UploadCall, Receive, CreateUpload, CreateJob, PutSource,
     MarkUploaded, ToUploaded, ToQueued, Transition, Enqueue, UndoObject, UndoJob, UndoUpload,
     Disconnect, CrashApi, TypeOK, UploadsTypeOK

(* A handler that undoes its upload waits for the transactions on its job,   *)
(* and takes the decisions along with the job.                               *)
LEMMA HandlerKeepsReviews ==
  ASSUME SystemInv, NEW j \in Jobs, UploadPart(j)
  PROVE  ReviewInv'
<1> USE DEF SystemInv, ReviewInv
<1>1. /\ UploadAction(j) /\ UNCHANGED reviewVars /\ HandlerEffect(j)
      /\ \/ RowsKept(j) /\ decisions' = decisions
         \/ RowsDeleted(j) /\ decisions' = {d \in decisions : JobOf(d.reviewed) # j}
  BY HandlerHasEffect, HandlerDecisions DEF UploadPart
<1>2. UNCHANGED <<rpc, req, pair, rno, answer>>
  BY <1>1 DEF reviewVars
<1>3. \A k \in Jobs \ {j} : /\ jobs'[k] = jobs[k] /\ CircuitsOf(k)' = CircuitsOf(k)
                            /\ LatestPairs(k)' = LatestPairs(k)
  <2> SUFFICES ASSUME NEW k \in Jobs \ {j}
               PROVE  jobs'[k] = jobs[k] /\ CircuitsOf(k)' = CircuitsOf(k) /\ LatestPairs(k)' = LatestPairs(k)
    OBVIOUS
  <2>1. jobs'[k] = jobs[k] /\ CircuitsOf(k)' = CircuitsOf(k)
    BY <1>1 DEF HandlerEffect, RowsKept, RowsDeleted, CircuitsOf
  <2>2. \A c \in CircuitsOf(k) : JobOf(c.extraction) = k
    BY DEF CircuitInv, RowsOwned, CircuitsOf
  <2>3. \A c \in CircuitsOf(k) : c.extraction \in extractions' <=> c.extraction \in extractions
    BY <1>1, <2>2 DEF RowsKept, RowsDeleted, ExtractionsOf
  <2> QED
    BY <2>1, <2>3 DEF LatestPairs
<1>4. /\ upc[j] \notin NotYetCreated => upc'[j] \notin NotYetCreated
      /\ jobs[j] \in Closed /\ upc[j] \notin NotYetCreated => jobs'[j] \in {jobs[j], "none"}
  BY <1>1 DEF HandlerEffect, NotYetCreated, Closed
<1>5. \A r \in Reviewers : AsksFirst(r)' /\ ReadsPending(r)'
  <2> SUFFICES ASSUME NEW r \in Reviewers, rpc[r] \in Deciding
               PROVE  /\ upc'[req[r].job] \notin NotYetCreated
                      /\ jobs'[req[r].job] \in Closed \/ pair[r] \in circuits'
    BY <1>2 DEF AsksFirst, ReadsPending, Corrected
  <2>1. PICK k \in Jobs : k = req[r].job
    BY DEF AsksFirst, Deciding, InTx, ReviewCalls, SentRequests
  <2>2. JobOf(pair[r].id) = k /\ upc[k] \notin NotYetCreated
        /\ (jobs[k] \in Closed \/ pair[r] \in circuits)
    BY <2>1 DEF ReadsPending
  <2>3. CASE k # j
    <3>1. upc'[k] = upc[k] /\ jobs'[k] = jobs[k]
      BY <1>1, <2>3 DEF HandlerEffect
    <3>2. pair[r] \in circuits => pair[r] \in circuits'
      BY <1>1, <2>2, <2>3 DEF RowsKept, RowsDeleted, CircuitsOf
    <3> QED
      BY <2>1, <2>2, <3>1, <3>2
  <2>4. CASE k = j
    BY <1>1, <1>4, <2>1, <2>2, <2>4 DEF RowsKept, RowsDeleted, Closed
  <2> QED
    BY <2>3, <2>4
<1>6. LocksPending'
  <2> SUFFICES ASSUME NEW r \in Reviewers, HoldsJob(r)
               PROVE  jobs'[req[r].job] = "needs_review"
    BY <1>2 DEF LocksPending, HoldsJob
  <2>1. PICK k \in Jobs : k = req[r].job
    BY DEF AsksFirst, HoldsJob, ReviewCalls, SentRequests
  <2>2. jobs[k] = "needs_review" /\ Transactions(k) # {}
    BY <2>1 DEF LocksPending, HoldsJob, Transactions, InTx
  <2>3. k = j => upc[j] \notin NotYetCreated /\ (Deletes(j) => jobs' = jobs)
    BY <2>2 DEF UploadPart, rows, ClaimInv, ReleasedLate
  <2> QED
    BY <1>1, <2>1, <2>2, <2>3 DEF HandlerEffect, NotYetCreated, Deletes
<1>7. SecondDecided'
  BY <1>1 DEF SecondDecided, RowsKept, RowsDeleted, CircuitsOf
<1>8. \A d \in decisions : JobOf(d.reviewed) \in Jobs
  BY DEF TypeOK, StoreTypeOK, Decisions, RevisionIds, JobOf
<1>9. ASSUME NEW d \in decisions, JobOf(d.reviewed) = j
      PROVE  /\ jobs[j] \in {"ready", "failed"} /\ upc[j] \notin NotYetCreated
             /\ jobs'[j] \in {jobs[j], "none"}
  <2>1. jobs[j] \in {"ready", "failed"}
    BY <1>9 DEF DecisionMatchesState, Final
  <2>2. upc[j] \notin NotYetCreated
    BY <2>1 DEF ClaimInv, ReleasedLate
  <2> QED
    BY <1>4, <2>1, <2>2 DEF Closed
<1>10. DecisionMatchesState'
  <2> SUFFICES ASSUME NEW d \in decisions', NEW k \in Jobs, k = JobOf(d.reviewed)
               PROVE  jobs'[k] = Final(d) /\ \E c \in LatestPairs(k)' : c.id = d.resolved /\ c.status = Final(d)
    <3>1. \A d \in decisions' : JobOf(d.reviewed) \in Jobs
      BY <1>1, <1>8
    <3> QED
      BY <3>1 DEF DecisionMatchesState, LatestPairs, CircuitsOf
  <2>1. d \in decisions
    BY <1>1
  <2>2. jobs[k] = Final(d) /\ \E c \in LatestPairs(k) : c.id = d.resolved /\ c.status = Final(d)
    BY <2>1 DEF DecisionMatchesState
  <2>3. CASE k # j
    BY <1>3, <2>2, <2>3
  <2>4. CASE k = j
    <3>1. RowsKept(j)
      BY <1>1, <2>4
    <3>2. LatestPairs(j)' = LatestPairs(j)
      BY <3>1 DEF RowsKept, LatestPairs, CircuitsOf
    <3>3. jobs'[j] = jobs[j]
      BY <1>9, <2>1, <2>4, <3>1 DEF RowsKept
    <3> QED
      BY <2>2, <2>4, <3>2, <3>3
  <2> QED
    BY <2>3, <2>4
<1>11. OneDecisionPerJob'
  BY <1>1 DEF OneDecisionPerJob
<1>12. AnsweredIsSaved'
  <2> SUFFICES ASSUME NEW r \in Reviewers, answer[r] = "ok"
               PROVE  \/ \E d \in decisions' : /\ d.reviewed = req[r].revision
                                              /\ JobOf(d.reviewed) = req[r].job
                                              /\ d.kind = req[r].kind
                      \/ jobs'[req[r].job] = "none" /\ upc'[req[r].job] \in Over
    BY <1>2 DEF AnsweredIsSaved, JobOf, Over
  <2>1. PICK k \in Jobs : k = req[r].job
    BY DEF AsksFirst, SentRequests
  <2>2. CASE jobs[k] = "none" /\ upc[k] \in Over
    <3>1. k = j => upc'[j] \in Over /\ upc[j] \notin NotYetCreated
      BY <1>1, <2>2, HandlerEnds DEF Over, NotYetCreated
    <3> QED
      BY <1>1, <1>4, <2>1, <2>2, <3>1 DEF HandlerEffect, Closed
  <2>3. CASE ~(jobs[k] = "none" /\ upc[k] \in Over)
    <3>1. PICK d \in decisions : d.reviewed = req[r].revision /\ JobOf(d.reviewed) = k /\ d.kind = req[r].kind
      BY <2>1, <2>3 DEF AnsweredIsSaved, Over
    <3>2. CASE d \in decisions'
      BY <2>1, <3>1, <3>2
    <3>3. CASE d \notin decisions'
      <4>1. k = j /\ jobs'[j] = "none" /\ jobs[j] # "none"
        BY <1>1, <1>9, <3>1, <3>3 DEF RowsDeleted
      <4>2. upc'[j] \in {"undoUpload", "failed"}
        BY <1>1, <4>1 DEF HandlerEffect
      <4> QED
        BY <2>1, <4>1, <4>2 DEF Over
    <3> QED
      BY <3>2, <3>3
  <2> QED
    BY <2>2, <2>3
<1> QED
  BY <1>5, <1>6, <1>7, <1>10, <1>11, <1>12

(* A worker touches neither the requests nor a job that waits for a decision *)
(* or had one: it moves what is queued or extracting, and adds a revision to *)
(* a job that has none.                                                      *)
LEMMA WorkerKeepsReviews ==
  ASSUME SystemInv, NEW w \in Workers, WorkerPart(w)
  PROVE  ReviewInv'
<1> USE DEF SystemInv, ReviewInv
<1>1. /\ WorkerAction(w) /\ UNCHANGED reviewVars /\ WorkerEffect(w) /\ decisions' = decisions
      /\ SameRows \/ AddsExtraction(w) \/ AddsCircuit(w)
  BY WorkerHasEffect, WorkerRows, WorkerDecidesNothing DEF WorkerPart, ClaimInv
<1>2. UNCHANGED <<rpc, req, pair, rno, answer>> /\ upc' = upc
  BY <1>1 DEF reviewVars, WorkerEffect
<1>3. \A k \in Jobs : jobs[k] \in Closed \cup {"needs_review"} => jobs'[k] = jobs[k]
  BY <1>1 DEF WorkerEffect, Closed
<1>4. /\ circuits \subseteq circuits' /\ extractions \subseteq extractions'
      /\ \A c \in circuits' \ circuits :
           /\ c.version = 1
           /\ JobOf(c.id) = wjob[w] /\ jobs[wjob[w]] \notin {"ready", "failed"}
  <2>1. AddsCircuit(w) => jobs[wjob[w]] \notin {"ready", "failed"}
    BY DEF AddsCircuit, ClaimInv, ClaimedOrGone, Working, WorkerCalls
  <2> QED
    BY <1>1, <2>1 DEF SameRows, AddsExtraction, AddsCircuit, NewCircuit, Id, JobOf
<1>5. \A r \in Reviewers : AsksFirst(r)' /\ ReadsPending(r)'
  <2> SUFFICES ASSUME NEW r \in Reviewers, rpc[r] \in Deciding
               PROVE  jobs'[req[r].job] \in Closed \/ pair[r] \in circuits'
    BY <1>2 DEF AsksFirst, ReadsPending, Corrected
  <2>1. req[r].job \in Jobs
    BY DEF AsksFirst, Deciding, InTx, ReviewCalls, SentRequests
  <2> QED
    BY <1>3, <1>4, <2>1 DEF ReadsPending
<1>6. LocksPending'
  <2>1. \A r \in Reviewers : HoldsJob(r) => req[r].job \in Jobs
    BY DEF AsksFirst, HoldsJob, ReviewCalls, SentRequests
  <2> QED
    BY <1>2, <1>3, <2>1 DEF LocksPending, HoldsJob
<1>7. SecondDecided'
  BY <1>1, <1>4 DEF SecondDecided
<1>8. DecisionMatchesState'
  <2> SUFFICES ASSUME NEW d \in decisions, NEW k \in Jobs, k = JobOf(d.reviewed)
               PROVE  jobs'[k] = Final(d) /\ \E c \in LatestPairs(k)' : c.id = d.resolved /\ c.status = Final(d)
    <3>1. \A d \in decisions : JobOf(d.reviewed) \in Jobs
      BY DEF TypeOK, StoreTypeOK, Decisions, RevisionIds, JobOf
    <3> QED
      BY <1>1, <3>1 DEF DecisionMatchesState, LatestPairs, CircuitsOf
  <2>1. jobs[k] = Final(d) /\ \E c \in LatestPairs(k) : c.id = d.resolved /\ c.status = Final(d)
    BY DEF DecisionMatchesState
  <2>2. jobs[k] \in {"ready", "failed"}
    BY <2>1 DEF Final
  <2>3. CircuitsOf(k)' = CircuitsOf(k)
    BY <1>4, <2>2 DEF CircuitsOf
  <2>4. LatestPairs(k) \subseteq LatestPairs(k)'
    BY <1>4, <2>3 DEF LatestPairs
  <2> QED
    BY <1>3, <2>1, <2>2, <2>4 DEF Closed
<1>9. OneDecisionPerJob'
  BY <1>1 DEF OneDecisionPerJob
<1>10. AnsweredIsSaved'
  <2>1. \A r \in Reviewers : answer[r] = "ok" => req[r].job \in Jobs
    BY DEF AsksFirst, SentRequests
  <2> QED
    BY <1>1, <1>2, <1>3, <2>1 DEF AnsweredIsSaved, Closed
<1> QED
  BY <1>5, <1>6, <1>7, <1>8, <1>9, <1>10

-----------------------------------------------------------------------------
(* All of it is there at the start, and every step keeps it.                 *)
LEMMA InitSystem == SystemInit => SystemInv
<1> SUFFICES ASSUME SystemInit PROVE SystemInv
  OBVIOUS
<1>1. TypeOK /\ ClaimInv
  BY InitClaims DEF SystemInit
<1>2. CircuitInv
  BY InitRevisions DEF SystemInit, RevisionInv
<1>3. ReviewTypeOK
  BY DEF SystemInit, ReviewInit, ReviewTypeOK, ReviewSteps, Answers
<1>4. ReviewInv
  BY DEF SystemInit, Init, StoreInit, ReviewInit, ReviewInv, AsksFirst, ReadsPending, LocksPending,
     HoldsJob, Deciding, InTx, ReviewCalls, SecondDecided, DecisionMatchesState, OneDecisionPerJob,
     AnsweredIsSaved
<1> QED
  BY <1>1, <1>2, <1>3, <1>4 DEF SystemInv

(* Every step of a request keeps the whole invariant.                        *)
LEMMA RequestKeepsSystem ==
  ASSUME SystemInv, NEW r \in Reviewers, ReviewStep(r)
  PROVE  SystemInv'
<1>1. \A s \in Reviewers : AsksFirst(s)' /\ ReadsPending(s)'
  BY RequestKeepsReads
<1> QED
  BY <1>1, RequestKeepsTables, RequestKeepsPipeline, RequestKeepsLocks, RequestKeepsDecisions,
     RequestKeepsAnswers DEF SystemInv, ReviewInv

(* When Postgres aborts a DELETE, its handler goes on to the next call, and  *)
(* the request that held the revision gets the row of the job, which waits   *)
(* for a decision and which no other request has locked.                     *)
LEMMA AbortedDelete ==
  ASSUME TypeOK, ReviewTypeOK, NEW j \in Jobs, DeleteAborted(j)
  PROVE  /\ UNCHANGED <<store, disconnected, workerVars, req, pair, rno, answer>>
         /\ Deletes(j) /\ j \notin disconnected /\ jobs[j] = "needs_review"
         /\ upc'[j] \in {"undoUpload", "failed"} /\ \A k \in Jobs \ {j} : upc'[k] = upc[k]
         /\ \E r \in Reviewers :
              /\ rpc[r] = "moveJob" /\ rpc'[r] = "insertDecision"
              /\ req[r].job = j /\ ~Corrected(r)
              /\ \A s \in Reviewers \ {r} : rpc'[s] = rpc[s]
              /\ \A s \in Reviewers : HoldsJob(s) => req[s].job # j
<1>1. PICK r \in Reviewers : Deadlock(j, r) /\ Goto(r, "insertDecision")
  BY DEF DeleteAborted
<1>2. rpc'[r] = "insertDecision" /\ answer' = answer /\ \A s \in Reviewers \ {r} : rpc'[s] = rpc[s]
  BY <1>1, GotoEffect
<1>3. /\ rpc[r] = "moveJob" /\ req[r].job = j /\ ~Corrected(r)
      /\ \A s \in Reviewers : HoldsJob(s) => req[s].job # j
  BY <1>1 DEF Deadlock, Transactions, HoldsAbove, HoldsJob, InTx
<1>4. upc'[j] \in {"undoUpload", "failed"} /\ \A k \in Jobs \ {j} : upc'[k] = upc[k]
  BY DEF DeleteAborted, TypeOK, UploadsTypeOK
<1>5. /\ UNCHANGED <<store, disconnected, workerVars, req, pair, rno>>
      /\ Deletes(j) /\ j \notin disconnected /\ jobs[j] = "needs_review"
  BY <1>1 DEF DeleteAborted, Deadlock, StatusMatches
<1> QED
  BY <1>2, <1>3, <1>4, <1>5

(* Nothing the pipeline promises is about that.                              *)
LEMMA AbortedKeepsPipeline ==
  ASSUME SystemInv, NEW j \in Jobs, DeleteAborted(j)
  PROVE  /\ TypeOK' /\ ReviewTypeOK' /\ ClaimInv' /\ CircuitInv'
         /\ AttemptInv => AttemptInv'
         /\ SourceInv => SourceInv'
<1> USE DEF SystemInv
<1>1. /\ UNCHANGED <<store, disconnected, workerVars, req, pair, rno, answer>>
      /\ upc[j] \in {"undoJob", "undoUpload"} /\ upc'[j] \in {"undoUpload", "failed"}
      /\ \A k \in Jobs \ {j} : upc'[k] = upc[k]
  BY AbortedDelete DEF Deletes
<1>2. UNCHANGED <<uploads, jobs, extractions, circuits, decisions, sources, artifacts, queue, drawn,
                  wpc, wjob, wstatus, wno>>
  BY <1>1 DEF store, workerVars
<1>3. TypeOK'
  <2>1. upc' \in [Jobs -> UploadSteps]
    BY <1>1 DEF DeleteAborted, TypeOK, UploadsTypeOK, UploadSteps, UploadEnds, UploadCalls
  <2> QED
    BY <1>1, <1>2, <2>1 DEF TypeOK, StoreTypeOK, UploadsTypeOK, WorkerTypeOK
<1>4. ReviewTypeOK'
  BY <1>1 DEF DeleteAborted, Goto, ReviewTypeOK, ReviewSteps, ReviewCalls
<1>5. ClaimInv'
  <2>1. Queued' = Queued
    BY <1>2 DEF Queued
  <2>2. ReleasedLate'
    BY <1>1, <1>2, <2>1 DEF ClaimInv, ReleasedLate, Unreleased, NotYetCreated
  <2> QED
    BY <1>2, <2>2 DEF ClaimInv, Locals, ClaimedOrGone, OneExtractor, Working
<1>6. CircuitInv' /\ (AttemptInv => AttemptInv')
  BY <1>2 DEF CircuitInv, RowsOwned, ReportsRow, FirstUntilClosed, StatusJustified, CircuitsOf,
     ExtractionsOf, AttemptInv
<1>7. SourceInv => SourceInv'
  <2>1. Queued' = Queued
    BY <1>2 DEF Queued
  <2> QED
    BY <1>1, <1>2, <2>1 DEF SourceInv, Unreleased
<1> QED
  BY <1>3, <1>4, <1>5, <1>6, <1>7

(* The request that gets the row is the only one to hold it, and the job     *)
(* still waits.                                                              *)
LEMMA AbortedKeepsReviews ==
  ASSUME SystemInv, NEW j \in Jobs, DeleteAborted(j)
  PROVE  ReviewInv'
<1> USE DEF SystemInv, ReviewInv
<1>1. /\ UNCHANGED <<jobs, extractions, circuits, decisions, req, pair, rno, answer>>
      /\ jobs[j] = "needs_review"
      /\ upc[j] \in {"undoJob", "undoUpload"} /\ upc'[j] \in {"undoUpload", "failed"}
      /\ \A k \in Jobs \ {j} : upc'[k] = upc[k]
  BY AbortedDelete DEF Deletes, store
<1>2. PICK r \in Reviewers :
        /\ rpc[r] = "moveJob" /\ rpc'[r] = "insertDecision" /\ req[r].job = j /\ ~Corrected(r)
        /\ \A s \in Reviewers \ {r} : rpc'[s] = rpc[s]
        /\ \A s \in Reviewers : HoldsJob(s) => req[s].job # j
  BY AbortedDelete
<1>3. \A s \in Reviewers : Corrected(s)' = Corrected(s)
  BY <1>1 DEF Corrected
<1>4. \A k \in Jobs :
        /\ upc[k] \notin NotYetCreated => upc'[k] \notin NotYetCreated
        /\ upc[k] \in {"undoUpload", "failed", "crashed"} =>
             upc'[k] \in {"undoUpload", "failed", "crashed"}
  BY <1>1 DEF NotYetCreated
<1>5. \A s \in Reviewers : AsksFirst(s)' /\ ReadsPending(s)'
  <2> SUFFICES ASSUME NEW s \in Reviewers PROVE AsksFirst(s)' /\ ReadsPending(s)'
    OBVIOUS
  <2>1. /\ rpc[s] \in ReviewCalls \ {"dropSuccessor"} <=> rpc'[s] \in ReviewCalls \ {"dropSuccessor"}
        /\ rpc[s] \in ReviewCalls <=> rpc'[s] \in ReviewCalls
        /\ rpc[s] = "idle" <=> rpc'[s] = "idle"
        /\ rpc[s] \in Deciding <=> rpc'[s] \in Deciding
        /\ rpc[s] = "putSuccessor" <=> rpc'[s] = "putSuccessor"
    BY <1>2 DEF ReviewCalls, Deciding, InTx
  <2>2. AsksFirst(s) /\ ReadsPending(s)
    OBVIOUS
  <2>3. AsksFirst(s)'
    BY <1>1, <2>1, <2>2 DEF AsksFirst
  <2>4. rpc[s] \in Deciding => req[s].job \in Jobs
    BY <2>2 DEF AsksFirst, Deciding, InTx, ReviewCalls, SentRequests
  <2>5. ReadsPending(s)'
    <3> SUFFICES ASSUME rpc'[s] \in Deciding
                 PROVE  /\ pair[s] \in Revisions
                        /\ pair[s].id = req[s].revision /\ JobOf(pair[s].id) = req[s].job
                        /\ rpc[s] = "putSuccessor" => Corrected(s)
                        /\ Corrected(s) => rno[s] # 0
                        /\ upc'[req[s].job] \notin NotYetCreated
                        /\ jobs[req[s].job] \in Closed \/ pair[s] \in circuits
      BY <1>1, <1>3, <2>1 DEF ReadsPending
    <3>1. rpc[s] \in Deciding
      BY <2>1
    <3>2. upc[req[s].job] \notin NotYetCreated
      BY <2>2, <3>1 DEF ReadsPending
    <3>3. upc'[req[s].job] \notin NotYetCreated
      BY <1>4, <2>4, <3>1, <3>2
    <3> QED
      BY <2>2, <3>1, <3>3 DEF ReadsPending
  <2> QED
    BY <2>3, <2>5
<1>6. LocksPending'
  BY <1>1, <1>2 DEF LocksPending, HoldsJob
<1>7. SecondDecided' /\ OneDecisionPerJob' /\ DecisionMatchesState'
  BY <1>1 DEF SecondDecided, OneDecisionPerJob, DecisionMatchesState, LatestPairs, CircuitsOf
<1>8. AnsweredIsSaved'
  <2>1. \A s \in Reviewers : answer[s] = "ok" => req[s].job \in Jobs
    BY DEF AsksFirst, SentRequests
  <2> QED
    BY <1>1, <1>4, <2>1 DEF AnsweredIsSaved
<1> QED
  BY <1>5, <1>6, <1>7, <1>8

(* So does every step of the system, whatever revision a client names.       *)
LEMMA NextKeepsSystem == SystemInv /\ [OpenNext]_systemVars => SystemInv'
<1> SUFFICES ASSUME SystemInv, [OpenNext]_systemVars PROVE SystemInv'
  OBVIOUS
<1> USE DEF SystemInv
<1>1. ASSUME NEW j \in Jobs, UploadPart(j) PROVE SystemInv'
  <2>1. UploadAction(j) /\ UNCHANGED reviewVars
    BY <1>1 DEF UploadPart
  <2>2. ReviewTypeOK'
    BY <2>1 DEF reviewVars, ReviewTypeOK
  <2> QED
    BY <1>1, <2>1, <2>2, HandlerKeepsTypes, HandlerKeepsClaims, HandlerKeepsCircuits,
       HandlerKeepsReviews
<1>2. ASSUME NEW w \in Workers, WorkerPart(w) PROVE SystemInv'
  <2>1. WorkerAction(w) /\ UNCHANGED reviewVars
    BY <1>2 DEF WorkerPart
  <2>2. ReviewTypeOK'
    BY <2>1 DEF reviewVars, ReviewTypeOK
  <2>3. TypeOK' /\ ClaimInv'
    BY <2>1, NextKeepsClaims DEF Next
  <2> QED
    BY <1>2, <2>1, <2>2, <2>3, WorkerKeepsCircuits, WorkerKeepsReviews
<1>3. ASSUME NEW r \in Reviewers, ReviewStep(r) PROVE SystemInv'
  BY <1>3, RequestKeepsSystem
<1>4. CASE UNCHANGED systemVars
  <2>1. UNCHANGED vars /\ UNCHANGED reviewVars
    BY <1>4 DEF systemVars
  <2>2. TypeOK' /\ ClaimInv'
    BY <2>1, NextKeepsClaims
  <2>3. CircuitInv'
    BY <2>1 DEF vars, store, workerVars, CircuitInv, RowsOwned, ReportsRow, FirstUntilClosed,
       StatusJustified, CircuitsOf, ExtractionsOf
  <2>4. ReviewTypeOK'
    BY <2>1 DEF reviewVars, ReviewTypeOK
  <2>5. ReviewInv'
    <3>1. UNCHANGED <<jobs, circuits, extractions, decisions, upc, rpc, req, pair, rno, answer>>
      BY <2>1 DEF vars, store, uploadVars, reviewVars
    <3>2. \A r \in Reviewers : AsksFirst(r)' /\ ReadsPending(r)'
      BY <3>1 DEF ReviewInv, AsksFirst, ReadsPending, Corrected
    <3>3. LocksPending' /\ SecondDecided' /\ OneDecisionPerJob' /\ AnsweredIsSaved'
      BY <3>1 DEF ReviewInv, LocksPending, HoldsJob, SecondDecided, OneDecisionPerJob,
         AnsweredIsSaved
    <3>4. DecisionMatchesState'
      BY <3>1 DEF ReviewInv, DecisionMatchesState, LatestPairs, CircuitsOf
    <3> QED
      BY <3>2, <3>3, <3>4 DEF ReviewInv
  <2> QED
    BY <2>2, <2>3, <2>4, <2>5
<1>5. ASSUME NEW j \in Jobs, DeleteAborted(j) PROVE SystemInv'
  BY <1>5, AbortedKeepsPipeline, AbortedKeepsReviews
<1> QED
  BY <1>1, <1>2, <1>3, <1>4, <1>5 DEF OpenNext

(* The system whose clients name the revisions they have seen is the one     *)
(* whose clients name any.                                                   *)
LEMMA SystemIsOpen == SystemSpec => OpenSpec
<1>1. SystemInv /\ [SystemNext]_systemVars => [OpenNext]_systemVars
  BY PartIsStep DEF SystemInv, TypeOK, SystemNext, OpenNext
<1> QED
  BY <1>1, InitSystem, NextKeepsSystem, PTL DEF SystemSpec, OpenSpec

(* Whatever fails, crashes or races: the tables and the requests of the      *)
(* whole backend stay well formed, and what the requests rely on holds, also *)
(* when a client names a revision that was deleted since or never was.       *)
THEOREM OpenInvariant == OpenSpec => []SystemInv
  BY InitSystem, NextKeepsSystem, PTL DEF OpenSpec

(* ... and when every client names a revision it has seen.                   *)
THEOREM SystemInvariant == SystemSpec => []SystemInv
  BY SystemIsOpen, OpenInvariant, PTL

(* What the requests of reviewers rely on: one that read the pending         *)
(* revision decides on that revision, one at a time holds the lock of a job  *)
(* that still waits, and nobody but a decision adds a second version.        *)
THEOREM ReviewInvariant == SystemSpec => []ReviewInv
<1>1. SystemInv => ReviewInv
  BY DEF SystemInv
<1> QED
  BY <1>1, SystemInvariant, PTL

(* Postgres rows, objects, queue and requests keep their types.              *)
THEOREM SystemTypes == SystemSpec => []SystemTypeOK
<1>1. SystemInv => SystemTypeOK
  BY DEF SystemInv, SystemTypeOK
<1> QED
  BY <1>1, SystemInvariant, PTL

(* SaveReviewDecision writes a decision, its job and its revision together,  *)
(* and neither a worker nor another request takes them apart afterwards.     *)
THEOREM DecisionsMatch == SystemSpec => []DecisionMatchesState
<1>1. SystemInv => DecisionMatchesState
  BY DEF SystemInv, ReviewInv
<1> QED
  BY <1>1, SystemInvariant, PTL

(* A job is decided once at most: the compare-and-swap on its row lets one   *)
(* of the racing transactions pass, with corrections as well as without.     *)
THEOREM DecidedOnce == SystemSpec => []OneDecisionPerJob
<1>1. SystemInv => OneDecisionPerJob
  BY DEF SystemInv, ReviewInv
<1> QED
  BY <1>1, SystemInvariant, PTL

(* SubmitReviewDecision answers ok only to the reviewer whose decision was   *)
(* committed, and it stays until the handler of the upload takes the whole   *)
(* job back.                                                                 *)
THEOREM AnswersAreSaved == SystemSpec => []AnsweredIsSaved
<1>1. SystemInv => AnsweredIsSaved
  BY DEF SystemInv, ReviewInv
<1> QED
  BY <1>1, SystemInvariant, PTL

(* The job's status is that of its latest revision.                          *)
LEMMA StatusOfLatest == SystemInv => JobAgreesWithLatest
<1> SUFFICES ASSUME SystemInv, NEW j \in Jobs, jobs[j] \in {"needs_review", "ready"}
             PROVE  \E c \in LatestPairs(j) : c.status = jobs[j]
  BY DEF JobAgreesWithLatest
<1>1. CASE \A d \in decisions : JobOf(d.reviewed) # j
  <2>1. \A c \in CircuitsOf(j) : c.version = 1
    BY <1>1 DEF SystemInv, ReviewInv, SecondDecided, CircuitsOf
  <2>2. PICK c \in CircuitsOf(j) : c.status = jobs[j]
    BY DEF SystemInv, CircuitInv, StatusJustified
  <2>3. c.extraction \in extractions
    BY DEF SystemInv, CircuitInv, RowsOwned, CircuitsOf
  <2> QED
    BY <2>1, <2>2, <2>3 DEF LatestPairs
<1>2. CASE \E d \in decisions : JobOf(d.reviewed) = j
  BY <1>2 DEF SystemInv, ReviewInv, DecisionMatchesState
<1> QED
  BY <1>1, <1>2

(* The polled status of a job is that of its latest revision, the corrected  *)
(* one included.                                                             *)
THEOREM PollingAgrees == SystemSpec => []JobAgreesWithLatest
  BY StatusOfLatest, SystemInvariant, PTL

(* No step of the backend records a decision on a job that does not wait for *)
(* one: a worker still has it, or it was closed by somebody else.            *)
THEOREM OpenPending == OpenSpec => OnlyPendingDecided
<1>1. SystemInv /\ [OpenNext]_systemVars => [DecidesPendingJob]_systemVars
  <2> SUFFICES ASSUME SystemInv, OpenNext, NEW d \in decisions' \ decisions
               PROVE  jobs[JobOf(d.reviewed)] = "needs_review"
    BY DEF DecidesPendingJob
  <2>1. ASSUME NEW j \in Jobs, UploadPart(j) PROVE FALSE
    BY <2>1, HandlerDecisions DEF UploadPart, SystemInv
  <2>2. ASSUME NEW w \in Workers, WorkerPart(w) PROVE FALSE
    BY <2>2, WorkerDecidesNothing DEF WorkerPart
  <2>3. ASSUME NEW r \in Reviewers, ReviewStep(r)
        PROVE  jobs[JobOf(d.reviewed)] = "needs_review"
    <3>1. RequestEffect(r)
      BY <2>3, RequestHasEffect DEF SystemInv, TypeOK
    <3>2. Writes(r)
      BY <3>1 DEF RequestEffect, Asks, Refused, GoesOn, Reads, Drops, Dies, SameRow, store, rows
    <3>3. PICK j : j = req[r].job
      OBVIOUS
    <3>4. AboutToDecide(r, j) /\ WriteEffect(r, j)
      BY <3>2, <3>3, WriteHasEffect
    <3>5. d = NewDecision(r) /\ NewDecision(r).reviewed = pair[r].id
      BY <3>4 DEF WriteEffect, NewDecision
    <3>6. JobOf(d.reviewed) = j /\ jobs[j] = "needs_review"
      BY <3>4, <3>5 DEF AboutToDecide
    <3> QED
      BY <3>6
  <2>4. ASSUME NEW j \in Jobs, DeleteAborted(j) PROVE FALSE
    BY <2>4 DEF DeleteAborted, store
  <2> QED
    BY <2>1, <2>2, <2>3, <2>4 DEF OpenNext
<1> QED
  BY <1>1, OpenInvariant, PTL DEF OpenSpec, OnlyPendingDecided

(* ... in particular with clients that name what they have seen.             *)
THEOREM PendingDecided == SystemSpec => OnlyPendingDecided
  BY SystemIsOpen, OpenPending, PTL

-----------------------------------------------------------------------------
(* What a request may do to a job: decide it, when it waits for that.        *)
LEMMA RequestMovesJobs ==
  ASSUME SystemInv, NEW r \in Reviewers, ReviewStep(r), NEW k \in Jobs
  PROVE  jobs'[k] = jobs[k] \/ (jobs[k] = "needs_review" /\ jobs'[k] \in {"ready", "failed"})
<1>1. RequestEffect(r)
  BY RequestHasEffect DEF SystemInv, TypeOK
<1>2. CASE Writes(r)
  <2>1. PICK j : j = req[r].job
    OBVIOUS
  <2>2. AboutToDecide(r, j) /\ WriteEffect(r, j)
    BY <1>2, <2>1, WriteHasEffect
  <2> QED
    BY <2>2 DEF AboutToDecide, WriteEffect, ResolvedStatus
<1>3. CASE ~Writes(r)
  BY <1>1, <1>3 DEF RequestEffect, Asks, Refused, GoesOn, Reads, Drops, Dies, SameRow, store, rows
<1> QED
  BY <1>2, <1>3

(* What the pipeline promises is not disturbed by reviewers: one attempt per *)
(* job, and no worker that reads half an image.                              *)
LEMMA RequestKeepsAttempts ==
  ASSUME SystemInv, AttemptInv, SourceInv, NEW r \in Reviewers, ReviewStep(r)
  PROVE  AttemptInv' /\ SourceInv'
<1>1. RequestEffect(r) /\ UNCHANGED <<upc, wpc, wjob>>
  BY RequestHasEffect DEF SystemInv, TypeOK, ReviewStep, uploadVars, workerVars
<1>2. UNCHANGED <<extractions, sources, queue>>
  BY <1>1 DEF RequestEffect, Asks, Refused, GoesOn, Reads, Writes, Drops, Dies, SameRow, store, rows,
     objects
<1>3. \A k \in Jobs : jobs'[k] = jobs[k] \/ (jobs[k] = "needs_review" /\ jobs'[k] \in {"ready", "failed"})
  BY RequestMovesJobs
<1>4. AttemptInv'
  BY <1>1, <1>2, <1>3 DEF AttemptInv, ExtractionsOf
<1>5. SourceInv'
  BY <1>1, <1>2, <1>3 DEF SourceInv, Unreleased, Queued
<1> QED
  BY <1>4, <1>5

(* With reviewers on the same rows a job is still extracted once at most,    *)
(* by one worker, from a whole image, and never before it was released.      *)
THEOREM OpenPipeline ==
  OpenSpec => [](/\ OneExtractor /\ PayloadReleased /\ ReadsWholeImage /\ StatusJustified
                 /\ \A j \in Jobs : Cardinality(ExtractionsOf(j)) <= 1)
<1>1. SystemInit => AttemptInv /\ SourceInv
  BY InitRevisions DEF SystemInit, RevisionInv
<1>2. SystemInv /\ AttemptInv /\ SourceInv /\ [OpenNext]_systemVars => AttemptInv' /\ SourceInv'
  <2> SUFFICES ASSUME SystemInv, AttemptInv, SourceInv, [OpenNext]_systemVars
               PROVE  AttemptInv' /\ SourceInv'
    OBVIOUS
  <2> USE DEF SystemInv
  <2>1. ASSUME NEW j \in Jobs, UploadPart(j) PROVE AttemptInv' /\ SourceInv'
    BY <2>1, HandlerKeepsAttempts, HandlerKeepsSources DEF UploadPart
  <2>2. ASSUME NEW w \in Workers, WorkerPart(w) PROVE AttemptInv' /\ SourceInv'
    BY <2>2, WorkerKeepsAttempts, WorkerKeepsSources DEF WorkerPart
  <2>3. ASSUME NEW r \in Reviewers, ReviewStep(r) PROVE AttemptInv' /\ SourceInv'
    BY <2>3, RequestKeepsAttempts
  <2>4. CASE UNCHANGED systemVars
    BY <2>4 DEF systemVars, vars, store, uploadVars, workerVars, AttemptInv, ExtractionsOf,
       SourceInv, Unreleased, Queued
  <2>5. ASSUME NEW j \in Jobs, DeleteAborted(j) PROVE AttemptInv' /\ SourceInv'
    BY <2>5, AbortedKeepsPipeline
  <2> QED
    BY <2>1, <2>2, <2>3, <2>4, <2>5 DEF OpenNext
<1>3. SystemInv /\ AttemptInv /\ SourceInv =>
        /\ OneExtractor /\ PayloadReleased /\ ReadsWholeImage /\ StatusJustified
        /\ \A j \in Jobs : Cardinality(ExtractionsOf(j)) <= 1
  <2> SUFFICES ASSUME SystemInv, AttemptInv, SourceInv
               PROVE  /\ OneExtractor /\ PayloadReleased /\ ReadsWholeImage /\ StatusJustified
                      /\ \A j \in Jobs : Cardinality(ExtractionsOf(j)) <= 1
    OBVIOUS
  <2>1. PayloadReleased /\ ReadsWholeImage
    BY ReleasedPayloads, SourcesAreWhole DEF SystemInv
  <2>2. \A j \in Jobs : Cardinality(ExtractionsOf(j)) <= 1
    <3>1. \A j \in Jobs : \A e, f \in ExtractionsOf(j) : e = f
      BY DEF ExtractionsOf, AttemptInv
    <3> QED
      BY <3>1, AtMostOneMember
  <2> QED
    BY <2>1, <2>2 DEF SystemInv, ClaimInv, CircuitInv
<1> QED
  BY <1>1, <1>2, <1>3, OpenInvariant, PTL DEF OpenSpec

(* The path of a job in the whole backend: the edges of the pipeline, a      *)
(* decision on a job that waits for one, and the removal by its own upload.  *)
BackendMoves == \A j \in Jobs : jobs'[j] # jobs[j] =>
  \/ <<jobs[j], jobs'[j]>> \in
       Edges \cup {<<"needs_review", "ready">>, <<"needs_review", "failed">>}
  \/ jobs'[j] = "none" /\ upc[j] \in {"undoJob", "undoUpload"}

(* No step of an upload, a worker or a reviewer takes another edge.          *)
THEOREM OpenJobPath == OpenSpec => [][BackendMoves]_systemVars
<1>1. SystemInv /\ [OpenNext]_systemVars => [BackendMoves]_systemVars
  <2> SUFFICES ASSUME SystemInv, OpenNext PROVE BackendMoves
    OBVIOUS
  <2>1. CASE (\E j \in Jobs : UploadPart(j)) \/ (\E w \in Workers : WorkerPart(w))
    <3>1. Next
      BY <2>1 DEF UploadPart, WorkerPart, Next
    <3>2. JobMoves
      BY <3>1, StepMovesJobs DEF SystemInv
    <3> QED
      BY <3>2 DEF JobMoves, BackendMoves
  <2>2. CASE \E r \in Reviewers : ReviewStep(r)
    BY <2>2, RequestMovesJobs DEF BackendMoves
  <2>3. CASE \E j \in Jobs : DeleteAborted(j)
    BY <2>3 DEF DeleteAborted, store, BackendMoves
  <2> QED
    BY <2>1, <2>2, <2>3 DEF OpenNext
<1> QED
  BY <1>1, OpenInvariant, PTL DEF OpenSpec

(* Workers and handlers that share their rows with reviewers still implement *)
(* the ledger of claims: a decision is no step of it.                        *)
THEOREM OpenClaimRefinement == OpenSpec => ImplementsClaimLedger
<1>1. SystemInit => Claims!Init
  BY InitImplements DEF SystemInit
<1>2. SystemInv /\ [OpenNext]_systemVars => [Claims!Next]_Claims!ledger
  <2> SUFFICES ASSUME SystemInv, [OpenNext]_systemVars
               PROVE  Claims!Next \/ UNCHANGED Claims!ledger
    OBVIOUS
  <2>1. CASE (\E j \in Jobs : UploadPart(j)) \/ (\E w \in Workers : WorkerPart(w))
    BY <2>1, HandlerImplements, WorkerImplements DEF SystemInv, UploadPart, WorkerPart
  <2>2. CASE \E r \in Reviewers : ReviewStep(r)
    <3>1. UNCHANGED <<upc, wpc, wjob>>
      BY <2>2 DEF ReviewStep, uploadVars, workerVars
    <3>2. \A k \in Jobs : Phase(k)' = Phase(k)
      BY <2>2, <3>1, RequestMovesJobs DEF Phase
    <3> QED
      BY <3>1, <3>2 DEF Claims!ledger, HoldersOf, Working
  <2>3. CASE UNCHANGED systemVars
    BY <2>3 DEF systemVars, vars, store, uploadVars, workerVars, Claims!ledger, Phase, HoldersOf,
       Working
  <2>4. ASSUME NEW j \in Jobs, DeleteAborted(j) PROVE UNCHANGED Claims!ledger
    <3>1. UNCHANGED <<store, workerVars>> /\ jobs[j] = "needs_review"
          /\ \A k \in Jobs \ {j} : upc'[k] = upc[k]
      BY <2>4, AbortedDelete DEF SystemInv
    <3>2. \A k \in Jobs : Phase(k)' = Phase(k)
      BY <3>1 DEF store, Phase
    <3> QED
      BY <3>1, <3>2 DEF workerVars, Claims!ledger, HoldersOf, Working
  <2> QED
    BY <2>1, <2>2, <2>3, <2>4 DEF OpenNext
<1> QED
  BY <1>1, <1>2, OpenInvariant, PTL DEF OpenSpec, ImplementsClaimLedger, Claims!Spec
=============================================================================
