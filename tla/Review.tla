------------------------------- MODULE Review -------------------------------
(* The review workbench of the API: the queue of pending revisions and the   *)
(* decision command, circuit.Service.SubmitReviewDecision, over the Postgres *)
(* repository.  The decision is one READ COMMITTED transaction: its reads    *)
(* take no lock, its writes lock the row they touch until it ends, and other *)
(* transactions see them at the commit.  Each step below is one call.        *)
EXTENDS Store

CONSTANT Reviewers   \* the decision requests; each is submitted once

VARIABLES rpc,      \* the call request r makes next
          req,      \* what the client sent
          pair,     \* the circuit revision read by GetLatestReviewable
          rno,      \* the number of the successor revision r drew
          answer    \* the HTTP answer

reviewVars == <<rpc, req, pair, rno, answer>>

(* What a client may send for a job: a decision, whether note and reviewer   *)
(* are filled in, and a corrected specification.                             *)
Commands == [kind : {"approve", "reject", "other"}, filled : BOOLEAN,
             spec : {"none", "valid", "invalid"}]
Wellformed(c) == /\ c.kind # "other"
                 /\ c.filled
                 /\ c.kind = "reject" => c.spec = "none"

Answers == {"none", "ok", "badRequest", "notFound", "conflict", "serverError"}
ReviewSteps == {"idle", "answered", "crashed"} \cup ReviewCalls

(* The revision id a client sends: one of a row (of this job or another), or *)
(* one no row ever had.                                                      *)
SentRevisions == {c.id : c \in circuits} \cup {<<j, 0>> : j \in Jobs}

NoRequest == [job |-> "none", revision |-> <<>>, kind |-> "none", spec |-> "none"]
NoPair == [id |-> <<>>]

SentRequests == [job : Jobs, revision : Jobs \X Nat, kind : {"approve", "reject"},
                 spec : {"none", "valid", "invalid"}]
ReviewTypeOK ==
  /\ rpc \in [Reviewers -> ReviewSteps]
  /\ req \in [Reviewers -> {NoRequest} \cup SentRequests]
  /\ pair \in [Reviewers -> {NoPair} \cup Revisions]
  /\ rno \in [Reviewers -> Nat]
  /\ answer \in [Reviewers -> Answers]

ReviewInit == /\ rpc = [r \in Reviewers |-> "idle"]
              /\ req = [r \in Reviewers |-> NoRequest]
              /\ pair = [r \in Reviewers |-> NoPair]
              /\ rno = [r \in Reviewers |-> 0]
              /\ answer = [r \in Reviewers |-> "none"]

(* GET .../circuit-reviews lists these jobs, GET .../circuit-reviews/j opens *)
(* one; both look at the status of the latest revision.                      *)
Reviewable(j) == {c \in LatestPairs(j) : c.status = "needs_review"}
ListReviewQueue == {j \in Jobs : Reviewable(j) # {}}

Corrected(r) == req[r].spec # "none"
Successor(r) == <<req[r].job, rno[r]>>

(* validateCircuitSpec refuses the corrected specification.                  *)
SpecRefused(r) == req[r].spec = "invalid"

(* The row the decision resolves: a successor for a correction, else the     *)
(* reviewed row with a new status.                                           *)
ResolvedStatus_AsSent(r) ==
  IF Corrected(r) THEN "needs_review" ELSE IF req[r].kind = "approve" THEN "ready" ELSE "failed"
ResolvedStatus(r) == IF req[r].kind = "approve" THEN "ready" ELSE "failed"
Resolved(r) ==
  IF Corrected(r)
    THEN [pair[r] EXCEPT !.id = Successor(r), !.version = @ + 1, !.status = ResolvedStatus(r)]
    ELSE [pair[r] EXCEPT !.status = ResolvedStatus(r)]

Answer(r, a) == rpc' = [rpc EXCEPT ![r] = "answered"] /\ answer' = [answer EXCEPT ![r] = a]
Goto(r, step) == rpc' = [rpc EXCEPT ![r] = step] /\ UNCHANGED answer

(* SaveReviewDecision returned an error: the successor's object is deleted   *)
(* before the request is answered with that error.                           *)
Abort(r, a) ==
  /\ rpc' = [rpc EXCEPT ![r] = IF Corrected(r) THEN "dropSuccessor" ELSE "answered"]
  /\ answer' = [answer EXCEPT ![r] = a]

(* The transaction holds the lock of the reviewed row from its UPDATE, and   *)
(* that of the job row from the compare-and-swap, to the commit or rollback. *)
InTx == {"moveJob", "insertDecision", "commit"}
HoldsRevision_NoRollback(r) ==
  ~Corrected(r) /\ (rpc[r] \in InTx \/ answer[r] = "serverError")
HoldsRevision(r) == ~Corrected(r) /\ rpc[r] \in InTx
HoldsJob(r) == rpc[r] \in {"insertDecision", "commit"}
RevisionLocked(r) == \E s \in Reviewers \ {r} : HoldsRevision(s) /\ pair[s].id = pair[r].id
JobLocked(r) == \E s \in Reviewers \ {r} : HoldsJob(s) /\ req[s].job = req[r].job

(* Stale-write protection: the pending revision is the one the client saw.   *)
IsSeen_Any(r, c) == TRUE
IsSeen(r, c) == c.id = req[r].revision

-----------------------------------------------------------------------------
(* Command c arrives, about revision v of job j.                             *)
Submit(r, j, v, c) ==
  /\ rpc[r] = "idle"
  /\ IF Wellformed(c)
       THEN /\ req' = [req EXCEPT ![r] = [job |-> j, revision |-> v, kind |-> c.kind, spec |-> c.spec]]
            /\ Goto(r, "getDecision")
       ELSE Answer(r, "badRequest") /\ UNCHANGED req
  /\ UNCHANGED <<store, pair, rno>>

(* Any client may send anything.                                             *)
SubmitAnything(r) == \E j \in Jobs, v \in SentRevisions, c \in Commands : Submit(r, j, v, c)

GetDecision(r) ==
  /\ rpc[r] = "getDecision"
  /\ \E o \in Outcomes("getDecision") :
       IF ~Succeeds(o, TRUE) THEN Answer(r, "serverError")
       ELSE IF \E d \in decisions : d.reviewed = req[r].revision THEN Answer(r, "conflict")
       ELSE Goto(r, "getReviewable")
  /\ UNCHANGED <<store, req, pair, rno>>

(* A corrected specification is validated, and its identifier drawn, after   *)
(* the pending revision was read and compared with the one the client saw.   *)
GetReviewable(r) ==
  /\ rpc[r] = "getReviewable"
  /\ \E o \in Outcomes("getReviewable") :
       \/ /\ ~Succeeds(o, TRUE)
          /\ Answer(r, "serverError") /\ UNCHANGED <<pair, rno, drawn>>
       \/ /\ Succeeds(o, Reviewable(req[r].job) = {})
          /\ Answer(r, "notFound") /\ UNCHANGED <<pair, rno, drawn>>
       \/ /\ Succeeds(o, TRUE)
          /\ \E c \in Reviewable(req[r].job) :
               \/ /\ ~IsSeen(r, c)
                  /\ Answer(r, "conflict") /\ UNCHANGED <<pair, rno, drawn>>
               \/ /\ IsSeen(r, c) /\ SpecRefused(r)
                  /\ Answer(r, "badRequest") /\ UNCHANGED <<pair, rno, drawn>>
               \/ /\ IsSeen(r, c) /\ Corrected(r) /\ ~SpecRefused(r)
                  /\ pair' = [pair EXCEPT ![r] = c]
                  /\ rno' = [rno EXCEPT ![r] = drawn[req[r].job] + 1]
                  /\ drawn' = [drawn EXCEPT ![req[r].job] = @ + 1]
                  /\ Goto(r, "putSuccessor")
               \/ /\ IsSeen(r, c) /\ ~Corrected(r)
                  /\ pair' = [pair EXCEPT ![r] = c]
                  /\ Goto(r, "ensure")
                  /\ UNCHANGED <<rno, drawn>>
  /\ UNCHANGED <<rows, objects, queue, req>>

(* Only a correction whose object was written goes on to the transaction.    *)
SuccessorStored_IgnoreError(o) == TRUE
SuccessorStored(o) == Succeeds(o, TRUE)

PutSuccessor(r) ==
  /\ rpc[r] = "putSuccessor"
  /\ \E o \in Outcomes("putSuccessor") :
       /\ artifacts' = IF Applies(o, TRUE) THEN artifacts \cup {<<"circuit", Successor(r)>>} ELSE artifacts
       /\ IF SuccessorStored(o) THEN Goto(r, "ensure") ELSE Answer(r, "serverError")
  /\ UNCHANGED <<rows, sources, queue, drawn, req, pair, rno>>

(* BEGIN, and the SELECT that looks for the pending row without locking it.  *)
StillPending(r) == \E c \in circuits : c.id = pair[r].id /\ c.status = "needs_review"
EnsureReviewable(r) ==
  /\ rpc[r] = "ensure"
  /\ \E o \in Outcomes("ensure") :
       IF ~Succeeds(o, TRUE) THEN Abort(r, "serverError")
       ELSE IF StillPending(r) THEN Goto(r, "writeRevision") ELSE Abort(r, "notFound")
  /\ UNCHANGED <<store, req, pair, rno>>

(* UPDATE of the reviewed row by id alone, or INSERT of the successor, whose *)
(* foreign keys want the job and the extraction.                             *)
WriteRevision(r) ==
  /\ rpc[r] = "writeRevision"
  /\ Corrected(r) \/ ~RevisionLocked(r)
  /\ LET parents == Corrected(r) => JobRowExists(req[r].job) /\ pair[r].extraction \in extractions
     IN \E o \in Outcomes("writeRevision") :
          IF Succeeds(o, parents) THEN Goto(r, "moveJob") ELSE Abort(r, "serverError")
  /\ UNCHANGED <<store, req, pair, rno>>

(* The compare-and-swap on the job.  No row: ErrInvalidStatusTransition or   *)
(* ErrJobNotFound, which the HTTP layer maps to 500.                         *)
MoveJob(r) ==
  /\ rpc[r] = "moveJob"
  /\ ~JobLocked(r)
  /\ \E o \in Outcomes("moveJob") :
       IF Succeeds(o, StatusMatches(req[r].job, "needs_review"))
         THEN Goto(r, "insertDecision") ELSE Abort(r, "serverError")
  /\ UNCHANGED <<store, req, pair, rno>>

InsertDecision(r) ==
  /\ rpc[r] = "insertDecision"
  /\ LET unique == \A d \in decisions : d.reviewed # pair[r].id
     IN \E o \in Outcomes("insertDecision") :
          IF Succeeds(o, unique) THEN Goto(r, "commit") ELSE Abort(r, "serverError")
  /\ UNCHANGED <<store, req, pair, rno>>

(* The writes of the transaction appear together.                            *)
Write(r) ==
  /\ circuits' = {c \in circuits : c.id # Resolved(r).id} \cup {Resolved(r)}
  /\ jobs' = [jobs EXCEPT ![req[r].job] = StatusFromCircuit(ResolvedStatus(r))]
  /\ decisions' = decisions \cup
       {[reviewed |-> pair[r].id, resolved |-> Resolved(r).id, kind |-> req[r].kind]}

Commit(r) ==
  /\ rpc[r] = "commit"
  /\ \E o \in Outcomes("commit") :
       /\ IF Applies(o, TRUE) THEN Write(r) ELSE UNCHANGED <<circuits, jobs, decisions>>
       /\ IF Succeeds(o, TRUE) THEN Answer(r, "ok") ELSE Abort(r, "serverError")
  /\ UNCHANGED <<uploads, extractions, objects, queue, drawn, req, pair, rno>>

DropSuccessor(r) ==
  /\ rpc[r] = "dropSuccessor"
  /\ \E o \in Outcomes("dropSuccessor") :
       artifacts' = IF o # "error" THEN artifacts \ {<<"circuit", Successor(r)>>} ELSE artifacts
  /\ Goto(r, "answered")
  /\ UNCHANGED <<rows, sources, queue, drawn, req, pair, rno>>

-----------------------------------------------------------------------------
ReviewCall(r) ==
  \/ GetDecision(r) \/ GetReviewable(r) \/ PutSuccessor(r) \/ EnsureReviewable(r)
  \/ WriteRevision(r) \/ MoveJob(r) \/ InsertDecision(r) \/ Commit(r) \/ DropSuccessor(r)

(* The API process dies; Postgres rolls an open transaction back.            *)
CrashReview(r) ==
  /\ "api" \in CanCrash
  /\ rpc[r] \in ReviewCalls
  /\ rpc' = [rpc EXCEPT ![r] = "crashed"]
  /\ UNCHANGED <<store, req, pair, rno, answer>>

ReviewNext(r) == SubmitAnything(r) \/ ReviewCall(r) \/ CrashReview(r)
=============================================================================
