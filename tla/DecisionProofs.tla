--------------------------- MODULE DecisionProofs ---------------------------
(* What a decision leaves behind.  The answer to a COMMIT may be lost, and   *)
(* the code then treats a committed decision as a failed one; the theorems   *)
(* that need it say that this does not happen.                               *)
EXTENDS SystemProofs

AnswersCommit == "lost" \notin Faults["commit"]

-----------------------------------------------------------------------------
(* What is needed to see that a job has the verdict it had.                  *)
LEMMA SameVerdict ==
  ASSUME NEW j \in Jobs,
         \A d : JobOf(d.reviewed) = j => (d \in decisions' <=> d \in decisions),
         jobs'[j] = "needs_review" <=> jobs[j] = "needs_review"
  PROVE  Verdict(j)' = Verdict(j)
<1>1. \A d : (d \in decisions' /\ JobOf(d.reviewed) = j) <=> (d \in decisions /\ JobOf(d.reviewed) = j)
  OBVIOUS
<1>2. (CHOOSE d \in decisions' : JobOf(d.reviewed) = j) = (CHOOSE d \in decisions : JobOf(d.reviewed) = j)
  BY <1>1, Zenon
<1>3. (\E d \in decisions' : JobOf(d.reviewed) = j) <=> (\E d \in decisions : JobOf(d.reviewed) = j)
  BY <1>1
<1> QED
  BY <1>2, <1>3 DEF Verdict, JobOf

(* A handler changes the verdict of its job only when it takes the job back. *)
LEMMA HandlerKeepsBook ==
  ASSUME SystemInv, NEW j \in Jobs, UploadPart(j)
  PROVE  Reviews!Next \/ UNCHANGED Reviews!book
<1>1. /\ UploadAction(j) /\ UNCHANGED reviewVars /\ HandlerEffect(j)
      /\ \/ RowsKept(j) /\ decisions' = decisions
         \/ RowsDeleted(j) /\ decisions' = {d \in decisions : JobOf(d.reviewed) # j}
  BY HandlerHasEffect, HandlerDecisions DEF UploadPart, SystemInv
<1>2. \A r \in Reviewers : Told(r)' = Told(r)
  BY <1>1 DEF reviewVars, Told
<1>3. \A k \in Jobs \ {j} : Verdict(k)' = Verdict(k)
  BY <1>1, SameVerdict DEF HandlerEffect
<1>4. CASE RowsKept(j) /\ decisions' = decisions
  <2>1. jobs[j] = "needs_review" <=> jobs'[j] = "needs_review"
    BY <1>1, <1>4 DEF HandlerEffect, RowsKept, SystemInv, ClaimInv, ReleasedLate, NotYetCreated
  <2>2. Verdict(j)' = Verdict(j)
    BY <1>4, <2>1, SameVerdict
  <2> QED
    BY <1>2, <1>3, <2>2 DEF Reviews!book
<1>5. CASE RowsDeleted(j) /\ decisions' = {d \in decisions : JobOf(d.reviewed) # j}
  <2>1. Verdict(j)' = "open"
    BY <1>5 DEF RowsDeleted, Verdict, JobOf
  <2>2. CASE Verdict(j) = "open"
    BY <1>2, <1>3, <2>1, <2>2 DEF Reviews!book
  <2>3. CASE Verdict(j) # "open"
    <3>1. Reviews!Withdraw(j)
      BY <1>2, <1>3, <2>1, <2>3 DEF Reviews!Withdraw, Reviews!Turn
    <3> QED
      BY <3>1 DEF Reviews!Next
  <2> QED
    BY <2>2, <2>3
<1> QED
  BY <1>1, <1>4, <1>5

(* A worker offers its job for review, or changes no verdict.                *)
LEMMA WorkerKeepsBook ==
  ASSUME SystemInv, NEW w \in Workers, WorkerPart(w)
  PROVE  Reviews!Next \/ UNCHANGED Reviews!book
<1>1. UNCHANGED reviewVars /\ WorkerEffect(w) /\ decisions' = decisions
  BY WorkerHasEffect, WorkerDecidesNothing DEF WorkerPart, SystemInv, ClaimInv
<1>2. \A r \in Reviewers : Told(r)' = Told(r)
  BY <1>1 DEF reviewVars, Told
<1>3. \A k \in Jobs : (jobs'[k] = "needs_review" <=> jobs[k] = "needs_review") => Verdict(k)' = Verdict(k)
  BY <1>1, SameVerdict
<1>4. CASE \A k \in Jobs : Verdict(k)' = Verdict(k)
  BY <1>2, <1>4 DEF Reviews!book
<1>5. CASE \E k \in Jobs : Verdict(k)' # Verdict(k)
  <2>1. PICK j \in Jobs : Verdict(j)' # Verdict(j)
    BY <1>5
  <2>2. /\ j = wjob[w] /\ jobs[j] = "extracting" /\ jobs'[j] = "needs_review"
        /\ \A k \in Jobs \ {j} : Verdict(k)' = Verdict(k)
    BY <1>1, <1>3, <2>1 DEF WorkerEffect
  <2>3. \A d \in decisions : JobOf(d.reviewed) # j
    BY <2>2 DEF SystemInv, ReviewInv, DecisionMatchesState, Final
  <2>4. Verdict(j) = "open" /\ Verdict(j)' = "pending"
    BY <1>1, <2>2, <2>3 DEF Verdict, JobOf
  <2>5. Reviews!Offer(j)
    BY <1>2, <2>2, <2>4 DEF Reviews!Offer, Reviews!Turn
  <2> QED
    BY <2>5 DEF Reviews!Next
<1> QED
  BY <1>4, <1>5

(* A request is told once how it went, and a decision is in the book from    *)
(* the step that tells its reviewer.                                         *)
LEMMA RequestKeepsBook ==
  ASSUME AnswersCommit, SystemInv, NEW r \in Reviewers, ReviewStep(r)
  PROVE  Reviews!Next \/ UNCHANGED Reviews!book
<1> USE DEF SystemInv
<1>1. RequestEffect(r)
  BY RequestHasEffect DEF TypeOK
<1>2. \A s \in Reviewers \ {r} : Told(s)' = Told(s)
  BY <1>1 DEF RequestEffect, OthersWait, Told
<1>3. rpc[r] \in {"idle"} \cup (ReviewCalls \ {"dropSuccessor"}) => Told(r) = "asking"
  BY DEF ReviewInv, AsksFirst, Told
<1>4. CASE ~Writes(r)
  <2>1. jobs' = jobs /\ decisions' = decisions
    BY <1>1, <1>4 DEF RequestEffect, Asks, Refused, GoesOn, Reads, Drops, Dies, SameRow, store, rows
  <2>2. \A k \in Jobs : Verdict(k)' = Verdict(k)
    BY <2>1, SameVerdict
  <2>3. CASE Refused(r)
    <3>1. Told(r) = "asking" /\ Told(r)' = "refused"
      BY <1>3, <2>3 DEF Refused, Failures, Told
    <3>2. Reviews!Refuse(r)
      BY <1>2, <2>2, <3>1 DEF Reviews!Refuse, Reviews!Tell
    <3> QED
      BY <3>2 DEF Reviews!Next
  <2>4. CASE ~Refused(r)
    <3>1. answer' = answer
      BY <1>1, <1>4, <2>4 DEF RequestEffect, Asks, GoesOn, Reads, Drops, Dies
    <3>2. Told(r)' = Told(r)
      BY <3>1 DEF Told
    <3> QED
      BY <1>2, <2>2, <3>2 DEF Reviews!book
  <2> QED
    BY <2>3, <2>4
<1>5. CASE Writes(r)
  <2>1. PICK j : j = req[r].job
    OBVIOUS
  <2>2. AboutToDecide(r, j) /\ WriteEffect(r, j)
    BY <1>5, <2>1, WriteHasEffect
  <2>3. PICK d : d = NewDecision(r)
    OBVIOUS
  <2>4. JobOf(d.reviewed) = j /\ d.kind = req[r].kind /\ d.kind \in {"approve", "reject"}
    BY <2>2, <2>3 DEF AboutToDecide, NewDecision, SentRequests
  <2>5. d \in decisions' /\ \A e : JobOf(e.reviewed) # j => (e \in decisions' <=> e \in decisions)
    BY <2>2, <2>3, <2>4 DEF WriteEffect
  <2>6. \A k \in Jobs \ {j} : Verdict(k)' = Verdict(k)
    BY <2>2, <2>5, SameVerdict DEF WriteEffect
  <2>7. Verdict(j) = "pending"
    BY <2>2 DEF AboutToDecide, Undecided, Verdict
  <2>8. Verdict(j)' = d.kind
    <3>1. \A e \in decisions' : JobOf(e.reviewed) = j => e = d
      BY <2>2, <2>3 DEF WriteEffect, AboutToDecide, Undecided
    <3>2. (CHOOSE e \in decisions' : JobOf(e.reviewed) = j) = d
      BY <2>4, <2>5, <3>1
    <3> QED
      BY <2>4, <2>5, <3>2 DEF Verdict, JobOf
  <2>9. Told(r) = "asking" /\ Told(r)' = "saved"
    <3>1. answer'[r] = "ok"
      BY <1>5 DEF Writes, AnswersCommit
    <3> QED
      BY <1>3, <1>5, <3>1 DEF Writes, Told, ReviewCalls
  <2>10. Reviews!Decide(r, j, d.kind)
    <3>1. j \in Jobs
      BY <2>2 DEF AboutToDecide
    <3>2. Reviews!Turn(j, d.kind)
      BY <2>6, <2>8, <3>1 DEF Reviews!Turn
    <3>3. Reviews!Tell(r, "saved")
      BY <1>2, <2>9 DEF Reviews!Tell
    <3> QED
      BY <2>7, <2>9, <3>1, <3>2, <3>3 DEF Reviews!Decide
  <2>11. j \in Jobs
    BY <2>2 DEF AboutToDecide
  <2> QED
    BY <2>4, <2>10, <2>11 DEF Reviews!Next
<1> QED
  BY <1>4, <1>5

(* Reviewers who only know of the ledger cannot tell the difference: one     *)
(* decision per job that waits, in the step that tells its reviewer, and     *)
(* nothing left by a refused request.                                        *)
THEOREM OpenReviewRefinement ==
  ASSUME AnswersCommit
  PROVE  OpenSpec => ImplementsReviewLedger
<1>1. SystemInit => Reviews!Init
  <2> SUFFICES ASSUME SystemInit PROVE Reviews!Init
    OBVIOUS
  <2>1. (\A j \in Jobs : Verdict(j) = "open") /\ \A r \in Reviewers : Told(r) = "asking"
    BY DEF SystemInit, Init, StoreInit, ReviewInit, Verdict, Told
  <2> QED
    BY <2>1 DEF Reviews!Init
<1>2. SystemInv /\ [OpenNext]_systemVars => [Reviews!Next]_Reviews!book
  <2> SUFFICES ASSUME SystemInv, [OpenNext]_systemVars
               PROVE  Reviews!Next \/ UNCHANGED Reviews!book
    OBVIOUS
  <2>1. CASE UNCHANGED systemVars
    BY <2>1 DEF systemVars, vars, store, reviewVars, Reviews!book, Verdict, Told
  <2>2. ASSUME NEW j \in Jobs, DeleteAborted(j) PROVE UNCHANGED Reviews!book
    <3>1. UNCHANGED <<jobs, decisions, answer>>
      BY <2>2, AbortedDelete DEF SystemInv, store
    <3> QED
      BY <3>1 DEF Reviews!book, Verdict, Told
  <2>3. CASE OpenNext
    BY <2>2, <2>3, HandlerKeepsBook, WorkerKeepsBook, RequestKeepsBook DEF OpenNext
  <2> QED
    BY <2>1, <2>3
<1> QED
  BY <1>1, <1>2, OpenInvariant, PTL DEF OpenSpec, ImplementsReviewLedger, Reviews!Spec

(* ... also in particular when they name only what they have seen.           *)
THEOREM ReviewRefinement ==
  ASSUME AnswersCommit
  PROVE  SystemSpec => ImplementsReviewLedger
  BY SystemIsOpen, OpenReviewRefinement, PTL

-----------------------------------------------------------------------------
(* A worker that persists has drawn its identifier, in this step or before.  *)
LEMMA PersistingSteps ==
  ASSUME TypeOK, ClaimInv, NEW w \in Workers, WorkerAction(w), ~PersistCheck(w)
  PROVE  /\ drawn' = drawn
         /\ wpc'[w] \in Persisting =>
              wpc[w] \in Persisting /\ wjob'[w] = wjob[w] /\ wno'[w] = wno[w]
<1> USE DEF TypeOK, WorkerTypeOK, Persisting, local
<1>1. ASSUME NEW ok, Proceed(w, ok), UNCHANGED <<drawn, wjob, wno>>,
             wpc[w] \in {"claim", "getUpload", "getObject", "extract"} \cup Persisting
      PROVE  /\ drawn' = drawn
             /\ wpc'[w] \in Persisting =>
                  wpc[w] \in Persisting /\ wjob'[w] = wjob[w] /\ wno'[w] = wno[w]
  BY <1>1 DEF Proceed, After
<1>2. CASE \/ GetUpload(w) \/ GetObject(w) \/ Extract(w) \/ PutExtraction(w) \/ PutCircuit(w)
           \/ InsertExtraction(w) \/ InsertCircuit(w)
  <2>1. /\ \E ok : Proceed(w, ok)
        /\ UNCHANGED <<drawn, wjob, wno>>
        /\ wpc[w] \in {"claim", "getUpload", "getObject", "extract"} \cup Persisting
    BY <1>2 DEF GetUpload, GetObject, Extract, PutExtraction, PutCircuit, PutArtifact,
       InsertExtraction, InsertCircuit, store
  <2> QED
    BY <1>1, <2>1
<1>3. CASE ClaimQueued(w)
  <2>1. drawn' = drawn /\ wpc[w] = "claim"
    BY <1>3 DEF ClaimQueued
  <2>2. ((\E ok : Proceed(w, ok)) /\ UNCHANGED <<wjob, wno>>) \/ Leave(w, "down")
    BY <1>3 DEF ClaimQueued
  <2> QED
    BY <1>1, <2>1, <2>2 DEF Leave
<1>4. CASE StartWorker(w) \/ Dequeue(w)
  BY <1>4 DEF StartWorker, Dequeue, store
<1>5. CASE MarkCompleted(w) \/ MarkFailed(w) \/ CrashWorker(w)
  BY <1>5 DEF MarkCompleted, MarkFailed, CrashWorker, Leave, store
<1> QED
  BY <1>2, <1>3, <1>4, <1>5 DEF WorkerAction, WorkerNext, WorkerCall

(* The numbers that are compared are numbers, and the jobs are jobs.         *)
LEMMA SuccessorTypes ==
  ASSUME SystemInv
  PROVE  /\ \A k \in Jobs : drawn[k] \in Nat
         /\ \A c \in circuits : c.id[2] \in Nat /\ JobOf(c.id) \in Jobs
         /\ \A w \in Workers : wno[w] \in Nat
         /\ \A w \in Workers : wpc[w] \in Persisting \cup {"persistCheck"} => wjob[w] \in Jobs
         /\ \A r \in Reviewers : rno[r] \in Nat
         /\ \A r \in Reviewers : rpc[r] \in ReviewCalls => req[r].job \in Jobs
         /\ \A r \in Reviewers : HasSuccessor(r) => rpc[r] \in ReviewCalls
<1>1. \A r \in Reviewers : rpc[r] \in ReviewCalls => req[r].job \in Jobs
  BY DEF SystemInv, ReviewInv, AsksFirst, SentRequests
<1>2. \A w \in Workers : wpc[w] \in Persisting \cup {"persistCheck"} => wjob[w] \in Jobs
  BY HeldPayload DEF SystemInv, ClaimInv, Persisting
<1> QED
  BY <1>1, <1>2 DEF SystemInv, TypeOK, StoreTypeOK, WorkerTypeOK, ReviewTypeOK, Revisions,
     RevisionIds, JobOf, HasSuccessor, Deciding, InTx, ReviewCalls

(* A handler draws no identifier and deletes no object of a revision.        *)
LEMMA HandlerKeepsSuccessors ==
  ASSUME SystemInv, OwnSuccessors, ArtifactInv, NEW j \in Jobs, UploadPart(j)
  PROVE  OwnSuccessors' /\ ArtifactInv'
<1> USE DEF SystemInv, TypeOK
<1>1. UploadAction(j) /\ UNCHANGED reviewVars
  BY DEF UploadPart
<1>2. artifacts' = artifacts /\ drawn' = drawn
  BY <1>1 DEF UploadAction, UploadNext, UploadCall, Receive, CreateUpload, CreateJob, PutSource,
     MarkUploaded, ToUploaded, ToQueued, Transition, Enqueue, UndoObject, UndoJob, UndoUpload,
     Disconnect, CrashApi, store, objects
<1>3. circuits' \subseteq circuits
  BY <1>1, HandlerRows DEF RowsKept, RowsDeleted
<1>4. UNCHANGED <<wpc, wjob, wno, rpc, req, rno>>
  BY <1>1 DEF UploadAction, workerVars, reviewVars
<1>5. OwnSuccessors'
  BY <1>2, <1>3, <1>4 DEF OwnSuccessors, HasSuccessor, Corrected, Successor, JobOf, Id
<1>6. ArtifactInv'
  BY <1>1, HandlerKeepsArtifacts, HandlerKeepsCircuits
<1> QED
  BY <1>5, <1>6

(* A worker draws an identifier nobody has, and inserts no other.            *)
LEMMA WorkerKeepsSuccessors ==
  ASSUME SystemInv, OwnSuccessors, ArtifactInv, NEW w \in Workers, WorkerPart(w)
  PROVE  OwnSuccessors' /\ ArtifactInv'
<1> USE SuccessorTypes DEF SystemInv
<1>1. WorkerAction(w) /\ UNCHANGED <<rpc, req, rno>>
  BY DEF WorkerPart, reviewVars
<1>2. ArtifactInv' /\ artifacts \subseteq artifacts'
  BY <1>1, WorkerKeepsArtifacts, WorkerKeepsCircuits, WritesBeforeRows DEF ClaimInv
<1>3. \A r \in Reviewers : /\ HasSuccessor(r)' <=> HasSuccessor(r)
                           /\ Successor(r)' = Successor(r)
  BY <1>1 DEF HasSuccessor, Corrected, Successor
<1>4. \A v \in Workers \ {w} : wpc'[v] = wpc[v] /\ wno'[v] = wno[v] /\ wjob'[v] = wjob[v]
                               /\ Id(v)' = Id(v)
  BY <1>1, OthersKeepLocals DEF Id
<1>5. CASE PersistCheck(w)
  <2>1. PICK j \in Jobs : j = wjob[w]
    BY <1>5 DEF PersistCheck
  <2>2. circuits' = circuits /\ wjob' = wjob
    BY <1>5 DEF PersistCheck, rows
  <2>3. CASE drawn' = drawn /\ wpc'[w] \notin Persisting
    BY <1>1, <1>2, <1>3, <1>4, <2>2, <2>3 DEF OwnSuccessors, JobOf
  <2>4. CASE /\ drawn' = [drawn EXCEPT ![j] = @ + 1]
             /\ wno' = [wno EXCEPT ![w] = drawn[j] + 1]
    <3>1. /\ \A k \in Jobs : drawn'[k] \in Nat /\ drawn[k] <= drawn'[k]
          /\ drawn'[j] = drawn[j] + 1 /\ wno'[w] = drawn[j] + 1
          /\ Id(w)' = <<j, drawn[j] + 1>>
      BY <2>1, <2>2, <2>4 DEF TypeOK, StoreTypeOK, WorkerTypeOK, Id
    <3>2. \A c \in circuits : c.id[2] <= drawn'[JobOf(c.id)]
      BY <3>1 DEF OwnSuccessors
    <3>3. ASSUME NEW v \in Workers, wpc'[v] \in Persisting
          PROVE  wno'[v] <= drawn'[wjob'[v]]
      <4>1. CASE v = w
        BY <2>1, <2>2, <3>1, <4>1
      <4>2. CASE v # w
        <5>1. PICK k \in Jobs : k = wjob[v]
          BY <1>4, <3>3, <4>2
        <5>2. wno[v] \in Nat /\ wno[v] <= drawn[k]
          BY <1>4, <3>3, <4>2, <5>1 DEF OwnSuccessors
        <5> QED
          BY <1>4, <2>2, <3>1, <4>2, <5>1, <5>2
      <4> QED
        BY <4>1, <4>2
    <3>4. ASSUME NEW s \in Reviewers, HasSuccessor(s)
          PROVE  rno[s] <= drawn'[req[s].job] /\ Successor(s) # Id(w)'
      <4>1. PICK k \in Jobs : k = req[s].job
        BY <3>4
      <4>2. rno[s] \in Nat /\ rno[s] <= drawn[k] /\ drawn[k] <= drawn'[k]
        BY <3>1, <3>4, <4>1 DEF OwnSuccessors
      <4>3. Successor(s) = <<k, rno[s]>>
        BY <4>1 DEF Successor
      <4> QED
        BY <3>1, <4>1, <4>2, <4>3
    <3> QED
      BY <1>1, <1>2, <1>3, <1>4, <2>2, <3>2, <3>3, <3>4 DEF OwnSuccessors, JobOf
  <2> QED
    BY <1>5, <2>1, <2>3, <2>4 DEF PersistCheck, Persisting, TypeOK, WorkerTypeOK
<1>6. CASE ~PersistCheck(w)
  <2>1. /\ drawn' = drawn
        /\ wpc'[w] \in Persisting => wpc[w] \in Persisting /\ Id(w)' = Id(w)
                                     /\ wno'[w] = wno[w] /\ wjob'[w] = wjob[w]
    BY <1>1, <1>6, PersistingSteps DEF Id
  <2>2. circuits' \subseteq circuits \cup (IF wpc[w] = "insertCircuit" THEN {NewCircuit(w)} ELSE {})
    BY <1>1, WorkerRows DEF ClaimInv, SameRows, AddsExtraction, AddsCircuit
  <2>3. /\ NewCircuit(w).id = Id(w) /\ NewCircuit(w).id[2] = wno[w]
        /\ JobOf(NewCircuit(w).id) = wjob[w]
    BY DEF NewCircuit, Id, JobOf
  <2>4. wpc[w] = "insertCircuit" =>
          /\ NewCircuit(w).id[2] <= drawn[JobOf(NewCircuit(w).id)]
          /\ \A s \in Reviewers : HasSuccessor(s) => NewCircuit(w).id # Successor(s)
    BY <2>3 DEF OwnSuccessors, Persisting
  <2>5. ASSUME NEW c \in circuits'
        PROVE  /\ c.id[2] <= drawn[JobOf(c.id)]
               /\ \A s \in Reviewers : HasSuccessor(s) => c.id # Successor(s)
    BY <2>2, <2>4 DEF OwnSuccessors
  <2>6. \A v \in Workers : wpc'[v] \in Persisting =>
          wpc[v] \in Persisting /\ Id(v)' = Id(v) /\ wno'[v] = wno[v] /\ wjob'[v] = wjob[v]
    BY <1>4, <2>1
  <2> QED
    BY <1>1, <1>2, <1>3, <2>1, <2>5, <2>6 DEF OwnSuccessors, JobOf
<1> QED
  BY <1>5, <1>6

(* A request draws an identifier nobody has, writes the object before the    *)
(* row, and deletes it only when there is no row.                            *)
LEMMA RequestKeepsSuccessors ==
  ASSUME AnswersCommit, SystemInv, OwnSuccessors, ArtifactInv, NEW r \in Reviewers, ReviewStep(r)
  PROVE  OwnSuccessors' /\ ArtifactInv'
<1> USE SuccessorTypes
<1>1. RequestEffect(r)
  BY RequestHasEffect DEF SystemInv, TypeOK
<1>2. \A s \in Reviewers \ {r} : /\ HasSuccessor(s)' <=> HasSuccessor(s)
                                 /\ Successor(s)' = Successor(s)
                                 /\ rpc'[s] = rpc[s] /\ rno'[s] = rno[s] /\ req'[s] = req[s]
  BY <1>1 DEF RequestEffect, OthersWait, HasSuccessor, Corrected, Successor
<1>3. UNCHANGED <<wpc, wjob, wno>> /\ \A w \in Workers : Id(w)' = Id(w)
  BY DEF ReviewStep, workerVars, Id
<1>4. artifacts \subseteq artifacts' /\ UNCHANGED <<circuits, extractions>> => ArtifactInv'
  BY <1>3 DEF ArtifactInv, RowsBacked, HasWritten
<1>5. CASE Asks(r) \/ Dies(r) \/ (Reads(r) /\ ~Corrected(r))
  <2>1. UNCHANGED <<circuits, extractions, drawn, artifacts>>
    BY <1>5 DEF Asks, Dies, Reads, SameRow, store, rows
  <2>2. HasSuccessor(r)' => FALSE
    BY <1>5 DEF Asks, Dies, Reads, HasSuccessor, Deciding, InTx, Corrected
  <2> QED
    BY <1>2, <1>3, <1>4, <2>1, <2>2 DEF OwnSuccessors, JobOf
<1>6. CASE Refused(r) \/ GoesOn(r)
  <2>1. UNCHANGED <<circuits, extractions, drawn>> /\ artifacts \subseteq artifacts'
        /\ Successor(r)' = Successor(r) /\ rno' = rno /\ req' = req
    BY <1>6 DEF Refused, GoesOn, SameRow, SameRequest, rows, Successor
  <2>2. HasSuccessor(r)' => HasSuccessor(r)
    BY <1>6, <2>1 DEF Refused, GoesOn, Onwards, HasSuccessor, Corrected, Deciding, InTx
  <2>3. HasSuccessor(r)' /\ rpc'[r] \in Deciding \ {"putSuccessor"}
          => \/ HasSuccessor(r) /\ rpc[r] \in Deciding \ {"putSuccessor"}
             \/ <<"circuit", Successor(r)>> \in artifacts'
    BY <1>6, <2>2 DEF Refused, GoesOn, Onwards, Deciding, InTx
  <2> QED
    BY <1>2, <1>3, <1>4, <2>1, <2>2, <2>3 DEF OwnSuccessors, JobOf
<1>7. CASE Reads(r) /\ Corrected(r)
  <2>1. PICK j \in Jobs : j = req[r].job
    BY <1>7 DEF Reads, ReviewCalls
  <2>2. /\ UNCHANGED <<circuits, extractions, artifacts>> /\ req' = req
        /\ rpc'[r] = "putSuccessor" /\ rno'[r] = drawn[j] + 1
        /\ drawn' = [drawn EXCEPT ![j] = @ + 1]
    BY <1>7, <2>1 DEF Reads, SameRow, rows
  <2>3. Successor(r)' = <<j, drawn[j] + 1>>
    BY <2>1, <2>2 DEF Successor
  <2>4. \A k \in Jobs : drawn'[k] \in Nat /\ drawn[k] <= drawn'[k]
    BY <2>2 DEF SystemInv, TypeOK, StoreTypeOK
  <2>5. ASSUME NEW c \in circuits
        PROVE  c.id[2] <= drawn'[JobOf(c.id)] /\ c.id # <<j, drawn[j] + 1>>
    <3>1. PICK k \in Jobs : k = JobOf(c.id)
      OBVIOUS
    <3>2. c.id[2] \in Nat /\ drawn[k] \in Nat /\ c.id[2] <= drawn[k]
      BY <3>1 DEF OwnSuccessors
    <3>3. c.id[2] <= drawn'[k]
      BY <2>4, <3>2
    <3>4. c.id = <<j, drawn[j] + 1>> => k = j /\ c.id[2] = drawn[j] + 1
      BY <3>1 DEF JobOf
    <3> QED
      BY <3>1, <3>2, <3>3, <3>4
  <2>6. ASSUME NEW w \in Workers, wpc[w] \in Persisting
        PROVE  wno[w] <= drawn'[wjob[w]] /\ Id(w) # <<j, drawn[j] + 1>>
    <3>1. PICK k \in Jobs : k = wjob[w]
      BY <2>6
    <3>2. wno[w] \in Nat /\ drawn[k] \in Nat /\ wno[w] <= drawn[k]
      BY <2>6, <3>1 DEF OwnSuccessors
    <3>3. wno[w] <= drawn'[k]
      BY <2>4, <3>2
    <3>4. Id(w) = <<j, drawn[j] + 1>> => k = j /\ wno[w] = drawn[j] + 1
      BY <3>1 DEF Id
    <3> QED
      BY <3>1, <3>2, <3>3, <3>4
  <2>7. ASSUME NEW s \in Reviewers \ {r}, HasSuccessor(s)
        PROVE  rno[s] <= drawn'[req[s].job] /\ Successor(s) # <<j, drawn[j] + 1>>
    <3>1. PICK k \in Jobs : k = req[s].job
      BY <2>7
    <3>2. rno[s] \in Nat /\ drawn[k] \in Nat /\ rno[s] <= drawn[k]
      BY <2>7, <3>1 DEF OwnSuccessors
    <3>3. rno[s] <= drawn'[k]
      BY <2>4, <3>2
    <3>4. Successor(s) = <<j, drawn[j] + 1>> => k = j /\ rno[s] = drawn[j] + 1
      BY <3>1 DEF Successor
    <3> QED
      BY <3>1, <3>2, <3>3, <3>4
  <2>8. rno'[r] <= drawn'[req'[r].job]
    BY <2>1, <2>2, <2>4 DEF SystemInv, TypeOK, StoreTypeOK
  <2> QED
    BY <1>2, <1>3, <1>4, <2>2, <2>3, <2>5, <2>6, <2>7, <2>8 DEF OwnSuccessors, JobOf
<1>8. CASE Writes(r)
  <2>1. PICK j : j = req[r].job
    OBVIOUS
  <2>2. /\ AboutToDecide(r, j) /\ WriteEffect(r, j) /\ ~HasSuccessor(r)'
        /\ drawn' = drawn /\ artifacts' = artifacts
    BY <1>8, <2>1, WriteHasEffect DEF Writes, AnswersCommit, HasSuccessor, Deciding, InTx, objects
  <2>3. PICK n : n = Resolved(r)
    OBVIOUS
  <2>4. /\ n.extraction = pair[r].extraction /\ JobOf(n.id) = j
        /\ ~Corrected(r) => n.id = pair[r].id
        /\ Corrected(r) => n.id = Successor(r)
    BY <2>1, <2>2, <2>3, ResolvedRow DEF AboutToDecide, SystemInv
  <2>5. pair[r] \in circuits
    BY <2>2 DEF AboutToDecide, CircuitsOf
  <2>6. \A c \in circuits' : c \in circuits \/ c = n
    BY <2>2, <2>3 DEF WriteEffect
  <2>7. Corrected(r) =>
          /\ rno[r] <= drawn[j] /\ Successor(r) = <<j, rno[r]>>
          /\ <<"circuit", Successor(r)>> \in artifacts
          /\ \A s \in Reviewers : HasSuccessor(s) /\ Successor(s) = Successor(r) => s = r
    <3>1. rpc[r] = "commit"
      BY <1>8 DEF Writes
    <3> QED
      BY <2>1, <3>1 DEF OwnSuccessors, HasSuccessor, Successor, Deciding, InTx
  <2>8. /\ n.id[2] <= drawn[JobOf(n.id)]
        /\ {<<"extraction", n.extraction>>, <<"circuit", n.id>>} \subseteq artifacts
        /\ n.extraction \in extractions
        /\ \A s \in Reviewers \ {r} : HasSuccessor(s) => n.id # Successor(s)
    <3>1. \A s \in Reviewers : HasSuccessor(s) => pair[r].id # Successor(s)
      BY <2>5 DEF OwnSuccessors
    <3>2. /\ pair[r].id[2] <= drawn[JobOf(pair[r].id)]
          /\ pair[r].extraction \in extractions
          /\ {<<"extraction", pair[r].extraction>>, <<"circuit", pair[r].id>>} \subseteq artifacts
      BY <2>5 DEF OwnSuccessors, ArtifactInv, RowsBacked
    <3>3. Corrected(r) => n.id[2] = rno[r] /\ JobOf(n.id) = j
      BY <2>4, <2>7
    <3> QED
      BY <2>4, <2>7, <3>1, <3>2, <3>3
  <2>9. OwnSuccessors'
    <3>1. \A c \in circuits' : c.id[2] <= drawn[JobOf(c.id)]
      BY <2>6, <2>8 DEF OwnSuccessors
    <3>2. \A s \in Reviewers \ {r} : HasSuccessor(s) => \A c \in circuits' : c.id # Successor(s)
      BY <2>6, <2>8 DEF OwnSuccessors
    <3> QED
      BY <1>2, <1>3, <2>2, <3>1, <3>2 DEF OwnSuccessors, JobOf
  <2>10. ArtifactInv'
    <3>1. extractions' = extractions
      BY <2>2 DEF WriteEffect
    <3>2. RowsBacked'
      BY <2>2, <2>6, <2>8, <3>1 DEF ArtifactInv, RowsBacked
    <3> QED
      BY <1>3, <2>2, <3>2 DEF ArtifactInv, HasWritten
  <2> QED
    BY <2>9, <2>10
<1>9. CASE Drops(r)
  <2>1. /\ UNCHANGED <<circuits, extractions, drawn>>
        /\ artifacts \ {<<"circuit", Successor(r)>>} \subseteq artifacts'
        /\ ~HasSuccessor(r)'
    BY <1>9 DEF Drops, SameRow, rows, HasSuccessor, Deciding, InTx
  <2>2. HasSuccessor(r)
    BY <1>9 DEF Drops, HasSuccessor
  <2>3. /\ \A c \in circuits : c.id # Successor(r)
        /\ \A w \in Workers : wpc[w] \in Persisting => Id(w) # Successor(r)
        /\ \A s \in Reviewers \ {r} : HasSuccessor(s) => Successor(s) # Successor(r)
    BY <2>2 DEF OwnSuccessors
  <2>4. ASSUME NEW kind, NEW id, <<kind, id>> \in artifacts, kind = "extraction" \/ id # Successor(r)
        PROVE  <<kind, id>> \in artifacts'
    BY <2>1, <2>4
  <2>5. OwnSuccessors'
    BY <1>2, <1>3, <2>1, <2>3, <2>4 DEF OwnSuccessors, JobOf
  <2>6. RowsBacked'
    BY <2>1, <2>3, <2>4 DEF ArtifactInv, RowsBacked
  <2>7. \A w \in Workers : HasWritten(w)'
    BY <1>3, <2>3, <2>4 DEF ArtifactInv, HasWritten, Persisting
  <2> QED
    BY <2>5, <2>6, <2>7 DEF ArtifactInv
<1> QED
  BY <1>1, <1>5, <1>6, <1>7, <1>8, <1>9 DEF RequestEffect

(* The request for which a DELETE is aborted has no successor.              *)
LEMMA AbortedKeepsSuccessors ==
  ASSUME SystemInv, OwnSuccessors, ArtifactInv, NEW j \in Jobs, DeleteAborted(j)
  PROVE  OwnSuccessors' /\ ArtifactInv'
<1>1. UNCHANGED <<extractions, circuits, artifacts, drawn, wpc, wjob, wno, req, rno>>
  BY AbortedDelete DEF SystemInv, store, workerVars
<1>2. \A r \in Reviewers : /\ HasSuccessor(r)' <=> HasSuccessor(r)
                           /\ Successor(r)' = Successor(r)
                           /\ HasSuccessor(r) => rpc'[r] = rpc[r]
  BY <1>1, AbortedDelete DEF SystemInv, HasSuccessor, Corrected, Successor, Deciding, InTx
<1>3. OwnSuccessors'
  BY <1>1, <1>2 DEF OwnSuccessors, JobOf, Id
<1>4. ArtifactInv'
  BY <1>1 DEF ArtifactInv, RowsBacked, HasWritten, Id
<1> QED
  BY <1>3, <1>4

(* Where a commit is always answered, every identifier stays with the one    *)
(* that drew it, and every object with its row.                              *)
LEMMA SuccessorsKept ==
  ASSUME AnswersCommit
  PROVE  OpenSpec => [](OwnSuccessors /\ ArtifactInv)
<1>1. SystemInit => OwnSuccessors /\ ArtifactInv
  <2>1. SystemInit => OwnSuccessors
    BY DEF SystemInit, Init, StoreInit, WorkerInit, ReviewInit, OwnSuccessors, HasSuccessor,
       Deciding, InTx, Persisting
  <2> QED
    BY <2>1, InitRevisions DEF SystemInit, RevisionInv
<1>2. SystemInv /\ OwnSuccessors /\ ArtifactInv /\ [OpenNext]_systemVars
        => OwnSuccessors' /\ ArtifactInv'
  <2> SUFFICES ASSUME SystemInv, OwnSuccessors, ArtifactInv, [OpenNext]_systemVars
               PROVE  OwnSuccessors' /\ ArtifactInv'
    OBVIOUS
  <2>1. CASE UNCHANGED systemVars
    BY <2>1 DEF systemVars, vars, store, workerVars, reviewVars, OwnSuccessors, HasSuccessor,
       Corrected, Successor, JobOf, ArtifactInv, RowsBacked, HasWritten, Id
  <2>2. CASE OpenNext
    BY <2>2, HandlerKeepsSuccessors, WorkerKeepsSuccessors, RequestKeepsSuccessors,
       AbortedKeepsSuccessors DEF OpenNext
  <2> QED
    BY <2>1, <2>2
<1> QED
  BY <1>1, <1>2, OpenInvariant, PTL DEF OpenSpec

(* Every circuit revision, a worker's or a correction, has its extraction    *)
(* row and both JSON objects, so the review detail of every job can be       *)
(* served: a handler of a review deletes the object of no row but its own,   *)
(* and that only when its transaction failed.                                *)
THEOREM BackedRevisions ==
  ASSUME AnswersCommit
  PROVE  SystemSpec => []RowsBacked
<1>1. ArtifactInv => RowsBacked
  BY DEF ArtifactInv
<1> QED
  BY <1>1, SystemIsOpen, SuccessorsKept, PTL

(* In particular the object of a committed correction stays.                 *)
THEOREM CorrectionsKept ==
  ASSUME AnswersCommit
  PROVE  SystemSpec => []CorrectionPersisted
<1>1. RowsBacked => CorrectionPersisted
  BY DEF RowsBacked, CorrectionPersisted
<1> QED
  BY <1>1, BackedRevisions, PTL

-----------------------------------------------------------------------------
(* The last DELETE of the compensation reaches the database, which answers   *)
(* it; that a decision makes the database abort it is not excluded.          *)
UndoWorks == "error" \notin Faults["undoUpload"]

(* The foreign key of a job on its upload, and what a failed upload whose    *)
(* client waited leaves: no job, or the revision of a decision that held it  *)
(* when the DELETE came.                                                     *)
UploadRowExists == \A j \in Jobs : jobs[j] # "none" => uploads[j] # "none"
Holder(r, j) ==
  /\ req[r].job = j /\ ~Corrected(r) /\ rpc[r] \in InTx \cup {"answered", "crashed"}
  /\ \E c \in CircuitsOf(j) : c.id = pair[r].id
FailedHeld ==
  \A j \in Jobs : upc[j] = "failed" /\ j \notin disconnected =>
    jobs[j] = "none" \/ \E r \in Reviewers : Holder(r, j)
UndoInv == UploadRowExists /\ FailedHeld

(* A handler inserts the job after its upload, and deletes it no later.      *)
LEMMA HandlerKeepsUploadRow ==
  ASSUME TypeOK, UploadRowExists, NEW j \in Jobs, UploadAction(j)
  PROVE  UploadRowExists'
<1> USE DEF TypeOK, StoreTypeOK
<1>1. CASE CreateJob(j)
  BY <1>1 DEF CreateJob, Applies, UploadRowExists
<1>2. CASE ToUploaded(j) \/ ToQueued(j)
  <2>1. PICK from, to, o : /\ from # "none" /\ UpdateJobStatus(j, from, to, o)
                           /\ uploads' = uploads
    BY <1>2 DEF ToUploaded, ToQueued, Transition
  <2> QED
    BY <2>1 DEF UpdateJobStatus, Applies, StatusMatches, UploadRowExists
<1>3. CASE CreateUpload(j) \/ MarkUploaded(j)
  BY <1>3 DEF CreateUpload, MarkUploaded, UploadRowExists
<1>4. CASE UndoJob(j) \/ UndoUpload(j)
  BY <1>4 DEF UndoJob, UndoUpload, DeleteJob, UploadRowExists
<1>5. CASE \/ Receive(j) \/ PutSource(j) \/ Enqueue(j) \/ UndoObject(j) \/ Disconnect(j)
           \/ CrashApi(j)
  <2>1. jobs' = jobs /\ uploads' = uploads
    BY <1>5 DEF Receive, PutSource, Enqueue, UndoObject, Disconnect, CrashApi, store, rows
  <2> QED
    BY <2>1 DEF UploadRowExists
<1> QED
  BY <1>1, <1>2, <1>3, <1>4, <1>5 DEF UploadAction, UploadNext, UploadCall

(* A handler that has failed makes no step; one that ends with a DELETE that *)
(* was not aborted leaves no job.                                            *)
LEMMA HandlerFails ==
  ASSUME UndoWorks, SystemInv, NEW j \in Jobs, UploadPart(j), upc'[j] = "failed", j \notin disconnected'
  PROVE  jobs'[j] = "none"
<1> USE DEF SystemInv, TypeOK, UploadsTypeOK
<1>1. UploadAction(j) /\ HandlerEffect(j)
  BY HandlerHasEffect DEF UploadPart
<1>2. disconnected \subseteq disconnected'
  BY <1>1 DEF UploadAction, UploadNext, UploadCall, Receive, CreateUpload,
     CreateJob, PutSource, MarkUploaded, ToUploaded, ToQueued, Transition, Enqueue, UndoObject,
     UndoJob, UndoUpload, Disconnect, CrashApi
<1>3. CASE UndoUpload(j)
  <2>1. PICK o \in RequestOutcomes(j) : DeleteJob(j, o)
    BY <1>3 DEF UndoUpload
  <2>2. o # "error"
    BY <1>2, <1>3, <2>1 DEF UndoUpload, RequestOutcomes, UndoWorks, Outcomes
  <2> QED
    BY <2>1, <2>2 DEF DeleteJob, StoreTypeOK
<1>4. CASE CreateUpload(j)
  BY <1>4 DEF CreateUpload, ClaimInv, ReleasedLate, NotYetCreated
<1>5. CASE CreateJob(j) \/ PutSource(j) \/ MarkUploaded(j) \/ Enqueue(j)
  <2>1. /\ upc[j] \in {"createJob", "put", "markUploaded", "enqueue"}
        /\ \E ok : Return(j, ok)
    BY <1>5 DEF CreateJob, PutSource, MarkUploaded, Enqueue
  <2> QED
    BY <2>1, ReturnSteps
<1>6. CASE ToUploaded(j) \/ ToQueued(j)
  <2>1. upc[j] \in {"toUploaded", "toQueued"} /\ \E ok : Return(j, ok)
    BY <1>6 DEF ToUploaded, ToQueued, Transition
  <2> QED
    BY <2>1, ReturnSteps
<1>7. CASE Receive(j) \/ UndoObject(j) \/ UndoJob(j) \/ CrashApi(j)
  BY <1>7 DEF Receive, UndoObject, UndoJob, CrashApi
<1>8. CASE Disconnect(j)
  BY <1>8 DEF Disconnect, InProgress, UploadCalls
<1> QED
  BY <1>1, <1>3, <1>4, <1>5, <1>6, <1>7, <1>8 DEF UploadAction, UploadNext, UploadCall

(* The rows of other jobs are none of a handler's business.                  *)
LEMMA HandlerKeepsUndo ==
  ASSUME UndoWorks, SystemInv, UndoInv, NEW j \in Jobs, UploadPart(j)
  PROVE  UndoInv'
<1> USE DEF SystemInv, UndoInv
<1>1. /\ UploadAction(j) /\ UNCHANGED reviewVars /\ HandlerEffect(j)
      /\ RowsKept(j) \/ RowsDeleted(j)
  BY HandlerHasEffect, HandlerRows DEF UploadPart
<1>2. UploadRowExists'
  BY <1>1, HandlerKeepsUploadRow
<1>3. \A k \in Jobs \ {j} : /\ upc'[k] = upc[k] /\ jobs'[k] = jobs[k]
                            /\ CircuitsOf(k)' = CircuitsOf(k)
  BY <1>1 DEF HandlerEffect, RowsKept, RowsDeleted, CircuitsOf
<1>4. disconnected \subseteq disconnected'
  BY <1>1 DEF UploadAction, UploadNext, UploadCall, Receive, CreateUpload,
     CreateJob, PutSource, MarkUploaded, ToUploaded, ToQueued, Transition, Enqueue, UndoObject,
     UndoJob, UndoUpload, Disconnect, CrashApi
<1>5. ASSUME NEW k \in Jobs \ {j}, NEW r \in Reviewers, Holder(r, k) PROVE Holder(r, k)'
  BY <1>1, <1>3, <1>5 DEF reviewVars, Holder, Corrected
<1>6. FailedHeld'
  BY <1>3, <1>4, <1>5, HandlerFails DEF FailedHeld
<1> QED
  BY <1>2, <1>6

(* Nor does a worker delete a row, or bring back a job.                      *)
LEMMA WorkerKeepsUndo ==
  ASSUME SystemInv, UndoInv, NEW w \in Workers, WorkerPart(w)
  PROVE  UndoInv'
<1> USE DEF SystemInv, UndoInv
<1>1. /\ WorkerAction(w) /\ UNCHANGED <<uploadVars, reviewVars>> /\ WorkerEffect(w)
      /\ SameRows \/ AddsExtraction(w) \/ AddsCircuit(w)
  BY WorkerHasEffect, WorkerRows DEF WorkerPart, WorkerAction, ClaimInv
<1>2. uploads' = uploads
  BY <1>1 DEF WorkerAction, WorkerNext, WorkerCall, StartWorker, Dequeue, ClaimQueued, GetUpload,
     GetObject, Extract, PersistCheck, PutExtraction, PutCircuit, PutArtifact, InsertExtraction,
     InsertCircuit, MarkCompleted, MarkFailed, CrashWorker, store, rows
<1>3. \A k \in Jobs : jobs[k] = "none" <=> jobs'[k] = "none"
  BY <1>1 DEF WorkerEffect, Settled
<1>4. \A k \in Jobs : CircuitsOf(k) \subseteq CircuitsOf(k)'
  BY <1>1 DEF SameRows, AddsExtraction, AddsCircuit, CircuitsOf
<1>5. \A k \in Jobs, r \in Reviewers : Holder(r, k) => Holder(r, k)'
  BY <1>1, <1>4 DEF reviewVars, Holder, Corrected
<1>6. UploadRowExists'
  BY <1>2, <1>3 DEF UploadRowExists
<1>7. FailedHeld'
  BY <1>1, <1>3, <1>5 DEF uploadVars, FailedHeld
<1> QED
  BY <1>6, <1>7

(* Nor a request: a decision leaves a row with the identifier of each.       *)
LEMMA RequestKeepsUndo ==
  ASSUME SystemInv, UndoInv, NEW r \in Reviewers, ReviewStep(r)
  PROVE  UndoInv'
<1> USE DEF SystemInv, TypeOK, UndoInv
<1>1. RequestEffect(r) /\ UNCHANGED uploadVars
  BY RequestHasEffect DEF ReviewStep
<1>2. /\ uploads' = uploads
      /\ \A k \in Jobs : jobs[k] = "none" <=> jobs'[k] = "none"
      /\ \A c \in circuits : \E d \in circuits' : d.id = c.id
  <2>1. CASE Writes(r)
    <3>1. PICK j : j = req[r].job
      OBVIOUS
    <3>2. AboutToDecide(r, j) /\ WriteEffect(r, j)
      BY <2>1, <3>1, WriteHasEffect
    <3>3. \A k \in Jobs : jobs[k] = "none" <=> jobs'[k] = "none"
      BY <3>2 DEF AboutToDecide, WriteEffect, ResolvedStatus
    <3>4. uploads' = uploads /\ \A c \in circuits : \E d \in circuits' : d.id = c.id
      BY <2>1 DEF Writes, Write
    <3> QED
      BY <3>3, <3>4
  <2>2. CASE ~Writes(r)
    BY <1>1, <2>2 DEF RequestEffect, Asks, Refused, GoesOn, Reads, Drops, Dies, SameRow, store, rows
  <2> QED
    BY <2>1, <2>2
<1>3. ASSUME NEW s \in Reviewers, NEW k \in Jobs, Holder(s, k) PROVE Holder(s, k)'
  <2>1. \E d \in CircuitsOf(k)' : d.id = pair[s].id
    BY <1>2, <1>3 DEF Holder, CircuitsOf, JobOf
  <2>2. req'[s] = req[s] /\ pair'[s] = pair[s] /\ rpc'[s] \in InTx \cup {"answered", "crashed"}
    <3>1. CASE s # r
      BY <1>1, <1>3, <3>1 DEF RequestEffect, OthersWait, Holder
    <3>2. CASE s = r
      <4>1. ~Corrected(r) /\ rpc[r] \in InTx \cup {"answered", "crashed"}
        BY <1>3, <3>2 DEF Holder
      <4> QED
        BY <1>1, <3>2, <4>1 DEF RequestEffect, Asks, Refused, GoesOn, Onwards, Reads, Writes, Drops,
           Dies, SameRequest, InTx, ReviewCalls
    <3> QED
      BY <3>1, <3>2
  <2> QED
    BY <1>3, <2>1, <2>2 DEF Holder, Corrected
<1>4. UploadRowExists'
  BY <1>2 DEF UploadRowExists
<1>5. FailedHeld'
  BY <1>1, <1>2, <1>3 DEF uploadVars, FailedHeld
<1> QED
  BY <1>4, <1>5

(* A DELETE is aborted for the decision that holds a revision of its job.    *)
LEMMA AbortedKeepsUndo ==
  ASSUME SystemInv, UndoInv, NEW j \in Jobs, DeleteAborted(j)
  PROVE  UndoInv'
<1> USE DEF SystemInv, TypeOK, UndoInv
<1>1. /\ UNCHANGED <<uploads, jobs, circuits, disconnected, req, pair>> /\ jobs[j] = "needs_review"
      /\ \A k \in Jobs \ {j} : upc'[k] = upc[k]
  BY AbortedDelete DEF store
<1>2. PICK r \in Reviewers :
        /\ rpc[r] = "moveJob" /\ rpc'[r] = "insertDecision" /\ req[r].job = j /\ ~Corrected(r)
        /\ \A s \in Reviewers \ {r} : rpc'[s] = rpc[s]
  BY AbortedDelete
<1>3. pair[r] \in circuits /\ JobOf(pair[r].id) = j
  BY <1>1, <1>2 DEF ReviewInv, ReadsPending, Deciding, InTx, Closed
<1>4. Holder(r, j)'
  BY <1>1, <1>2, <1>3 DEF Holder, Corrected, CircuitsOf, InTx
<1>5. \A s \in Reviewers, k \in Jobs : Holder(s, k) => Holder(s, k)'
  BY <1>1, <1>2 DEF Holder, Corrected, CircuitsOf, InTx
<1>6. UploadRowExists'
  BY <1>1 DEF UploadRowExists
<1>7. FailedHeld'
  BY <1>1, <1>4, <1>5 DEF FailedHeld
<1> QED
  BY <1>6, <1>7

(* An upload whose client waited and whose compensation ran to its end       *)
(* leaves no job, no revision and no decision, though a worker and a         *)
(* reviewer may have been busy with it: their later writes fail on the       *)
(* foreign keys and on the job's status.  Or a decision held the revision    *)
(* when a DELETE came, and then upload, job and that revision are all there. *)
THEOREM OpenFailedUploads ==
  ASSUME UndoWorks
  PROVE  OpenSpec => []UndoneOrContested
<1>1. SystemInit => UndoInv
  BY DEF SystemInit, Init, StoreInit, UploadsInit, UndoInv, UploadRowExists, FailedHeld
<1>2. SystemInv /\ UndoInv /\ [OpenNext]_systemVars => UndoInv'
  <2> SUFFICES ASSUME SystemInv, UndoInv, [OpenNext]_systemVars PROVE UndoInv'
    OBVIOUS
  <2>1. CASE UNCHANGED systemVars
    BY <2>1 DEF systemVars, vars, store, uploadVars, reviewVars, UndoInv, UploadRowExists,
       FailedHeld, Holder, Corrected, CircuitsOf
  <2>2. CASE OpenNext
    BY <2>2, HandlerKeepsUndo, WorkerKeepsUndo, RequestKeepsUndo, AbortedKeepsUndo DEF OpenNext
  <2> QED
    BY <2>1, <2>2
<1>3. SystemInv /\ UndoInv => UndoneOrContested
  <2> SUFFICES ASSUME SystemInv, UndoInv, NEW j \in Jobs, upc[j] = "failed", j \notin disconnected
               PROVE  NothingLeft(j) \/ \E r \in Reviewers : KeptBy(r, j)
    BY DEF UndoneOrContested
  <2>1. CASE jobs[j] = "none"
    BY <2>1 DEF SystemInv, ReviewInv, DecisionMatchesState, Final, CircuitInv, RowsOwned, NothingLeft
  <2>2. CASE jobs[j] # "none"
    BY <2>2 DEF UndoInv, UploadRowExists, FailedHeld, Holder, KeptBy
  <2> QED
    BY <2>1, <2>2
<1> QED
  BY <1>1, <1>2, <1>3, OpenInvariant, PTL DEF OpenSpec

(* ... whatever its reviewers have seen of it by then.                       *)
THEOREM FailedUploads ==
  ASSUME UndoWorks
  PROVE  SystemSpec => []UndoneOrContested
  BY SystemIsOpen, OpenFailedUploads, PTL
=============================================================================
