--------------------------- MODULE RecoveryProofs ---------------------------
(* Theorems about retries: for any jobs, workers, faults and crashes, and    *)
(* however often the operator puts a job back.                               *)
EXTENDS Recovery, RevisionProofs

(* What stays true of the rows although a job is attempted again.  That it   *)
(* was attempted once at most (AttemptInv) does not.                         *)
RecoveryInv == TypeOK /\ ClaimInv /\ CircuitInv /\ FirstVersions

(* An operator who puts a stuck job back breaks no claim.                    *)
LEMMA RequeueKeepsClaims ==
  ASSUME TypeOK, ClaimInv, NEW j \in Jobs, Requeue(j)
  PROVE  TypeOK' /\ ClaimInv'
<1> USE DEF Requeue, objects, uploadVars, workerVars
<1>1. TypeOK'
  BY DEF TypeOK, StoreTypeOK, UploadsTypeOK, WorkerTypeOK, JobStatuses
<1>2. /\ \A k \in Jobs \ {j} : jobs'[k] = jobs[k]
      /\ jobs'[j] = "queued" /\ jobs[j] \in Settled \cup {"queued", "extracting"}
  BY DEF TypeOK, StoreTypeOK
<1>3. Queued' \subseteq Queued \cup {j}
  BY PushedPayload DEF TypeOK, StoreTypeOK
<1>4. Locals' /\ OneExtractor'
  BY DEF ClaimInv, Locals, OneExtractor, Working
<1>5. ReleasedLate'
  BY <1>2, <1>3 DEF ClaimInv, ReleasedLate, Unreleased, NotYetCreated, Settled
<1>6. ClaimedOrGone'
  <2> SUFFICES ASSUME NEW w \in Workers, Working(w)
               PROVE  jobs'[wjob[w]] \in {"extracting", "none"}
    BY DEF ClaimedOrGone, Working
  <2>1. wjob[w] \in Jobs \ {j}
    BY HeldPayload DEF ClaimInv, Working, WorkerCalls
  <2> QED
    BY <1>2, <2>1 DEF ClaimInv, ClaimedOrGone
<1> QED
  BY <1>1, <1>4, <1>5, <1>6 DEF ClaimInv

(* Nor does he touch a revision.                                             *)
LEMMA RequeueKeepsCircuits ==
  ASSUME TypeOK, ClaimInv, CircuitInv, FirstVersions, NEW j \in Jobs, Requeue(j)
  PROVE  CircuitInv' /\ FirstVersions'
<1>1. UNCHANGED <<circuits, extractions, wpc, wjob, wstatus>>
  BY DEF Requeue, workerVars
<1>2. /\ \A k \in Jobs \ {j} : jobs'[k] = jobs[k]
      /\ jobs'[j] = "queued"
  BY DEF Requeue, TypeOK, StoreTypeOK
<1>3. FirstVersions' /\ FirstUntilClosed'
  BY <1>1 DEF FirstVersions, FirstUntilClosed
<1>4. RowsOwned'
  BY <1>1, <1>2 DEF CircuitInv, RowsOwned, ExtractionsOf, CircuitsOf
<1>5. ReportsRow'
  <2>1. \A w \in Workers : wjob[w] # j
    BY DEF Requeue
  <2>2. \A w \in Workers : wpc[w] = "complete" => wjob[w] \in Jobs
    BY HeldPayload DEF ClaimInv
  <2> QED
    BY <1>1, <1>2, <2>1, <2>2 DEF CircuitInv, ReportsRow, CircuitsOf
<1>6. StatusJustified'
  BY <1>1, <1>2 DEF CircuitInv, StatusJustified, CircuitsOf
<1> QED
  BY <1>3, <1>4, <1>5, <1>6 DEF CircuitInv

(* Every step of the pipeline and of an operator keeps the invariant.        *)
LEMMA NextKeepsRecovery == RecoveryInv /\ [RNext]_recoveryVars => RecoveryInv'
<1> SUFFICES ASSUME RecoveryInv, [RNext]_recoveryVars PROVE RecoveryInv'
  OBVIOUS
<1> USE DEF RecoveryInv
<1>1. ASSUME NEW j \in Jobs, UploadAction(j) PROVE CircuitInv' /\ FirstVersions'
  BY <1>1, HandlerKeepsCircuits, HandlerKeepsFirst
<1>2. ASSUME NEW w \in Workers, WorkerAction(w) PROVE CircuitInv' /\ FirstVersions'
  BY <1>2, WorkerKeepsCircuits, WorkerKeepsFirst DEF ClaimInv
<1>3. CASE Next
  BY <1>1, <1>2, <1>3, NextKeepsClaims DEF Next
<1>4. CASE \E j \in Jobs : Requeue(j)
  BY <1>4, RequeueKeepsClaims, RequeueKeepsCircuits
<1>5. CASE UNCHANGED vars
  <2>1. TypeOK' /\ ClaimInv'
    BY <1>5, NextKeepsClaims
  <2>2. CircuitInv' /\ FirstVersions'
    BY <1>5 DEF vars, store, uploadVars, workerVars, CircuitInv, RowsOwned, ReportsRow,
       FirstUntilClosed, StatusJustified, FirstVersions, CircuitsOf, ExtractionsOf
  <2> QED
    BY <2>1, <2>2
<1> QED
  BY <1>3, <1>4, <1>5 DEF RNext, recoveryVars

(* Handlers, workers and the operator together keep the rows of every job in *)
(* agreement with its status, and never write a second version.              *)
THEOREM RecoveryInvariant == RSpec => []RecoveryInv
<1>1. RInit => RecoveryInv
  BY InitClaims, InitRevisions DEF RInit, RecoveryInv, RevisionInv
<1> QED
  BY <1>1, NextKeepsRecovery, PTL DEF RSpec

(* A retry finds the circuit revision of an earlier attempt, or there is     *)
(* none: circuit.Service.Persist looks before it draws identifiers.          *)
LEMMA RetriesReuse == RecoveryInv => OneCircuitPerJob
<1> SUFFICES ASSUME RecoveryInv, NEW j \in Jobs PROVE Cardinality(CircuitsOf(j)) <= 1
  BY DEF OneCircuitPerJob
<1>1. \A c, d \in CircuitsOf(j) : c = d
  BY DEF CircuitsOf, RecoveryInv, CircuitInv, RowsOwned, FirstVersions
<1> QED
  BY <1>1, AtMostOneMember

(* The invariant says that a retry reports the status that was stored.       *)
LEMMA RetriesAgree == RecoveryInv => RetryKeepsStatus
<1> SUFFICES ASSUME RecoveryInv, NEW j \in Jobs, jobs[j] \in {"needs_review", "ready"},
                    NEW c \in CircuitsOf(j)
             PROVE  c.status = jobs[j]
  BY DEF RetryKeepsStatus
<1>1. PICK d \in CircuitsOf(j) : d.status = jobs[j]
  BY DEF RecoveryInv, CircuitInv, StatusJustified
<1>2. c = d
  BY DEF CircuitsOf, RecoveryInv, CircuitInv, RowsOwned, FirstVersions
<1> QED
  BY <1>1, <1>2

(* However often a job is retried, and wherever an earlier attempt stopped,  *)
(* it has one circuit revision.                                              *)
THEOREM OneCircuit == RSpec => []OneCircuitPerJob
  BY RecoveryInvariant, RetriesReuse, PTL

(* A retried job is settled with the status of the revision it has, not with *)
(* that of a new result of the provider.                                     *)
THEOREM RetriedStatus == RSpec => []RetryKeepsStatus
  BY RecoveryInvariant, RetriesAgree, PTL
-----------------------------------------------------------------------------
(* An operator who retries offers a job again that nobody holds.             *)
LEMMA RequeueImplements ==
  ASSUME TypeOK, NEW j \in Jobs, Requeue(j)
  PROVE  Claims!Reoffer(j)
<1>1. /\ \A k \in Jobs \ {j} : jobs'[k] = jobs[k]
      /\ jobs'[j] = "queued" /\ jobs[j] \in Settled \cup {"queued", "extracting"}
      /\ UNCHANGED <<upc, wpc, wjob>>
  BY DEF Requeue, uploadVars, workerVars, TypeOK, StoreTypeOK
<1>2. \A k \in Jobs : HoldersOf(k)' = HoldersOf(k)
  BY <1>1 DEF HoldersOf, Working
<1>3. HoldersOf(j) = {}
  BY DEF Requeue, HoldersOf
<1>4. \A k \in Jobs \ {j} : Phase(k)' = Phase(k)
  BY <1>1 DEF Phase
<1>5. Phase(j)' = "offered" /\ Phase(j) \in {"offered", "claimed", "settled"}
  BY <1>1 DEF Phase, Settled
<1> QED
  BY <1>2, <1>3, <1>4, <1>5 DEF Claims!Reoffer, Claims!Move

(* Every step of the pipeline and of an operator is one of the ledger with   *)
(* retries or none.                                                          *)
LEMMA RetriesImplement ==
  ASSUME RecoveryInv, [RNext]_recoveryVars
  PROVE  Claims!Next \/ (\E j \in Jobs : Claims!Reoffer(j)) \/ UNCHANGED Claims!ledger
<1> USE DEF RecoveryInv
<1>1. CASE Next
  BY <1>1, HandlerImplements, WorkerImplements DEF Next
<1>2. CASE \E j \in Jobs : Requeue(j)
  BY <1>2, RequeueImplements
<1>3. CASE UNCHANGED recoveryVars
  BY <1>3 DEF recoveryVars, vars, store, uploadVars, workerVars, Claims!ledger, Phase, HoldersOf,
     Working
<1> QED
  BY <1>1, <1>2, <1>3 DEF RNext

(* Retries break no promise about claims: a job comes back only when nobody  *)
(* holds it, is then claimed and settled by one worker, and never comes back *)
(* after it was withdrawn, whatever stale payloads and rows there are.       *)
THEOREM RetryRefinement == RSpec => ImplementsRetriedLedger
<1>1. RecoveryInv /\ [RNext]_recoveryVars
        => [Claims!Next \/ \E j \in Jobs : Claims!Reoffer(j)]_Claims!ledger
  BY RetriesImplement
<1> QED
  BY <1>1, InitImplements, RecoveryInvariant, PTL DEF RSpec, RInit, ImplementsRetriedLedger,
     Claims!RetriedSpec
=============================================================================
