-------------------------- MODULE DeploymentProofs --------------------------
(* Theorems about the two binaries in any environments: for any jobs,        *)
(* workers, thresholds, confidences, faults and crashes.                     *)
EXTENDS Deployment, RecoveryProofs

(* A deployed worker is a worker: its environment decides which of the       *)
(* outcomes of its calls it meets, and adds none.                            *)
LEMMA DeployedIsWorker ==
  ASSUME NEW w \in Workers, DeployedWorker(w)
  PROVE  WorkerAction(w) /\ UNCHANGED <<apiEnv, requeues>>
  BY DEF DeployedWorker, Start, Measure, StoreMeasured, Call, Die, WorkerAction, WorkerNext,
         WorkerCall

(* A step of the deployment is a step of the recovery or none.               *)
LEMMA DNextIsRNext ==
  ASSUME [DNext]_<<recoveryVars, deploymentVars>> PROVE [RNext]_recoveryVars
<1>1. ASSUME NEW w \in Workers, DeployedWorker(w) PROVE RNext
  BY <1>1, DeployedIsWorker DEF RNext, Next
<1> QED
  BY <1>1 DEF DNext, RNext, Next

(* Whatever the environments are, the deployment is a system of handlers,    *)
(* workers and retries: what is true of those is true of it.                 *)
THEOREM DeploymentIsRecovery == DSpec => RSpec
<1>1. DInit => RInit
  BY DEF DInit
<1> QED
  BY <1>1, DNextIsRNext, PTL DEF DSpec, RSpec

(* Retries by workers in other environments, with other thresholds or        *)
(* without a provider, leave one circuit revision per job.                   *)
THEOREM DeployedOneCircuit == DSpec => []OneCircuitPerJob
  BY DeploymentIsRecovery, OneCircuit, PTL

(* ... and settle the job with the status of that revision.                  *)
THEOREM DeployedRetriedStatus == DSpec => []RetryKeepsStatus
  BY DeploymentIsRecovery, RetriedStatus, PTL

(* ... and break no promise about claims: a worker that looks at another     *)
(* list or another database neither claims nor settles a job.                *)
THEOREM DeployedRetryRefinement == DSpec => ImplementsRetriedLedger
  BY DeploymentIsRecovery, RetryRefinement, PTL

-----------------------------------------------------------------------------
Environments ==
  /\ requeues \in 0..MaxRequeues
  /\ apiEnv \in ApiEnvironments
  /\ env \in [Workers -> ApiEnvironments \cup WorkerEnvironments]
  /\ result \in [Workers -> [confidence : Confidences \cup {0}, blocked : BOOLEAN]]

(* What a step of a worker does to what it knows, and to nobody else's.      *)
KnowsAfter(w) ==
  /\ \A v \in Workers \ {w} : env'[v] = env[v] /\ result'[v] = result[v]
  /\ env'[w] \in ApiEnvironments \cup WorkerEnvironments
  /\ result'[w] \in [confidence : Confidences \cup {0}, blocked : BOOLEAN]

(* A worker that read its environment and a result holds values of their     *)
(* types.                                                                    *)
LEMMA KnowsTypes ==
  ASSUME Environments, NEW w \in Workers,
         NEW e \in ApiEnvironments \cup WorkerEnvironments,
         NEW m \in [confidence : Confidences \cup {0}, blocked : BOOLEAN], Knows(w, e, m)
  PROVE  /\ KnowsAfter(w)
         /\ env' \in [Workers -> ApiEnvironments \cup WorkerEnvironments]
         /\ result' \in [Workers -> [confidence : Confidences \cup {0}, blocked : BOOLEAN]]
         /\ wpc'[w] # "down" => env'[w] = e
         /\ wjob'[w] # NoJob => result'[w] = m
<1>1. NoResult \in [confidence : Confidences \cup {0}, blocked : BOOLEAN]
  BY DEF NoResult
<1> QED
  BY <1>1 DEF Environments, Knows, KnowsAfter

(* What a worker knows has its type after each of its steps.                 *)
LEMMA DeployedEnvironments ==
  ASSUME Environments, NEW w \in Workers, DeployedWorker(w)
  PROVE  Environments' /\ KnowsAfter(w)
<1>1. NoResult \in [confidence : Confidences \cup {0}, blocked : BOOLEAN]
  BY DEF NoResult
<1>2. UNCHANGED <<apiEnv, requeues>>
  BY DeployedIsWorker
<1>3. env[w] \in ApiEnvironments \cup WorkerEnvironments
      /\ result[w] \in [confidence : Confidences \cup {0}, blocked : BOOLEAN]
      /\ apiEnv \in ApiEnvironments
  BY DEF Environments
<1>4. \E e \in ApiEnvironments \cup WorkerEnvironments,
         m \in [confidence : Confidences \cup {0}, blocked : BOOLEAN] : Knows(w, e, m)
  <2>1. CASE Start(w)
    BY <1>1, <2>1 DEF Start
  <2>2. CASE Measure(w)
    <3>1. ASSUME NEW x \in Confidences, NEW warnings
          PROVE  [confidence |-> x, blocked |-> \E v \in warnings : isReviewBlockingWarning(v)]
                   \in [confidence : Confidences \cup {0}, blocked : BOOLEAN]
      OBVIOUS
    <3> QED
      BY <1>1, <1>3, <2>2, <3>1 DEF Measure
  <2>3. CASE StoreMeasured(w) \/ Call(w) \/ Die(w)
    BY <1>1, <1>3, <2>3 DEF StoreMeasured, Call, Die
  <2> QED
    BY <2>1, <2>2, <2>3 DEF DeployedWorker
<1> QED
  BY <1>2, <1>4, KnowsTypes DEF Environments

-----------------------------------------------------------------------------
(* Where the calls of a worker lead, but for the provider's answer and the   *)
(* INSERT of the circuit.                                                    *)
CallPath(w) ==
  /\ wpc'[w] \notin {"down", "dequeue"} => wpc[w] # "down"
  /\ wpc[w] = "dequeue" => wpc'[w] \in {"claim", "down"}
  /\ wpc[w] = "claim" => wpc'[w] \in {"getUpload", "down"}
  /\ wpc'[w] # "persistCheck"
  /\ wpc'[w] = "extract" => wpc[w] = "getObject"
  /\ wpc'[w] \in Persisting =>
       wpc[w] \in {"persistCheck"} \cup Persisting /\ wstatus'[w] = wstatus[w]
  /\ wpc'[w] \in Persisting \ {"putExtraction"} => wpc[w] \in Persisting

(* Apart from extracting and inserting, a call only leads further along its  *)
(* path.                                                                     *)
LEMMA CallsFollowPath ==
  ASSUME TypeOK, Locals, NEW w \in Workers, WorkerCall(w), wpc[w] \notin {"extract", "insertCircuit"}
  PROVE  CallPath(w)
<1> USE DEF TypeOK, WorkerTypeOK, CallPath, Persisting, local
<1>1. CASE Dequeue(w)
  BY <1>1 DEF Dequeue
<1>2. CASE ClaimQueued(w)
  BY <1>2 DEF ClaimQueued, Proceed, After, Leave
<1>3. CASE GetUpload(w) \/ GetObject(w)
  BY <1>3 DEF GetUpload, GetObject, Proceed, After
<1>4. CASE Extract(w) \/ InsertCircuit(w)
  BY <1>4 DEF Extract, InsertCircuit
<1>5. CASE PersistCheck(w)
  BY <1>5 DEF PersistCheck
<1>6. CASE PutExtraction(w) \/ PutCircuit(w)
  <2>1. /\ wpc[w] \in {"putExtraction", "putCircuit"} /\ wstatus' = wstatus
        /\ \E ok : Proceed(w, ok)
    BY <1>6 DEF PutExtraction, PutCircuit, PutArtifact
  <2> QED
    BY <2>1 DEF Proceed, After
<1>7. CASE InsertExtraction(w)
  BY <1>7 DEF InsertExtraction, Proceed, After
<1>8. CASE MarkCompleted(w) \/ MarkFailed(w)
  <2>1. PICK step \in {"down", "dequeue"} : Leave(w, step)
    BY <1>8 DEF MarkCompleted, MarkFailed
  <2>2. wpc[w] \in {"complete", "fail"}
    BY <1>8 DEF MarkCompleted, MarkFailed
  <2> QED
    BY <2>1, <2>2 DEF Leave
<1> QED
  BY <1>1, <1>2, <1>3, <1>4, <1>5, <1>6, <1>7, <1>8 DEF WorkerCall

(* What worker w shares, and what it holds, one worker at a time.            *)
SharedBy(w) ==
  /\ wpc[w] \notin {"down", "dequeue"} => SharesQueue(w)
  /\ wpc[w] \notin {"down", "dequeue", "claim"} => SharesDatabase(w)
  /\ wpc[w] \in {"extract", "persistCheck"} \cup Persisting => SharesBucket(w)
  /\ wpc[w] \in {"persistCheck"} \cup Persisting => env[w].provider = "static"
HeldBy(w) ==
  /\ wpc[w] \in {"persistCheck"} \cup Persisting =>
       wstatus[w] = StatusOf(result[w], Threshold(env[w]))
  /\ wpc[w] \in Persisting \ {"putExtraction"} => Marshals(w)

(* A step of a worker keeps what it says of its environment and its result.  *)
LEMMA WorkerKeepsShared ==
  ASSUME RecoveryInv, Environments, NEW w \in Workers, SharedBy(w), HeldBy(w), DeployedWorker(w)
  PROVE  SharedBy(w)' /\ HeldBy(w)'
<1>1. TypeOK /\ Locals /\ WorkerAction(w) /\ apiEnv' = apiEnv
  BY DeployedIsWorker DEF RecoveryInv, ClaimInv
<1> USE <1>1 DEF TypeOK, WorkerTypeOK
<1>2. TypeOK' /\ Locals'
  BY <1>1, WorkerKeepsTypes, WorkerKeepsLocals
<1>3. wpc'[w] \notin {"down", "dequeue"} => wjob'[w] # NoJob
  BY <1>2 DEF Locals
<1>4. /\ env[w] \in ApiEnvironments \cup WorkerEnvironments
      /\ result[w] \in [confidence : Confidences \cup {0}, blocked : BOOLEAN]
  BY DEF Environments
<1>5. ASSUME env'[w] = env[w]
      PROVE  /\ SharesQueue(w)' <=> SharesQueue(w)
             /\ SharesDatabase(w)' <=> SharesDatabase(w)
             /\ SharesBucket(w)' <=> SharesBucket(w)
  BY <1>1, <1>5 DEF SharesQueue, SharesDatabase, SharesBucket
<1>6. CASE Start(w) \/ Die(w)
  <2>1. wpc'[w] \in {"down", "dequeue"}
    BY <1>6 DEF Start, Die, StartWorker, CrashWorker, Leave
  <2> QED
    BY <2>1 DEF SharedBy, HeldBy, Persisting
<1>7. CASE Measure(w)
  <2>1. wpc[w] = "extract" /\ wpc'[w] \in {"persistCheck", "fail"}
    <3>1. wpc[w] = "extract" /\ \E ok : Proceed(w, ok)
      BY <1>7 DEF Measure, Extract
    <3> QED
      BY <3>1 DEF Proceed, After
  <2>2. SharesQueue(w) /\ SharesDatabase(w) /\ SharesBucket(w)
    BY <2>1 DEF SharedBy
  <2>3. CASE wpc'[w] = "fail"
    <3>1. \E m : Knows(w, env[w], m)
      BY <1>7 DEF Measure
    <3>2. env'[w] = env[w]
      BY <2>3, <3>1 DEF Knows, Environments
    <3> QED
      BY <1>5, <2>2, <2>3, <3>2 DEF SharedBy, HeldBy, Persisting
  <2>4. CASE wpc'[w] # "fail"
    <3>1. wpc'[w] = "persistCheck" /\ env[w].provider = "static"
      BY <1>7, <2>1, <2>4 DEF Measure
    <3>2. PICK m : wstatus'[w] = StatusOf(m, Threshold(env[w])) /\ Knows(w, env[w], m)
      BY <1>7, <2>4 DEF Measure
    <3>3. env'[w] = env[w] /\ result'[w] = m
      BY <1>3, <3>1, <3>2 DEF Knows, Environments
    <3> QED
      BY <1>5, <2>2, <3>1, <3>2, <3>3 DEF SharedBy, HeldBy, Persisting
  <2> QED
    BY <2>3, <2>4
<1>8. CASE StoreMeasured(w)
  <2>1. wpc[w] = "insertCircuit" /\ wpc'[w] \in {"complete", "fail"}
    <3>1. wpc[w] = "insertCircuit" /\ \E ok : Proceed(w, ok)
      BY <1>8 DEF StoreMeasured, InsertCircuit
    <3> QED
      BY <3>1 DEF Proceed, After
  <2>2. env'[w] = env[w]
    BY <1>8, <2>1 DEF StoreMeasured, Knows, Environments
  <2>3. SharesQueue(w) /\ SharesDatabase(w)
    BY <2>1 DEF SharedBy
  <2> QED
    BY <1>5, <2>1, <2>2, <2>3 DEF SharedBy, HeldBy, Persisting
<1>9. CASE Call(w)
  <2>1. /\ CallPath(w) /\ Knows(w, env[w], result[w])
        /\ Unshared(w) => wpc'[w] \in {"down", "fail"}
    BY <1>1, <1>9, CallsFollowPath DEF Call
  <2>2. CASE wpc'[w] \in {"down", "dequeue"}
    BY <2>2 DEF SharedBy, HeldBy, Persisting
  <2>3. CASE wpc'[w] \notin {"down", "dequeue"}
    <3>1. env'[w] = env[w] /\ result'[w] = result[w]
      BY <1>3, <2>1, <2>3 DEF Knows, Environments
    <3>2. SharesQueue(w)
      BY <2>1, <2>3 DEF CallPath, SharedBy, Unshared
    <3>3. wpc'[w] # "claim" => SharesDatabase(w)
      BY <2>1, <2>3 DEF CallPath, SharedBy, Unshared
    <3>4. wpc'[w] \in {"extract"} \cup Persisting => SharesBucket(w)
      BY <2>1, <2>3 DEF CallPath, SharedBy, Unshared, Persisting
    <3>5. wpc'[w] \in Persisting => env[w].provider = "static"
      BY <2>1, <2>3 DEF CallPath, SharedBy
    <3>6. wpc'[w] \in Persisting \ {"putExtraction"} => Marshals(w)
      BY <2>1, <2>3 DEF CallPath, HeldBy, Unshared, Persisting
    <3>7. SharedBy(w)'
      BY <1>5, <2>1, <3>1, <3>2, <3>3, <3>4, <3>5 DEF SharedBy, CallPath
    <3>8. HeldBy(w)'
      BY <2>1, <3>1, <3>6 DEF HeldBy, CallPath, Marshals
    <3> QED
      BY <3>7, <3>8
  <2> QED
    BY <2>2, <2>3
<1> QED
  BY <1>6, <1>7, <1>8, <1>9 DEF DeployedWorker

(* What somebody else's step leaves of it.                                   *)
LEMMA SharedUnchanged ==
  ASSUME NEW v \in Workers, SharedBy(v), HeldBy(v), apiEnv' = apiEnv,
         wpc'[v] = wpc[v], wstatus'[v] = wstatus[v], env'[v] = env[v], result'[v] = result[v]
  PROVE  SharedBy(v)' /\ HeldBy(v)'
<1>1. /\ SharesQueue(v)' <=> SharesQueue(v)
      /\ SharesDatabase(v)' <=> SharesDatabase(v)
      /\ SharesBucket(v)' <=> SharesBucket(v)
      /\ Marshals(v)' <=> Marshals(v)
  BY DEF SharesQueue, SharesDatabase, SharesBucket, Marshals
<1> QED
  BY <1>1 DEF SharedBy, HeldBy

-----------------------------------------------------------------------------
(* What is on record is well formed, and json.Marshal took every result.     *)
Records ==
  /\ OnRecord
  /\ \A m \in measured : m.id \in RevisionIds /\ m.result.confidence # NaN

(* Every environment has a threshold to compare with.                        *)
LEMMA ThresholdIsNumber ==
  ASSUME NEW e \in ApiEnvironments \cup WorkerEnvironments PROVE Threshold(e) \in Int
<1>1. e \in EnvironmentFields
  BY DeploymentAssumption
<1>2. e.threshold \in Int
  BY <1>1 DEF EnvironmentFields
<1> QED
  BY <1>2 DEF Threshold

(* A step of a worker keeps the record of every revision true to its writer. *)
LEMMA WorkerKeepsRecords ==
  ASSUME RecoveryInv, Environments, NEW w \in Workers, HeldBy(w), Records, DeployedWorker(w)
  PROVE  Records'
<1> USE DEF Records, OnRecord
<1>1. TypeOK /\ Locals /\ WorkerAction(w)
  BY DeployedIsWorker DEF RecoveryInv, ClaimInv
<1>2. SameRows \/ AddsExtraction(w) \/ AddsCircuit(w)
  BY <1>1, WorkerRows
<1>3. CASE StoreMeasured(w) /\ circuits' # circuits
  <2>1. wpc[w] = "insertCircuit" /\ circuits' = circuits \cup {NewCircuit(w)}
    BY <1>2, <1>3 DEF SameRows, AddsExtraction, AddsCircuit
  <2> DEFINE m == [id |-> Id(w), result |-> result[w], threshold |-> Threshold(env[w])]
  <2>2. measured' = measured \cup {m}
    BY <1>3 DEF StoreMeasured
  <2>3. /\ result[w] \in [confidence : Confidences \cup {0}, blocked : BOOLEAN]
        /\ Threshold(env[w]) \in Int
    BY ThresholdIsNumber DEF Environments
  <2>4. Id(w) \in RevisionIds
    BY <1>1, <2>1, IdTypeOK DEF Persisting
  <2>5. wstatus[w] = StatusOf(result[w], Threshold(env[w])) /\ result[w].confidence # NaN
    BY <2>1 DEF HeldBy, Persisting, Marshals
  <2>6. NewCircuit(w).id = m.id /\ NewCircuit(w).status = StatusOf(m.result, m.threshold)
    BY <2>5 DEF NewCircuit
  <2>7. m.result = result[w] /\ m.threshold = Threshold(env[w]) /\ m.id = Id(w)
    OBVIOUS
  <2> HIDE DEF m
  <2> QED
    BY <2>1, <2>2, <2>3, <2>4, <2>5, <2>6, <2>7
<1>4. CASE ~(StoreMeasured(w) /\ circuits' # circuits)
  <2>1. measured' = measured
    BY <1>4 DEF DeployedWorker, Start, Measure, StoreMeasured, Call, Die
  <2>2. circuits' = circuits
    <3>1. CASE StoreMeasured(w)
      BY <1>4, <3>1
    <3>2. CASE Start(w) \/ Measure(w) \/ Call(w) \/ Die(w)
      <4>1. wpc[w] # "insertCircuit" \/ Die(w)
        BY <3>2 DEF Start, Measure, Call, StartWorker, Extract
      <4> QED
        BY <1>2, <3>2, <4>1 DEF SameRows, AddsExtraction, AddsCircuit, Die, CrashWorker, store
    <3> QED
      BY <3>1, <3>2 DEF DeployedWorker
  <2> QED
    BY <2>1, <2>2
<1> QED
  BY <1>3, <1>4

-----------------------------------------------------------------------------
(* All of it is inductive together with what holds of any retries.           *)
FullInv == RecoveryInv /\ Environments /\ ReachedShared /\ HoldsResult /\ Records

(* What is claimed of all workers is claimed of each.                        *)
LEMMA EachWorker ==
  ReachedShared /\ HoldsResult <=> \A w \in Workers : SharedBy(w) /\ HeldBy(w)
  BY DEF ReachedShared, HoldsResult, SharedBy, HeldBy

(* The invariant holds before any process runs.                              *)
LEMMA InitDeployment == DInit => FullInv
<1> SUFFICES ASSUME DInit PROVE FullInv
  OBVIOUS
<1> USE DEF DInit, RInit, Init, StoreInit, WorkerInit
<1>1. RecoveryInv
  BY InitClaims, InitRevisions DEF RecoveryInv, RevisionInv
<1>2. Environments
  BY RecoveryAssumption DEF Environments, NoResult
<1>3. ReachedShared /\ HoldsResult
  BY DEF ReachedShared, HoldsResult, Persisting
<1>4. Records
  BY DEF Records, OnRecord
<1> QED
  BY <1>1, <1>2, <1>3, <1>4 DEF FullInv

(* Every step of handlers, workers and operators keeps it.                   *)
LEMMA NextKeepsDeployment == FullInv /\ [DNext]_<<recoveryVars, deploymentVars>> => FullInv'
<1> SUFFICES ASSUME FullInv, [DNext]_<<recoveryVars, deploymentVars>> PROVE FullInv'
  OBVIOUS
<1> USE DEF FullInv
<1>1. RecoveryInv'
  BY DNextIsRNext, NextKeepsRecovery
<1>2. ASSUME NEW w \in Workers, DeployedWorker(w) PROVE FullInv'
  <2>1. KnowsAfter(w) /\ Environments' /\ apiEnv' = apiEnv
    BY <1>2, DeployedEnvironments, DeployedIsWorker
  <2>2. Records' /\ SharedBy(w)' /\ HeldBy(w)'
    BY <1>2, EachWorker, WorkerKeepsRecords, WorkerKeepsShared
  <2>3. ASSUME NEW v \in Workers \ {w} PROVE SharedBy(v)' /\ HeldBy(v)'
    <3>1. wpc'[v] = wpc[v] /\ wstatus'[v] = wstatus[v]
      BY <1>2, DeployedIsWorker, OthersKeepLocals DEF RecoveryInv
    <3>2. env'[v] = env[v] /\ result'[v] = result[v]
      BY <2>1 DEF KnowsAfter
    <3> QED
      BY <2>1, <3>1, <3>2, EachWorker, SharedUnchanged
  <2>4. (ReachedShared /\ HoldsResult)'
    <3>1. \A v \in Workers : SharedBy(v)' /\ HeldBy(v)'
      BY <2>2, <2>3
    <3> QED
      BY <3>1 DEF ReachedShared, HoldsResult, SharedBy, HeldBy
  <2> QED
    BY <1>1, <2>1, <2>2, <2>4
<1>3. CASE \/ \E j \in Jobs : UploadAction(j) /\ UNCHANGED <<requeues, deploymentVars>>
           \/ \E j \in Jobs : Requeue(j) /\ UNCHANGED deploymentVars
           \/ UNCHANGED <<recoveryVars, deploymentVars>>
  <2>1. /\ UNCHANGED <<apiEnv, env, result, measured, wpc, wstatus>>
        /\ requeues' \in 0..MaxRequeues
        /\ circuits' \subseteq circuits
    <3>1. CASE \E j \in Jobs : UploadAction(j) /\ UNCHANGED <<requeues, deploymentVars>>
      <4>1. circuits' \subseteq circuits
        BY <3>1, HandlerRows DEF RecoveryInv, RowsKept, RowsDeleted
      <4> QED
        BY <3>1, <4>1 DEF deploymentVars, UploadAction, workerVars, Environments
    <3>2. CASE \E j \in Jobs : Requeue(j) /\ UNCHANGED deploymentVars
      BY <3>2, RecoveryAssumption DEF Requeue, deploymentVars, workerVars, Environments
    <3>3. CASE UNCHANGED <<recoveryVars, deploymentVars>>
      BY <3>3 DEF recoveryVars, deploymentVars, vars, store, workerVars, Environments
    <3> QED
      BY <1>3, <3>1, <3>2, <3>3
  <2>2. Environments' /\ Records'
    BY <2>1 DEF Environments, Records, OnRecord
  <2>3. (ReachedShared /\ HoldsResult)'
    <3>1. \A v \in Workers : SharedBy(v)' /\ HeldBy(v)'
      BY <2>1, EachWorker, SharedUnchanged
    <3> QED
      BY <3>1 DEF ReachedShared, HoldsResult, SharedBy, HeldBy
  <2> QED
    BY <1>1, <2>2, <2>3
<1> QED
  BY <1>2, <1>3 DEF DNext

(* A worker gets past the image only with the queue, the database and the    *)
(* directory of the API and with a provider that was linked in, and every    *)
(* circuit row has a result on record that its status was decided on.        *)
THEOREM DeploymentInvariant == DSpec => []DeploymentInv
<1>1. FullInv => DeploymentInv
  BY DEF FullInv, Records, DeploymentInv
<1> QED
  BY <1>1, InitDeployment, NextKeepsDeployment, PTL DEF DSpec

(* Environments, results and measurements are well formed; a confidence that *)
(* is not a number is never stored.                                          *)
THEOREM DeploymentTypes == DSpec => []DeploymentTypeOK
<1>1. FullInv => DeploymentTypeOK
  BY DEF FullInv, RecoveryInv, Environments, Records, DeploymentTypeOK
<1> QED
  BY <1>1, InitDeployment, NextKeepsDeployment, PTL DEF DSpec

(* What the policy makes of a stored result: a confidence at the threshold   *)
(* passes, and everything passes a threshold that is not a number.           *)
LEMMA PolicyOfResult ==
  ASSUME NEW m, m.result \in [confidence : Confidences \cup {0}, blocked : BOOLEAN],
         m.threshold \in Int, m.result.confidence # NaN
  PROVE  StatusOf(m.result, m.threshold) = "ready" <=>
           (m.threshold = NaN \/ m.result.confidence >= m.threshold) /\ ~m.result.blocked
<1>1. PICK x, y, b : x = m.result.confidence /\ y = m.threshold /\ b = m.result.blocked
  OBVIOUS
<1>2. x \in Nat /\ y \in Int
  <2>1. Confidences \subseteq Nat \cup {NaN} /\ x \in Confidences \cup {0} /\ x # NaN
    BY <1>1, DeploymentAssumption
  <2> QED
    BY <1>1, <2>1
<1>3. ~Below(x, y) <=> y = NaN \/ x >= y
  BY <1>1, <1>2 DEF Below
<1> QED
  BY <1>1, <1>3 DEF StatusOf, DecideStatus

(* A job is ready exactly when the worker that wrote its revision accepted   *)
(* the confidence and no warning blocked it; a retry under another threshold *)
(* does not judge again.                                                     *)
THEOREM WriterDecides == DSpec => []PolicyOfTheWriter
<1>1. FullInv => PolicyOfTheWriter
  <2> SUFFICES ASSUME FullInv, NEW j \in Jobs, jobs[j] \in {"ready", "needs_review"}
               PROVE  \E m \in measured :
                        /\ JobOf(m.id) = j
                        /\ jobs[j] = "ready" <=>
                             (m.threshold = NaN \/ m.result.confidence >= m.threshold)
                               /\ ~m.result.blocked
    BY DEF PolicyOfTheWriter
  <2>1. PICK c \in CircuitsOf(j) : c.status = jobs[j]
    BY DEF FullInv, RecoveryInv, CircuitInv, StatusJustified
  <2>2. PICK m \in measured : m.id = c.id /\ c.status = StatusOf(m.result, m.threshold)
    BY <2>1 DEF FullInv, Records, OnRecord, CircuitsOf
  <2>3. /\ m.result \in [confidence : Confidences \cup {0}, blocked : BOOLEAN]
        /\ m.threshold \in Int /\ m.result.confidence # NaN
    BY DEF FullInv, Records, OnRecord
  <2>4. JobOf(m.id) = j
    BY <2>1, <2>2 DEF CircuitsOf
  <2> QED
    BY <2>1, <2>2, <2>3, <2>4, PolicyOfResult
<1> QED
  BY <1>1, InitDeployment, NextKeepsDeployment, PTL DEF DSpec

-----------------------------------------------------------------------------
(* Who writes a JSON object.                                                 *)
LEMMA ArtifactWriter ==
  ASSUME NEW v \in Workers, WorkerAction(v), artifacts' # artifacts
  PROVE  wpc[v] \in {"putExtraction", "putCircuit"}
  BY DEF WorkerAction, WorkerNext, WorkerCall, StartWorker, Dequeue, ClaimQueued, GetUpload,
     GetObject, Extract, PersistCheck, PutExtraction, PutCircuit, PutArtifact, InsertExtraction,
     InsertCircuit, MarkCompleted, MarkFailed, CrashWorker, store, rows, objects

(* Handlers of uploads write no object of a revision.                        *)
LEMMA HandlerWritesNoArtifact ==
  ASSUME NEW j \in Jobs, UploadAction(j)
  PROVE  artifacts' = artifacts
  BY DEF UploadAction, UploadNext, UploadCall, Receive, CreateUpload, CreateJob, PutSource,
     MarkUploaded, ToUploaded, ToQueued, Transition, Enqueue, UndoObject, UndoJob, UndoUpload,
     Disconnect, CrashApi, store, rows, objects

(* Equal pairs have equal parts.                                             *)
LEMMA PairParts ==
  ASSUME NEW a, NEW b, NEW c, NEW d, <<a, b>> = <<c, d>> PROVE a = c /\ b = d
  OBVIOUS

(* Sharing a bucket with the API is sharing a directory: a bucket in memory  *)
(* is the API's own.                                                         *)
LEMMA SharedDirectory ==
  ASSUME NEW w \in Workers, SharesBucket(w)
  PROVE  env[w].path = apiEnv.path /\ TrimSpace(env[w].path) # ""
<1>1. w # "api"
  BY DeploymentAssumption
<1>2. BucketOf(env[w], w) = BucketOf(apiEnv, "api")
  BY DEF SharesBucket
<1>3. CASE TrimSpace(env[w].path) = ""
  <2>1. BucketOf(env[w], w) = <<"memory", w>>
    BY <1>3 DEF BucketOf
  <2>2. BucketOf(apiEnv, "api") \in {<<"files", apiEnv.path>>, <<"memory", "api">>}
    BY DEF BucketOf
  <2> QED
    BY <1>1, <1>2, <2>1, <2>2, PairParts
<1>4. CASE TrimSpace(env[w].path) # ""
  <2>1. BucketOf(env[w], w) = <<"files", env[w].path>>
    BY <1>4 DEF BucketOf
  <2>2. BucketOf(apiEnv, "api") \in {<<"files", apiEnv.path>>, <<"memory", "api">>}
    BY DEF BucketOf
  <2>3. CASE BucketOf(apiEnv, "api") = <<"files", apiEnv.path>>
    <3>1. <<"files", env[w].path>> = <<"files", apiEnv.path>>
      BY <1>2, <2>1, <2>3
    <3>2. env[w].path = apiEnv.path
      BY <3>1, PairParts
    <3> QED
      BY <1>4, <3>2
  <2>4. CASE BucketOf(apiEnv, "api") = <<"memory", "api">>
    <3>1. <<"files", env[w].path>> = <<"memory", "api">>
      BY <1>2, <2>1, <2>4
    <3> QED
      BY <3>1, PairParts
  <2> QED
    BY <2>2, <2>3, <2>4
<1> QED
  BY <1>3, <1>4

(* Whatever the two binaries are started with, nothing is written by a       *)
(* worker that looks at another database, another list or another directory. *)
THEOREM OnlySharedWrites == DSpec => PersistsOnlyShared
<1>1. FullInv /\ [DNext]_<<recoveryVars, deploymentVars>>
        => [WritesOnlyShared]_<<recoveryVars, deploymentVars>>
  <2> SUFFICES ASSUME FullInv, DNext, NEW w \in Workers, artifacts' # artifacts, wpc'[w] # wpc[w]
               PROVE  /\ env[w].database = apiEnv.database
                      /\ QueueOf(env[w]) = QueueOf(apiEnv)
                      /\ env[w].path = apiEnv.path /\ TrimSpace(env[w].path) # ""
                      /\ env[w].provider = "static"
    BY DEF WritesOnlyShared
  <2>1. PICK v \in Workers : DeployedWorker(v)
    BY HandlerWritesNoArtifact DEF DNext, Requeue, objects
  <2>2. TypeOK /\ WorkerAction(v)
    BY <2>1, DeployedIsWorker DEF FullInv, RecoveryInv
  <2>3. v = w
    BY <2>2, OthersKeepLocals
  <2>4. wpc[w] \in Persisting
    BY <2>2, <2>3, ArtifactWriter DEF Persisting
  <2>5. SharedBy(w)
    BY EachWorker DEF FullInv
  <2>6. SharesQueue(w) /\ SharesDatabase(w) /\ SharesBucket(w) /\ env[w].provider = "static"
    BY <2>4, <2>5 DEF SharedBy, Persisting
  <2> QED
    BY <2>6, SharedDirectory DEF SharesQueue, SharesDatabase
<1> QED
  BY <1>1, InitDeployment, NextKeepsDeployment, PTL DEF DSpec, PersistsOnlyShared
=============================================================================
