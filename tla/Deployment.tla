----------------------------- MODULE Deployment -----------------------------
(* The two binaries, and the environments they are started in: which         *)
(* database, queue and object storage a process uses, and above which        *)
(* confidence its review policy lets a circuit pass.  A worker may be        *)
(* started in another environment than the API or the worker before it; a    *)
(* call on a resource it does not share with the API then fails the way the  *)
(* empty resource of its own makes it fail.                                  *)
EXTENDS Recovery, Integers

CONSTANTS ApiEnvironments, WorkerEnvironments,  \* what a process may be started with
          Confidences                           \* what a provider may report

(* Floating point values are tenths, but for NaN; the other two are what the *)
(* variable of the threshold may hold instead of a number.                   *)
NaN == -1
NotANumber == -2
Unset == -3
Below_OrEqual(x, y) == x # NaN /\ y # NaN /\ x <= y
Below(x, y) == x # NaN /\ y # NaN /\ x < y

(* The variables of a process.  complete: bucket, endpoint and both keys of  *)
(* the object storage are set.  provider is what the binary was linked with. *)
EnvironmentFields == [database : STRING, redis : STRING, key : STRING, path : STRING,
                      complete : BOOLEAN, threshold : Int, provider : {"unconfigured", "static"}]

ASSUME DeploymentAssumption ==
  /\ ApiEnvironments \cup WorkerEnvironments \subseteq EnvironmentFields
  /\ Confidences \subseteq Nat \cup {NaN}
  /\ "api" \notin Workers   \* a worker is a process of its own
  /\ \A c \in {"dequeue", "claim", "getObject", "extract", "putExtraction"} : "error" \in Faults[c]

VARIABLES apiEnv,    \* the environment of the API process
          env,       \* that of worker w, that of the API when w does not run
          result,    \* the confidence and the warnings of the result w holds
          measured   \* circuit_revisions.confidence and .warnings by revision,
                     \* and the threshold of the worker that decided its status
deploymentVars == <<apiEnv, env, result, measured>>
-----------------------------------------------------------------------------
TrimSpace(s) == CASE s = " " -> "" [] s = " processing:jobs " -> "processing:jobs" [] OTHER -> s
Or(s, default) == IF s = "" THEN default ELSE s

(* config.Load, as far as it does not just copy a variable.                  *)
Threshold(e) == IF e.threshold \in {Unset, NotANumber} THEN 8 ELSE e.threshold
RedisAddr(e) == Or(e.redis, "127.0.0.1:6379")

(* A process that lacks a required variable ends before it does anything.    *)
ValidateSharedRuntime(e) == TrimSpace(e.database) # "" /\ e.complete

(* The list and the bucket of a process p.  Without a path every process has *)
(* a bucket in memory of its own.                                            *)
QueueOf(e) == <<RedisAddr(e), Or(TrimSpace(e.key), "processing:jobs")>>
BucketOf_OneMemory(e, p) ==
  IF TrimSpace(e.path) # "" THEN <<"files", e.path>> ELSE <<"memory", NoJob>>
BucketOf(e, p) ==
  IF TrimSpace(e.path) # "" THEN <<"files", e.path>> ELSE <<"memory", p>>

SharesQueue(w) == QueueOf(env[w]) = QueueOf(apiEnv)
SharesDatabase(w) == env[w].database = apiEnv.database
SharesBucket(w) == BucketOf(env[w], w) = BucketOf(apiEnv, "api")

(* circuit.DecideStatus on a result, its warnings and the worker's threshold.*)
Warnings == {"Ambiguous net", "incomplete circuit", "low contrast"}
isReviewBlockingWarning(v) == v \in {"Ambiguous net", "incomplete circuit"}
Measurements == [confidence : Confidences, blocked : BOOLEAN]
StatusOf(m, threshold) ==
  DecideStatus([confident |-> ~Below(m.confidence, threshold), blocked |-> m.blocked])

(* json.Marshal refuses a confidence that is not a number.                   *)
Marshals_Anything(w) == TRUE
Marshals(w) == result[w].confidence # NaN
-----------------------------------------------------------------------------
NoResult == [confidence |-> 0, blocked |-> FALSE]

DInit == /\ RInit
         /\ apiEnv \in {e \in ApiEnvironments : ValidateSharedRuntime(e)}
         /\ env = [w \in Workers |-> apiEnv]
         /\ result = [w \in Workers |-> NoResult]
         /\ measured = {}

(* What worker w knows after its step: nothing once it ended.                *)
Knows(w, e, m) ==
  /\ env' = [env EXCEPT ![w] = IF wpc'[w] = "down" THEN apiEnv ELSE e]
  /\ result' = [result EXCEPT ![w] = IF wjob'[w] = NoJob THEN NoResult ELSE m]

Start(w) ==
  /\ StartWorker(w)
  /\ \E e \in WorkerEnvironments : ValidateSharedRuntime(e) /\ Knows(w, e, NoResult)
  /\ UNCHANGED measured

(* The provider answers, and the policy of the worker decides on a status.   *)
Measure(w) ==
  /\ Extract(w)
  /\ \/ wpc'[w] = "fail" /\ Knows(w, env[w], NoResult)
     \/ /\ wpc'[w] # "fail" /\ env[w].provider = "static"
        /\ \E x \in Confidences, warnings \in SUBSET Warnings :
             LET m == [confidence |-> x,
                       blocked |-> \E v \in warnings : isReviewBlockingWarning(v)]
             IN wstatus'[w] = StatusOf(m, Threshold(env[w])) /\ Knows(w, env[w], m)
  /\ UNCHANGED measured

StoreMeasured(w) ==
  /\ InsertCircuit(w)
  /\ measured' = IF circuits' = circuits THEN measured
                 ELSE measured \cup {[id |-> Id(w), result |-> result[w],
                                      threshold |-> Threshold(env[w])]}
  /\ Knows(w, env[w], result[w])

(* What a call comes to on a resource the worker does not share with the     *)
(* API: another list is empty, another database has no such job, another     *)
(* bucket no such image.                                                     *)
Unshared(w) ==
  \/ wpc[w] = "dequeue" /\ ~SharesQueue(w)
  \/ wpc[w] = "claim" /\ ~SharesDatabase(w)
  \/ wpc[w] = "getObject" /\ ~SharesBucket(w)
  \/ wpc[w] = "putExtraction" /\ ~Marshals(w)
Call(w) ==
  /\ WorkerCall(w) /\ wpc[w] \notin {"extract", "insertCircuit"}
  /\ Unshared(w) => store' = store /\ wpc'[w] \in {"down", "fail"}
  /\ Knows(w, env[w], result[w])
  /\ UNCHANGED measured
Die(w) == CrashWorker(w) /\ Knows(w, apiEnv, NoResult) /\ UNCHANGED measured

DeployedWorker(w) ==
  /\ Start(w) \/ Measure(w) \/ StoreMeasured(w) \/ Call(w) \/ Die(w)
  /\ UNCHANGED <<apiEnv, uploadVars, requeues>>

DNext == \/ \E j \in Jobs : UploadAction(j) /\ UNCHANGED <<requeues, deploymentVars>>
         \/ \E w \in Workers : DeployedWorker(w)
         \/ \E j \in Jobs : Requeue(j) /\ UNCHANGED deploymentVars
DSpec == DInit /\ [][DNext]_<<recoveryVars, deploymentVars>>
-----------------------------------------------------------------------------
DeploymentTypeOK ==
  /\ TypeOK /\ requeues \in 0..MaxRequeues
  /\ apiEnv \in ApiEnvironments
  /\ env \in [Workers -> ApiEnvironments \cup WorkerEnvironments]
  /\ result \in [Workers -> [confidence : Confidences \cup {0}, blocked : BOOLEAN]]
  /\ \A m \in measured : m.id \in RevisionIds /\ m.result.confidence # NaN

(* Nothing is persisted by a worker that is not looking at what the API      *)
(* wrote: same database, same list, same directory.  Above all, a worker     *)
(* without a directory never gets past the image.                            *)
WritesOnlyShared ==
  \A w \in Workers : artifacts' # artifacts /\ wpc'[w] # wpc[w] =>
    /\ env[w].database = apiEnv.database
    /\ QueueOf(env[w]) = QueueOf(apiEnv)
    /\ env[w].path = apiEnv.path /\ TrimSpace(env[w].path) # ""
    /\ env[w].provider = "static"
PersistsOnlyShared == [][WritesOnlyShared]_<<recoveryVars, deploymentVars>>

(* A job is ready only with a confidence the worker that persisted it        *)
(* accepted and without a blocking warning, and waits for review only for    *)
(* one of these reasons, whatever the threshold of the worker that retried   *)
(* it and settled it in the end.  At the threshold a confidence passes, and  *)
(* below a threshold that is not a number there is nothing.                  *)
PolicyOfTheWriter ==
  \A j \in Jobs : jobs[j] \in {"ready", "needs_review"} =>
    \E m \in measured : /\ JobOf(m.id) = j
                        /\ LET accepted == m.threshold = NaN \/ m.result.confidence >= m.threshold
                           IN jobs[j] = "ready" <=> accepted /\ ~m.result.blocked

-----------------------------------------------------------------------------
(* Why that is so.  A worker that got as far as some call shares what the    *)
(* calls before it need; it holds the result its status was decided on until *)
(* both are stored; and the two of every row are on record.                  *)
ReachedShared == \A w \in Workers :
  /\ wpc[w] \notin {"down", "dequeue"} => SharesQueue(w)
  /\ wpc[w] \notin {"down", "dequeue", "claim"} => SharesDatabase(w)
  /\ wpc[w] \in {"extract", "persistCheck"} \cup Persisting => SharesBucket(w)
  /\ wpc[w] \in {"persistCheck"} \cup Persisting => env[w].provider = "static"

HoldsResult == \A w \in Workers :
  /\ wpc[w] \in {"persistCheck"} \cup Persisting =>
       wstatus[w] = StatusOf(result[w], Threshold(env[w]))
  /\ wpc[w] \in Persisting \ {"putExtraction"} => Marshals(w)

OnRecord ==
  /\ \A m \in measured : /\ m.result \in [confidence : Confidences \cup {0}, blocked : BOOLEAN]
                         /\ m.threshold \in Int
  /\ \A c \in circuits : \E m \in measured :
       m.id = c.id /\ c.status = StatusOf(m.result, m.threshold)

DeploymentInv == ReachedShared /\ HoldsResult /\ OnRecord
=============================================================================
