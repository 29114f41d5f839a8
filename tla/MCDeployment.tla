---------------------------- MODULE MCDeployment ----------------------------
(* Instances of the deployment for TLC.                                      *)
EXTENDS Deployment, TLC

CONSTANTS j1, w1, w2

Symmetry == Permutations(Workers)

(* Anything may go wrong in the workers, and the payload of a sound upload   *)
(* may be pushed twice.                                                      *)
WorkerFaults == [c \in Calls |->
  IF c \in WorkerCalls THEN FaultsOf(c) ELSE IF c = "enqueue" THEN {"duplicate"} ELSE {}]

Sound == [database |-> "postgres://db", redis |-> "", key |-> "", path |-> "/objects",
          complete |-> TRUE, threshold |-> Unset, provider |-> "static"]
NoPath == [Sound EXCEPT !.path = " "]

ApiSettings == {Sound, NoPath, [Sound EXCEPT !.complete = FALSE]}

(* One variable differs from Sound, in effect or only in writing.            *)
WorkerSettings ==
  {Sound, NoPath,
   [Sound EXCEPT !.database = "postgres://other"],
   [Sound EXCEPT !.database = " "],
   [Sound EXCEPT !.complete = FALSE],
   [Sound EXCEPT !.redis = "127.0.0.1:6379", !.key = " processing:jobs "],
   [Sound EXCEPT !.key = "other:jobs"],
   [Sound EXCEPT !.path = "/other"],
   [Sound EXCEPT !.threshold = NotANumber],
   [Sound EXCEPT !.threshold = 7],
   [Sound EXCEPT !.threshold = NaN],
   [Sound EXCEPT !.provider = "unconfigured"]}

(* Around both thresholds, and what no provider should report.               *)
Tenths == {6, 7, 8, NaN}
=============================================================================
