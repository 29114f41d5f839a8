---------------------------- MODULE MCWorkbench ----------------------------
(* Instances of the web application and the backend for TLC.                 *)
EXTENDS Workbench, TLC

CONSTANTS j1, w1, r1, r2, b1, b2

(* Every call of a review may fail before or after it took effect, except    *)
(* that the API learns how its COMMIT ended; the pipeline works.             *)
ReviewFaults == [c \in Calls |->
  IF c = "commit" THEN {"error"} ELSE IF c \in ReviewCalls THEN FaultsOf(c) ELSE {}]
=============================================================================
