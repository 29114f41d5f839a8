----------------------------- MODULE MCRecovery -----------------------------
(* An instance of the pipeline with an operator that retries jobs.           *)
EXTENDS Recovery, TLC

CONSTANTS j1, w1, w2

NoFaults == [c \in Calls |-> {}]
=============================================================================
