----------------------------- MODULE MCPipeline -----------------------------
(* Instances of the pipeline for TLC.                                        *)
EXTENDS Pipeline, TLC

CONSTANTS j1, j2, w1, w2

Symmetry == Permutations(Workers)

(* Every call may fail in every way it can.                                  *)
AllFaults == [c \in Calls |-> FaultsOf(c)]

(* Only the steps of a worker whose failure it reports with MarkFailed.      *)
Reported == {"getUpload", "getObject", "extract", "persistCheck", "putExtraction",
             "putCircuit", "insertExtraction", "insertCircuit"}
ReportedFaults == [c \in Calls |-> IF c \in Reported THEN FaultsOf(c) ELSE {}]

(* The claim fails without effect, as it does when the database is away.     *)
ClaimErrors == [c \in Calls |-> IF c = "claim" THEN {"error"} ELSE {}]

NoFaults == [c \in Calls |-> {}]
=============================================================================
