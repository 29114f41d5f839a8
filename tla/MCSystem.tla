------------------------------ MODULE MCSystem ------------------------------
(* Instances of the whole backend for TLC.                                   *)
EXTENDS System, TLC

CONSTANTS j1, w1, r1, r2

Symmetry == Permutations(Reviewers)

NoFaults == [c \in Calls |-> {}]

(* Every call of an upload, a worker and a review may fail before or after   *)
(* it took effect, but for the last DELETE of the compensation, which        *)
(* reaches the database while the client waits (and may be aborted there),   *)
(* and the answer to the COMMIT, which is not lost.  Above all, the answer   *)
(* to a push that was received is lost, and the handler undoes a job that a  *)
(* worker and then a reviewer are busy with.                                 *)
UndoReview == [c \in Calls |->
  IF c = "commit" THEN {"error"} ELSE IF c = "undoUpload" THEN {"lost"} ELSE FaultsOf(c)]

(* The answer to the COMMIT may be lost.                                     *)
LostCommit == [c \in Calls |-> IF c = "commit" THEN {"lost"} ELSE {}]
=============================================================================
