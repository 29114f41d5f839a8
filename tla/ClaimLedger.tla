----------------------------- MODULE ClaimLedger -----------------------------
(* What the pipeline promises about one job, with no queue, no rows and no   *)
(* retries: it is offered to the workers once, claimed once, and settled by  *)
(* the worker that claimed it.                                               *)
CONSTANTS Jobs, Workers

VARIABLES phase,    \* how far job j is
          holders   \* the worker that works on j, if any

ledger == <<phase, holders>>

Init == /\ phase = [j \in Jobs |-> "absent"]
        /\ holders = [j \in Jobs |-> {}]

Move(j, from, to) == phase[j] = from /\ phase' = [phase EXCEPT ![j] = to]

Prepare(j) == Move(j, "absent", "prepared") /\ holders[j] = {} /\ UNCHANGED holders
Offer(j) == Move(j, "prepared", "offered") /\ holders[j] = {} /\ UNCHANGED holders

(* A worker that is not told its claim went through does not hold the job.   *)
Claim(j, ws) ==
  /\ Move(j, "offered", "claimed")
  /\ holders[j] = {}
  /\ holders' = [holders EXCEPT ![j] = ws]

Settle(j, w) ==
  /\ Move(j, "claimed", "settled")
  /\ holders[j] = {w}
  /\ holders' = [holders EXCEPT ![j] = {}]

(* The worker died, or gave up without the store hearing of it.              *)
Abandon(j) ==
  /\ holders[j] # {}
  /\ holders' = [holders EXCEPT ![j] = {}]
  /\ UNCHANGED phase

(* The uploader takes the job back, in whatever phase it is.                 *)
Withdraw(j) ==
  /\ phase[j] # "withdrawn"
  /\ phase' = [phase EXCEPT ![j] = "withdrawn"]
  /\ UNCHANGED holders

Next == \E j \in Jobs :
  \/ Prepare(j) \/ Offer(j) \/ Abandon(j) \/ Withdraw(j)
  \/ Claim(j, {})
  \/ \E w \in Workers : Claim(j, {w}) \/ Settle(j, w)

Spec == Init /\ [][Next]_ledger

(* With an operator who retries: a job nobody holds is offered again, also a *)
(* settled one, but never one that was withdrawn.                            *)
Reoffer(j) ==
  /\ Move(j, phase[j], "offered")
  /\ phase[j] \in {"offered", "claimed", "settled"}
  /\ holders[j] = {}
  /\ UNCHANGED holders

RetriedSpec == Init /\ [][Next \/ \E j \in Jobs : Reoffer(j)]_ledger
=============================================================================
