---------------------------- MODULE ReviewLedger ----------------------------
(* What the review workbench promises about a job and to a reviewer, with no *)
(* revisions, no transaction and no objects: a job that waits for a decision *)
(* gets one, and the reviewer whose request made it, and nobody else, is     *)
(* told that it was saved.                                                   *)
CONSTANTS Jobs, Reviewers

VARIABLES verdict,  \* "open" until job j waits for a decision, then the decision
          told      \* what the last request of reviewer r was told

book == <<verdict, told>>

Init == /\ verdict = [j \in Jobs |-> "open"]
        /\ told = [r \in Reviewers |-> "asking"]

Turn(j, v) == verdict' = [verdict EXCEPT ![j] = v]
Tell(r, t) == told' = [told EXCEPT ![r] = t]

Offer(j) == verdict[j] = "open" /\ Turn(j, "pending") /\ UNCHANGED told

Decide(r, j, v) ==
  /\ verdict[j] = "pending"
  /\ told[r] = "asking"
  /\ Turn(j, v)
  /\ Tell(r, "saved")

(* A refused request left nothing behind.                                    *)
Refuse(r) == told[r] = "asking" /\ Tell(r, "refused") /\ UNCHANGED verdict
AskAgain(r) == told[r] # "asking" /\ Tell(r, "asking") /\ UNCHANGED verdict

(* The job is taken back, decided or not: by the handler of its upload, or   *)
(* by an operator who retries it.                                            *)
Withdraw(j) == verdict[j] # "open" /\ Turn(j, "open") /\ UNCHANGED told

Next == \/ \E j \in Jobs : Offer(j) \/ Withdraw(j)
        \/ \E r \in Reviewers : Refuse(r) \/ AskAgain(r)
        \/ \E r \in Reviewers, j \in Jobs, v \in {"approve", "reject"} : Decide(r, j, v)

Spec == Init /\ [][Next]_book
=============================================================================
