----------------------------- MODULE Workbench -----------------------------
(* The review web application on top of the backend: every browser shows one *)
(* page; the decision form on a review's page runs a server action that      *)
(* sends one request to the API and turns its answer into the next page.     *)
(* Browsers are the only clients of the review API here.                     *)
EXTENDS System

CONSTANT Browsers

VARIABLES page,    \* what browser b shows
          shown,   \* the job and the revision its form is bound to
          asked    \* the API request its server action waits for

pageVars == <<page, shown, asked>>
workbenchVars == <<systemVars, pageVars>>

(* The queue page shows a banner after a redirect from the form.  "error" is *)
(* the review's page again, with a message above the submit button.          *)
Banners == {"approved", "rejected", "stale"}
Pages == {"queue", "review", "submitting", "error"} \cup Banners
HasForm(b) == page[b] \in {"review", "error"}

NothingShown == [job |-> "none", revision |-> <<>>]

WorkbenchTypeOK ==
  /\ SystemTypeOK
  /\ page \in [Browsers -> Pages]
  /\ shown \in [Browsers -> {NothingShown} \cup [job : Jobs, revision : Jobs \X Nat]]
  /\ asked \in [Browsers -> {"none"} \cup Reviewers]

WorkbenchInit == /\ SystemInit
                 /\ page = [b \in Browsers |-> "queue"]
                 /\ shown = [b \in Browsers |-> NothingShown]
                 /\ asked = [b \in Browsers |-> "none"]

Turn(b, p) == page' = [page EXCEPT ![b] = p]

(* What the form can send: approve or reject, a note that may be blank once  *)
(* it is trimmed, and for an approval a corrected specification that parses. *)
FormCommands == {c \in Commands : c.kind # "other" /\ (c.kind = "reject" => c.spec = "none")}

(* The page after an answer.  requestJSON throws unless the answer is a      *)
(* success; the action redirects to the queue after a 409, and gives any     *)
(* other error back to the form.                                             *)
Success(r) == IF req[r].kind = "approve" THEN "approved" ELSE "rejected"
PageAfter_IgnoreStatus(r) == IF answer[r] = "conflict" THEN "stale" ELSE Success(r)
PageAfter_AnyErrorStale(r) == IF answer[r] = "ok" THEN Success(r) ELSE "stale"
PageAfter(r) == CASE answer[r] = "ok" -> Success(r)
                  [] answer[r] = "conflict" -> "stale"
                  [] OTHER -> "error"

-----------------------------------------------------------------------------
(* GET .../circuit-reviews/j; the form is bound to the revision it returns.  *)
OpenReview(b) ==
  /\ page[b] # "submitting"
  /\ \E j \in ListReviewQueue : \E c \in Reviewable(j) :
       shown' = [shown EXCEPT ![b] = [job |-> j, revision |-> c.id]]
  /\ Turn(b, "review")
  /\ UNCHANGED <<systemVars, asked>>

(* The button is disabled while a submission is pending.                     *)
SubmitForm(b) ==
  /\ HasForm(b)
  /\ \E r \in Reviewers, c \in FormCommands :
       /\ Submit(r, shown[b].job, shown[b].revision, c)
       /\ asked' = [asked EXCEPT ![b] = r]
  /\ Turn(b, "submitting")
  /\ UNCHANGED <<uploadVars, workerVars, shown>>

(* The specification does not parse, or the API is not reached.              *)
FailBeforeRequest(b) ==
  /\ page[b] = "review"
  /\ Turn(b, "error")
  /\ UNCHANGED <<systemVars, shown, asked>>

ShowAnswer(b) ==
  /\ page[b] = "submitting"
  /\ rpc[asked[b]] = "answered"
  /\ Turn(b, PageAfter(asked[b]))
  /\ asked' = [asked EXCEPT ![b] = "none"]
  /\ UNCHANGED <<systemVars, shown>>

(* fetch fails, or the answer cannot be read, while the API goes on with the *)
(* request or has finished it.                                               *)
LoseAnswer(b) ==
  /\ page[b] = "submitting"
  /\ Turn(b, "error")
  /\ asked' = [asked EXCEPT ![b] = "none"]
  /\ UNCHANGED <<systemVars, shown>>

BackendStep ==
  /\ \/ \E j \in Jobs : UploadPart(j) \/ DeleteAborted(j)
     \/ \E w \in Workers : WorkerPart(w)
     \/ \E r \in Reviewers : /\ ReviewCall(r) \/ CrashReview(r) \/ DecisionAborted(r)
                             /\ UNCHANGED <<uploadVars, workerVars>>
  /\ UNCHANGED pageVars

WorkbenchNext ==
  \/ BackendStep
  \/ \E b \in Browsers : \/ OpenReview(b) \/ SubmitForm(b) \/ FailBeforeRequest(b)
                         \/ ShowAnswer(b) \/ LoseAnswer(b)

WorkbenchSpec == WorkbenchInit /\ [][WorkbenchNext]_workbenchVars

(* The API goes on with a request it has begun, and its answer arrives.      *)
(* Nobody has to submit, and no answer has to get lost.                      *)
FairWorkbench ==
  /\ WorkbenchSpec
  /\ \A r \in Reviewers :
       WF_workbenchVars(ReviewCall(r) /\ UNCHANGED <<uploadVars, workerVars, pageVars>>)
  /\ \A b \in Browsers : WF_workbenchVars(ShowAnswer(b))

-----------------------------------------------------------------------------
(* A success banner tells the truth: the decision of that kind on the        *)
(* revision the form was bound to is on record, also when the form was sent  *)
(* again after its first answer got lost, or a rival decided meanwhile.      *)
BannerIsSaved ==
  \A b \in Browsers : page[b] \in {"approved", "rejected"} =>
    \E d \in decisions : /\ d.reviewed = shown[b].revision
                         /\ d.kind = IF page[b] = "approved" THEN "approve" ELSE "reject"

(* "That revision is no longer current": after the stale banner the queue    *)
(* never offers the revision of the form again, so nobody is sent away from  *)
(* work that is still to be done.                                            *)
StaleIsResolved ==
  \A b \in Browsers : page[b] = "stale" =>
    \A c \in Reviewable(shown[b].job) : c.id # shown[b].revision

(* A form that was submitted gets its page: no transaction that ended keeps  *)
(* a row locked on which the request of another browser, or an earlier one   *)
(* of the same browser, waits.  It does not rest on a time limit of fetch.   *)
FormsSettle == \A b \in Browsers : page[b] = "submitting" ~> page[b] # "submitting"

-----------------------------------------------------------------------------
(* Why the pages tell the truth.  A revision a form was bound to is there as *)
(* long as its job is; one that was decided, or lost its job, is past and    *)
(* stays so; and the request of a form is about what the form shows.         *)
Past(v) == \/ \E d \in decisions : d.reviewed = v
           \/ jobs[JobOf(v)] = "none" /\ upc[JobOf(v)] \notin NotYetCreated

Offered(j, v) == /\ JobOf(v) = j /\ upc[j] \notin NotYetCreated
                 /\ jobs[j] = "none" \/ \E c \in circuits : c.id = v
WasOffered(b) == page[b] # "queue" =>
  /\ shown[b] \in [job : Jobs, revision : Jobs \X Nat]
  /\ Offered(shown[b].job, shown[b].revision)

AsksForForm(b) == page[b] = "submitting" =>
  /\ asked[b] \in Reviewers /\ rpc[asked[b]] # "idle"
  /\ answer[asked[b]] # "badRequest" =>
       /\ req[asked[b]].job = shown[b].job
       /\ req[asked[b]].revision = shown[b].revision
  /\ answer[asked[b]] = "conflict" => Past(shown[b].revision)

FormInv == \A b \in Browsers :
  WasOffered(b) /\ AsksForForm(b) /\ (page[b] = "stale" => Past(shown[b].revision))

(* A handler whose push is answered takes no job back that a worker has got. *)
NotReleased == \A j \in Jobs : upc[j] \in {"idle"} \cup UploadCalls =>
  Unreleased(j) /\ jobs[j] \notin {"extracting"} \cup Settled
SavedIsThere == \A r \in Reviewers : answer[r] = "ok" =>
  \E d \in decisions : d.reviewed = req[r].revision /\ d.kind = req[r].kind
=============================================================================
