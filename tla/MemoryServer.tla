---------------------------- MODULE MemoryServer ----------------------------
(* The backend in one process on its in-memory repositories, queue and       *)
(* object storage, the way the tests assemble it: HTTP connections with      *)
(* their routes, workspaces and projects, and the runner of the worker.      *)
(* Every repository guards its maps with one mutex, so each step below is    *)
(* one call on a repository, a queue or a bucket, and no call fails.         *)
EXTENDS Naturals, Sequences, FiniteSets, FiniteSetsExt

CONSTANTS WorkspaceIds, ProjectIds, Jobs,  \* the identifiers that may be drawn
          Connections,   \* keep-alive connections, one request at a time each
          Workers,       \* runners
          None,          \* no row, no job, no identifier
          MaxRevisions,  \* bound: revision identifiers drawn per job
          MaxRetries     \* bound: retries by an operator

VARIABLES workspaces,  \* workspaces.workspaces
          projects,    \* workspaces.projects: the workspace of each project
          uploads,     \* uploads.uploads: status by upload
          home,        \* the project that upload and job of j were created in
          jobs,        \* processing.jobs: status by job
          pairs,       \* circuit.pairs: the current circuit revision of each job
          decisions,   \* circuit.decisions
          objects,     \* the keys of memoryBucket.objects
          queue,       \* MemoryQueue.payloads
          drawn,       \* how many revision identifiers were drawn for a job
          retries,     \* how often an operator has retried a job
          at,          \* the call connection c makes next
          req,         \* the request it serves
          draft,       \* the revision a decision would leave
          code,        \* the status of the answer, 0 when there is none yet
          runner       \* what worker w does, on which job, with which result

repositories == <<workspaces, projects, uploads, home, jobs, pairs, decisions, objects, queue>>
connections == <<at, req, draft, code>>
memoryVars == <<repositories, drawn, retries, connections, runner>>

Settled == {"needs_review", "ready", "failed"}
JobOf(id) == id[1]
RevisionIds == Jobs \X (1..MaxRevisions)
Revision == [id : RevisionIds, project : ProjectIds, version : 1..MaxRevisions, status : Settled]
ASSUME MemoryAssumption == /\ None \notin WorkspaceIds \cup ProjectIds \cup Jobs \cup Revision
                           /\ MaxRevisions \in Nat \ {0} /\ MaxRetries \in Nat

NoRequest == [deciding |-> FALSE, method |-> "none", subject |-> None, job |-> None,
              fresh |-> None, body |-> "none"]
Idle == [at |-> "down", job |-> None, status |-> "none", no |-> 0]
-----------------------------------------------------------------------------
(* Paths are the segments between the slashes; an empty one is a slash too   *)
(* many.                                                                     *)
Blank == ""
Trimmed(path) ==
  LET filled == {i \in DOMAIN path : path[i] # Blank}
  IN IF filled = {} THEN <<Blank>> ELSE SubSeq(path, Min(filled), Max(filled))
Under(path, first) == Len(path) > 1 /\ path[1] = first
EndsIn(path, last) == path[Len(path)] = last

ProjectRoute_AnyMethod(m, parts) ==
  CASE Len(parts) = 2 -> "getProject"
    [] Len(parts) = 3 /\ parts[3] = "circuit-reviews" /\ m = "GET" -> "reviewQueue"
    [] Len(parts) = 4 /\ parts[3] = "circuit-reviews" /\ m = "GET" -> "reviewDetail"
    [] Len(parts) = 5 /\ parts[3] = "circuit-reviews" /\ parts[5] = "decision" -> "decision"
    [] OTHER -> "notFound"
ProjectRoute(m, parts) ==
  CASE Len(parts) = 2 -> "getProject"
    [] Len(parts) = 3 /\ parts[3] = "circuit-reviews" /\ m = "GET" -> "reviewQueue"
    [] Len(parts) = 4 /\ parts[3] = "circuit-reviews" /\ m = "GET" -> "reviewDetail"
    [] Len(parts) = 5 /\ parts[3] = "circuit-reviews" /\ parts[5] = "decision"
         /\ m = "POST" -> "decision"
    [] OTHER -> "notFound"

Route(m, path) ==
  LET parts == Trimmed(path)
      Exactly(n, handler) == IF Len(parts) = n THEN handler ELSE "notFound"
  IN IF m = "POST" /\ path = <<"workspaces">> THEN "createWorkspace"
     ELSE IF m = "POST" /\ Under(path, "workspaces") /\ EndsIn(path, "projects")
       THEN Exactly(3, "createProject")
     ELSE IF m = "POST" /\ Under(path, "projects") /\ EndsIn(path, "uploads")
       THEN Exactly(3, "upload")
     ELSE IF Under(path, "projects") THEN ProjectRoute(m, parts)
     ELSE IF m = "GET" /\ Under(path, "jobs") THEN Exactly(2, "getJob")
     ELSE "notFound"

(* Paths a client may ask for, those of a slip among them.                   *)
Methods == {"GET", "POST", "DELETE"}
ProperPaths ==
  {<<"workspaces">>, <<"other">>}
  \cup {<<"workspaces", w, "projects">> : w \in WorkspaceIds}
  \cup {<<"projects", p>> : p \in ProjectIds}
  \cup {<<"projects", p, s>> : p \in ProjectIds, s \in {"uploads", "circuit-reviews"}}
  \cup {<<"projects", p, "circuit-reviews", j>> : p \in ProjectIds, j \in Jobs}
  \cup {<<"projects", p, "circuit-reviews", j, "decision">> : p \in ProjectIds, j \in Jobs}
  \cup {<<"jobs", j>> : j \in Jobs}
Paths == ProperPaths \cup {Append(path, Blank) : path \in ProperPaths}
           \cup {<<"projects", Blank>>, <<"projects", "uploads">>, <<"projects", Blank, "uploads">>}

(* What a request line comes down to.                                        *)
RequestLines == {[method |-> m, handler |-> Route(m, path), parts |-> Trimmed(path)] :
                   m \in Methods, path \in Paths}

(* What a client may put into a request.  A decision is complete when it is  *)
(* JSON with a time and a note; its reviewer is never missing, since         *)
(* identity.Middleware names every caller.                                   *)
Commands == [kind : {"approve", "reject", "other"}, complete : BOOLEAN,
             spec : {"none", "valid", "invalid"},
             revision : UNION {{j} \X (0..drawn[j]) : j \in Jobs}]
Bodies(h) == CASE h \in {"createWorkspace", "createProject"} -> {"notJson", "blank", "named"}
               [] h = "upload" -> {"notForm", "noFile", "unsupported", "image"}
               [] h = "decision" -> Commands
               [] OTHER -> {"none"}
Wellformed(d) == d.complete /\ d.kind # "other" /\ (d.kind = "reject" => d.spec = "none")

(* The answer to a request that is refused before anything is looked up, 0   *)
(* for one that goes on.  A body that is no form at all is a server error.   *)
Refusal(h, parts, body) ==
  CASE h = "notFound" -> 404
    [] h \in {"createWorkspace", "createProject"} -> IF body = "named" THEN 0 ELSE 400
    [] h = "upload" -> IF body = "notForm" THEN 500
                       ELSE IF body = "image" /\ parts[2] # Blank THEN 0 ELSE 400
    [] h = "decision" -> IF Wellformed(body) THEN 0 ELSE 400
    [] OTHER -> 0

FirstCall(h) == CASE h = "createWorkspace" -> "insertWorkspace"
                  [] h = "createProject" -> "getWorkspace"
                  [] h = "upload" -> "lookupProject"
                  [] h = "decision" -> "getDecision"
AfterCall == [lookupProject |-> "createUpload", createUpload |-> "createJob", createJob |-> "put",
              put |-> "markUploaded", markUploaded |-> "toUploaded", toUploaded |-> "toQueued",
              toQueued |-> "enqueue"]

(* A handler that goes on, and one that returned: only its answer, and       *)
(* whether it was to a decision, is kept.                                    *)
Goto(c, call) == at' = [at EXCEPT ![c] = call] /\ UNCHANGED code
Continue(c, call) == Goto(c, call) /\ UNCHANGED <<req, draft>>
AnswerTo(c, deciding, n) ==
  /\ at' = [at EXCEPT ![c] = "answered"]
  /\ code' = [code EXCEPT ![c] = n]
  /\ req' = [req EXCEPT ![c] = [NoRequest EXCEPT !.deciding = deciding]]
  /\ draft' = [draft EXCEPT ![c] = None]
Answer(c, n) == AnswerTo(c, req[c].deciding, n)

(* Identifiers that are neither stored nor about to be.                      *)
Reserved == {req[c].fresh : c \in Connections}
Fresh(h) ==
  CASE h = "createWorkspace" -> WorkspaceIds \ (workspaces \cup Reserved)
    [] h = "createProject" -> {p \in ProjectIds \ Reserved : projects[p] = None}
    [] h = "upload" -> {j \in Jobs \ Reserved : uploads[j] = "none"}
    [] OTHER -> {None}

Known(p) == p \in ProjectIds /\ projects[p] # None

(* GetLatestReviewable and ListLatestReviewable: the pending revision of job *)
(* j, for its own project only.                                              *)
Reviewable_AnyProject(p, j) == pairs[j] # None /\ pairs[j].status = "needs_review"
Reviewable(p, j) ==
  pairs[j] # None /\ pairs[j].project = p /\ pairs[j].status = "needs_review"

(* What a request that only reads looks for: part is the second segment of   *)
(* its path.                                                                 *)
Reads == {"getProject", "getJob", "reviewQueue", "reviewDetail"}
Found(h, part, job) == CASE h = "getProject" -> Known(part)
                         [] h = "getJob" -> jobs[part] # "none"
                         [] h = "reviewQueue" -> TRUE
                         [] h = "reviewDetail" -> Reviewable(part, job)
-----------------------------------------------------------------------------
(* A request arrives on an idle connection.  It is refused at once, or it    *)
(* only reads, which takes one call, or its handler goes on.                 *)
Receive(c) ==
  /\ at[c] = "idle"
  /\ \E line \in RequestLines :
       LET h == line.handler
           parts == line.parts
           job == IF Len(parts) > 3 THEN parts[4] ELSE None
           part == IF Len(parts) > 1 THEN parts[2] ELSE None
       IN \E body \in Bodies(h) :
            LET refusal == Refusal(h, parts, body)
            IN \/ /\ refusal # 0
                  /\ AnswerTo(c, h = "decision", refusal)
               \/ /\ refusal = 0 /\ h \in Reads
                  /\ AnswerTo(c, FALSE, IF Found(h, part, job) THEN 200 ELSE 404)
               \/ /\ refusal = 0 /\ h \notin Reads
                  /\ \E id \in Fresh(h) :
                       req' = [req EXCEPT ![c] =
                         [deciding |-> h = "decision", method |-> line.method, subject |-> part,
                          job |-> job, fresh |-> id, body |-> body]]
                  /\ Goto(c, FirstCall(h)) /\ UNCHANGED draft
  /\ UNCHANGED <<repositories, drawn, retries, runner>>

(* The client has read the answer.                                           *)
Release(c) ==
  /\ at[c] = "answered"
  /\ at' = [at EXCEPT ![c] = "idle"]
  /\ req' = [req EXCEPT ![c] = NoRequest]
  /\ draft' = [draft EXCEPT ![c] = None]
  /\ code' = [code EXCEPT ![c] = 0]
  /\ UNCHANGED <<repositories, drawn, retries, runner>>

(* workspace.Service: two inserts and a lookup.                              *)
CreateWorkspace(c) ==
  /\ at[c] = "insertWorkspace"
  /\ workspaces' = workspaces \cup {req[c].fresh}
  /\ Answer(c, 201)
  /\ UNCHANGED <<projects, uploads, home, jobs, pairs, decisions, objects, queue>>
  /\ UNCHANGED <<drawn, retries, runner>>
GetWorkspace(c) ==
  /\ at[c] = "getWorkspace"
  /\ IF req[c].subject \in workspaces THEN Continue(c, "insertProject") ELSE Answer(c, 404)
  /\ UNCHANGED <<repositories, drawn, retries, runner>>
CreateProject(c) ==
  /\ at[c] = "insertProject"
  /\ projects' = [projects EXCEPT ![req[c].fresh] = req[c].subject]
  /\ Answer(c, 201)
  /\ UNCHANGED <<workspaces, uploads, home, jobs, pairs, decisions, objects, queue>>
  /\ UNCHANGED <<drawn, retries, runner>>

(* uploads.Service.Upload.  The project is looked up first; after that no    *)
(* call fails.                                                               *)
Upload(c) == req[c].fresh
LookupProject_Skipped(c) == TRUE
LookupProject(c) == Known(req[c].subject)
Lookup(c) ==
  /\ at[c] = "lookupProject"
  /\ IF LookupProject(c) THEN Continue(c, "createUpload") ELSE Answer(c, 404)
  /\ UNCHANGED <<repositories, drawn, retries, runner>>
CreateUpload(c) ==
  /\ at[c] = "createUpload"
  /\ uploads' = [uploads EXCEPT ![Upload(c)] = "created"]
  /\ home' = [home EXCEPT ![Upload(c)] = req[c].subject]
  /\ Continue(c, AfterCall[at[c]])
  /\ UNCHANGED <<workspaces, projects, jobs, pairs, decisions, objects, queue>>
  /\ UNCHANGED <<drawn, retries, runner>>
Put(c) ==
  /\ at[c] = "put"
  /\ objects' = objects \cup {<<"image", Upload(c)>>}
  /\ Continue(c, AfterCall[at[c]])
  /\ UNCHANGED <<workspaces, projects, uploads, home, jobs, pairs, decisions, queue>>
  /\ UNCHANGED <<drawn, retries, runner>>
MarkUploaded(c) ==
  /\ at[c] = "markUploaded"
  /\ uploads' = [uploads EXCEPT ![Upload(c)] = "uploaded"]
  /\ Continue(c, AfterCall[at[c]])
  /\ UNCHANGED <<workspaces, projects, home, jobs, pairs, decisions, objects, queue>>
  /\ UNCHANGED <<drawn, retries, runner>>

(* CreateJob, and the two transitions of the handler: to the status each     *)
(* call is named after.  Nobody else moves a job that is not queued yet, so  *)
(* the transitions find it as the handler left it.                           *)
MoveTo == [createJob |-> "created", toUploaded |-> "uploaded", toQueued |-> "queued"]
MoveUploadedJob(c) ==
  /\ at[c] \in DOMAIN MoveTo
  /\ jobs' = [jobs EXCEPT ![Upload(c)] = MoveTo[at[c]]]
  /\ Continue(c, AfterCall[at[c]])
  /\ UNCHANGED <<workspaces, projects, uploads, home, pairs, decisions, objects, queue>>
  /\ UNCHANGED <<drawn, retries, runner>>
Enqueue(c) ==
  /\ at[c] = "enqueue"
  /\ queue' = Append(queue, Upload(c))
  /\ Answer(c, 201)
  /\ UNCHANGED <<workspaces, projects, uploads, home, jobs, pairs, decisions, objects>>
  /\ UNCHANGED <<drawn, retries, runner>>
-----------------------------------------------------------------------------
(* circuit.Service.SubmitReviewDecision.                                     *)
Corrected(c) == req[c].body.spec # "none"
Final(kind) == IF kind = "approve" THEN "ready" ELSE "failed"
Reviewed(c) == req[c].body.revision
StatusFromCircuit(s) == IF s \in {"needs_review", "failed"} THEN s ELSE "ready"

GetDecision(c) ==
  /\ at[c] = "getDecision"
  /\ IF \E d \in decisions : d.reviewed = Reviewed(c) THEN Answer(c, 409) ELSE Continue(c, "getReviewable")
  /\ UNCHANGED <<repositories, drawn, retries, runner>>

(* A correction draws the identifier of its successor here.                  *)
GetReviewable(c) ==
  /\ at[c] = "getReviewable"
  /\ LET j == req[c].job
         pending == pairs[j]
         resolved == [pending EXCEPT !.status = Final(req[c].body.kind)]
     IN \/ /\ ~Reviewable(req[c].subject, j)
           /\ Answer(c, 404) /\ UNCHANGED drawn
        \/ /\ Reviewable(req[c].subject, j) /\ pending.id # Reviewed(c)
           /\ Answer(c, 409) /\ UNCHANGED drawn
        \/ /\ Reviewable(req[c].subject, j) /\ pending.id = Reviewed(c)
           /\ req[c].body.spec = "invalid"
           /\ Answer(c, 400) /\ UNCHANGED drawn
        \/ /\ Reviewable(req[c].subject, j) /\ pending.id = Reviewed(c)
           /\ req[c].body.spec = "valid" /\ drawn[j] < MaxRevisions
           /\ drawn' = [drawn EXCEPT ![j] = @ + 1]
           /\ draft' = [draft EXCEPT ![c] =
                          [resolved EXCEPT !.id = <<j, drawn[j] + 1>>, !.version = @ + 1]]
           /\ Goto(c, "putSuccessor") /\ UNCHANGED req
        \/ /\ Reviewable(req[c].subject, j) /\ pending.id = Reviewed(c)
           /\ ~Corrected(c)
           /\ draft' = [draft EXCEPT ![c] = resolved]
           /\ Goto(c, "save") /\ UNCHANGED <<drawn, req>>
  /\ UNCHANGED <<repositories, retries, runner>>

PutSuccessor(c) ==
  /\ at[c] = "putSuccessor"
  /\ objects' = objects \cup {<<"circuit", draft[c].id>>}
  /\ Continue(c, "save")
  /\ UNCHANGED <<workspaces, projects, uploads, home, jobs, pairs, decisions, queue>>
  /\ UNCHANGED <<drawn, retries, runner>>

(* A refused decision deletes the object of its successor first.             *)
Abort_KeepObject(c, n) == Answer(c, n)
Abort(c, n) ==
  IF Corrected(c)
    THEN /\ at' = [at EXCEPT ![c] = "dropSuccessor"] /\ code' = [code EXCEPT ![c] = n]
         /\ UNCHANGED <<req, draft>>
    ELSE Answer(c, n)
DropSuccessor(c) ==
  /\ at[c] = "dropSuccessor"
  /\ objects' = objects \ {<<"circuit", draft[c].id>>}
  /\ Answer(c, code[c])
  /\ UNCHANGED <<workspaces, projects, uploads, home, jobs, pairs, decisions, queue>>
  /\ UNCHANGED <<drawn, retries, runner>>

(* MemoryRepository.SaveReviewDecision, which holds the mutex of the circuit *)
(* repository from the first check to the last write.                        *)
StillPending(c) == LET pair == pairs[req[c].job] IN
  pair.project = draft[c].project /\ pair.id = Reviewed(c) /\ pair.status = "needs_review"
StatusIs_Any(j, status) == jobs[j] # "none"
StatusIs(j, status) == jobs[j] = status
SaveError_JobFirst(c) ==
  IF ~StatusIs(req[c].job, "needs_review") THEN 500
  ELSE IF ~StillPending(c) THEN 404
  ELSE IF \E d \in decisions : d.reviewed = Reviewed(c) THEN 409 ELSE 0
SaveError(c) ==
  IF ~StillPending(c) THEN 404
  ELSE IF \E d \in decisions : d.reviewed = Reviewed(c) THEN 409
  ELSE IF ~StatusIs(req[c].job, "needs_review") THEN 500 ELSE 0
SaveDecision(c) ==
  /\ at[c] = "save"
  /\ \/ /\ SaveError(c) # 0
        /\ Abort(c, SaveError(c))
        /\ UNCHANGED <<jobs, pairs, decisions>>
     \/ /\ SaveError(c) = 0
        /\ jobs' = [jobs EXCEPT ![req[c].job] = StatusFromCircuit(draft[c].status)]
        /\ pairs' = [pairs EXCEPT ![req[c].job] = draft[c]]
        /\ decisions' = decisions \cup
             {[reviewed |-> Reviewed(c), resolved |-> draft[c].id, kind |-> req[c].body.kind]}
        /\ Answer(c, 200)
  /\ UNCHANGED <<workspaces, projects, uploads, home, objects, queue>>
  /\ UNCHANGED <<drawn, retries, runner>>
-----------------------------------------------------------------------------
(* worker.Runner: ProcessUntilEmpty on the same repositories.                *)
Run(w, call) == runner' = [runner EXCEPT ![w].at = call]
Drop(w, call) == runner' = [runner EXCEPT ![w] = [Idle EXCEPT !.at = call]]
Job(w) == runner[w].job
RevisionOf(w) == <<Job(w), runner[w].no>>

StartRunner(w) ==
  /\ runner[w].at = "down"
  /\ Run(w, "dequeue")
  /\ UNCHANGED <<repositories, drawn, retries, connections>>
Dequeue(w) ==
  /\ runner[w].at = "dequeue"
  /\ IF queue = <<>> THEN Drop(w, "down") /\ UNCHANGED queue
     ELSE /\ queue' = Tail(queue)
          /\ runner' = [runner EXCEPT ![w] = [Idle EXCEPT !.at = "claim", !.job = Head(queue)]]
  /\ UNCHANGED <<workspaces, projects, uploads, home, jobs, pairs, decisions, objects>>
  /\ UNCHANGED <<drawn, retries, connections>>
Claim(w) ==
  /\ runner[w].at = "claim"
  /\ IF StatusIs(Job(w), "queued")
       THEN jobs' = [jobs EXCEPT ![Job(w)] = "extracting"] /\ Run(w, "getUpload")
       ELSE Drop(w, "down") /\ UNCHANGED jobs
  /\ UNCHANGED <<workspaces, projects, uploads, home, pairs, decisions, objects, queue>>
  /\ UNCHANGED <<drawn, retries, connections>>

(* The row and the image are there, or the job is marked failed.             *)
GetUpload(w) ==
  /\ runner[w].at = "getUpload"
  /\ Run(w, IF uploads[Job(w)] # "none" THEN "getObject" ELSE "fail")
  /\ UNCHANGED <<repositories, drawn, retries, connections>>
GetObject(w) ==
  /\ runner[w].at = "getObject"
  /\ Run(w, IF <<"image", Job(w)>> \in objects THEN "extract" ELSE "fail")
  /\ UNCHANGED <<repositories, drawn, retries, connections>>

(* StaticProvider: an error, or a result the review policy turns into one of *)
(* these.                                                                    *)
DecidedStatuses_Validated == {"needs_review", "validated"}
DecidedStatuses == {"needs_review", "ready"}
Extract(w) ==
  /\ runner[w].at = "extract"
  /\ \/ Run(w, "fail")
     \/ \E s \in DecidedStatuses :
          runner' = [runner EXCEPT ![w].at = "persistCheck", ![w].status = s]
  /\ UNCHANGED <<repositories, drawn, retries, connections>>

(* Persist: the status of a revision that is there already counts.           *)
KeptStatus_OwnResult(w) == runner[w].status
KeptStatus(w) == pairs[Job(w)].status
PersistCheck(w) ==
  /\ runner[w].at = "persistCheck"
  /\ \/ /\ pairs[Job(w)] # None
        /\ runner' = [runner EXCEPT ![w].at = "complete", ![w].status = KeptStatus(w)]
        /\ UNCHANGED drawn
     \/ /\ pairs[Job(w)] = None
        /\ drawn' = [drawn EXCEPT ![Job(w)] = @ + 1]
        /\ runner' = [runner EXCEPT ![w].at = "putExtraction", ![w].no = drawn[Job(w)] + 1]
  /\ UNCHANGED <<repositories, retries, connections>>
PutArtifact(w, call, kind, next) ==
  /\ runner[w].at = call
  /\ objects' = objects \cup {<<kind, RevisionOf(w)>>}
  /\ Run(w, next)
  /\ UNCHANGED <<workspaces, projects, uploads, home, jobs, pairs, decisions, queue>>
  /\ UNCHANGED <<drawn, retries, connections>>
PutExtraction(w) == PutArtifact(w, "putExtraction", "extraction", "putCircuit")
PutCircuit(w) == PutArtifact(w, "putCircuit", "circuit", "save")

(* MemoryRepository.Save keeps the pair that is there.                       *)
Save(w) ==
  /\ runner[w].at = "save"
  /\ LET pair == [id |-> RevisionOf(w), project |-> home[Job(w)], version |-> 1,
                  status |-> runner[w].status]
     IN pairs' = [pairs EXCEPT ![Job(w)] = IF @ = None THEN pair ELSE @]
  /\ Run(w, "complete")
  /\ UNCHANGED <<workspaces, projects, uploads, home, jobs, decisions, objects, queue>>
  /\ UNCHANGED <<drawn, retries, connections>>

(* MarkCompleted, or MarkFailed.                                             *)
Settle(w) ==
  /\ runner[w].at \in {"complete", "fail"}
  /\ LET completed == runner[w].at = "complete"
         to == IF completed THEN StatusFromCircuit(runner[w].status) ELSE "failed"
         moved == StatusIs(Job(w), "extracting")
     IN /\ jobs' = IF moved THEN [jobs EXCEPT ![Job(w)] = to] ELSE jobs
        /\ Drop(w, IF completed /\ moved THEN "dequeue" ELSE "down")
  /\ UNCHANGED <<workspaces, projects, uploads, home, pairs, decisions, objects, queue>>
  /\ UNCHANGED <<drawn, retries, connections>>

(* An operator, who retries a settled job as the worker tests do.            *)
Retry(j) ==
  /\ retries < MaxRetries
  /\ jobs[j] \in Settled
  /\ jobs' = [jobs EXCEPT ![j] = "queued"]
  /\ queue' = Append(queue, j)
  /\ retries' = retries + 1
  /\ UNCHANGED <<workspaces, projects, uploads, home, pairs, decisions, objects>>
  /\ UNCHANGED <<drawn, connections, runner>>
-----------------------------------------------------------------------------
MemoryInit ==
  /\ workspaces = {} /\ decisions = {} /\ objects = {} /\ queue = <<>> /\ retries = 0
  /\ projects = [p \in ProjectIds |-> None]
  /\ uploads = [j \in Jobs |-> "none"]
  /\ home = [j \in Jobs |-> None]
  /\ jobs = [j \in Jobs |-> "none"]
  /\ pairs = [j \in Jobs |-> None]
  /\ drawn = [j \in Jobs |-> 0]
  /\ at = [c \in Connections |-> "idle"]
  /\ req = [c \in Connections |-> NoRequest]
  /\ draft = [c \in Connections |-> None]
  /\ code = [c \in Connections |-> 0]
  /\ runner = [w \in Workers |-> Idle]

Serve(c) ==
  \/ Receive(c) \/ Release(c)
  \/ CreateWorkspace(c) \/ GetWorkspace(c) \/ CreateProject(c)
  \/ Lookup(c) \/ CreateUpload(c) \/ Put(c) \/ MarkUploaded(c) \/ MoveUploadedJob(c) \/ Enqueue(c)
  \/ GetDecision(c) \/ GetReviewable(c) \/ PutSuccessor(c) \/ SaveDecision(c) \/ DropSuccessor(c)
RunnerStep(w) ==
  \/ StartRunner(w) \/ Dequeue(w) \/ Claim(w) \/ GetUpload(w) \/ GetObject(w) \/ Extract(w)
  \/ PersistCheck(w) \/ PutExtraction(w) \/ PutCircuit(w) \/ Save(w) \/ Settle(w)

MemoryNext == \/ \E c \in Connections : Serve(c)
              \/ \E w \in Workers : RunnerStep(w)
              \/ \E j \in Jobs : Retry(j)
MemorySpec == MemoryInit /\ [][MemoryNext]_memoryVars
-----------------------------------------------------------------------------
Calls == {"idle", "answered", "insertWorkspace", "getWorkspace", "insertProject",
          "lookupProject", "createUpload", "createJob", "put", "markUploaded", "toUploaded",
          "toQueued", "enqueue", "getDecision", "getReviewable", "putSuccessor", "save",
          "dropSuccessor"}
Persisting == {"putExtraction", "putCircuit", "save"}
Work == {"getUpload", "getObject", "extract", "persistCheck", "complete", "fail"} \cup Persisting
MemoryTypeOK ==
  /\ workspaces \subseteq WorkspaceIds
  /\ projects \in [ProjectIds -> workspaces \cup {None}]
  /\ uploads \in [Jobs -> {"none", "created", "uploaded"}]
  /\ home \in [Jobs -> ProjectIds \cup {None}]
  /\ jobs \in [Jobs -> {"none", "created", "uploaded", "queued", "extracting"} \cup Settled]
  /\ pairs \in [Jobs -> Revision \cup {None}]
  /\ decisions \subseteq
       [reviewed : RevisionIds, resolved : RevisionIds, kind : {"approve", "reject"}]
  /\ objects \subseteq ({"image"} \X Jobs) \cup ({"extraction", "circuit"} \X RevisionIds)
  /\ queue \in Seq(Jobs)
  /\ drawn \in [Jobs -> 0..MaxRevisions] /\ retries \in 0..MaxRetries
  /\ at \in [Connections -> Calls]
  /\ draft \in [Connections -> Revision \cup {None}]
  /\ code \in [Connections -> {0, 200, 201, 400, 404, 409, 500}]
  /\ DOMAIN req = Connections
  /\ runner \in [Workers -> [at : {"down", "dequeue", "claim"} \cup Work, job : Jobs \cup {None},
                             status : {"none"} \cup Settled, no : 0..MaxRevisions]]

(* A decision stands: the job and its revision show it, and a retry of a     *)
(* decided job, whatever the provider answers this time, does not reopen it. *)
VerdictStands ==
  \A d \in decisions : LET j == JobOf(d.reviewed) IN
    /\ pairs[j].id = d.resolved /\ pairs[j].status = Final(d.kind)
    /\ \/ jobs[j] = Final(d.kind)
       \/ retries > 0 /\ jobs[j] \in {"queued", "extracting", "failed"}

(* No JSON object of a circuit is left over: each belongs to the revision of *)
(* its job, to one that was decided on, or to a step that is still under way *)
(* and will save or delete it.                                               *)
NoLooseObjects ==
  \A o \in objects : o[1] = "circuit" =>
    \/ \E j \in Jobs : pairs[j] # None /\ pairs[j].id = o[2]
    \/ \E d \in decisions : d.reviewed = o[2]
    \/ \E w \in Workers : runner[w].at = "save" /\ RevisionOf(w) = o[2]
    \/ \E c \in Connections : at[c] \in {"save", "dropSuccessor"} /\ draft[c].id = o[2]

(* Nothing is created for a project that nobody created, and the uploads,    *)
(* jobs and revisions of one request agree on their project.                 *)
NoOrphans ==
  \A j \in Jobs :
    /\ uploads[j] # "none" => Known(home[j])
    /\ jobs[j] # "none" => uploads[j] # "none"
    /\ pairs[j] # None => pairs[j].project = home[j]

(* A job is decided by requests under its own project only.                  *)
DecidesAtHome ==
  \A c \in Connections : at[c] = "save" /\ code'[c] = 200 => req[c].subject = home[req[c].job]
DecidedAtHome == [][DecidesAtHome]_memoryVars

(* The loser of a race between two decisions is told 404 or 409, which the   *)
(* web application shows as a stale review.  It is the mutex that makes this *)
(* so; the transaction of the Postgres repository answers 500 here.          *)
LosesWithConflict ==
  \A c \in Connections : code[c] = 0 /\ code'[c] = 500 /\ req[c].deciding =>
    ~\E d \in decisions : d.reviewed = Reviewed(c)
RacersGetConflict == [][LosesWithConflict]_memoryVars

(* A request with another method than POST changes nothing, whatever its     *)
(* path: the routes with a path of their own for every method only read.     *)
SafeMethods ==
  \A c \in Connections : at'[c] # at[c] /\ req[c].method # "POST" => UNCHANGED repositories
WritesOnlyByPost == [][SafeMethods]_memoryVars

(* What this backend looks like to somebody who only knows ReviewLedger.     *)
Verdict(j) ==
  IF \E d \in decisions : JobOf(d.reviewed) = j
    THEN (CHOOSE d \in decisions : JobOf(d.reviewed) = j).kind
    ELSE IF jobs[j] = "needs_review" THEN "pending" ELSE "open"
Told(c) == IF at[c] # "answered" \/ ~req[c].deciding THEN "asking"
           ELSE IF code[c] = 200 THEN "saved" ELSE "refused"
Reviews == INSTANCE ReviewLedger WITH
             Reviewers <- Connections,
             verdict <- [j \in Jobs |-> Verdict(j)],
             told <- [c \in Connections |-> Told(c)]

(* The in-memory repositories keep the promise of the ledger the Postgres    *)
(* ones keep: a job that waits is decided once, in the step that tells the   *)
(* reviewer so, and never by a request that is refused.                      *)
MemoryImplementsLedger == Reviews!Spec

(* What it looks like to somebody who only knows ClaimLedger.                *)
Working(w) == runner[w].at \in Work
Phase(j) == CASE jobs[j] = "none" -> "absent"
              [] jobs[j] \in {"created", "uploaded"} -> "prepared"
              [] jobs[j] = "queued" -> "offered"
              [] jobs[j] = "extracting" -> "claimed"
              [] OTHER -> "settled"
HoldersOf(j) == {w \in Workers : Working(w) /\ Job(w) = j}
Claims == INSTANCE ClaimLedger WITH
            phase <- [j \in Jobs |-> Phase(j)],
            holders <- [j \in Jobs |-> HoldersOf(j)]

(* The repositories keep the promise of the ledger with retries: one runner  *)
(* per claim, settled by that one, and a job that an operator retries is     *)
(* neither held by a runner nor decided by a request that began before.      *)
MemoryImplementsClaims == Claims!RetriedSpec

-----------------------------------------------------------------------------
(* Why that is so.  A job that is extracting has one runner; a runner that   *)
(* is about to save has found no revision of its job, which has none until   *)
(* then; and what a runner is about to report is the status of the revision. *)
Persists(j) == \E w \in Workers : runner[w].at \in Persisting /\ Job(w) = j

RunnerInv ==
  /\ \A w \in Workers :
       /\ runner[w].at \in {"down", "dequeue"} <=> Job(w) = None
       /\ Working(w) => jobs[Job(w)] = "extracting"
       /\ runner[w].at \in Persisting => pairs[Job(w)] = None /\ runner[w].no \in 1..drawn[Job(w)]
       /\ runner[w].at \in {"persistCheck"} \cup Persisting => runner[w].status # "none"
       /\ runner[w].at = "complete" =>
            pairs[Job(w)] # None /\ pairs[Job(w)].status = runner[w].status
  /\ \A v, w \in Workers : Working(v) /\ Working(w) /\ Job(v) = Job(w) => v = w
  /\ \A j \in Jobs : pairs[j] = None /\ ~Persists(j) => drawn[j] = 0

(* A job that is not queued yet is in nobody's hands but its handler's.      *)
Unreleased(j) == (\A i \in 1..Len(queue) : queue[i] # j) /\ \A w \in Workers : Job(w) # j
PairInv == \A j \in Jobs :
  /\ jobs[j] \in {"none", "created", "uploaded"} => pairs[j] = None /\ Unreleased(j)
  /\ pairs[j] # None => /\ JobOf(pairs[j].id) = j
                        /\ pairs[j].id[2] <= drawn[j] /\ pairs[j].version <= drawn[j]

(* A request owns the identifier it drew, and its handler finds the job and  *)
(* the project as it left them.                                              *)
JobAt == [lookupProject |-> "none", createUpload |-> "none", createJob |-> "none",
          put |-> "created", markUploaded |-> "created", toUploaded |-> "created",
          toQueued |-> "uploaded", enqueue |-> "queued"]
Deciding == {"getDecision", "getReviewable", "putSuccessor", "save", "dropSuccessor"}

OwnIds == \A c, d \in Connections :
  req[c].fresh = req[d].fresh => c = d \/ req[c].fresh = None

RequestInv(c) ==
  /\ at[c] \in {"idle", "answered"} => req[c].fresh = None /\ draft[c] = None
  /\ at[c] \notin {"idle", "answered"} => req[c].method = "POST"
  /\ at[c] # "answered" => (req[c].deciding <=> at[c] \in Deciding)
  /\ at[c] = "dropSuccessor" => code[c] \in {404, 409, 500}
  /\ at[c] = "insertWorkspace" => req[c].fresh \in WorkspaceIds
  /\ at[c] \in {"getWorkspace", "insertProject"} => req[c].fresh \in ProjectIds
  /\ at[c] = "insertProject" => req[c].subject \in workspaces

UploadInv(c) == at[c] \in DOMAIN JobAt =>
  /\ Upload(c) \in Jobs /\ jobs[Upload(c)] = JobAt[at[c]] /\ Unreleased(Upload(c))
  /\ pairs[Upload(c)] = None
  /\ at[c] # "lookupProject" => Known(req[c].subject)
  /\ at[c] \notin {"lookupProject", "createUpload"} =>
       uploads[Upload(c)] # "none" /\ home[Upload(c)] = req[c].subject

(* A decision is about the revision that was pending when it was drafted,    *)
(* and that one is either still the revision of the job, or decided.         *)
DraftInv(c) ==
  /\ at[c] \in Deciding => req[c].job \in Jobs /\ req[c].body.kind \in {"approve", "reject"}
  /\ at[c] \in {"putSuccessor", "dropSuccessor"} => Corrected(c)
  /\ at[c] \in {"putSuccessor", "save", "dropSuccessor"} =>
       /\ draft[c] # None /\ draft[c].status = Final(req[c].body.kind)
       /\ draft[c].project = req[c].subject
       /\ JobOf(draft[c].id) = req[c].job
       /\ draft[c].id[2] <= drawn[req[c].job] /\ draft[c].version <= drawn[req[c].job]
       /\ ~Corrected(c) => draft[c].id = Reviewed(c)
       /\ pairs[req[c].job] # None
       /\ pairs[req[c].job].id = Reviewed(c) \/ \E d \in decisions : d.reviewed = Reviewed(c)

VerdictInv ==
  /\ VerdictStands
  /\ \A d \in decisions : pairs[JobOf(d.reviewed)] # None
  /\ \A d, e \in decisions : JobOf(d.reviewed) = JobOf(e.reviewed) => d = e

MemoryInv ==
  /\ MemoryTypeOK /\ RunnerInv /\ PairInv /\ NoOrphans /\ VerdictInv /\ OwnIds
  /\ \A c \in Connections : RequestInv(c) /\ UploadInv(c) /\ DraftInv(c)
=============================================================================
