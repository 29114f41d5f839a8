---------------------------- MODULE MemoryProofs ----------------------------
(* Theorems about the backend on its in-memory repositories, for any number  *)
(* of connections, runners, jobs and projects, and any bounds.               *)
EXTENDS MemoryServer, SequenceTheorems, TLAPS

(* The payloads after a push and after a pop.                                *)
Pushed(j) == \E i \in 1..Len(queue) : queue[i] = j

(* A push adds one payload.                                                  *)
LEMMA Push ==
  ASSUME queue \in Seq(Jobs), NEW j \in Jobs, queue' = Append(queue, j)
  PROVE  queue' \in Seq(Jobs) /\ \A k : Pushed(k)' => Pushed(k) \/ k = j
  BY DEF Pushed

(* A pop takes one.                                                          *)
LEMMA Pop ==
  ASSUME queue \in Seq(Jobs), queue # <<>>, queue' = Tail(queue)
  PROVE  /\ queue' \in Seq(Jobs) /\ Head(queue) \in Jobs
         /\ Pushed(Head(queue)) /\ \A k : Pushed(k)' => Pushed(k)
  BY DEF Pushed

(* A job is unreleased when it is neither queued nor in the hands of a       *)
(* runner.                                                                   *)
LEMMA UnreleasedMeans ==
  ASSUME NEW j
  PROVE  Unreleased(j) <=> ~Pushed(j) /\ \A w \in Workers : Job(w) # j
  BY DEF Unreleased, Pushed

-----------------------------------------------------------------------------
(* Where a request line leads: only a POST to a handler that writes, and to  *)
(* the one of the decisions only with the job in the path.                   *)
Writers == {"createWorkspace", "createProject", "upload", "decision"}

(* ProjectRoute leads to a write only with POST and five segments.           *)
LEMMA ProjectHandlers ==
  ASSUME NEW m, NEW parts
  PROVE  /\ ProjectRoute(m, parts) \in {"decision", "notFound"} \cup Reads
         /\ ProjectRoute(m, parts) = "decision" =>
              m = "POST" /\ Len(parts) = 5 /\ parts[3] = "circuit-reviews" /\ parts[5] = "decision"
<1> DEFINE a == Len(parts) = 2
           b == Len(parts) = 3 /\ parts[3] = "circuit-reviews" /\ m = "GET"
           e == Len(parts) = 4 /\ parts[3] = "circuit-reviews" /\ m = "GET"
           f == Len(parts) = 5 /\ parts[3] = "circuit-reviews" /\ parts[5] = "decision" /\ m = "POST"
<1>1. ProjectRoute(m, parts) = CASE a -> "getProject" [] b -> "reviewQueue" [] e -> "reviewDetail"
                                 [] f -> "decision" [] OTHER -> "notFound"
  BY Zenon DEF ProjectRoute
<1>2. \/ a /\ ProjectRoute(m, parts) = "getProject"
      \/ b /\ ProjectRoute(m, parts) = "reviewQueue"
      \/ e /\ ProjectRoute(m, parts) = "reviewDetail"
      \/ f /\ ProjectRoute(m, parts) = "decision"
      \/ ProjectRoute(m, parts) = "notFound"
  <2> HIDE DEF a, b, e, f
  <2> QED
    BY <1>1, Zenon
<1> QED
  BY <1>2 DEF Reads

(* So does Route, whose other writes have a POST in their condition.         *)
LEMMA Handlers ==
  ASSUME NEW m, NEW path
  PROVE  /\ Route(m, path) \in Writers \cup Reads \cup {"notFound"}
         /\ Route(m, path) \in Writers => m = "POST"
         /\ Route(m, path) = "decision" =>
              /\ Len(Trimmed(path)) = 5
              /\ Trimmed(path)[3] = "circuit-reviews" /\ Trimmed(path)[5] = "decision"
<1> DEFINE parts == Trimmed(path)
<1>1. \/ m = "POST" /\ Route(m, path) \in {"createWorkspace", "createProject", "upload", "notFound"}
      \/ Route(m, path) = ProjectRoute(m, parts)
      \/ Route(m, path) \in {"getJob", "notFound"}
  BY DEF Route
<1> QED
  BY <1>1, ProjectHandlers DEF Writers, Reads

(* The literal segments of a path are not empty.                             *)
LEMMA Segments ==
  /\ "projects" # Blank /\ "workspaces" # Blank /\ "other" # Blank /\ "jobs" # Blank
  /\ "decision" # Blank
  BY Zenon DEF Blank

(* The least element of a set that has one.                                  *)
LEMMA Least ==
  ASSUME NEW S, NEW x \in S, \A y \in S : x <= y
  PROVE  Min(S) \in S /\ \A y \in S : Min(S) <= y
  BY Zenon DEF Min

(* The greatest element of a set that has one.                               *)
LEMMA Greatest ==
  ASSUME NEW S, NEW x \in S, \A y \in S : x >= y
  PROVE  Max(S) \in S /\ \A y \in S : Max(S) >= y
  BY Zenon DEF Max

(* Trimming a path that begins with a segment only cuts off its end.         *)
LEMMA TrimmedIs ==
  ASSUME NEW S, NEW path \in Seq(S), NEW k \in 1..Len(path), path[1] # Blank, path[k] # Blank,
         \A i \in 1..Len(path) : path[i] # Blank => i <= k
  PROVE  Len(Trimmed(path)) = k /\ \A i \in 1..k : Trimmed(path)[i] = path[i]
<1> DEFINE filled == {i \in DOMAIN path : path[i] # Blank}
<1>1. DOMAIN path = 1..Len(path) /\ Len(path) \in Nat
  OBVIOUS
<1>2. filled \subseteq 1..k /\ 1 \in filled /\ k \in filled
  BY <1>1
<1>3. PICK F : F = filled
  OBVIOUS
<1>4. PICK m : m = Min(F)
  OBVIOUS
<1>5. PICK n : n = Max(F)
  OBVIOUS
<1>6. F \subseteq 1..k /\ 1 \in F /\ k \in F
  BY <1>2, <1>3
<1>7. m = 1
  <2>1. \A y \in F : 1 <= y
    BY <1>6
  <2>2. Min(F) \in F /\ \A y \in F : Min(F) <= y
    BY <1>6, <2>1, Least
  <2>3. m \in F /\ \A y \in F : m <= y
    BY <1>4, <2>2, Zenon
  <2> QED
    BY <1>6, <2>3
<1>8. n = k
  <2>1. \A y \in F : k >= y
    BY <1>6
  <2>2. Max(F) \in F /\ \A y \in F : Max(F) >= y
    BY <1>6, <2>1, Greatest
  <2>3. n \in F /\ \A y \in F : n >= y
    BY <1>5, <2>2, Zenon
  <2> QED
    BY <1>6, <2>3
<1>9. Trimmed(path) = SubSeq(path, 1, k)
  <2>1. Trimmed(path) = IF F = {} THEN <<Blank>> ELSE SubSeq(path, Min(F), Max(F))
    BY <1>3, Zenon DEF Trimmed
  <2>2. F # {} /\ Min(F) = 1 /\ Max(F) = k
    BY <1>4, <1>5, <1>6, <1>7, <1>8, Zenon
  <2> QED
    BY <2>1, <2>2, Zenon
<1> HIDE DEF filled
<1>10. 1 \in 1..(Len(path) + 1) /\ k \in (1 - 1)..Len(path)
  BY <1>1
<1>11. /\ Len(SubSeq(path, 1, k)) = k - 1 + 1
       /\ \A i \in 1..(k - 1 + 1) : SubSeq(path, 1, k)[i] = path[1 + i - 1]
  BY <1>10, SubSeqProperties
<1>12. k - 1 + 1 = k /\ \A i \in 1..k : 1 + i - 1 = i
  OBVIOUS
<1> QED
  BY <1>9, <1>11, <1>12

(* Fewer than five segments stay fewer than five.                            *)
LEMMA ShortPath ==
  ASSUME NEW S, NEW path \in Seq(S), Len(path) \in 1..5, path[1] # Blank,
         Len(path) = 5 => path[5] = Blank
  PROVE  Len(Trimmed(path)) # 5
<1>1. PICK k \in 1..Len(path) : /\ path[k] # Blank /\ k # 5
                                /\ \A i \in 1..Len(path) : path[i] # Blank => i <= k
  <2>1. CASE Len(path) >= 4 /\ path[4] # Blank
    BY <2>1
  <2>2. CASE ~(Len(path) >= 4 /\ path[4] # Blank) /\ Len(path) >= 3 /\ path[3] # Blank
    BY <2>2
  <2>3. CASE ~(Len(path) >= 4 /\ path[4] # Blank) /\ ~(Len(path) >= 3 /\ path[3] # Blank)
    BY <2>3
  <2> QED
    BY <2>1, <2>2, <2>3
<1> QED
  BY <1>1, TrimmedIs

(* A path as somebody wrote it, with or without a slash at its end.          *)
LEMMA WithSlash ==
  ASSUME NEW S, Blank \in S, NEW q \in Seq(S), NEW path, path = q \/ path = Append(q, Blank)
  PROVE  /\ path \in Seq(S) /\ Len(path) \in {Len(q), Len(q) + 1}
         /\ \A i \in 1..Len(q) : path[i] = q[i]
         /\ Len(path) = Len(q) + 1 => path[Len(q) + 1] = Blank
<1>1. CASE path = q
  BY <1>1
<1>2. CASE path = Append(q, Blank)
  BY <1>2, AppendProperties
<1> QED
  BY <1>1, <1>2

(* Short paths, spelled out.                                                 *)
LEMMA OneToFour ==
  ASSUME NEW a, NEW b, NEW e, NEW f, NEW S, a \in S, b \in S, e \in S, f \in S
  PROVE  /\ <<a>> \in Seq(S) /\ Len(<<a>>) \in 1..4 /\ <<a>>[1] = a
         /\ <<a, b>> \in Seq(S) /\ Len(<<a, b>>) \in 1..4 /\ <<a, b>>[1] = a
         /\ <<a, b, e>> \in Seq(S) /\ Len(<<a, b, e>>) \in 1..4 /\ <<a, b, e>>[1] = a
         /\ <<a, b, e, f>> \in Seq(S) /\ Len(<<a, b, e, f>>) \in 1..4 /\ <<a, b, e, f>>[1] = a
  OBVIOUS

(* The fourth segment of a path of five is the job it names.                 *)
LEMMA DecisionPath ==
  ASSUME NEW path \in Paths, Len(Trimmed(path)) = 5
  PROVE  Trimmed(path)[4] \in Jobs
<1> DEFINE d(p, j) == <<"projects", p, "circuit-reviews", j, "decision">>
<1>1. ASSUME NEW p \in ProjectIds, NEW j \in Jobs, path = d(p, j) \/ path = Append(d(p, j), Blank)
      PROVE  Trimmed(path)[4] \in Jobs
  <2>1. PICK S : S = {"projects", p, "circuit-reviews", j, "decision", Blank}
    OBVIOUS
  <2>2. PICK q : q = d(p, j)
    OBVIOUS
  <2>3. q \in Seq(S) /\ Len(q) = 5 /\ q[1] = "projects" /\ q[4] = j /\ q[5] = "decision"
    BY <2>1, <2>2
  <2> HIDE DEF d
  <2>4. Blank \in S /\ (path = q \/ path = Append(q, Blank))
    BY <1>1, <2>1, <2>2, Zenon
  <2>5. /\ path \in Seq(S) /\ Len(path) \in {Len(q), Len(q) + 1}
        /\ \A i \in 1..Len(q) : path[i] = q[i]
        /\ Len(path) = Len(q) + 1 => path[Len(q) + 1] = Blank
    BY <2>3, <2>4, WithSlash
  <2>6. /\ Len(path) \in {5, 6} /\ path[1] = "projects" /\ path[4] = j
        /\ path[5] = "decision" /\ (Len(path) = 6 => path[6] = Blank)
    BY <2>3, <2>5
  <2>7. 5 \in 1..Len(path) /\ \A i \in 1..Len(path) : path[i] # Blank => i <= 5
    BY <2>6
  <2>8. path[1] # Blank /\ path[5] # Blank
    BY <2>6, Segments
  <2>9. \A i \in 1..5 : Trimmed(path)[i] = path[i]
    BY <2>5, <2>7, <2>8, TrimmedIs
  <2>10. 4 \in 1..5
    OBVIOUS
  <2> QED
    BY <2>6, <2>9, <2>10, Zenon
<1>2. ASSUME NEW q \in ProperPaths, \A p \in ProjectIds, j \in Jobs : q # d(p, j)
      PROVE  \E S : q \in Seq(S) /\ Len(q) \in 1..4 /\ q[1] # Blank
  <2>1. PICK a, b, e, f : a # Blank /\ (\/ q = <<a>> \/ q = <<a, b>> \/ q = <<a, b, e>>
                                       \/ q = <<a, b, e, f>>)
    BY <1>2, Segments DEF ProperPaths
  <2>2. PICK S : S = {a, b, e, f}
    OBVIOUS
  <2>3. a \in S /\ b \in S /\ e \in S /\ f \in S
    BY <2>2
  <2>4. CASE q = <<a>>
    BY <2>1, <2>3, <2>4, OneToFour
  <2>5. CASE q = <<a, b>>
    BY <2>1, <2>3, <2>5, OneToFour
  <2>6. CASE q = <<a, b, e>>
    BY <2>1, <2>3, <2>6, OneToFour
  <2>7. CASE q = <<a, b, e, f>>
    BY <2>1, <2>3, <2>7, OneToFour
  <2> QED
    BY <2>1, <2>4, <2>5, <2>6, <2>7
<1>3. ASSUME NEW q \in ProperPaths, path = q \/ path = Append(q, Blank)
      PROVE  Trimmed(path)[4] \in Jobs
  <2>1. CASE \A p \in ProjectIds, j \in Jobs : q # d(p, j)
    <3>1. PICK S : q \in Seq(S) /\ Len(q) \in 1..4 /\ q[1] # Blank
      BY <1>2, <2>1
    <3>2. PICK T : T = S \cup {Blank}
      OBVIOUS
    <3>3. q \in Seq(T) /\ Blank \in T
      BY <3>1, <3>2
    <3>4. /\ path \in Seq(T) /\ Len(path) \in {Len(q), Len(q) + 1}
          /\ \A i \in 1..Len(q) : path[i] = q[i]
          /\ Len(path) = Len(q) + 1 => path[Len(q) + 1] = Blank
      BY <1>3, <3>3, WithSlash
    <3> HIDE DEF d
    <3>5. PICK n : n = Len(q)
      OBVIOUS
    <3>6. n \in 1..4 /\ q[1] # Blank /\ path[1] = q[1] /\ Len(path) \in {n, n + 1}
      <4>1. 1 \in 1..Len(q)
        BY <3>1
      <4> QED
        BY <3>1, <3>4, <3>5, <4>1
    <3>7. Len(path) = n + 1 => path[n + 1] = Blank
      BY <3>4, <3>5
    <3>8. Len(path) \in 1..5 /\ path[1] # Blank /\ (Len(path) = 5 => path[5] = Blank)
      <4>1. PICK k : k = Len(path)
        OBVIOUS
      <4>2. n \in 1..4 /\ (k = n \/ k = n + 1)
        BY <3>6, <4>1, Zenon
      <4>3. k \in 1..5 /\ (k = 5 => n = 4)
        BY <4>2
      <4> QED
        BY <3>6, <3>7, <4>1, <4>3
    <3> QED
      BY <3>4, <3>8, ShortPath
  <2>2. CASE \E p \in ProjectIds, j \in Jobs : q = d(p, j)
    BY <1>1, <1>3, <2>2, Zenon
  <2> QED
    BY <2>1, <2>2, Zenon
<1>4. ASSUME path \in {<<"projects", Blank>>, <<"projects", "uploads">>, <<"projects", Blank, "uploads">>}
      PROVE  FALSE
  <2>1. PICK S : S = {"projects", Blank, "uploads"}
    OBVIOUS
  <2>2. "projects" \in S /\ Blank \in S /\ "uploads" \in S
    BY <2>1
  <2>3. path \in Seq(S) /\ Len(path) \in 1..4 /\ path[1] = "projects"
    <3>1. CASE path = <<"projects", Blank>>
      BY <2>2, <3>1, OneToFour
    <3>2. CASE path = <<"projects", "uploads">>
      BY <2>2, <3>2, OneToFour
    <3>3. CASE path = <<"projects", Blank, "uploads">>
      BY <2>2, <3>3, OneToFour
    <3> QED
      BY <1>4, <3>1, <3>2, <3>3
  <2>4. Len(path) \in 1..5 /\ path[1] # Blank /\ (Len(path) = 5 => path[5] = Blank)
    BY <2>3, Segments
  <2> QED
    BY <2>3, <2>4, ShortPath
<1>5. \/ \E q \in ProperPaths : path = q \/ path = Append(q, Blank)
      \/ path \in {<<"projects", Blank>>, <<"projects", "uploads">>, <<"projects", Blank, "uploads">>}
  BY DEF Paths
<1> QED
  BY <1>3, <1>4, <1>5, Zenon

-----------------------------------------------------------------------------
(* What a connection and what the rest keep, and what a step of one may do   *)
(* to what the others rely on.                                               *)
ConnectionTypes ==
  /\ at \in [Connections -> Calls]
  /\ draft \in [Connections -> Revision \cup {None}]
  /\ code \in [Connections -> {0, 200, 201, 400, 404, 409, 500}]
  /\ DOMAIN req = Connections
ConnectionInv(c) == RequestInv(c) /\ UploadInv(c) /\ DraftInv(c)
SharedInv == RunnerInv /\ PairInv /\ NoOrphans /\ VerdictInv

SameConnection(d) ==
  /\ at'[d] = at[d] /\ req'[d] = req[d] /\ draft'[d] = draft[d] /\ code'[d] = code[d]
Spares(c) == \A d \in Connections \ {c} : SameConnection(d)

Grows == /\ workspaces \subseteq workspaces' /\ decisions \subseteq decisions'
         /\ \A p : Known(p) => Known(p)'
         /\ \A j \in Jobs : drawn'[j] \in Nat /\ drawn[j] <= drawn'[j]
Untouched(j) == /\ jobs'[j] = jobs[j] /\ home'[j] = home[j] /\ pairs'[j] = pairs[j]
                /\ uploads[j] # "none" => uploads'[j] # "none"
                /\ Unreleased(j) => Unreleased(j)'
Revises(j) == pairs[j] # None =>
  /\ pairs'[j] # None
  /\ pairs'[j].id = pairs[j].id \/ \E e \in decisions' : e.reviewed = pairs[j].id

(* The calls of an upload, and the status each of them finds the job in.     *)
LEMMA UploadCalls ==
  /\ DOMAIN JobAt = {"lookupProject", "createUpload", "createJob", "put", "markUploaded",
                     "toUploaded", "toQueued", "enqueue"}
  /\ JobAt["lookupProject"] = "none" /\ JobAt["createUpload"] = "none" /\ JobAt["createJob"] = "none"
  /\ JobAt["put"] = "created" /\ JobAt["markUploaded"] = "created" /\ JobAt["toUploaded"] = "created"
  /\ JobAt["toQueued"] = "uploaded" /\ JobAt["enqueue"] = "queued"
  BY DEF JobAt

(* A handler that is not the one that moves finds what it relies on.         *)
LEMMA SparedKeeps ==
  ASSUME MemoryInv, NEW d \in Connections, SameConnection(d), Grows,
         at[d] \in DOMAIN JobAt => \E u \in Jobs : u = Upload(d) /\ Untouched(u),
         \A j \in Jobs : Revises(j)
  PROVE  ConnectionInv(d)'
<1>1. RequestInv(d)'
  BY DEF MemoryInv, RequestInv, SameConnection, Grows
<1>2. UploadInv(d)'
  <2> SUFFICES ASSUME at'[d] \in DOMAIN JobAt PROVE UploadInv(d)'
    BY DEF UploadInv
  <2>1. UploadInv(d) /\ at[d] \in DOMAIN JobAt
    BY DEF MemoryInv, SameConnection
  <2>2. Upload(d)' = Upload(d)
    BY DEF SameConnection, Upload
  <2>3. PICK u \in Jobs : u = Upload(d) /\ Untouched(u)
    BY <2>1
  <2>4. /\ u \in Jobs /\ jobs[u] = JobAt[at[d]] /\ Unreleased(u) /\ pairs[u] = None
        /\ at[d] # "lookupProject" => Known(req[d].subject)
        /\ at[d] \notin {"lookupProject", "createUpload"} =>
             uploads[u] # "none" /\ home[u] = req[d].subject
    BY <2>1, <2>3, Zenon DEF UploadInv
  <2>5. Untouched(u)
    BY <2>3, Zenon
  <2>6. Upload(d)' \in Jobs /\ Upload(d)' = u
    BY <2>2, <2>3, <2>4, Zenon
  <2>7. jobs'[u] = JobAt[at'[d]] /\ pairs'[u] = None
    BY <2>4, <2>5 DEF Untouched, SameConnection
  <2>8. Unreleased(u)'
    BY <2>4, <2>5, Zenon DEF Untouched
  <2>9. Unreleased(Upload(d))'
    BY <2>2, <2>3, <2>8 DEF Unreleased
  <2>10. at'[d] # "lookupProject" => Known(req[d].subject)'
    BY <2>4, Zenon DEF Grows, SameConnection
  <2>11. at'[d] \notin {"lookupProject", "createUpload"} =>
           uploads'[u] # "none" /\ home'[u] = req'[d].subject
    BY <2>4, <2>5 DEF Untouched, SameConnection
  <2> QED
    BY <2>6, <2>7, <2>9, <2>10, <2>11 DEF UploadInv, SameConnection, Known
<1>3. DraftInv(d)'
  <2>1. DraftInv(d) /\ MemoryTypeOK
    BY DEF MemoryInv
  <2>2. CASE at[d] \in {"putSuccessor", "save", "dropSuccessor"}
    <3>1. PICK j : j = req[d].job
      OBVIOUS
    <3>2. PICK m : m = draft[d]
      OBVIOUS
    <3>3. /\ j \in Jobs /\ req[d].body.kind \in {"approve", "reject"}
          /\ at[d] \in {"putSuccessor", "dropSuccessor"} => Corrected(d)
          /\ m # None /\ m.status = Final(req[d].body.kind)
          /\ m.project = req[d].subject
          /\ JobOf(m.id) = j
          /\ m.id[2] <= drawn[j] /\ m.version <= drawn[j]
          /\ ~Corrected(d) => m.id = Reviewed(d)
          /\ pairs[j] # None
          /\ pairs[j].id = Reviewed(d) \/ \E e \in decisions : e.reviewed = Reviewed(d)
      BY <2>1, <2>2, <3>1, <3>2 DEF DraftInv, Deciding
    <3>4. m \in Revision /\ drawn[j] \in Nat
      BY <2>1, <3>2, <3>3 DEF MemoryTypeOK
    <3>5. m.id[2] \in Nat /\ m.version \in Nat
      BY <3>4, MemoryAssumption DEF Revision, RevisionIds
    <3>6. drawn'[j] \in Nat /\ drawn[j] <= drawn'[j]
      BY <3>3 DEF Grows
    <3>7. m.id[2] <= drawn'[j] /\ m.version <= drawn'[j]
      BY <3>3, <3>4, <3>5, <3>6
    <3>8. pairs'[j] # None /\ (pairs'[j].id = Reviewed(d) \/ \E e \in decisions' : e.reviewed = Reviewed(d))
      BY <3>3 DEF Grows, Revises
    <3>9. /\ req'[d] = req[d] /\ draft'[d] = m /\ at'[d] = at[d]
          /\ Corrected(d)' = Corrected(d) /\ Reviewed(d)' = Reviewed(d)
      BY <3>2 DEF SameConnection, Corrected, Reviewed
    <3> QED
      BY <3>1, <3>3, <3>7, <3>8, <3>9 DEF DraftInv
  <2>3. CASE at[d] \notin {"putSuccessor", "save", "dropSuccessor"}
    BY <2>1, <2>3 DEF SameConnection, DraftInv
  <2> QED
    BY <2>2, <2>3
<1> QED
  BY <1>1, <1>2, <1>3 DEF ConnectionInv

(* What an answer and a further call leave of a connection.                  *)
Answers == {200, 201, 400, 404, 409, 500}

(* An answer leaves its connection with nothing in hand.                     *)
LEMMA AnswerKeeps ==
  ASSUME MemoryInv, NEW c \in Connections, NEW b, NEW n \in Answers, AnswerTo(c, b, n)
  PROVE  ConnectionTypes' /\ Spares(c) /\ OwnIds' /\ ConnectionInv(c)'
<1>1. ConnectionTypes
  BY DEF MemoryInv, MemoryTypeOK, ConnectionTypes
<1>2. ConnectionTypes' /\ Spares(c)
  BY <1>1 DEF AnswerTo, ConnectionTypes, Calls, Answers, Spares, SameConnection
<1>3. at'[c] = "answered" /\ req'[c].fresh = None /\ draft'[c] = None
  BY <1>1 DEF AnswerTo, ConnectionTypes, NoRequest
<1>4. \A d \in Connections : req'[d].fresh \in {req[d].fresh, None}
  BY <1>2, <1>3 DEF Spares, SameConnection
<1>5. OwnIds'
  BY <1>4 DEF OwnIds, MemoryInv
<1>6. ConnectionInv(c)'
  BY <1>3, UploadCalls DEF ConnectionInv, RequestInv, UploadInv, DraftInv, Deciding
<1> QED
  BY <1>2, <1>5, <1>6

(* A further call keeps the request and the draft.                           *)
LEMMA ContinueKeeps ==
  ASSUME MemoryInv, NEW c \in Connections, NEW call \in Calls, Continue(c, call)
  PROVE  /\ ConnectionTypes' /\ Spares(c) /\ OwnIds'
         /\ at'[c] = call /\ req' = req /\ draft' = draft /\ code' = code
<1>1. ConnectionTypes
  BY DEF MemoryInv, MemoryTypeOK, ConnectionTypes
<1>2. ConnectionTypes' /\ Spares(c) /\ at'[c] = call
  BY <1>1 DEF Continue, Goto, ConnectionTypes, Spares, SameConnection
<1>3. OwnIds'
  BY DEF OwnIds, MemoryInv, Continue
<1> QED
  BY <1>2, <1>3 DEF Continue, Goto

(* Steps that touch no row of a job: they may add a workspace or a project,  *)
(* or an object.                                                             *)
Rows == <<uploads, home, jobs, pairs, decisions, queue, retries, runner>>
(* A step that changes no row of a job disturbs no runner and no other       *)
(* handler.                                                                  *)
LEMMA QuietStep ==
  ASSUME MemoryInv, NEW c \in Connections, Spares(c), UNCHANGED Rows, drawn' = drawn,
         workspaces \subseteq workspaces', \A p : Known(p) => Known(p)'
  PROVE  SharedInv' /\ \A d \in Connections \ {c} : ConnectionInv(d)'
<1>1. UNCHANGED <<uploads, home, jobs, pairs, decisions, queue, retries, runner>>
  BY DEF Rows
<1>2. RunnerInv'
  BY <1>1 DEF MemoryInv, RunnerInv, Working, Persists, Job
<1>3. PairInv'
  BY <1>1 DEF MemoryInv, PairInv, Unreleased, Job
<1>4. NoOrphans'
  BY <1>1 DEF MemoryInv, NoOrphans
<1>5. VerdictInv'
  BY <1>1 DEF MemoryInv, VerdictInv, VerdictStands
<1>6. Grows
  BY <1>1 DEF MemoryInv, MemoryTypeOK, Grows
<1>7. \A j \in Jobs : Untouched(j) /\ Revises(j)
  BY <1>1 DEF Untouched, Revises, Unreleased, Job
<1>8. ASSUME NEW d \in Connections \ {c} PROVE ConnectionInv(d)'
  <2>1. SameConnection(d)
    BY DEF Spares
  <2>2. at[d] \in DOMAIN JobAt => \E u \in Jobs : u = Upload(d) /\ Untouched(u)
    BY <1>7 DEF MemoryInv, UploadInv
  <2> QED
    BY <1>6, <1>7, <2>1, <2>2, SparedKeeps
<1> QED
  BY <1>2, <1>3, <1>4, <1>5, <1>8 DEF SharedInv

(* The invariant from its parts.                                             *)
StoreTypes ==
  /\ workspaces \subseteq WorkspaceIds
  /\ projects \in [ProjectIds -> workspaces \cup {None}]
  /\ uploads \in [Jobs -> {"none", "created", "uploaded"}]
  /\ home \in [Jobs -> ProjectIds \cup {None}]
  /\ jobs \in [Jobs -> {"none", "created", "uploaded", "queued", "extracting"} \cup Settled]
  /\ pairs \in [Jobs -> Revision \cup {None}]
  /\ decisions \subseteq
       [reviewed : RevisionIds, resolved : RevisionIds, kind : {"approve", "reject"}]
  /\ objects \subseteq ({"image"} \X Jobs) \cup ({"extraction", "circuit"} \X RevisionIds)
  /\ queue \in Seq(Jobs)
  /\ drawn \in [Jobs -> 0..MaxRevisions] /\ retries \in 0..MaxRetries
RunnerTypes ==
  runner \in [Workers -> [at : {"down", "dequeue", "claim"} \cup Work, job : Jobs \cup {None},
                          status : {"none"} \cup Settled, no : 0..MaxRevisions]]

(* The invariant by what it speaks of, for the steps to take apart.          *)
LEMMA Parts ==
  MemoryInv <=> /\ StoreTypes /\ RunnerTypes /\ ConnectionTypes /\ SharedInv /\ OwnIds
                /\ \A c \in Connections : ConnectionInv(c)
  BY DEF MemoryInv, MemoryTypeOK, StoreTypes, RunnerTypes, ConnectionTypes, SharedInv, ConnectionInv

(* And put together after a step of one connection.                          *)
LEMMA Whole ==
  ASSUME StoreTypes', RunnerTypes', ConnectionTypes', SharedInv', OwnIds',
         NEW c \in Connections, ConnectionInv(c)', \A d \in Connections \ {c} : ConnectionInv(d)'
  PROVE  MemoryInv'
<1>1. \A d \in Connections : RequestInv(d)' /\ UploadInv(d)' /\ DraftInv(d)'
  BY DEF ConnectionInv
<1> QED
  BY <1>1 DEF MemoryInv, MemoryTypeOK, StoreTypes, RunnerTypes, ConnectionTypes, SharedInv

(* A step that changes no row leaves every row in its type.                  *)
LEMMA SameTypes ==
  ASSUME MemoryInv, UNCHANGED repositories, drawn' = drawn, retries' = retries, runner' = runner
  PROVE  /\ StoreTypes' /\ RunnerTypes' /\ UNCHANGED Rows
         /\ workspaces \subseteq workspaces' /\ \A p : Known(p) => Known(p)'
  BY Parts DEF StoreTypes, RunnerTypes, repositories, Rows, Known

(* A client that has read its answer keeps nothing.                          *)
LEMMA QuietRelease ==
  ASSUME MemoryInv, NEW c \in Connections, Release(c)
  PROVE  MemoryInv'
<1>1. ConnectionTypes
  BY Parts
<1>2. ConnectionTypes' /\ Spares(c)
  BY <1>1 DEF Release, ConnectionTypes, Calls, Spares, SameConnection
<1>3. at'[c] = "idle" /\ req'[c] = NoRequest /\ draft'[c] = None
  BY <1>1 DEF Release, ConnectionTypes
<1>4. OwnIds'
  <2>1. \A d \in Connections : req'[d].fresh \in {req[d].fresh, None}
    BY <1>2, <1>3 DEF Spares, SameConnection, NoRequest
  <2> QED
    BY <2>1 DEF OwnIds, MemoryInv
<1>5. ConnectionInv(c)'
  BY <1>3, UploadCalls DEF ConnectionInv, RequestInv, UploadInv, DraftInv, Deciding, NoRequest
<1>6. StoreTypes' /\ RunnerTypes' /\ SharedInv' /\ \A d \in Connections \ {c} : ConnectionInv(d)'
  BY <1>2, SameTypes, QuietStep DEF Release
<1> QED
  BY <1>2, <1>4, <1>5, <1>6, Whole

-----------------------------------------------------------------------------
(* Requests that arrive.                                                     *)
LEMMA FirstCalls ==
  /\ FirstCall("createWorkspace") = "insertWorkspace"
  /\ FirstCall("createProject") = "getWorkspace"
  /\ FirstCall("upload") = "lookupProject"
  /\ FirstCall("decision") = "getDecision"
  BY Zenon DEF FirstCall

(* A fresh identifier is neither stored nor reserved.                        *)
LEMMA FreshIds ==
  /\ Fresh("createWorkspace") = WorkspaceIds \ (workspaces \cup Reserved)
  /\ Fresh("createProject") = {p \in ProjectIds \ Reserved : projects[p] = None}
  /\ Fresh("upload") = {j \in Jobs \ Reserved : uploads[j] = "none"}
  /\ Fresh("decision") = {None}
  BY Zenon DEF Fresh

(* The status of a refusal; a decision that goes on is complete and of a     *)
(* known kind.                                                               *)
LEMMA Refusals ==
  ASSUME NEW h \in Writers \cup Reads \cup {"notFound"}, NEW parts, NEW body \in Bodies(h)
  PROVE  /\ Refusal(h, parts, body) \in {0, 400, 404, 500}
         /\ h = "decision" /\ Refusal(h, parts, body) = 0 =>
              Wellformed(body) /\ body.kind \in {"approve", "reject", "other"}
<1>1. CASE h = "notFound"
  <2>1. Refusal(h, parts, body) = 404
    BY <1>1, Zenon DEF Refusal
  <2> QED
    BY <1>1, <2>1
<1>2. CASE h \in {"createWorkspace", "createProject"}
  <2>1. Refusal(h, parts, body) = IF body = "named" THEN 0 ELSE 400
    BY <1>2, Zenon DEF Refusal
  <2> QED
    BY <1>2, <2>1
<1>3. CASE h = "upload"
  <2>1. Refusal(h, parts, body) = IF body = "notForm" THEN 500
                                  ELSE IF body = "image" /\ parts[2] # Blank THEN 0 ELSE 400
    BY <1>3, Zenon DEF Refusal
  <2> QED
    BY <1>3, <2>1
<1>4. CASE h = "decision"
  <2>1. Refusal(h, parts, body) = IF Wellformed(body) THEN 0 ELSE 400
    BY <1>4, Zenon DEF Refusal
  <2>2. Bodies(h) = Commands
    BY <1>4, Zenon DEF Bodies
  <2>3. body.kind \in {"approve", "reject", "other"}
    BY <2>2 DEF Commands
  <2> QED
    BY <1>4, <2>1, <2>3
<1>5. CASE h \in Reads
  <2>1. Refusal(h, parts, body) = 0 /\ h # "decision"
    BY <1>5, Zenon DEF Refusal, Reads
  <2> QED
    BY <1>5, <2>1
<1> QED
  BY <1>1, <1>2, <1>3, <1>4, <1>5 DEF Writers

(* A request line that leads to a write is a POST, and a decision names its  *)
(* job.                                                                      *)
LEMMA LineHandlers ==
  ASSUME NEW line \in RequestLines
  PROVE  /\ line.handler \in Writers \cup Reads \cup {"notFound"}
         /\ line.handler \in Writers => line.method = "POST"
         /\ line.handler = "decision" => Len(line.parts) = 5 /\ line.parts[4] \in Jobs
<1>1. PICK m \in Methods, path \in Paths :
        line = [method |-> m, handler |-> Route(m, path), parts |-> Trimmed(path)]
  BY DEF RequestLines
<1>2. line.method = m /\ line.handler = Route(m, path) /\ line.parts = Trimmed(path)
  BY <1>1
<1> QED
  BY <1>2, Handlers, DecisionPath

(* A request that arrives is refused, answered, or reserves its identifier.  *)
LEMMA ReceiveKeeps ==
  ASSUME MemoryInv, NEW c \in Connections, Receive(c)
  PROVE  MemoryInv'
<1>1. /\ at[c] = "idle" /\ StoreTypes' /\ RunnerTypes' /\ UNCHANGED Rows /\ drawn' = drawn
      /\ UNCHANGED repositories
      /\ workspaces \subseteq workspaces' /\ \A p : Known(p) => Known(p)'
  BY SameTypes DEF Receive
<1>2. PICK line \in RequestLines :
        LET h == line.handler
            parts == line.parts
            job == IF Len(parts) > 3 THEN parts[4] ELSE None
            part == IF Len(parts) > 1 THEN parts[2] ELSE None
        IN \E body \in Bodies(h) :
             LET refusal == Refusal(h, parts, body)
             IN \/ /\ refusal # 0
                   /\ AnswerTo(c, h = "decision", refusal)
                \/ /\ refusal = 0 /\ h \in Reads
                   /\ AnswerTo(c, FALSE, IF Found(h, part, job) THEN 200 ELSE 404)
                \/ /\ refusal = 0 /\ h \notin Reads
                   /\ \E id \in Fresh(h) :
                        req' = [req EXCEPT ![c] =
                          [deciding |-> h = "decision", method |-> line.method, subject |-> part,
                           job |-> job, fresh |-> id, body |-> body]]
                   /\ Goto(c, FirstCall(h)) /\ UNCHANGED draft
  BY Zenon DEF Receive
<1> DEFINE h == line.handler
           parts == line.parts
           job == IF Len(parts) > 3 THEN parts[4] ELSE None
           part == IF Len(parts) > 1 THEN parts[2] ELSE None
<1>3. PICK body \in Bodies(h) :
        \/ /\ Refusal(h, parts, body) # 0
           /\ AnswerTo(c, h = "decision", Refusal(h, parts, body))
        \/ /\ Refusal(h, parts, body) = 0 /\ h \in Reads
           /\ AnswerTo(c, FALSE, IF Found(h, part, job) THEN 200 ELSE 404)
        \/ /\ Refusal(h, parts, body) = 0 /\ h \notin Reads
           /\ \E id \in Fresh(h) :
                req' = [req EXCEPT ![c] =
                  [deciding |-> h = "decision", method |-> line.method, subject |-> part,
                   job |-> job, fresh |-> id, body |-> body]]
           /\ Goto(c, FirstCall(h)) /\ UNCHANGED draft
  BY <1>2, Zenon
<1>4. /\ h \in Writers \cup Reads \cup {"notFound"}
      /\ h \in Writers => line.method = "POST"
      /\ h = "decision" => job \in Jobs
  BY LineHandlers
<1> HIDE DEF h, parts, job, part
<1>5. /\ Refusal(h, parts, body) \in {0, 400, 404, 500}
      /\ h = "decision" /\ Refusal(h, parts, body) = 0 => body.kind \in {"approve", "reject"}
  BY <1>4, Refusals DEF Wellformed
<1>6. ASSUME NEW b, NEW n \in Answers, AnswerTo(c, b, n)
       PROVE  MemoryInv'
  <2>1. ConnectionTypes' /\ Spares(c) /\ OwnIds' /\ ConnectionInv(c)'
    BY <1>6, AnswerKeeps
  <2>2. SharedInv' /\ \A d \in Connections \ {c} : ConnectionInv(d)'
    BY <1>1, <2>1, QuietStep
  <2> QED
    BY <1>1, <2>1, <2>2, Whole
<1>7. CASE Refusal(h, parts, body) # 0 /\ AnswerTo(c, h = "decision", Refusal(h, parts, body))
  BY <1>5, <1>6, <1>7 DEF Answers
<1>8. CASE AnswerTo(c, FALSE, IF Found(h, part, job) THEN 200 ELSE 404)
  <2>1. (IF Found(h, part, job) THEN 200 ELSE 404) \in Answers
    BY DEF Answers
  <2> QED
    BY <1>6, <1>8, <2>1, Zenon
<1>9. CASE /\ Refusal(h, parts, body) = 0 /\ h \notin Reads
            /\ \E id \in Fresh(h) :
                 req' = [req EXCEPT ![c] =
                   [deciding |-> h = "decision", method |-> line.method, subject |-> part,
                    job |-> job, fresh |-> id, body |-> body]]
            /\ Goto(c, FirstCall(h)) /\ UNCHANGED draft
  <2>1. PICK id \in Fresh(h) :
          req' = [req EXCEPT ![c] =
            [deciding |-> h = "decision", method |-> line.method, subject |-> part,
             job |-> job, fresh |-> id, body |-> body]]
    BY <1>9
  <2>2. Refusal("notFound", parts, body) = 404
    BY Zenon DEF Refusal
  <2>3. h \in Writers
    BY <1>4, <1>9, <2>2
  <2>4. ConnectionTypes
    BY Parts
  <2>5. /\ req'[c].deciding = (h = "decision") /\ req'[c].method = "POST"
        /\ req'[c].job = job /\ req'[c].fresh = id /\ req'[c].body = body
    BY <1>4, <2>1, <2>3, <2>4 DEF ConnectionTypes
  <2>6. at'[c] = FirstCall(h) /\ draft' = draft /\ code' = code
    BY <1>9, <2>4 DEF Goto, ConnectionTypes
  <2>7. FirstCall(h) \in Calls
    BY <2>3, FirstCalls DEF Writers, Calls
  <2>8. ConnectionTypes' /\ Spares(c)
    BY <1>9, <2>1, <2>4, <2>6, <2>7 DEF Goto, ConnectionTypes, Spares, SameConnection
  <2>9. id \notin Reserved \/ id = None
    BY <2>3, FreshIds DEF Writers
  <2>10. OwnIds'
    <3>1. \A d \in Connections \ {c} : req'[d].fresh = req[d].fresh /\ (req[d].fresh = id => id = None)
      BY <2>8, <2>9 DEF Spares, SameConnection, Reserved
    <3> QED
      BY <2>5, <3>1 DEF OwnIds, MemoryInv
  <2>11. SharedInv' /\ \A d \in Connections \ {c} : ConnectionInv(d)'
    BY <1>1, <2>8, QuietStep
  <2>12. ConnectionInv(c)'
    <3>1. CASE h = "createWorkspace"
      <4>1. at'[c] = "insertWorkspace" /\ id \in WorkspaceIds
        BY <2>6, <3>1, FirstCalls, FreshIds
      <4> QED
        BY <2>5, <3>1, <4>1, UploadCalls DEF ConnectionInv, RequestInv, UploadInv, DraftInv, Deciding
    <3>2. CASE h = "createProject"
      <4>1. at'[c] = "getWorkspace" /\ id \in ProjectIds
        BY <2>6, <3>2, FirstCalls, FreshIds
      <4> QED
        BY <2>5, <3>2, <4>1, UploadCalls DEF ConnectionInv, RequestInv, UploadInv, DraftInv, Deciding
    <3>3. CASE h = "upload"
      <4>1. at'[c] = "lookupProject" /\ id \in Jobs /\ uploads[id] = "none"
        BY <2>6, <3>3, FirstCalls, FreshIds
      <4>2. jobs[id] = "none"
        BY <4>1 DEF MemoryInv, NoOrphans
      <4>3. pairs[id] = None /\ Unreleased(id)
        BY <4>1, <4>2 DEF MemoryInv, PairInv
      <4>4. jobs'[id] = "none" /\ pairs'[id] = None /\ Unreleased(id)'
        BY <1>1, <4>2, <4>3 DEF Rows, Unreleased, Job
      <4>5. Upload(c)' = id
        BY <2>5 DEF Upload
      <4>6. Unreleased(Upload(c))'
        BY <4>4, <4>5 DEF Unreleased
      <4>7. UploadInv(c)'
        BY <4>1, <4>4, <4>5, <4>6, UploadCalls DEF UploadInv
      <4> QED
        BY <2>5, <3>3, <4>1, <4>7 DEF ConnectionInv, RequestInv, DraftInv, Deciding
    <3>4. CASE h = "decision"
      <4>1. at'[c] = "getDecision"
        BY <2>6, <3>4, FirstCalls
      <4>2. job \in Jobs /\ body.kind \in {"approve", "reject"}
        BY <1>4, <1>5, <1>9, <3>4
      <4> QED
        BY <2>5, <3>4, <4>1, <4>2, UploadCalls DEF ConnectionInv, RequestInv, UploadInv, DraftInv, Deciding
    <3> QED
      BY <2>3, <3>1, <3>2, <3>3, <3>4 DEF Writers
  <2> QED
    BY <1>1, <2>8, <2>10, <2>11, <2>12, Whole
<1> QED
  BY <1>3, <1>7, <1>8, <1>9

-----------------------------------------------------------------------------
(* Workspaces and projects.                                                  *)
LEMMA CreateWorkspaceKeeps ==
  ASSUME MemoryInv, NEW c \in Connections, CreateWorkspace(c)
  PROVE  MemoryInv'
<1>1. StoreTypes /\ RunnerTypes /\ ConnectionInv(c)
  BY Parts
<1>2. AnswerTo(c, req[c].deciding, 201) /\ 201 \in Answers
  BY DEF CreateWorkspace, Answer, Answers
<1>3. ConnectionTypes' /\ Spares(c) /\ OwnIds' /\ ConnectionInv(c)'
  BY <1>2, AnswerKeeps
<1>4. req[c].fresh \in WorkspaceIds
  BY <1>1 DEF ConnectionInv, RequestInv, CreateWorkspace
<1>5. StoreTypes' /\ RunnerTypes'
  BY <1>1, <1>4 DEF StoreTypes, RunnerTypes, CreateWorkspace
<1>6. /\ UNCHANGED Rows /\ drawn' = drawn /\ workspaces \subseteq workspaces'
      /\ \A p : Known(p) => Known(p)'
  BY DEF CreateWorkspace, Rows, Known
<1>7. SharedInv' /\ \A d \in Connections \ {c} : ConnectionInv(d)'
  BY <1>3, <1>6, QuietStep
<1> QED
  BY <1>3, <1>5, <1>7, Whole

(* A project is stored under a workspace that is there.                      *)
LEMMA CreateProjectKeeps ==
  ASSUME MemoryInv, NEW c \in Connections, CreateProject(c)
  PROVE  MemoryInv'
<1>1. StoreTypes /\ RunnerTypes /\ ConnectionInv(c)
  BY Parts
<1>2. AnswerTo(c, req[c].deciding, 201) /\ 201 \in Answers
  BY DEF CreateProject, Answer, Answers
<1>3. ConnectionTypes' /\ Spares(c) /\ OwnIds' /\ ConnectionInv(c)'
  BY <1>2, AnswerKeeps
<1>4. req[c].fresh \in ProjectIds /\ req[c].subject \in workspaces
  BY <1>1 DEF ConnectionInv, RequestInv, CreateProject
<1>5. StoreTypes' /\ RunnerTypes'
  BY <1>1, <1>4 DEF StoreTypes, RunnerTypes, CreateProject
<1>6. req[c].subject # None
  BY <1>1, <1>4, MemoryAssumption DEF StoreTypes
<1>7. \A p : Known(p) => Known(p)'
  BY <1>1, <1>4, <1>6 DEF StoreTypes, CreateProject, Known
<1>8. UNCHANGED Rows /\ drawn' = drawn /\ workspaces \subseteq workspaces'
  BY DEF CreateProject, Rows
<1>9. SharedInv' /\ \A d \in Connections \ {c} : ConnectionInv(d)'
  BY <1>3, <1>7, <1>8, QuietStep
<1> QED
  BY <1>3, <1>5, <1>9, Whole

(* A look at the store, and an object put into the bucket: nothing else      *)
(* moves, and the handler goes on or answers.                                *)
LEMMA LookKeeps ==
  ASSUME MemoryInv, NEW c \in Connections, StoreTypes', RunnerTypes', drawn' = drawn,
         UNCHANGED <<workspaces, projects, uploads, home, jobs, pairs, decisions, queue, retries, runner>>,
         \/ \E n \in Answers : AnswerTo(c, req[c].deciding, n)
         \/ \E call \in Calls : Continue(c, call) /\ ConnectionInv(c)'
  PROVE  MemoryInv'
<1>1. ConnectionTypes' /\ Spares(c) /\ OwnIds' /\ ConnectionInv(c)'
  BY AnswerKeeps, ContinueKeeps
<1>2. /\ UNCHANGED Rows /\ workspaces \subseteq workspaces'
      /\ \A p : Known(p) => Known(p)'
  BY DEF Rows, Known
<1>3. SharedInv' /\ \A d \in Connections \ {c} : ConnectionInv(d)'
  BY <1>1, <1>2, QuietStep
<1> QED
  BY <1>1, <1>3, Whole

(* A lookup leaves everything but its own connection.                        *)
LEMMA SameStore ==
  ASSUME MemoryInv, UNCHANGED <<repositories, drawn, retries, runner>>
  PROVE  /\ StoreTypes' /\ RunnerTypes' /\ drawn' = drawn
         /\ UNCHANGED <<workspaces, projects, uploads, home, jobs, pairs, decisions, queue, retries, runner>>
  BY SameTypes DEF repositories

(* The workspace of a new project is looked up.                              *)
LEMMA GetWorkspaceKeeps ==
  ASSUME MemoryInv, NEW c \in Connections, GetWorkspace(c)
  PROVE  MemoryInv'
<1>1. ConnectionInv(c) /\ ConnectionTypes
  BY Parts
<1>2. CASE Answer(c, 404)
  BY <1>2, SameStore, LookKeeps DEF GetWorkspace, Answer, Answers
<1>3. CASE req[c].subject \in workspaces /\ Continue(c, "insertProject")
  <2>1. "insertProject" \in Calls
    BY DEF Calls
  <2>2. /\ at'[c] = "insertProject" /\ req' = req /\ draft' = draft /\ code' = code
        /\ workspaces' = workspaces
    BY <1>3, <2>1, ContinueKeeps, SameStore DEF GetWorkspace
  <2>3. ConnectionInv(c)'
    BY <1>1, <1>3, <2>2, UploadCalls
    DEF GetWorkspace, ConnectionInv, RequestInv, UploadInv, DraftInv, Deciding
  <2> QED
    BY <1>3, <2>1, <2>3, SameStore, LookKeeps DEF GetWorkspace
<1> QED
  BY <1>2, <1>3 DEF GetWorkspace

(* The project of an upload is looked up.                                    *)
LEMMA LookupKeeps ==
  ASSUME MemoryInv, NEW c \in Connections, Lookup(c)
  PROVE  MemoryInv'
<1>1. ConnectionInv(c) /\ ConnectionTypes
  BY Parts
<1>2. CASE Answer(c, 404)
  BY <1>2, SameStore, LookKeeps DEF Lookup, Answer, Answers
<1>3. CASE LookupProject(c) /\ Continue(c, "createUpload")
  <2>1. "createUpload" \in Calls
    BY DEF Calls
  <2>2. /\ at'[c] = "createUpload" /\ req' = req /\ draft' = draft /\ code' = code
    BY <1>3, <2>1, ContinueKeeps
  <2>3. UNCHANGED <<jobs, pairs, queue, runner, projects>>
    BY SameStore DEF Lookup
  <2>4. Upload(c)' = Upload(c) /\ Unreleased(Upload(c))' = Unreleased(Upload(c))
    BY <2>2, <2>3 DEF Upload, Unreleased, Job
  <2>5. Known(req[c].subject)'
    BY <1>3, <2>2, <2>3 DEF Known, LookupProject
  <2>6. UploadInv(c)'
    BY <1>1, <2>2, <2>3, <2>4, <2>5, UploadCalls DEF Lookup, ConnectionInv, UploadInv
  <2>7. RequestInv(c)' /\ DraftInv(c)'
    BY <1>1, <2>2 DEF Lookup, ConnectionInv, RequestInv, DraftInv, Deciding
  <2>8. ConnectionInv(c)'
    BY <2>6, <2>7 DEF ConnectionInv
  <2> QED
    BY <1>3, <2>1, <2>8, SameStore, LookKeeps DEF Lookup
<1> QED
  BY <1>2, <1>3 DEF Lookup

-----------------------------------------------------------------------------
(* An upload: its handler moves its own rows only, which nobody else has     *)
(* heard of until the payload is pushed.                                     *)
LEMMA UploadStep ==
  ASSUME MemoryInv, NEW c \in Connections, Spares(c), at[c] \in DOMAIN JobAt,
         NEW u, u = Upload(c),
         UNCHANGED <<workspaces, projects, pairs, decisions, drawn, retries, runner>>,
         \A j \in Jobs \ {u} : jobs'[j] = jobs[j] /\ uploads'[j] = uploads[j] /\ home'[j] = home[j],
         \A k : Pushed(k)' => Pushed(k) \/ (k = u /\ jobs'[u] = "queued"),
         jobs'[u] \in {"none", "created", "uploaded", "queued"},
         jobs'[u] # "none" => uploads'[u] # "none",
         uploads'[u] # "none" => Known(home'[u])
  PROVE  SharedInv' /\ \A d \in Connections \ {c} : ConnectionInv(d)'
<1>1. UploadInv(c)
  BY DEF MemoryInv
<1>2. u \in Jobs /\ Unreleased(u) /\ pairs[u] = None
  BY <1>1, Zenon DEF UploadInv
<1>3. ~Pushed(u) /\ \A w \in Workers : Job(w) # u
  BY <1>2, UnreleasedMeans
<1>4. \A w \in Workers : Job(w)' = Job(w) /\ Working(w)' = Working(w) /\ Job(w) \in Jobs \cup {None}
  BY DEF Job, Working, MemoryInv, MemoryTypeOK
<1>5. ASSUME NEW j \in Jobs \ {u}, Unreleased(j)
      PROVE  Unreleased(j)'
  <2>1. ~Pushed(j) /\ \A w \in Workers : Job(w) # j
    BY <1>5, UnreleasedMeans
  <2>2. ~Pushed(j)'
    BY <2>1
  <2> QED
    BY <1>4, <2>1, <2>2 DEF Unreleased, Pushed
<1>6. jobs'[u] # "queued" => Unreleased(u)'
  <2>1. jobs'[u] # "queued" => ~Pushed(u)'
    BY <1>3
  <2> QED
    BY <1>3, <1>4, <2>1 DEF Unreleased, Pushed
<1>7. RunnerInv'
  <2>1. \A w \in Workers : Working(w) => Job(w) \in Jobs \ {u}
    <3>1. \A w \in Workers : Working(w) => Job(w) # None
      BY DEF Working, MemoryInv, RunnerInv, Work, Persisting
    <3> QED
      BY <1>3, <1>4, <3>1
  <2>2. \A w \in Workers : Working(w)' => jobs'[Job(w)'] = "extracting"
    BY <1>4, <2>1 DEF MemoryInv, RunnerInv
  <2> QED
    BY <2>2 DEF MemoryInv, RunnerInv, Working, Persists, Job
<1>8. PairInv'
  <2> SUFFICES ASSUME NEW j \in Jobs
               PROVE  /\ jobs'[j] \in {"none", "created", "uploaded"} => pairs'[j] = None /\ Unreleased(j)'
                      /\ pairs'[j] # None => /\ JobOf(pairs'[j].id) = j
                                             /\ pairs'[j].id[2] <= drawn'[j] /\ pairs'[j].version <= drawn'[j]
    BY DEF PairInv, Unreleased
  <2>1. CASE j = u
    BY <1>2, <1>6, <2>1
  <2>2. CASE j # u
    BY <1>5, <2>2 DEF MemoryInv, PairInv
  <2> QED
    BY <2>1, <2>2
<1>9. \A p : Known(p)' = Known(p)
  BY DEF Known
<1>10. NoOrphans'
  <2> SUFFICES ASSUME NEW j \in Jobs
               PROVE  /\ uploads'[j] # "none" => Known(home'[j])
                      /\ jobs'[j] # "none" => uploads'[j] # "none"
                      /\ pairs'[j] # None => pairs'[j].project = home'[j]
    BY <1>9 DEF NoOrphans, Known
  <2>1. CASE j = u
    BY <1>2, <2>1
  <2>2. CASE j # u
    BY <2>2 DEF MemoryInv, NoOrphans
  <2> QED
    BY <2>1, <2>2
<1>11. VerdictInv'
  <2>1. \A d \in decisions : JobOf(d.reviewed) \in Jobs \ {u}
    BY <1>2 DEF MemoryInv, VerdictInv, MemoryTypeOK, RevisionIds, JobOf
  <2> QED
    BY <2>1 DEF MemoryInv, VerdictInv, VerdictStands
<1>12. Grows
  BY <1>9 DEF MemoryInv, MemoryTypeOK, Grows
<1>13. ASSUME NEW d \in Connections \ {c} PROVE ConnectionInv(d)'
  <2>1. SameConnection(d)
    BY DEF Spares
  <2>2. ASSUME at[d] \in DOMAIN JobAt PROVE \E k \in Jobs : k = Upload(d) /\ Untouched(k)
    <3>1. PICK k \in Jobs : k = Upload(d)
      BY <2>2 DEF MemoryInv, UploadInv
    <3>2. k # u
      <4>1. Upload(d) = u => c = d \/ u = None
        BY DEF MemoryInv, OwnIds, Upload
      <4> QED
        BY <1>2, <3>1, <4>1, MemoryAssumption
    <3>3. Untouched(k)
      BY <1>5, <3>1, <3>2 DEF Untouched
    <3> QED
      BY <3>1, <3>3
  <2>3. \A j \in Jobs : Revises(j)
    BY DEF Revises
  <2> QED
    BY <1>12, <2>1, <2>2, <2>3, SparedKeeps
<1> QED
  BY <1>7, <1>8, <1>10, <1>11, <1>13 DEF SharedInv

(* The row of the upload is stored under the project that was found.         *)
LEMMA CreateUploadKeeps ==
  ASSUME MemoryInv, NEW c \in Connections, CreateUpload(c)
  PROVE  MemoryInv'
<1>1. StoreTypes /\ RunnerTypes /\ ConnectionTypes /\ ConnectionInv(c)
  BY Parts
<1>2. PICK u : u = Upload(c)
  OBVIOUS
<1>3. at[c] \in DOMAIN JobAt /\ AfterCall[at[c]] = "createJob" /\ "createJob" \in Calls
  BY UploadCalls DEF CreateUpload, AfterCall, Calls
<1>4. /\ u \in Jobs /\ jobs[u] = "none" /\ Unreleased(u) /\ pairs[u] = None
      /\ Known(req[c].subject)
  BY <1>1, <1>2, <1>3, UploadCalls, Zenon DEF ConnectionInv, UploadInv, CreateUpload
<1>5. Continue(c, "createJob")
  BY <1>3 DEF CreateUpload
<1>6. /\ ConnectionTypes' /\ Spares(c) /\ OwnIds'
      /\ at'[c] = "createJob" /\ req' = req /\ draft' = draft /\ code' = code
  BY <1>3, <1>5, ContinueKeeps
<1>7. /\ uploads' = [uploads EXCEPT ![u] = "created"] /\ home' = [home EXCEPT ![u] = req[c].subject]
      /\ UNCHANGED <<workspaces, projects, jobs, pairs, decisions, objects, queue, drawn, retries, runner>>
  BY <1>2 DEF CreateUpload
<1>8. StoreTypes' /\ RunnerTypes'
  BY <1>1, <1>4, <1>7 DEF StoreTypes, RunnerTypes, Known
<1>9. Known(home'[u]) /\ uploads'[u] = "created" /\ home'[u] = req[c].subject
  BY <1>1, <1>4, <1>7 DEF StoreTypes
<1>10. /\ \A j \in Jobs \ {u} : jobs'[j] = jobs[j] /\ uploads'[j] = uploads[j] /\ home'[j] = home[j]
       /\ \A k : Pushed(k)' => Pushed(k)
  BY <1>1, <1>7 DEF StoreTypes, Pushed
<1>11. SharedInv' /\ \A d \in Connections \ {c} : ConnectionInv(d)'
  BY <1>2, <1>3, <1>4, <1>6, <1>7, <1>9, <1>10, UploadStep
<1>12. Upload(c)' = u /\ Unreleased(u)' = Unreleased(u)
  BY <1>2, <1>6, <1>7 DEF Upload, Unreleased, Job
<1>13. Unreleased(Upload(c))'
  BY <1>4, <1>12 DEF Unreleased
<1>14. UploadInv(c)'
  BY <1>4, <1>6, <1>7, <1>9, <1>12, <1>13, UploadCalls DEF UploadInv, Known
<1>15. RequestInv(c)' /\ DraftInv(c)'
  BY <1>1, <1>6 DEF CreateUpload, ConnectionInv, RequestInv, DraftInv, Deciding
<1> QED
  BY <1>6, <1>8, <1>11, <1>14, <1>15, Whole DEF ConnectionInv

(* The image is stored.                                                      *)
LEMMA PutKeeps ==
  ASSUME MemoryInv, NEW c \in Connections, Put(c)
  PROVE  MemoryInv'
<1>1. StoreTypes /\ RunnerTypes /\ ConnectionTypes /\ ConnectionInv(c)
  BY Parts
<1>2. PICK u : u = Upload(c)
  OBVIOUS
<1>3. /\ at[c] \in DOMAIN JobAt /\ AfterCall[at[c]] = "markUploaded" /\ "markUploaded" \in Calls
      /\ JobAt[at[c]] = "created"
  BY UploadCalls DEF Put, AfterCall, Calls
<1>4. /\ u \in Jobs /\ jobs[u] = "created" /\ Unreleased(u) /\ pairs[u] = None
      /\ Known(req[c].subject) /\ uploads[u] # "none" /\ home[u] = req[c].subject
  BY <1>1, <1>2, <1>3, Zenon DEF ConnectionInv, UploadInv, Put
<1>5. Continue(c, "markUploaded")
  BY <1>3 DEF Put
<1>6. /\ at'[c] = "markUploaded" /\ req' = req /\ draft' = draft /\ code' = code
  BY <1>3, <1>5, ContinueKeeps
<1>7. /\ objects' = objects \cup {<<"image", u>>}
      /\ UNCHANGED <<workspaces, projects, uploads, home, jobs, pairs, decisions, queue, drawn, retries, runner>>
  BY <1>2 DEF Put
<1>8. StoreTypes' /\ RunnerTypes'
  BY <1>1, <1>4, <1>7 DEF StoreTypes, RunnerTypes
<1>9. Upload(c)' = u /\ Unreleased(u)' = Unreleased(u)
  BY <1>2, <1>6, <1>7 DEF Upload, Unreleased, Job
<1>10. Unreleased(Upload(c))'
  BY <1>4, <1>9 DEF Unreleased
<1>11. UploadInv(c)'
  BY <1>4, <1>6, <1>7, <1>9, <1>10, UploadCalls DEF UploadInv, Known
<1>12. RequestInv(c)' /\ DraftInv(c)'
  BY <1>1, <1>6 DEF Put, ConnectionInv, RequestInv, DraftInv, Deciding
<1> QED
  BY <1>3, <1>5, <1>7, <1>8, <1>11, <1>12, LookKeeps DEF ConnectionInv

(* The row of the upload is marked.                                          *)
LEMMA MarkUploadedKeeps ==
  ASSUME MemoryInv, NEW c \in Connections, MarkUploaded(c)
  PROVE  MemoryInv'
<1>1. StoreTypes /\ RunnerTypes /\ ConnectionTypes /\ ConnectionInv(c)
  BY Parts
<1>2. PICK u : u = Upload(c)
  OBVIOUS
<1>3. /\ at[c] \in DOMAIN JobAt /\ AfterCall[at[c]] = "toUploaded" /\ "toUploaded" \in Calls
      /\ JobAt[at[c]] = "created"
  BY UploadCalls DEF MarkUploaded, AfterCall, Calls
<1>4. /\ u \in Jobs /\ jobs[u] = "created" /\ Unreleased(u) /\ pairs[u] = None
      /\ Known(req[c].subject) /\ uploads[u] # "none" /\ home[u] = req[c].subject
  BY <1>1, <1>2, <1>3, Zenon DEF ConnectionInv, UploadInv, MarkUploaded
<1>5. Continue(c, "toUploaded")
  BY <1>3 DEF MarkUploaded
<1>6. /\ ConnectionTypes' /\ Spares(c) /\ OwnIds'
      /\ at'[c] = "toUploaded" /\ req' = req /\ draft' = draft /\ code' = code
  BY <1>3, <1>5, ContinueKeeps
<1>7. /\ uploads' = [uploads EXCEPT ![u] = "uploaded"]
      /\ UNCHANGED <<workspaces, projects, home, jobs, pairs, decisions, objects, queue, drawn, retries, runner>>
  BY <1>2 DEF MarkUploaded
<1>8. StoreTypes' /\ RunnerTypes'
  BY <1>1, <1>4, <1>7 DEF StoreTypes, RunnerTypes
<1>9. Known(home'[u]) /\ uploads'[u] = "uploaded" /\ home'[u] = req[c].subject
  BY <1>1, <1>4, <1>7 DEF StoreTypes
<1>10. /\ \A j \in Jobs \ {u} : jobs'[j] = jobs[j] /\ uploads'[j] = uploads[j] /\ home'[j] = home[j]
       /\ \A k : Pushed(k)' => Pushed(k)
  BY <1>1, <1>7 DEF StoreTypes, Pushed
<1>11. SharedInv' /\ \A d \in Connections \ {c} : ConnectionInv(d)'
  BY <1>2, <1>3, <1>4, <1>6, <1>7, <1>9, <1>10, UploadStep
<1>12. Upload(c)' = u /\ Unreleased(u)' = Unreleased(u)
  BY <1>2, <1>6, <1>7 DEF Upload, Unreleased, Job
<1>13. Unreleased(Upload(c))'
  BY <1>4, <1>12 DEF Unreleased
<1>14. UploadInv(c)'
  BY <1>4, <1>6, <1>7, <1>9, <1>12, <1>13, UploadCalls DEF UploadInv, Known
<1>15. RequestInv(c)' /\ DraftInv(c)'
  BY <1>1, <1>6 DEF MarkUploaded, ConnectionInv, RequestInv, DraftInv, Deciding
<1> QED
  BY <1>6, <1>8, <1>11, <1>14, <1>15, Whole DEF ConnectionInv

(* What a moved job is moved to, and the call after that.                    *)
LEMMA Moves ==
  /\ DOMAIN MoveTo = {"createJob", "toUploaded", "toQueued"}
  /\ MoveTo["createJob"] = "created" /\ AfterCall["createJob"] = "put"
  /\ MoveTo["toUploaded"] = "uploaded" /\ AfterCall["toUploaded"] = "toQueued"
  /\ MoveTo["toQueued"] = "queued" /\ AfterCall["toQueued"] = "enqueue"
  BY DEF MoveTo, AfterCall

(* The job is created and moved to queued by its handler alone.              *)
LEMMA MoveUploadedJobKeeps ==
  ASSUME MemoryInv, NEW c \in Connections, MoveUploadedJob(c)
  PROVE  MemoryInv'
<1>1. StoreTypes /\ RunnerTypes /\ ConnectionTypes /\ ConnectionInv(c)
  BY Parts
<1>2. PICK u : u = Upload(c)
  OBVIOUS
<1>3. PICK call : call = AfterCall[at[c]]
  OBVIOUS
<1>4. PICK to : to = MoveTo[at[c]]
  OBVIOUS
<1>5. /\ at[c] \in {"createJob", "toUploaded", "toQueued"} /\ at[c] \in DOMAIN JobAt
      /\ call \in {"put", "toQueued", "enqueue"} /\ call \in Calls /\ JobAt[call] = to
      /\ to \in {"created", "uploaded", "queued"}
  BY <1>3, <1>4, UploadCalls, Moves DEF MoveUploadedJob, Calls
<1>6. /\ u \in Jobs /\ Unreleased(u) /\ pairs[u] = None
      /\ Known(req[c].subject) /\ uploads[u] # "none" /\ home[u] = req[c].subject
  <2>1. at[c] \notin {"lookupProject", "createUpload"}
    BY <1>5
  <2> QED
    BY <1>1, <1>2, <1>5, <2>1, Zenon DEF ConnectionInv, UploadInv
<1>7. Continue(c, call)
  BY <1>3 DEF MoveUploadedJob
<1>8. /\ ConnectionTypes' /\ Spares(c) /\ OwnIds'
      /\ at'[c] = call /\ req' = req /\ draft' = draft /\ code' = code
  BY <1>5, <1>7, ContinueKeeps
<1>9. /\ jobs' = [jobs EXCEPT ![u] = to]
      /\ UNCHANGED <<workspaces, projects, uploads, home, pairs, decisions, objects, queue, drawn, retries, runner>>
  BY <1>2, <1>4 DEF MoveUploadedJob
<1>10. StoreTypes' /\ RunnerTypes'
  BY <1>1, <1>5, <1>6, <1>9 DEF StoreTypes, RunnerTypes
<1>11. Known(home'[u]) /\ jobs'[u] = to /\ uploads'[u] # "none" /\ home'[u] = req[c].subject
  BY <1>1, <1>6, <1>9 DEF StoreTypes
<1>12. /\ \A j \in Jobs \ {u} : jobs'[j] = jobs[j] /\ uploads'[j] = uploads[j] /\ home'[j] = home[j]
       /\ \A k : Pushed(k)' => Pushed(k)
  BY <1>1, <1>9 DEF StoreTypes, Pushed
<1>13. SharedInv' /\ \A d \in Connections \ {c} : ConnectionInv(d)'
  BY <1>2, <1>5, <1>8, <1>9, <1>11, <1>12, UploadStep
<1>14. Upload(c)' = u /\ Unreleased(u)' = Unreleased(u)
  BY <1>2, <1>8, <1>9 DEF Upload, Unreleased, Job
<1>15. Unreleased(Upload(c))'
  BY <1>6, <1>14 DEF Unreleased
<1>16. UploadInv(c)'
  BY <1>5, <1>6, <1>8, <1>9, <1>11, <1>14, <1>15 DEF UploadInv, Known
<1>17. RequestInv(c)' /\ DraftInv(c)'
  BY <1>1, <1>5, <1>8 DEF ConnectionInv, RequestInv, DraftInv, Deciding
<1> QED
  BY <1>8, <1>10, <1>13, <1>16, <1>17, Whole DEF ConnectionInv

(* The payload is pushed, and the handler lets go of the job.                *)
LEMMA EnqueueKeeps ==
  ASSUME MemoryInv, NEW c \in Connections, Enqueue(c)
  PROVE  MemoryInv'
<1>1. StoreTypes /\ RunnerTypes /\ ConnectionTypes /\ ConnectionInv(c)
  BY Parts
<1>2. PICK u : u = Upload(c)
  OBVIOUS
<1>3. at[c] \in DOMAIN JobAt /\ JobAt[at[c]] = "queued"
  BY UploadCalls DEF Enqueue
<1>4. /\ u \in Jobs /\ jobs[u] = "queued"
      /\ Known(req[c].subject) /\ uploads[u] # "none" /\ home[u] = req[c].subject
  BY <1>1, <1>2, <1>3, Zenon DEF ConnectionInv, UploadInv, Enqueue
<1>5. AnswerTo(c, req[c].deciding, 201) /\ 201 \in Answers
  BY DEF Enqueue, Answer, Answers
<1>6. ConnectionTypes' /\ Spares(c) /\ OwnIds' /\ ConnectionInv(c)'
  BY <1>5, AnswerKeeps
<1>7. /\ queue' = Append(queue, u)
      /\ UNCHANGED <<workspaces, projects, uploads, home, jobs, pairs, decisions, objects, drawn, retries, runner>>
  BY <1>2 DEF Enqueue
<1>8. queue' \in Seq(Jobs) /\ \A k : Pushed(k)' => Pushed(k) \/ k = u
  BY <1>1, <1>4, <1>7, Push DEF StoreTypes
<1>9. StoreTypes' /\ RunnerTypes'
  BY <1>1, <1>7, <1>8 DEF StoreTypes, RunnerTypes
<1>10. SharedInv' /\ \A d \in Connections \ {c} : ConnectionInv(d)'
  BY <1>2, <1>3, <1>4, <1>6, <1>7, <1>8, UploadStep
<1> QED
  BY <1>6, <1>9, <1>10, Whole

-----------------------------------------------------------------------------
(* A decision.                                                               *)
LEMMA GetDecisionKeeps ==
  ASSUME MemoryInv, NEW c \in Connections, GetDecision(c)
  PROVE  MemoryInv'
<1>1. ConnectionInv(c) /\ ConnectionTypes
  BY Parts
<1>2. CASE Answer(c, 409)
  BY <1>2, SameStore, LookKeeps DEF GetDecision, Answer, Answers
<1>3. CASE Continue(c, "getReviewable")
  <2>1. "getReviewable" \in Calls
    BY DEF Calls
  <2>2. at'[c] = "getReviewable" /\ req' = req /\ draft' = draft /\ code' = code
    BY <1>3, <2>1, ContinueKeeps
  <2>3. ConnectionInv(c)'
    BY <1>1, <2>2, UploadCalls
    DEF GetDecision, ConnectionInv, RequestInv, UploadInv, DraftInv, Deciding
  <2> QED
    BY <1>3, <2>1, <2>3, SameStore, LookKeeps DEF GetDecision
<1> QED
  BY <1>2, <1>3 DEF GetDecision

(* An identifier is drawn for a job that has a revision: the identifiers in  *)
(* the hands of its requests stay below the count.                           *)
LEMMA DrawStep ==
  ASSUME MemoryInv, NEW c \in Connections, Spares(c), UNCHANGED Rows, UNCHANGED repositories,
         drawn' \in [Jobs -> 0..MaxRevisions],
         \A k \in Jobs : drawn[k] <= drawn'[k] /\ (pairs[k] = None => drawn'[k] = drawn[k])
  PROVE  SharedInv' /\ \A d \in Connections \ {c} : ConnectionInv(d)'
<1>1. UNCHANGED <<workspaces, projects, uploads, home, jobs, pairs, decisions, queue, retries, runner>>
  BY DEF Rows, repositories
<1>2. \A k \in Jobs : drawn[k] \in Nat /\ drawn'[k] \in Nat
  BY DEF MemoryInv, MemoryTypeOK
<1>3. RunnerInv'
  <2>1. ASSUME NEW w \in Workers, runner[w].at \in Persisting
        PROVE  runner[w].no \in 1..drawn'[Job(w)]
    <3>1. Job(w) \in Jobs /\ pairs[Job(w)] = None /\ runner[w].no \in 1..drawn[Job(w)]
      <4>1. Job(w) \in Jobs \cup {None}
        BY DEF MemoryInv, MemoryTypeOK, Job
      <4>2. runner[w].at \notin {"down", "dequeue"}
        BY <2>1 DEF Persisting
      <4> QED
        BY <2>1, <4>1, <4>2 DEF MemoryInv, RunnerInv
    <3> QED
      BY <1>2, <3>1
  <2> QED
    BY <1>1, <2>1 DEF MemoryInv, RunnerInv, Working, Persists, Job
<1>4. PairInv'
  <2> SUFFICES ASSUME NEW j \in Jobs
               PROVE  /\ jobs'[j] \in {"none", "created", "uploaded"} => pairs'[j] = None /\ Unreleased(j)'
                      /\ pairs'[j] # None => /\ JobOf(pairs'[j].id) = j
                                             /\ pairs'[j].id[2] <= drawn'[j] /\ pairs'[j].version <= drawn'[j]
    BY DEF PairInv, Unreleased
  <2>1. jobs'[j] \in {"none", "created", "uploaded"} => pairs'[j] = None /\ Unreleased(j)'
    BY <1>1 DEF MemoryInv, PairInv, Unreleased, Job
  <2>2. ASSUME pairs[j] # None
        PROVE  JobOf(pairs[j].id) = j /\ pairs[j].id[2] <= drawn'[j] /\ pairs[j].version <= drawn'[j]
    <3>1. JobOf(pairs[j].id) = j /\ pairs[j].id[2] <= drawn[j] /\ pairs[j].version <= drawn[j]
      BY <2>2 DEF MemoryInv, PairInv
    <3>2. pairs[j].id[2] \in Nat /\ pairs[j].version \in Nat
      BY <2>2, MemoryAssumption DEF MemoryInv, MemoryTypeOK, Revision, RevisionIds
    <3> QED
      BY <1>2, <3>1, <3>2
  <2> QED
    BY <1>1, <2>1, <2>2
<1>5. NoOrphans' /\ VerdictInv'
  BY <1>1 DEF MemoryInv, NoOrphans, Known, VerdictInv, VerdictStands
<1>6. Grows
  BY <1>1, <1>2 DEF Grows, Known
<1>7. \A j \in Jobs : Untouched(j) /\ Revises(j)
  BY <1>1 DEF Untouched, Revises, Unreleased, Job
<1>8. ASSUME NEW d \in Connections \ {c} PROVE ConnectionInv(d)'
  <2>1. SameConnection(d)
    BY DEF Spares
  <2>2. at[d] \in DOMAIN JobAt => \E u \in Jobs : u = Upload(d) /\ Untouched(u)
    BY <1>7 DEF MemoryInv, UploadInv
  <2> QED
    BY <1>6, <1>7, <2>1, <2>2, SparedKeeps
<1> QED
  BY <1>3, <1>4, <1>5, <1>8 DEF SharedInv

(* A revision that differs from another in its status.                       *)
LEMMA Resolved ==
  ASSUME NEW p \in Revision, NEW s \in Settled
  PROVE  /\ [p EXCEPT !.status = s] \in Revision
         /\ [p EXCEPT !.status = s].status = s /\ [p EXCEPT !.status = s].id = p.id
         /\ [p EXCEPT !.status = s].project = p.project /\ [p EXCEPT !.status = s].version = p.version
  BY DEF Revision

(* What is drafted is the pending revision, resolved as the request asks.    *)
LEMMA DraftKeeps ==
  ASSUME MemoryInv, NEW c \in Connections, NEW call \in {"putSuccessor", "save"},
         NEW m \in Revision, draft' = [draft EXCEPT ![c] = m], Goto(c, call), req' = req
  PROVE  /\ ConnectionTypes' /\ Spares(c) /\ OwnIds'
         /\ at'[c] = call /\ draft'[c] = m /\ code' = code
<1>1. ConnectionTypes
  BY Parts
<1>2. call \in Calls
  BY DEF Calls
<1>3. ConnectionTypes' /\ Spares(c) /\ at'[c] = call /\ draft'[c] = m
  BY <1>1, <1>2 DEF Goto, ConnectionTypes, Spares, SameConnection
<1>4. OwnIds'
  BY DEF OwnIds, MemoryInv
<1> QED
  BY <1>3, <1>4 DEF Goto

(* A decision is drafted, refused or told it is late.                        *)
LEMMA GetReviewableKeeps ==
  ASSUME MemoryInv, NEW c \in Connections, GetReviewable(c)
  PROVE  MemoryInv'
<1>1. StoreTypes /\ RunnerTypes /\ ConnectionTypes /\ ConnectionInv(c)
  BY Parts
<1>2. PICK j : j = req[c].job
  OBVIOUS
<1>3. PICK p : p = pairs[j]
  OBVIOUS
<1>4. PICK f : f = Final(req[c].body.kind)
  OBVIOUS
<1>5. /\ at[c] = "getReviewable" /\ UNCHANGED <<repositories, retries, runner>>
      /\ \/ Answer(c, 404) /\ UNCHANGED drawn
         \/ Answer(c, 409) /\ UNCHANGED drawn
         \/ Answer(c, 400) /\ UNCHANGED drawn
         \/ /\ Reviewable(req[c].subject, j) /\ p.id = Reviewed(c)
            /\ req[c].body.spec = "valid" /\ drawn[j] < MaxRevisions
            /\ drawn' = [drawn EXCEPT ![j] = @ + 1]
            /\ draft' = [draft EXCEPT ![c] =
                 [[p EXCEPT !.status = f] EXCEPT !.id = <<j, drawn[j] + 1>>, !.version = @ + 1]]
            /\ Goto(c, "putSuccessor") /\ UNCHANGED req
         \/ /\ Reviewable(req[c].subject, j) /\ p.id = Reviewed(c) /\ ~Corrected(c)
            /\ draft' = [draft EXCEPT ![c] = [p EXCEPT !.status = f]]
            /\ Goto(c, "save") /\ UNCHANGED <<drawn, req>>
  BY <1>2, <1>3, <1>4, Zenon DEF GetReviewable
<1>6. j \in Jobs /\ req[c].body.kind \in {"approve", "reject"} /\ f \in Settled
  BY <1>1, <1>2, <1>4, <1>5 DEF ConnectionInv, DraftInv, Deciding, Final, Settled
<1>7. ASSUME NEW n \in Answers, Answer(c, n), UNCHANGED drawn
      PROVE  MemoryInv'
  BY <1>5, <1>7, SameStore, LookKeeps DEF Answer
<1>8. ASSUME Reviewable(req[c].subject, j)
      PROVE  p \in Revision /\ p # None /\ p.project = req[c].subject
  <2>1. p # None /\ p.project = req[c].subject
    BY <1>3, <1>8 DEF Reviewable
  <2> QED
    BY <1>1, <1>3, <1>6, <2>1 DEF StoreTypes
<1>9. ASSUME p # None
      PROVE  JobOf(p.id) = j /\ p.id[2] <= drawn[j] /\ p.version <= drawn[j]
  BY <1>3, <1>6, <1>9 DEF MemoryInv, PairInv
<1>10. drawn[j] \in 0..MaxRevisions
  BY <1>1, <1>6 DEF StoreTypes
<1>11. UNCHANGED Rows
  BY <1>5 DEF Rows, repositories
<1>12. CASE /\ Reviewable(req[c].subject, j) /\ p.id = Reviewed(c) /\ ~Corrected(c)
            /\ draft' = [draft EXCEPT ![c] = [p EXCEPT !.status = f]]
            /\ Goto(c, "save") /\ UNCHANGED <<drawn, req>>
  <2>1. PICK m : m = [p EXCEPT !.status = f]
    OBVIOUS
  <2>2. /\ m \in Revision /\ m.status = f /\ m.id = p.id
        /\ m.project = p.project /\ m.version = p.version
    BY <1>6, <1>8, <1>12, <2>1, Resolved
  <2>3. /\ ConnectionTypes' /\ Spares(c) /\ OwnIds'
        /\ at'[c] = "save" /\ draft'[c] = m /\ code' = code /\ req' = req /\ drawn' = drawn
    BY <1>12, <2>1, <2>2, DraftKeeps
  <2>4. StoreTypes' /\ RunnerTypes' /\ SharedInv' /\ \A d \in Connections \ {c} : ConnectionInv(d)'
    BY <1>5, <1>11, <2>3, SameTypes, QuietStep
  <2>5. pairs' = pairs /\ p # None
    BY <1>5, <1>8, <1>12 DEF repositories
  <2>6. m # None
    BY <2>2, MemoryAssumption
  <2>7. Corrected(c)' = Corrected(c) /\ Reviewed(c)' = Reviewed(c)
    BY <2>3 DEF Corrected, Reviewed
  <2>8. DraftInv(c)'
    BY <1>2, <1>3, <1>4, <1>6, <1>8, <1>9, <1>12, <2>2, <2>3, <2>5, <2>6, <2>7 DEF DraftInv, Deciding
  <2>9. RequestInv(c)' /\ UploadInv(c)'
    BY <1>1, <1>5, <2>3, UploadCalls DEF ConnectionInv, RequestInv, UploadInv, Deciding
  <2> QED
    BY <2>3, <2>4, <2>8, <2>9, Whole DEF ConnectionInv
<1>13. CASE /\ Reviewable(req[c].subject, j) /\ p.id = Reviewed(c)
            /\ req[c].body.spec = "valid" /\ drawn[j] < MaxRevisions
            /\ drawn' = [drawn EXCEPT ![j] = @ + 1]
            /\ draft' = [draft EXCEPT ![c] =
                 [[p EXCEPT !.status = f] EXCEPT !.id = <<j, drawn[j] + 1>>, !.version = @ + 1]]
            /\ Goto(c, "putSuccessor") /\ UNCHANGED req
  <2>1. PICK q : q = [p EXCEPT !.status = f]
    OBVIOUS
  <2>2. q \in Revision /\ q.status = f /\ q.project = p.project /\ q.version = p.version
    BY <1>6, <1>8, <1>13, <2>1, Resolved
  <2>3. PICK i : i = <<j, drawn[j] + 1>>
    OBVIOUS
  <2>4. PICK v : v = q.version + 1
    OBVIOUS
  <2>5. i \in RevisionIds /\ JobOf(i) = j /\ i[2] = drawn[j] + 1
    BY <1>6, <1>10, <1>13, <2>3, MemoryAssumption DEF RevisionIds, JobOf
  <2>6. v \in 1..MaxRevisions /\ v <= drawn[j] + 1
    <3>1. p.version \in 1..MaxRevisions /\ p.version <= drawn[j]
      BY <1>8, <1>9, <1>13 DEF Revision
    <3> QED
      BY <1>10, <1>13, <2>2, <2>4, <3>1, MemoryAssumption
  <2>7. PICK m : m = [q EXCEPT !.id = i, !.version = v]
    OBVIOUS
  <2>8. m \in Revision /\ m.status = f /\ m.id = i /\ m.project = req[c].subject /\ m.version = v
    <3>1. /\ [q EXCEPT !.id = i, !.version = v] \in Revision
          /\ [q EXCEPT !.id = i, !.version = v].status = q.status
          /\ [q EXCEPT !.id = i, !.version = v].id = i
          /\ [q EXCEPT !.id = i, !.version = v].project = q.project
          /\ [q EXCEPT !.id = i, !.version = v].version = v
      <4>1. q \in Revision /\ i \in RevisionIds /\ v \in 1..MaxRevisions
        BY <2>2, <2>5, <2>6
      <4> QED
        BY <4>1 DEF Revision
    <3> QED
      BY <1>8, <1>13, <2>2, <2>7, <3>1, Zenon
  <2>9. draft' = [draft EXCEPT ![c] = m]
    BY <1>13, <2>1, <2>3, <2>4, <2>7
  <2>10. /\ ConnectionTypes' /\ Spares(c) /\ OwnIds'
         /\ at'[c] = "putSuccessor" /\ draft'[c] = m /\ code' = code /\ req' = req
    BY <1>13, <2>8, <2>9, DraftKeeps
  <2>11. /\ drawn' \in [Jobs -> 0..MaxRevisions] /\ drawn'[j] = drawn[j] + 1
         /\ \A k \in Jobs : drawn[k] <= drawn'[k] /\ (pairs[k] = None => drawn'[k] = drawn[k])
    <3>1. pairs[j] # None
      BY <1>3, <1>8, <1>13
    <3>2. DOMAIN drawn = Jobs /\ \A k \in Jobs : drawn[k] \in 0..MaxRevisions
      BY <1>1 DEF StoreTypes
    <3>3. drawn[j] + 1 \in 0..MaxRevisions /\ drawn[j] <= drawn[j] + 1
      BY <1>10, <1>13, MemoryAssumption
    <3>4. drawn' \in [Jobs -> 0..MaxRevisions] /\ drawn'[j] = drawn[j] + 1
      BY <1>1, <1>6, <1>13, <3>3 DEF StoreTypes
    <3>5. \A k \in Jobs : k # j => drawn'[k] = drawn[k]
      BY <1>13, <3>2
    <3>6. \A k \in Jobs : drawn[k] <= drawn[k]
      BY <3>2
    <3> QED
      BY <3>1, <3>3, <3>4, <3>5, <3>6
  <2>12. SharedInv' /\ \A d \in Connections \ {c} : ConnectionInv(d)'
    BY <1>5, <1>11, <2>10, <2>11, DrawStep
  <2>13. StoreTypes' /\ RunnerTypes'
    BY <1>1, <1>5, <2>11 DEF StoreTypes, RunnerTypes, repositories
  <2>14. pairs' = pairs /\ p # None
    BY <1>5, <1>8, <1>13 DEF repositories
  <2>15. m # None
    BY <2>8, MemoryAssumption
  <2>16. Corrected(c)' /\ Reviewed(c)' = Reviewed(c)
    BY <1>13, <2>10 DEF Corrected, Reviewed
  <2>17. m.id[2] <= drawn'[j] /\ m.version <= drawn'[j] /\ JobOf(m.id) = j
    BY <1>10, <2>5, <2>6, <2>8, <2>11
  <2>18. DraftInv(c)'
    BY <1>2, <1>3, <1>4, <1>6, <1>8, <1>13, <2>8, <2>10, <2>14, <2>15, <2>16, <2>17 DEF DraftInv, Deciding
  <2>19. RequestInv(c)' /\ UploadInv(c)'
    BY <1>1, <1>5, <2>10, UploadCalls DEF ConnectionInv, RequestInv, UploadInv, Deciding
  <2> QED
    BY <2>10, <2>12, <2>13, <2>18, <2>19, Whole DEF ConnectionInv
<1> QED
  BY <1>5, <1>7, <1>12, <1>13 DEF Answers

(* The object of a successor is stored.                                      *)
LEMMA PutSuccessorKeeps ==
  ASSUME MemoryInv, NEW c \in Connections, PutSuccessor(c)
  PROVE  MemoryInv'
<1>1. StoreTypes /\ RunnerTypes /\ ConnectionTypes /\ ConnectionInv(c)
  BY Parts
<1>2. Continue(c, "save") /\ "save" \in Calls
  BY DEF PutSuccessor, Calls
<1>3. at'[c] = "save" /\ req' = req /\ draft' = draft /\ code' = code
  BY <1>2, ContinueKeeps
<1>4. draft[c] \in Revision
  BY <1>1 DEF PutSuccessor, ConnectionInv, DraftInv, ConnectionTypes
<1>5. StoreTypes' /\ RunnerTypes'
  <2>1. draft[c].id \in RevisionIds
    BY <1>4 DEF Revision
  <2>2. <<"circuit", draft[c].id>> \in {"extraction", "circuit"} \X RevisionIds
    BY <2>1
  <2> QED
    BY <1>1, <2>2 DEF StoreTypes, RunnerTypes, PutSuccessor
<1>6. UNCHANGED <<workspaces, projects, uploads, home, jobs, pairs, decisions, queue, drawn, retries, runner>>
  BY DEF PutSuccessor
<1>7. DraftInv(c)'
  <2>1. Corrected(c)' = Corrected(c) /\ Reviewed(c)' = Reviewed(c)
    BY <1>3 DEF Corrected, Reviewed
  <2> QED
    BY <1>1, <1>3, <1>6, <2>1 DEF PutSuccessor, ConnectionInv, DraftInv, Deciding
<1>8. RequestInv(c)' /\ UploadInv(c)'
  BY <1>1, <1>3, UploadCalls DEF PutSuccessor, ConnectionInv, RequestInv, UploadInv, Deciding
<1> QED
  BY <1>2, <1>5, <1>6, <1>7, <1>8, LookKeeps DEF ConnectionInv

(* The object of a refused successor is deleted.                             *)
LEMMA DropSuccessorKeeps ==
  ASSUME MemoryInv, NEW c \in Connections, DropSuccessor(c)
  PROVE  MemoryInv'
<1>1. StoreTypes /\ RunnerTypes /\ ConnectionInv(c)
  BY Parts
<1>2. AnswerTo(c, req[c].deciding, code[c]) /\ code[c] \in Answers
  BY <1>1 DEF DropSuccessor, Answer, Answers, ConnectionInv, RequestInv
<1>3. StoreTypes' /\ RunnerTypes'
  BY <1>1 DEF StoreTypes, RunnerTypes, DropSuccessor
<1>4. UNCHANGED <<workspaces, projects, uploads, home, jobs, pairs, decisions, queue, drawn, retries, runner>>
  BY DEF DropSuccessor
<1> QED
  BY <1>2, <1>3, <1>4, LookKeeps

(* A refused decision.                                                       *)
LEMMA SaveErrors ==
  ASSUME NEW c
  PROVE  /\ SaveError(c) \in {0, 404, 409, 500}
         /\ SaveError(c) = 0 <=> /\ StillPending(c) /\ StatusIs(req[c].job, "needs_review")
                                 /\ ~\E d \in decisions : d.reviewed = Reviewed(c)
         /\ SaveError(c) = 500 => ~\E d \in decisions : d.reviewed = Reviewed(c)
  BY DEF SaveError

(* A refused save changes no row.                                            *)
LEMMA RefusedSaveKeeps ==
  ASSUME MemoryInv, NEW c \in Connections, SaveDecision(c), SaveError(c) # 0
  PROVE  MemoryInv'
<1>1. ConnectionTypes /\ ConnectionInv(c)
  BY Parts
<1>2. PICK n : n = SaveError(c)
  OBVIOUS
<1>3. /\ at[c] = "save" /\ Abort(c, n) /\ n \in {404, 409, 500}
      /\ UNCHANGED <<repositories, drawn, retries, runner>>
  BY <1>2, SaveErrors DEF SaveDecision, repositories
<1>4. CASE ~Corrected(c)
  BY <1>3, <1>4, SameStore, LookKeeps DEF Abort, Answer, Answers
<1>5. CASE Corrected(c)
  <2>1. /\ at' = [at EXCEPT ![c] = "dropSuccessor"] /\ code' = [code EXCEPT ![c] = n]
        /\ req' = req /\ draft' = draft
    BY <1>3, <1>5 DEF Abort
  <2>2. /\ ConnectionTypes' /\ Spares(c) /\ at'[c] = "dropSuccessor" /\ code'[c] = n
    BY <1>1, <1>3, <2>1 DEF ConnectionTypes, Calls, Spares, SameConnection
  <2>3. OwnIds'
    BY <2>1 DEF OwnIds, MemoryInv
  <2>4. /\ StoreTypes' /\ RunnerTypes' /\ UNCHANGED Rows /\ drawn' = drawn
        /\ workspaces \subseteq workspaces' /\ \A p : Known(p) => Known(p)'
        /\ pairs' = pairs /\ decisions' = decisions
    BY <1>3, SameTypes DEF repositories
  <2>5. SharedInv' /\ \A d \in Connections \ {c} : ConnectionInv(d)'
    BY <2>2, <2>4, QuietStep
  <2>6. DraftInv(c)'
    <3>1. Corrected(c)' = Corrected(c) /\ Reviewed(c)' = Reviewed(c)
      BY <2>1 DEF Corrected, Reviewed
    <3> QED
      BY <1>1, <1>3, <1>5, <2>1, <2>2, <2>4, <3>1 DEF ConnectionInv, DraftInv, Deciding
  <2>7. RequestInv(c)' /\ UploadInv(c)'
    BY <1>1, <1>3, <2>1, <2>2, UploadCalls DEF ConnectionInv, RequestInv, UploadInv, Deciding
  <2> QED
    BY <2>2, <2>3, <2>4, <2>5, <2>6, <2>7, Whole DEF ConnectionInv
<1> QED
  BY <1>4, <1>5

(* A decision that is saved: nobody has decided on this job before, since    *)
(* its revision is pending, and no runner has it, since the job waits.       *)
LEMMA SavedDecision ==
  ASSUME MemoryInv, NEW c \in Connections, SaveDecision(c), SaveError(c) = 0,
         NEW j, j = req[c].job, NEW m, m = draft[c]
  PROVE  /\ j \in Jobs /\ jobs[j] = "needs_review"
         /\ pairs[j] # None /\ pairs[j].id = Reviewed(c) /\ pairs[j].status = "needs_review"
         /\ JobOf(Reviewed(c)) = j /\ Reviewed(c) \in RevisionIds
         /\ m \in Revision /\ m.status = Final(req[c].body.kind) /\ JobOf(m.id) = j
         /\ m.id[2] <= drawn[j] /\ m.version <= drawn[j]
         /\ m.project = req[c].subject /\ m.project = home[j]
         /\ req[c].body.kind \in {"approve", "reject"}
         /\ \A d \in decisions : JobOf(d.reviewed) # j
         /\ jobs' = [jobs EXCEPT ![j] = Final(req[c].body.kind)]
         /\ pairs' = [pairs EXCEPT ![j] = m]
         /\ decisions' = decisions \cup
              {[reviewed |-> Reviewed(c), resolved |-> m.id, kind |-> req[c].body.kind]}
         /\ AnswerTo(c, req[c].deciding, 200)
<1>1. ConnectionTypes /\ StoreTypes /\ DraftInv(c)
  BY Parts DEF ConnectionInv
<1>2. /\ at[c] = "save" /\ StillPending(c) /\ StatusIs(j, "needs_review")
  BY SaveErrors DEF SaveDecision
<1>3. /\ j \in Jobs /\ req[c].body.kind \in {"approve", "reject"}
      /\ m # None /\ m.status = Final(req[c].body.kind)
      /\ m.project = req[c].subject
      /\ JobOf(m.id) = j
      /\ m.id[2] <= drawn[j] /\ m.version <= drawn[j]
      /\ pairs[j] # None
  BY <1>1, <1>2 DEF DraftInv, Deciding
<1>4. m \in Revision
  BY <1>1, <1>3 DEF ConnectionTypes
<1>5. /\ jobs[j] = "needs_review" /\ pairs[j].id = Reviewed(c) /\ pairs[j].status = "needs_review"
      /\ pairs[j].project = m.project
  BY <1>2 DEF StillPending, StatusIs
<1>6. pairs[j] \in Revision /\ JobOf(pairs[j].id) = j /\ pairs[j].project = home[j]
  BY <1>1, <1>3 DEF StoreTypes, MemoryInv, PairInv, NoOrphans
<1>7. Reviewed(c) \in RevisionIds /\ JobOf(Reviewed(c)) = j
  BY <1>5, <1>6 DEF Revision
<1>8. \A d \in decisions : JobOf(d.reviewed) # j
  <2>1. \A d \in decisions : JobOf(d.reviewed) = j => pairs[j].status = Final(d.kind)
    BY DEF MemoryInv, VerdictInv, VerdictStands
  <2> QED
    BY <1>5, <2>1 DEF Final
<1>9. /\ jobs' = [jobs EXCEPT ![j] = StatusFromCircuit(m.status)] /\ pairs' = [pairs EXCEPT ![j] = m]
      /\ decisions' = decisions \cup
           {[reviewed |-> Reviewed(c), resolved |-> m.id, kind |-> req[c].body.kind]}
      /\ AnswerTo(c, req[c].deciding, 200)
  BY DEF SaveDecision, Answer
<1>10. StatusFromCircuit(m.status) = Final(req[c].body.kind)
  BY <1>3 DEF StatusFromCircuit, Final
<1> QED
  BY <1>1, <1>3, <1>4, <1>5, <1>6, <1>7, <1>8, <1>9, <1>10

(* A save moves job, revision and decision together.                         *)
LEMMA SavedDecisionKeeps ==
  ASSUME MemoryInv, NEW c \in Connections, SaveDecision(c), SaveError(c) = 0
  PROVE  MemoryInv'
<1>1. StoreTypes /\ RunnerTypes /\ ConnectionTypes
  BY Parts
<1>2. PICK j : j = req[c].job
  OBVIOUS
<1>3. PICK m : m = draft[c]
  OBVIOUS
<1>4. PICK f : f = Final(req[c].body.kind)
  OBVIOUS
<1>5. PICK e : e = [reviewed |-> Reviewed(c), resolved |-> m.id, kind |-> req[c].body.kind]
  OBVIOUS
<1>6. /\ j \in Jobs /\ jobs[j] = "needs_review"
      /\ pairs[j] # None /\ pairs[j].id = Reviewed(c)
      /\ m \in Revision /\ m.status = f /\ JobOf(m.id) = j
      /\ m.id[2] <= drawn[j] /\ m.version <= drawn[j] /\ m.project = home[j]
      /\ \A d \in decisions : JobOf(d.reviewed) # j
      /\ jobs' = [jobs EXCEPT ![j] = f] /\ pairs' = [pairs EXCEPT ![j] = m]
      /\ decisions' = decisions \cup {e}
  BY <1>2, <1>3, <1>4, <1>5, SavedDecision
<1>7. /\ e \in [reviewed : RevisionIds, resolved : RevisionIds, kind : {"approve", "reject"}]
      /\ JobOf(e.reviewed) = j /\ e.resolved = m.id /\ Final(e.kind) = f
      /\ e.reviewed = Reviewed(c)
  BY <1>2, <1>3, <1>4, <1>5, SavedDecision DEF Revision
<1>8. f \in {"ready", "failed"}
  BY <1>4 DEF Final
<1>9. AnswerTo(c, req[c].deciding, 200) /\ 200 \in Answers
  BY <1>2, <1>3, SavedDecision DEF Answers
<1>10. ConnectionTypes' /\ Spares(c) /\ OwnIds' /\ ConnectionInv(c)'
  BY <1>9, AnswerKeeps
<1>11. UNCHANGED <<workspaces, projects, uploads, home, objects, queue, drawn, retries, runner>>
  BY DEF SaveDecision
<1>12. StoreTypes' /\ RunnerTypes'
  BY <1>1, <1>6, <1>7, <1>8, <1>11 DEF StoreTypes, RunnerTypes, Settled
<1>13. m # None
  BY <1>6, MemoryAssumption
<1>14. DOMAIN jobs = Jobs /\ DOMAIN pairs = Jobs
  BY <1>1 DEF StoreTypes
<1>15. RunnerInv'
  <2>1. \A w \in Workers : Working(w) => Job(w) \in Jobs \ {j} /\ Working(w)' /\ Job(w)' = Job(w)
    <3>1. \A w \in Workers : Working(w) => Job(w) # None /\ Job(w) # j
      BY <1>6 DEF Working, MemoryInv, RunnerInv, Work, Persisting
    <3> QED
      BY <1>1, <1>11, <3>1 DEF RunnerTypes, Job, Working
  <2>2. \A w \in Workers : Job(w)' = Job(w) /\ Working(w)' = Working(w)
    BY <1>11 DEF Job, Working
  <2>3. \A k \in Jobs : Persists(k)' = Persists(k)
    BY <1>11 DEF Persists, Job
  <2>4. \A k \in Jobs : pairs'[k] = None => pairs[k] = None
    BY <1>6, <1>13, <1>14
  <2>5. \A k \in Jobs \ {j} : jobs'[k] = jobs[k] /\ pairs'[k] = pairs[k]
    BY <1>6, <1>14
  <2>6. \A w \in Workers : runner[w].at \in Persisting \cup {"complete"} => Working(w)
    BY DEF Working, Work
  <2>7. ASSUME NEW w \in Workers
        PROVE  /\ runner[w].at \in {"down", "dequeue"} <=> Job(w) = None
               /\ Working(w) => jobs'[Job(w)] = "extracting"
               /\ runner[w].at \in Persisting => pairs'[Job(w)] = None /\ runner[w].no \in 1..drawn[Job(w)]
               /\ runner[w].at \in {"persistCheck"} \cup Persisting => runner[w].status # "none"
               /\ runner[w].at = "complete" =>
                    pairs'[Job(w)] # None /\ pairs'[Job(w)].status = runner[w].status
    <3>1. CASE Working(w)
      BY <2>1, <2>5, <3>1 DEF MemoryInv, RunnerInv
    <3>2. CASE ~Working(w)
      BY <2>6, <3>2 DEF MemoryInv, RunnerInv
    <3> QED
      BY <3>1, <3>2
  <2> QED
    BY <1>11, <2>2, <2>3, <2>4, <2>7 DEF MemoryInv, RunnerInv
<1>16. PairInv'
  <2>1. \A k \in Jobs : Unreleased(k)' = Unreleased(k)
    BY <1>11 DEF Unreleased, Job
  <2> SUFFICES ASSUME NEW k \in Jobs
               PROVE  /\ jobs'[k] \in {"none", "created", "uploaded"} => pairs'[k] = None /\ Unreleased(k)
                      /\ pairs'[k] # None => /\ JobOf(pairs'[k].id) = k
                                             /\ pairs'[k].id[2] <= drawn[k] /\ pairs'[k].version <= drawn[k]
    BY <1>11, <2>1 DEF PairInv
  <2>2. CASE k = j
    BY <1>6, <1>8, <1>14, <2>2
  <2>3. CASE k # j
    BY <1>6, <1>14, <2>3 DEF MemoryInv, PairInv
  <2> QED
    BY <2>2, <2>3
<1>17. NoOrphans'
  <2> SUFFICES ASSUME NEW k \in Jobs
               PROVE  /\ uploads[k] # "none" => Known(home[k])
                      /\ jobs'[k] # "none" => uploads[k] # "none"
                      /\ pairs'[k] # None => pairs'[k].project = home[k]
    BY <1>11 DEF NoOrphans, Known
  <2>1. CASE k = j
    BY <1>6, <1>14, <2>1 DEF MemoryInv, NoOrphans
  <2>2. CASE k # j
    BY <1>6, <1>14, <2>2 DEF MemoryInv, NoOrphans
  <2> QED
    BY <2>1, <2>2
<1>18. VerdictInv'
  <2>1. \A d \in decisions : JobOf(d.reviewed) \in Jobs \ {j}
    BY <1>1, <1>6 DEF StoreTypes, RevisionIds, JobOf
  <2>2. \A d \in decisions : LET k == JobOf(d.reviewed) IN pairs'[k] = pairs[k] /\ jobs'[k] = jobs[k]
    BY <1>6, <1>14, <2>1
  <2>3. pairs'[j] = m /\ jobs'[j] = f
    BY <1>6, <1>14
  <2>4. VerdictStands'
    <3> SUFFICES ASSUME NEW d \in decisions', NEW k, k = JobOf(d.reviewed)
                 PROVE  /\ pairs'[k].id = d.resolved /\ pairs'[k].status = Final(d.kind)
                        /\ \/ jobs'[k] = Final(d.kind)
                           \/ retries > 0 /\ jobs'[k] \in {"queued", "extracting", "failed"}
      BY <1>11 DEF VerdictStands
    <3>1. CASE d = e
      BY <1>6, <1>7, <2>3, <3>1
    <3>2. CASE d \in decisions
      BY <2>2, <3>2 DEF MemoryInv, VerdictInv, VerdictStands
    <3> QED
      BY <1>6, <3>1, <3>2
  <2>5. \A d \in decisions' : pairs'[JobOf(d.reviewed)] # None
    BY <1>6, <1>7, <1>13, <2>2, <2>3 DEF MemoryInv, VerdictInv
  <2>6. \A d, g \in decisions' : JobOf(d.reviewed) = JobOf(g.reviewed) => d = g
    BY <1>6, <1>7, <2>1 DEF MemoryInv, VerdictInv
  <2> QED
    BY <2>4, <2>5, <2>6 DEF VerdictInv
<1>19. Grows
  BY <1>6, <1>11 DEF MemoryInv, MemoryTypeOK, Grows, Known
<1>20. ASSUME NEW d \in Connections \ {c} PROVE ConnectionInv(d)'
  <2>1. SameConnection(d)
    BY <1>10 DEF Spares
  <2>2. ASSUME at[d] \in DOMAIN JobAt PROVE \E u \in Jobs : u = Upload(d) /\ Untouched(u)
    <3>1. PICK u \in Jobs : u = Upload(d) /\ jobs[u] = JobAt[at[d]]
      BY <2>2 DEF MemoryInv, UploadInv
    <3>2. u # j
      BY <1>6, <2>2, <3>1, UploadCalls
    <3>3. Unreleased(u)' = Unreleased(u)
      BY <1>11 DEF Unreleased, Job
    <3>4. Untouched(u)
      BY <1>6, <1>11, <1>14, <3>2, <3>3 DEF Untouched
    <3> QED
      BY <3>1, <3>4
  <2>3. \A k \in Jobs : Revises(k)
    <3> SUFFICES ASSUME NEW k \in Jobs PROVE Revises(k)
      OBVIOUS
    <3>1. CASE k = j
      BY <1>6, <1>7, <1>13, <1>14, <3>1 DEF Revises
    <3>2. CASE k # j
      BY <1>6, <1>14, <3>2 DEF Revises
    <3> QED
      BY <3>1, <3>2
  <2> QED
    BY <1>19, <2>1, <2>2, <2>3, SparedKeeps
<1> QED
  BY <1>10, <1>12, <1>15, <1>16, <1>17, <1>18, <1>20, Whole DEF SharedInv

(* Saved or refused, the invariant is kept.                                  *)
LEMMA SaveDecisionKeeps ==
  ASSUME MemoryInv, NEW c \in Connections, SaveDecision(c)
  PROVE  MemoryInv'
  BY RefusedSaveKeeps, SavedDecisionKeeps

(* Every step of a connection.                                               *)
LEMMA ServeKeeps ==
  ASSUME MemoryInv, NEW c \in Connections, Serve(c)
  PROVE  MemoryInv'
  BY ReceiveKeeps, QuietRelease, CreateWorkspaceKeeps, GetWorkspaceKeeps, CreateProjectKeeps,
     LookupKeeps, CreateUploadKeeps, PutKeeps, MarkUploadedKeeps, MoveUploadedJobKeeps,
     EnqueueKeeps, GetDecisionKeeps, GetReviewableKeeps, PutSuccessorKeeps, SaveDecisionKeeps,
     DropSuccessorKeeps DEF Serve
-----------------------------------------------------------------------------
(* A runner: what holds of one, and what a step of another leaves of it.     *)
RunnerHas(w) ==
  /\ runner[w].at \in {"down", "dequeue"} <=> Job(w) = None
  /\ Working(w) => jobs[Job(w)] = "extracting"
  /\ runner[w].at \in Persisting => pairs[Job(w)] = None /\ runner[w].no \in 1..drawn[Job(w)]
  /\ runner[w].at \in {"persistCheck"} \cup Persisting => runner[w].status # "none"
  /\ runner[w].at = "complete" =>
       pairs[Job(w)] # None /\ pairs[Job(w)].status = runner[w].status

(* The invariant of the runners by what each of them has.                    *)
LEMMA RunnerParts ==
  /\ RunnerInv <=> /\ \A w \in Workers : RunnerHas(w)
                   /\ \A v, w \in Workers : Working(v) /\ Working(w) /\ Job(v) = Job(w) => v = w
                   /\ \A j \in Jobs : pairs[j] = None /\ ~Persists(j) => drawn[j] = 0
  /\ RunnerInv' <=> /\ \A w \in Workers : RunnerHas(w)'
                    /\ \A v, w \in Workers : Working(v)' /\ Working(w)' /\ Job(v)' = Job(w)' => v = w
                    /\ \A j \in Jobs : pairs'[j] = None /\ ~Persists(j)' => drawn'[j] = 0
  BY DEF RunnerInv, RunnerHas

(* A runner past its dequeue holds a job, and one at work an extracting one. *)
LEMMA Holding ==
  ASSUME MemoryInv, NEW w \in Workers
  PROVE  /\ runner[w].at \notin {"down", "dequeue"} => Job(w) \in Jobs
         /\ Job(w) \in Jobs \cup {None}
         /\ Working(w) => Job(w) \in Jobs /\ jobs[Job(w)] = "extracting"
<1>1. RunnerHas(w) /\ Job(w) \in Jobs \cup {None}
  BY RunnerParts DEF MemoryInv, MemoryTypeOK, Job
<1>2. runner[w].at \notin {"down", "dequeue"} => Job(w) \in Jobs
  BY <1>1 DEF RunnerHas
<1>3. Working(w) => runner[w].at \notin {"down", "dequeue"}
  BY DEF Working, Work, Persisting
<1> QED
  BY <1>1, <1>2, <1>3 DEF RunnerHas

(* A runner whose job is left alone keeps what it has.                       *)
LEMMA OtherRunner ==
  ASSUME MemoryInv, NEW v \in Workers, runner'[v] = runner[v],
         Working(v) => jobs'[Job(v)] = jobs[Job(v)] /\ pairs'[Job(v)] = pairs[Job(v)],
         \A k \in Jobs : drawn'[k] \in Nat /\ drawn[k] <= drawn'[k]
  PROVE  RunnerHas(v)'
<1>1. RunnerHas(v)
  BY RunnerParts DEF MemoryInv
<1>2. Job(v)' = Job(v) /\ Working(v)' = Working(v)
  BY DEF Job, Working
<1>3. runner[v].at \in Persisting \cup {"complete"} => Working(v)
  BY DEF Working, Work
<1>4. PICK k : k = Job(v)
  OBVIOUS
<1>5. Working(v) => k \in Jobs
  BY <1>4, Holding
<1>6. runner[v].at \in Persisting => runner[v].no \in 1..drawn'[k]
  <2>1. SUFFICES ASSUME runner[v].at \in Persisting PROVE runner[v].no \in 1..drawn'[k]
    OBVIOUS
  <2>2. k \in Jobs /\ runner[v].no \in 1..drawn[k]
    BY <1>1, <1>3, <1>4, <1>5, <2>1 DEF RunnerHas
  <2>3. drawn[k] \in Nat /\ drawn'[k] \in Nat /\ drawn[k] <= drawn'[k]
    BY <2>2 DEF MemoryInv, MemoryTypeOK
  <2> QED
    BY <2>2, <2>3
<1> QED
  BY <1>1, <1>2, <1>3, <1>4, <1>6 DEF RunnerHas

(* Connections do not notice what a runner does.                             *)
LEMMA RunnerSpares ==
  ASSUME MemoryInv, NEW w \in Workers,
         UNCHANGED <<workspaces, projects, uploads, home, decisions, retries, connections>>,
         \A k \in Jobs : drawn'[k] \in Nat /\ drawn[k] <= drawn'[k],
         \A k : Pushed(k)' => Pushed(k),
         \A v \in Workers \ {w} : runner'[v] = runner[v],
         runner'[w].job \in {None, Job(w)} \/ Pushed(runner'[w].job),
         \A k \in Jobs : k # Job(w) => jobs'[k] = jobs[k] /\ pairs'[k] = pairs[k],
         \A k \in Jobs : Revises(k)
  PROVE  /\ ConnectionTypes' /\ OwnIds' /\ \A d \in Connections : ConnectionInv(d)'
         /\ \A k \in Jobs : Unreleased(k) => Unreleased(k)'
<1>1. UNCHANGED <<at, req, draft, code>>
  BY DEF connections
<1>2. ConnectionTypes' /\ OwnIds'
  BY <1>1, Parts DEF ConnectionTypes, OwnIds
<1>3. ASSUME NEW k \in Jobs, Unreleased(k) PROVE Unreleased(k)' /\ k # Job(w)
  <2>1. ~Pushed(k) /\ \A v \in Workers : Job(v) # k
    BY <1>3, UnreleasedMeans
  <2>2. ~Pushed(k)'
    BY <2>1
  <2>3. \A v \in Workers \ {w} : Job(v)' # k
    BY <2>1 DEF Job
  <2>4. Job(w)' # k
    BY <2>1, MemoryAssumption DEF Job
  <2> QED
    BY <2>1, <2>2, <2>3, <2>4 DEF Unreleased, Pushed
<1>4. Grows
  BY DEF Grows, Known
<1>5. ASSUME NEW d \in Connections PROVE ConnectionInv(d)'
  <2>1. SameConnection(d)
    BY <1>1 DEF SameConnection
  <2>2. ASSUME at[d] \in DOMAIN JobAt PROVE \E u \in Jobs : u = Upload(d) /\ Untouched(u)
    <3>1. Upload(d) \in Jobs /\ Unreleased(Upload(d))
      BY <2>2 DEF MemoryInv, UploadInv
    <3>2. PICK u \in Jobs : u = Upload(d)
      BY <3>1
    <3>3. Unreleased(u)
      BY <3>1, <3>2, Zenon
    <3>4. Unreleased(u)' /\ u # Job(w)
      BY <1>3, <3>3
    <3>5. Untouched(u)
      BY <3>4 DEF Untouched
    <3> QED
      BY <3>2, <3>5
  <2> QED
    BY <1>4, <2>1, <2>2, SparedKeeps
<1> QED
  BY <1>2, <1>3, <1>5

RunnerStates == [at : {"down", "dequeue", "claim"} \cup Work, job : Jobs \cup {None},
                 status : {"none"} \cup Settled, no : 0..MaxRevisions]

(* The whole invariant after a step of a runner.                             *)
LEMMA WholeRunner ==
  ASSUME StoreTypes', RunnerTypes', ConnectionTypes', SharedInv', OwnIds',
         \A d \in Connections : ConnectionInv(d)'
  PROVE  MemoryInv'
<1>1. \A d \in Connections : RequestInv(d)' /\ UploadInv(d)' /\ DraftInv(d)'
  BY DEF ConnectionInv
<1> QED
  BY <1>1 DEF MemoryInv, MemoryTypeOK, StoreTypes, RunnerTypes, ConnectionTypes, SharedInv

(* A call that changes no row: the runner only gets further.                 *)
LEMMA RunnerMoves ==
  ASSUME MemoryInv, NEW w \in Workers, NEW r \in RunnerStates,
         UNCHANGED <<workspaces, projects, uploads, home, jobs, pairs, decisions, queue, drawn, retries, connections>>,
         runner' = [runner EXCEPT ![w] = r], r.job = Job(w), StoreTypes',
         r.at \in Work => Working(w),
         r.at \in Persisting <=> runner[w].at \in Persisting,
         RunnerHas(w)'
  PROVE  MemoryInv'
<1>1. RunnerTypes /\ DOMAIN runner = Workers
  BY Parts DEF RunnerTypes
<1>2. runner'[w] = r /\ \A v \in Workers \ {w} : runner'[v] = runner[v]
  BY <1>1
<1>3. RunnerTypes'
  BY <1>1 DEF RunnerTypes, RunnerStates
<1>4. \A k \in Jobs : drawn'[k] \in Nat /\ drawn[k] <= drawn'[k]
  BY DEF MemoryInv, MemoryTypeOK
<1>5. \A k : Pushed(k)' => Pushed(k)
  BY DEF Pushed
<1>6. \A k \in Jobs : Revises(k)
  BY DEF Revises
<1>7. /\ ConnectionTypes' /\ OwnIds' /\ \A d \in Connections : ConnectionInv(d)'
      /\ \A k \in Jobs : Unreleased(k) => Unreleased(k)'
  BY <1>2, <1>4, <1>5, <1>6, RunnerSpares
<1>8. RunnerInv'
  <2>1. \A v \in Workers : RunnerHas(v)'
    BY <1>2, <1>4, OtherRunner
  <2>2. \A v \in Workers : Job(v)' = Job(v) /\ (Working(v)' => Working(v))
    BY <1>2 DEF Job, Working
  <2>3. \A v \in Workers : runner'[v].at \in Persisting <=> runner[v].at \in Persisting
    BY <1>2
  <2>4. \A k \in Jobs : Persists(k)' <=> Persists(k)
    BY <2>2, <2>3 DEF Persists
  <2> QED
    BY <2>1, <2>2, <2>4, RunnerParts DEF MemoryInv
<1>9. PairInv' /\ NoOrphans' /\ VerdictInv'
  BY <1>7 DEF MemoryInv, PairInv, NoOrphans, Known, VerdictInv, VerdictStands
<1> QED
  BY <1>3, <1>7, <1>8, <1>9, WholeRunner DEF SharedInv

(* The record of a runner that makes another call.                           *)
LEMMA Steps ==
  ASSUME RunnerTypes, NEW w \in Workers
  PROVE  /\ runner[w] \in RunnerStates /\ DOMAIN runner = Workers
         /\ \A call \in {"down", "dequeue", "claim"} \cup Work :
              /\ [runner[w] EXCEPT !.at = call] \in RunnerStates
              /\ [runner[w] EXCEPT !.at = call].at = call
              /\ [runner[w] EXCEPT !.at = call].job = runner[w].job
              /\ [runner[w] EXCEPT !.at = call].status = runner[w].status
              /\ [runner[w] EXCEPT !.at = call].no = runner[w].no
              /\ Run(w, call) => runner' = [runner EXCEPT ![w] = [runner[w] EXCEPT !.at = call]]
<1>1. runner[w] \in RunnerStates /\ DOMAIN runner = Workers
  BY DEF RunnerTypes, RunnerStates
<1> QED
  BY <1>1 DEF RunnerStates, Run

(* A runner starts.                                                          *)
LEMMA StartRunnerKeeps ==
  ASSUME MemoryInv, NEW w \in Workers, StartRunner(w)
  PROVE  MemoryInv'
<1>1. StoreTypes /\ RunnerTypes /\ RunnerHas(w)
  BY Parts, RunnerParts DEF MemoryInv
<1>2. PICK r : r = [runner[w] EXCEPT !.at = "dequeue"]
  OBVIOUS
<1>3. /\ r \in RunnerStates /\ r.at = "dequeue" /\ r.job = Job(w)
      /\ runner' = [runner EXCEPT ![w] = r] /\ runner'[w] = r
  BY <1>1, <1>2, Steps DEF StartRunner, Job
<1>4. UNCHANGED <<workspaces, projects, uploads, home, jobs, pairs, decisions, objects, queue, drawn, retries, connections>>
  BY DEF StartRunner, repositories
<1>5. StoreTypes'
  BY <1>1, <1>4 DEF StoreTypes
<1>6. RunnerHas(w)'
  BY <1>1, <1>3 DEF StartRunner, RunnerHas, Working, Work, Persisting, Job
<1> QED
  BY <1>3, <1>4, <1>5, <1>6, RunnerMoves DEF StartRunner, Work, Persisting

(* The row of the upload is looked up.                                       *)
LEMMA GetUploadKeeps ==
  ASSUME MemoryInv, NEW w \in Workers, GetUpload(w)
  PROVE  MemoryInv'
<1>1. StoreTypes /\ RunnerTypes /\ RunnerHas(w)
  BY Parts, RunnerParts DEF MemoryInv
<1>2. PICK call \in {"getObject", "fail"} : Run(w, call)
  BY DEF GetUpload
<1>3. PICK r : r = [runner[w] EXCEPT !.at = call]
  OBVIOUS
<1>4. /\ r \in RunnerStates /\ r.at = call /\ r.job = Job(w) /\ r.status = runner[w].status
      /\ runner' = [runner EXCEPT ![w] = r] /\ runner'[w] = r
  BY <1>1, <1>2, <1>3, Steps DEF Work, Job
<1>5. UNCHANGED <<workspaces, projects, uploads, home, jobs, pairs, decisions, objects, queue, drawn, retries, connections>>
  BY DEF GetUpload, repositories
<1>6. StoreTypes'
  BY <1>1, <1>5 DEF StoreTypes
<1>7. runner[w].at = "getUpload" /\ Working(w)
  BY DEF GetUpload, Working, Work
<1>8. RunnerHas(w)'
  BY <1>1, <1>4, <1>5, <1>7 DEF RunnerHas, Working, Work, Persisting, Job
<1> QED
  BY <1>4, <1>5, <1>6, <1>7, <1>8, RunnerMoves DEF Persisting

(* The image is read.                                                        *)
LEMMA GetObjectKeeps ==
  ASSUME MemoryInv, NEW w \in Workers, GetObject(w)
  PROVE  MemoryInv'
<1>1. StoreTypes /\ RunnerTypes /\ RunnerHas(w)
  BY Parts, RunnerParts DEF MemoryInv
<1>2. PICK call \in {"extract", "fail"} : Run(w, call)
  BY DEF GetObject
<1>3. PICK r : r = [runner[w] EXCEPT !.at = call]
  OBVIOUS
<1>4. /\ r \in RunnerStates /\ r.at = call /\ r.job = Job(w) /\ r.status = runner[w].status
      /\ runner' = [runner EXCEPT ![w] = r] /\ runner'[w] = r
  BY <1>1, <1>2, <1>3, Steps DEF Work, Job
<1>5. UNCHANGED <<workspaces, projects, uploads, home, jobs, pairs, decisions, objects, queue, drawn, retries, connections>>
  BY DEF GetObject, repositories
<1>6. StoreTypes'
  BY <1>1, <1>5 DEF StoreTypes
<1>7. runner[w].at = "getObject" /\ Working(w)
  BY DEF GetObject, Working, Work
<1>8. RunnerHas(w)'
  BY <1>1, <1>4, <1>5, <1>7 DEF RunnerHas, Working, Work, Persisting, Job
<1> QED
  BY <1>4, <1>5, <1>6, <1>7, <1>8, RunnerMoves DEF Persisting

(* The provider answers, or fails.                                           *)
LEMMA ExtractKeeps ==
  ASSUME MemoryInv, NEW w \in Workers, Extract(w)
  PROVE  MemoryInv'
<1>1. StoreTypes /\ RunnerTypes /\ RunnerHas(w)
  BY Parts, RunnerParts DEF MemoryInv
<1>2. PICK r : runner' = [runner EXCEPT ![w] = r] /\ r \in RunnerStates /\ r.job = Job(w)
               /\ (r.at = "fail" \/ (r.at = "persistCheck" /\ r.status # "none"))
  <2>1. CASE Run(w, "fail")
    <3>1. PICK r : r = [runner[w] EXCEPT !.at = "fail"]
      OBVIOUS
    <3>2. "fail" \in Work
      BY DEF Work
    <3>3. r \in RunnerStates /\ r.at = "fail" /\ r.job = Job(w) /\ runner' = [runner EXCEPT ![w] = r]
      BY <1>1, <2>1, <3>1, <3>2, Steps DEF Job
    <3> QED
      BY <3>3
  <2>2. ASSUME NEW s \in DecidedStatuses,
               runner' = [runner EXCEPT ![w].at = "persistCheck", ![w].status = s]
        PROVE  \E r : /\ runner' = [runner EXCEPT ![w] = r] /\ r \in RunnerStates /\ r.job = Job(w)
                      /\ r.at = "persistCheck" /\ r.status # "none"
    <3>1. PICK r : r = [runner[w] EXCEPT !.at = "persistCheck", !.status = s]
      OBVIOUS
    <3>2. s \in Settled /\ s # "none" /\ "persistCheck" \in Work
      BY <2>2 DEF DecidedStatuses, Settled, Work
    <3>3. r \in RunnerStates /\ r.job = Job(w) /\ r.at = "persistCheck" /\ r.status = s
      BY <1>1, <3>1, <3>2, Steps DEF RunnerStates, Job
    <3>4. runner' = [runner EXCEPT ![w] = r]
      BY <1>1, <2>2, <3>1, Steps
    <3> QED
      BY <3>2, <3>3, <3>4
  <2> QED
    BY <2>1, <2>2 DEF Extract
<1>3. runner'[w] = r
  BY <1>1, <1>2, Steps
<1>4. UNCHANGED <<workspaces, projects, uploads, home, jobs, pairs, decisions, objects, queue, drawn, retries, connections>>
  BY DEF Extract, repositories
<1>5. StoreTypes'
  BY <1>1, <1>4 DEF StoreTypes
<1>6. runner[w].at = "extract" /\ Working(w)
  BY DEF Extract, Working, Work
<1>7. RunnerHas(w)'
  BY <1>1, <1>2, <1>3, <1>4, <1>6 DEF RunnerHas, Working, Work, Persisting, Job
<1> QED
  BY <1>2, <1>4, <1>5, <1>6, <1>7, RunnerMoves DEF Persisting

(* An object of the new revision is stored.                                  *)
LEMMA PutArtifactKeeps ==
  ASSUME MemoryInv, NEW w \in Workers, PutExtraction(w) \/ PutCircuit(w)
  PROVE  MemoryInv'
<1>1. StoreTypes /\ RunnerTypes /\ RunnerHas(w)
  BY Parts, RunnerParts DEF MemoryInv
<1>2. PICK call \in {"putCircuit", "save"}, kind \in {"extraction", "circuit"} :
        /\ Run(w, call) /\ objects' = objects \cup {<<kind, RevisionOf(w)>>}
        /\ runner[w].at \in {"putExtraction", "putCircuit"}
        /\ UNCHANGED <<workspaces, projects, uploads, home, jobs, pairs, decisions, queue, drawn, retries, connections>>
  BY DEF PutExtraction, PutCircuit, PutArtifact
<1>3. PICK r : r = [runner[w] EXCEPT !.at = call]
  OBVIOUS
<1>4. /\ r \in RunnerStates /\ r.at = call /\ r.job = Job(w) /\ r.status = runner[w].status
      /\ r.no = runner[w].no
      /\ runner' = [runner EXCEPT ![w] = r] /\ runner'[w] = r
  <2>1. call \in Work
    BY <1>2 DEF Work, Persisting
  <2>2. Run(w, call)
    BY <1>2
  <2> QED
    BY <1>1, <1>3, <2>1, <2>2, Steps DEF Job
<1>5. runner[w].at \in Persisting /\ r.at \in Persisting /\ Working(w)
  BY <1>2, <1>4 DEF Persisting, Working, Work
<1>6. Job(w) \in Jobs /\ runner[w].no \in 1..drawn[Job(w)]
  BY <1>1, <1>5, Holding DEF RunnerHas
<1>7. RevisionOf(w) \in RevisionIds
  <2>1. drawn[Job(w)] \in 0..MaxRevisions /\ MaxRevisions \in Nat
    BY <1>1, <1>6, MemoryAssumption DEF StoreTypes
  <2>2. runner[w].no \in 1..MaxRevisions
    BY <1>6, <2>1
  <2> QED
    BY <1>6, <2>2 DEF RevisionOf, RevisionIds
<1>8. StoreTypes'
  <2>1. <<kind, RevisionOf(w)>> \in {"extraction", "circuit"} \X RevisionIds
    BY <1>7
  <2> QED
    BY <1>1, <1>2, <2>1 DEF StoreTypes
<1>9. RunnerHas(w)'
  <2>1. Job(w)' = Job(w) /\ r.at \in Work /\ r.at \notin {"down", "dequeue", "persistCheck", "complete"}
    BY <1>2, <1>4 DEF Job, Work, Persisting
  <2> QED
    BY <1>1, <1>2, <1>4, <1>5, <1>6, <2>1, Holding DEF RunnerHas, Working
<1> QED
  BY <1>2, <1>4, <1>5, <1>8, <1>9, RunnerMoves

(* The steps that change a row or take a payload.  Of the rows they leave    *)
(* those of other jobs.                                                      *)
LEMMA DequeueKeeps ==
  ASSUME MemoryInv, NEW w \in Workers, Dequeue(w)
  PROVE  MemoryInv'
<1>1. StoreTypes /\ RunnerTypes /\ RunnerHas(w)
  BY Parts, RunnerParts DEF MemoryInv
<1>2. PICK r : /\ runner' = [runner EXCEPT ![w] = r] /\ r \in RunnerStates
               /\ \/ r.at = "down" /\ r.job = None
                  \/ r.at = "claim" /\ r.job \in Jobs /\ Pushed(r.job)
               /\ queue' \in Seq(Jobs) /\ \A k : Pushed(k)' => Pushed(k)
  <2>1. Idle \in RunnerStates /\ Idle.job = None
    BY MemoryAssumption DEF Idle, RunnerStates
  <2>2. CASE queue = <<>> /\ Drop(w, "down") /\ UNCHANGED queue
    <3>1. PICK r : r = [Idle EXCEPT !.at = "down"]
      OBVIOUS
    <3>2. r \in RunnerStates /\ r.at = "down" /\ r.job = None
      BY <2>1, <3>1 DEF Idle, RunnerStates
    <3>3. queue' \in Seq(Jobs) /\ \A k : Pushed(k)' => Pushed(k)
      BY <1>1, <2>2 DEF StoreTypes, Pushed
    <3> QED
      BY <2>2, <3>1, <3>2, <3>3 DEF Drop
  <2>3. CASE /\ queue # <<>> /\ queue' = Tail(queue)
             /\ runner' = [runner EXCEPT ![w] = [Idle EXCEPT !.at = "claim", !.job = Head(queue)]]
    <3>1. queue' \in Seq(Jobs) /\ Head(queue) \in Jobs /\ Pushed(Head(queue)) /\ \A k : Pushed(k)' => Pushed(k)
      BY <1>1, <2>3, Pop DEF StoreTypes
    <3>2. PICK j \in Jobs : j = Head(queue) /\ Pushed(j)
      BY <3>1
    <3>3. PICK r : r = [Idle EXCEPT !.at = "claim", !.job = j]
      OBVIOUS
    <3>4. r \in RunnerStates /\ r.at = "claim" /\ r.job = j
      BY <2>1, <3>3 DEF Idle, RunnerStates
    <3> QED
      BY <2>3, <3>1, <3>2, <3>3, <3>4
  <2> QED
    BY <2>2, <2>3 DEF Dequeue
<1>3. UNCHANGED <<workspaces, projects, uploads, home, jobs, pairs, decisions, objects, drawn, retries, connections>>
  BY DEF Dequeue
<1>4. StoreTypes' /\ RunnerTypes'
  BY <1>1, <1>2, <1>3 DEF StoreTypes, RunnerTypes, RunnerStates
<1>5. runner'[w] = r /\ \A v \in Workers \ {w} : runner'[v] = runner[v]
  BY <1>1, <1>2 DEF RunnerTypes
<1>6. \A k \in Jobs : drawn'[k] \in Nat /\ drawn[k] <= drawn'[k]
  BY <1>3 DEF MemoryInv, MemoryTypeOK
<1>7. \A k \in Jobs : Revises(k)
  BY <1>3 DEF Revises
<1>8. /\ ConnectionTypes' /\ OwnIds' /\ \A d \in Connections : ConnectionInv(d)'
      /\ \A k \in Jobs : Unreleased(k) => Unreleased(k)'
  <2>1. runner'[w].job = None \/ Pushed(runner'[w].job)
    BY <1>2, <1>5
  <2> QED
    BY <1>2, <1>3, <1>5, <1>6, <1>7, <2>1, RunnerSpares
<1>9. RunnerInv'
  <2>1. runner'[w].at \notin Work /\ runner[w].at \notin Work
    BY <1>2, <1>5 DEF Dequeue, Work, Persisting
  <2>2. RunnerHas(w)'
    BY <1>2, <1>5, <2>1, MemoryAssumption DEF RunnerHas, Working, Work, Persisting, Job
  <2>3. \A v \in Workers : RunnerHas(v)'
    BY <1>3, <1>5, <1>6, <2>2, OtherRunner
  <2>4. \A v \in Workers : Working(v)' => Working(v) /\ Job(v)' = Job(v)
    BY <1>5, <2>1 DEF Job, Working
  <2>5. \A v \in Workers : runner[v].at \in Persisting => v # w
    BY <2>1 DEF Work
  <2>6. \A k \in Jobs : Persists(k) => Persists(k)'
    BY <1>5, <2>5 DEF Persists, Job
  <2> QED
    BY <1>3, <2>3, <2>4, <2>6, RunnerParts DEF MemoryInv
<1>10. PairInv' /\ NoOrphans' /\ VerdictInv'
  BY <1>3, <1>8 DEF MemoryInv, PairInv, NoOrphans, Known, VerdictInv, VerdictStands
<1> QED
  BY <1>4, <1>8, <1>9, <1>10, WholeRunner DEF SharedInv

(* A job whose status moves without its revision: the shared part holds, if  *)
(* the runners agree and the status is one a decision allows.                *)
LEMMA StatusMoves ==
  ASSUME MemoryInv, NEW j \in Jobs, NEW to \in {"queued", "extracting"} \cup Settled,
         jobs[j] \notin {"none", "created", "uploaded"}, jobs' = [jobs EXCEPT ![j] = to],
         UNCHANGED <<workspaces, projects, uploads, home, pairs, decisions, drawn>>,
         retries' \in 0..MaxRetries, retries <= retries',
         \A k \in Jobs : k # j /\ Unreleased(k) => Unreleased(k)',
         \A d \in decisions : JobOf(d.reviewed) = j =>
           to = Final(d.kind) \/ (retries' > 0 /\ to \in {"queued", "extracting", "failed"})
  PROVE  PairInv' /\ NoOrphans' /\ VerdictInv'
<1>1. DOMAIN jobs = Jobs /\ retries \in Nat
  BY DEF MemoryInv, MemoryTypeOK
<1>2. jobs'[j] = to /\ \A k \in Jobs : k # j => jobs'[k] = jobs[k]
  BY <1>1
<1>3. to \notin {"none", "created", "uploaded"}
  BY DEF Settled
<1>4. PairInv'
  <2> SUFFICES ASSUME NEW k \in Jobs
               PROVE  /\ jobs'[k] \in {"none", "created", "uploaded"} => pairs'[k] = None /\ Unreleased(k)'
                      /\ pairs'[k] # None => /\ JobOf(pairs'[k].id) = k
                                             /\ pairs'[k].id[2] <= drawn'[k] /\ pairs'[k].version <= drawn'[k]
    BY DEF PairInv, Unreleased
  <2>1. CASE k = j
    BY <1>2, <1>3, <2>1 DEF MemoryInv, PairInv
  <2>2. CASE k # j
    BY <1>2, <2>2 DEF MemoryInv, PairInv
  <2> QED
    BY <2>1, <2>2
<1>5. NoOrphans'
  BY <1>2 DEF MemoryInv, NoOrphans, Known
<1>6. VerdictInv'
  <2>1. ASSUME NEW d \in decisions, NEW k, k = JobOf(d.reviewed)
        PROVE  /\ pairs[k].id = d.resolved /\ pairs[k].status = Final(d.kind)
               /\ \/ jobs'[k] = Final(d.kind)
                  \/ retries' > 0 /\ jobs'[k] \in {"queued", "extracting", "failed"}
    <3>1. /\ pairs[k].id = d.resolved /\ pairs[k].status = Final(d.kind)
          /\ \/ jobs[k] = Final(d.kind)
             \/ retries > 0 /\ jobs[k] \in {"queued", "extracting", "failed"}
      BY <2>1 DEF MemoryInv, VerdictInv, VerdictStands
    <3>2. k \in Jobs
      BY <2>1 DEF MemoryInv, MemoryTypeOK, RevisionIds, JobOf
    <3>3. retries > 0 => retries' > 0
      BY <1>1
    <3>4. CASE k = j
      BY <1>2, <2>1, <3>1, <3>4
    <3>5. CASE k # j
      BY <1>2, <3>1, <3>2, <3>3, <3>5
    <3> QED
      BY <3>4, <3>5
  <2> QED
    BY <2>1 DEF MemoryInv, VerdictInv, VerdictStands
<1> QED
  BY <1>4, <1>5, <1>6

(* A claim takes a queued job, which is then extracting for this runner      *)
(* only.                                                                     *)
LEMMA ClaimKeeps ==
  ASSUME MemoryInv, NEW w \in Workers, Claim(w)
  PROVE  MemoryInv'
<1>1. StoreTypes /\ RunnerTypes /\ RunnerHas(w) /\ DOMAIN runner = Workers
  BY Parts, RunnerParts DEF MemoryInv, RunnerTypes
<1>2. PICK j \in Jobs : j = Job(w)
  BY Holding DEF Claim
<1>3. /\ runner[w].at = "claim" /\ ~Working(w)
      /\ UNCHANGED <<workspaces, projects, uploads, home, pairs, decisions, objects, queue, drawn, retries, connections>>
  BY DEF Claim, Working, Work, Persisting
<1>4. PICK r : /\ runner' = [runner EXCEPT ![w] = r] /\ r \in RunnerStates
               /\ \/ r.at = "down" /\ r.job = None /\ jobs' = jobs
                  \/ r.at = "getUpload" /\ r.job = j /\ jobs[j] = "queued"
                     /\ jobs' = [jobs EXCEPT ![j] = "extracting"]
  <2>1. CASE Drop(w, "down") /\ UNCHANGED jobs
    <3>1. PICK r : r = [Idle EXCEPT !.at = "down"]
      OBVIOUS
    <3>2. Idle \in RunnerStates /\ Idle.job = None
      BY MemoryAssumption DEF Idle, RunnerStates
    <3>3. r \in RunnerStates /\ r.at = "down" /\ r.job = None
      BY <3>1, <3>2 DEF Idle, RunnerStates
    <3> QED
      BY <2>1, <3>1, <3>3 DEF Drop
  <2>2. CASE StatusIs(Job(w), "queued") /\ jobs' = [jobs EXCEPT ![Job(w)] = "extracting"] /\ Run(w, "getUpload")
    <3>1. PICK r : r = [runner[w] EXCEPT !.at = "getUpload"]
      OBVIOUS
    <3>2. "getUpload" \in Work
      BY DEF Work
    <3>3. r \in RunnerStates /\ r.at = "getUpload" /\ r.job = j /\ runner' = [runner EXCEPT ![w] = r]
      BY <1>1, <1>2, <2>2, <3>1, <3>2, Steps DEF Job
    <3> QED
      BY <1>2, <2>2, <3>3 DEF StatusIs
  <2> QED
    BY <2>1, <2>2 DEF Claim
<1>5. StoreTypes' /\ RunnerTypes'
  BY <1>1, <1>3, <1>4 DEF StoreTypes, RunnerTypes, RunnerStates
<1>6. runner'[w] = r /\ \A v \in Workers \ {w} : runner'[v] = runner[v]
  BY <1>1, <1>4
<1>7. \A k \in Jobs : drawn'[k] \in Nat /\ drawn[k] <= drawn'[k]
  BY <1>3 DEF MemoryInv, MemoryTypeOK
<1>8. \A k \in Jobs : Revises(k)
  BY <1>3 DEF Revises
<1>9. \A k \in Jobs : k # Job(w) => jobs'[k] = jobs[k] /\ pairs'[k] = pairs[k]
  BY <1>1, <1>2, <1>3, <1>4 DEF StoreTypes
<1>10. /\ ConnectionTypes' /\ OwnIds' /\ \A d \in Connections : ConnectionInv(d)'
       /\ \A k \in Jobs : Unreleased(k) => Unreleased(k)'
  <2>1. runner'[w].job \in {None, Job(w)} /\ \A k : Pushed(k)' => Pushed(k)
    BY <1>2, <1>3, <1>4, <1>6 DEF Pushed
  <2> QED
    BY <1>3, <1>6, <1>7, <1>8, <1>9, <2>1, RunnerSpares
<1>11. RunnerInv'
  <2>1. ASSUME NEW v \in Workers \ {w}, Working(v)
        PROVE  Job(v) # Job(w) \/ jobs' = jobs
    <3>1. jobs[Job(v)] = "extracting"
      BY <2>1, Holding
    <3> QED
      BY <1>2, <1>4, <3>1
  <2>2. \A v \in Workers \ {w} : RunnerHas(v)'
    <3>1. ASSUME NEW v \in Workers \ {w}, Working(v)
          PROVE  jobs'[Job(v)] = jobs[Job(v)]
      BY <1>9, <2>1, <3>1, Holding
    <3> QED
      BY <1>3, <1>6, <1>7, <3>1, OtherRunner
  <2>3. Job(w)' = r.job /\ r.at \in {"down", "getUpload"}
    BY <1>4, <1>6 DEF Job
  <2>4. RunnerHas(w)'
    BY <1>1, <1>2, <1>4, <1>6, <2>3, MemoryAssumption DEF RunnerHas, Working, Work, Persisting, StoreTypes
  <2>5. \A v \in Workers \ {w} : Job(v)' = Job(v) /\ Working(v)' = Working(v)
    BY <1>6 DEF Job, Working
  <2>6. Working(w)' => Job(w)' = Job(w) /\ jobs' # jobs
    BY <1>1, <1>2, <1>4, <1>6, <2>3 DEF Working, Work, Persisting, StoreTypes
  <2>7. \A u, v \in Workers : Working(u)' /\ Working(v)' /\ Job(u)' = Job(v)' => u = v
    BY <2>1, <2>5, <2>6 DEF MemoryInv, RunnerInv
  <2>8. \A k \in Jobs : Persists(k) => Persists(k)'
    <3>1. \A v \in Workers : runner[v].at \in Persisting => v # w
      BY <1>3 DEF Persisting
    <3> QED
      BY <1>6, <3>1 DEF Persists, Job
  <2> QED
    BY <1>3, <2>2, <2>4, <2>7, <2>8, RunnerParts DEF MemoryInv
<1>12. PairInv' /\ NoOrphans' /\ VerdictInv'
  <2>1. CASE jobs' = jobs
    BY <1>3, <1>10, <2>1 DEF MemoryInv, PairInv, NoOrphans, Known, VerdictInv, VerdictStands
  <2>2. CASE jobs[j] = "queued" /\ jobs' = [jobs EXCEPT ![j] = "extracting"]
    <3>1. \A d \in decisions : JobOf(d.reviewed) = j => retries' > 0
      BY <1>3, <2>2 DEF MemoryInv, VerdictInv, VerdictStands, Final
    <3>2. retries' \in 0..MaxRetries /\ retries <= retries'
      BY <1>3, MemoryAssumption DEF MemoryInv, MemoryTypeOK
    <3>3. jobs[j] \notin {"none", "created", "uploaded"}
      BY <2>2
    <3> QED
      BY <1>3, <1>10, <2>2, <3>1, <3>2, <3>3, StatusMoves
  <2> QED
    BY <1>4, <2>1, <2>2
<1> QED
  BY <1>5, <1>10, <1>11, <1>12, WholeRunner DEF SharedInv

(* The revision of the job is there: its status counts.                      *)
LEMMA FoundKeeps ==
  ASSUME MemoryInv, NEW w \in Workers, PersistCheck(w), pairs[Job(w)] # None
  PROVE  MemoryInv'
<1>1. StoreTypes /\ RunnerTypes /\ RunnerHas(w)
  BY Parts, RunnerParts DEF MemoryInv
<1>2. PICK j : j = Job(w)
  OBVIOUS
<1>3. runner[w].at = "persistCheck" /\ Working(w) /\ j \in Jobs /\ "complete" \in Work
  BY <1>2, Holding DEF PersistCheck, Working, Work
<1>4. /\ runner' = [runner EXCEPT ![w].at = "complete", ![w].status = pairs[j].status]
      /\ UNCHANGED <<workspaces, projects, uploads, home, jobs, pairs, decisions, objects, queue, drawn, retries, connections>>
  BY <1>2 DEF PersistCheck, KeptStatus, repositories
<1>5. PICK s : s = pairs[j].status
  OBVIOUS
<1>6. s \in Settled
  BY <1>1, <1>2, <1>3, <1>5 DEF StoreTypes, Revision
<1>7. PICK r : r = [runner[w] EXCEPT !.at = "complete", !.status = s]
  OBVIOUS
<1>8. r \in RunnerStates /\ r.job = j /\ r.at = "complete" /\ r.status = s
  BY <1>1, <1>2, <1>3, <1>6, <1>7, Steps DEF RunnerStates, Job
<1>9. runner' = [runner EXCEPT ![w] = r] /\ runner'[w] = r
  BY <1>1, <1>4, <1>5, <1>7, Steps
<1>10. StoreTypes'
  BY <1>1, <1>4 DEF StoreTypes
<1>11. RunnerHas(w)'
  <2>1. Job(w)' = j /\ Job(w) = j /\ pairs'[j] = pairs[j] /\ jobs'[j] = jobs[j]
    BY <1>2, <1>4, <1>8, <1>9 DEF Job
  <2>2. pairs[j] # None
    BY <1>2
  <2>3. jobs[j] = "extracting" /\ j # None
    BY <1>2, <1>3, Holding, MemoryAssumption
  <2> QED
    BY <1>5, <1>8, <1>9, <2>1, <2>2, <2>3 DEF RunnerHas, Working, Work, Persisting
<1> QED
  BY <1>2, <1>3, <1>4, <1>8, <1>9, <1>10, <1>11, RunnerMoves DEF Persisting

(* A worker that finds none is the only one at it, and draws the first.      *)
LEMMA FirstDrawn ==
  ASSUME MemoryInv, NEW w \in Workers, runner[w].at = "persistCheck", NEW j \in Jobs, j = Job(w),
         pairs[j] = None
  PROVE  drawn[j] = 0
<1>1. RunnerInv
  BY DEF MemoryInv
<1>2. ~Persists(j)
  <2> SUFFICES ASSUME NEW v \in Workers, runner[v].at \in Persisting, Job(v) = j PROVE FALSE
    BY DEF Persists
  <2>1. Working(v) /\ Working(w)
    BY DEF Working, Work
  <2>2. v = w
    BY <1>1, <2>1, RunnerParts
  <2> QED
    BY <2>2 DEF Persisting
<1> QED
  BY <1>1, <1>2, RunnerParts

(* The first identifier of a job is drawn for its only runner.               *)
LEMMA DrawnKeeps ==
  ASSUME MemoryInv, NEW w \in Workers, PersistCheck(w), pairs[Job(w)] = None
  PROVE  MemoryInv'
<1>1. StoreTypes /\ RunnerTypes /\ RunnerHas(w)
  BY Parts, RunnerParts DEF MemoryInv
<1>2. PICK j : j = Job(w)
  OBVIOUS
<1>3. runner[w].at = "persistCheck" /\ Working(w) /\ j \in Jobs /\ jobs[j] = "extracting"
  BY <1>2, Holding DEF PersistCheck, Working, Work
<1>4. drawn[j] = 0 /\ 1 \in 0..MaxRevisions
  BY <1>2, <1>3, FirstDrawn, MemoryAssumption
<1>5. /\ runner' = [runner EXCEPT ![w].at = "putExtraction", ![w].no = 1]
      /\ drawn' = [drawn EXCEPT ![j] = 1]
      /\ UNCHANGED <<workspaces, projects, uploads, home, jobs, pairs, decisions, objects, queue, retries, connections>>
  <2>1. /\ runner' = [runner EXCEPT ![w].at = "putExtraction", ![w].no = drawn[j] + 1]
        /\ drawn' = [drawn EXCEPT ![j] = @ + 1]
        /\ UNCHANGED <<workspaces, projects, uploads, home, jobs, pairs, decisions, objects, queue, retries, connections>>
    BY <1>2 DEF PersistCheck, repositories
  <2>2. drawn[j] + 1 = 1
    BY <1>4
  <2>3. drawn' = [drawn EXCEPT ![j] = drawn[j] + 1]
    BY <2>1
  <2> QED
    BY <2>1, <2>2, <2>3
<1>6. PICK r : r = [runner[w] EXCEPT !.at = "putExtraction", !.no = 1]
  OBVIOUS
<1>7. "putExtraction" \in Work
  BY DEF Work, Persisting
<1>8. r \in RunnerStates /\ r.job = j /\ r.at = "putExtraction" /\ r.no = 1 /\ r.status = runner[w].status
  BY <1>1, <1>2, <1>4, <1>6, <1>7, Steps DEF RunnerStates, Job
<1>9. runner' = [runner EXCEPT ![w] = r] /\ runner'[w] = r /\ \A v \in Workers \ {w} : runner'[v] = runner[v]
  BY <1>1, <1>5, <1>6, Steps
<1>10. StoreTypes' /\ RunnerTypes'
  BY <1>1, <1>4, <1>5, <1>8, <1>9 DEF StoreTypes, RunnerTypes, RunnerStates
<1>11. \A k \in Jobs : drawn'[k] \in Nat /\ drawn[k] \in Nat /\ drawn[k] <= drawn'[k] /\ (k # j => drawn'[k] = drawn[k])
  BY <1>1, <1>4, <1>5 DEF StoreTypes
<1>12. \A k \in Jobs : Revises(k)
  BY <1>5 DEF Revises
<1>13. /\ ConnectionTypes' /\ OwnIds' /\ \A d \in Connections : ConnectionInv(d)'
       /\ \A k \in Jobs : Unreleased(k) => Unreleased(k)'
  <2>1. runner'[w].job = Job(w) /\ \A k : Pushed(k)' => Pushed(k)
    BY <1>2, <1>5, <1>8, <1>9 DEF Pushed
  <2> QED
    BY <1>5, <1>9, <1>11, <1>12, <2>1, RunnerSpares
<1>14. RunnerInv'
  <2>1. RunnerHas(w)'
    <3>1. Job(w)' = j /\ Job(w) = j /\ pairs'[j] = None /\ jobs'[j] = "extracting" /\ j # None
      BY <1>2, <1>3, <1>5, <1>8, <1>9, MemoryAssumption DEF Job
    <3>2. r.no \in 1..drawn'[j]
      BY <1>1, <1>3, <1>5, <1>8 DEF StoreTypes
    <3>3. runner[w].status # "none"
      BY <1>1, <1>3 DEF RunnerHas
    <3> QED
      BY <1>8, <1>9, <3>1, <3>2, <3>3 DEF RunnerHas, Working, Work, Persisting
  <2>2. \A v \in Workers : RunnerHas(v)'
    BY <1>5, <1>9, <1>11, <2>1, OtherRunner
  <2>3. \A v \in Workers : Job(v)' = Job(v) /\ (Working(v)' => Working(v))
    BY <1>2, <1>3, <1>8, <1>9 DEF Job, Working
  <2>4. \A v \in Workers : runner[v].at \in Persisting => v # w
    BY <1>3 DEF Persisting
  <2>5. \A k \in Jobs : Persists(k) => Persists(k)'
    BY <1>9, <2>4 DEF Persists, Job
  <2>6. Persists(j)'
    BY <1>8, <1>9, <2>3, <1>2 DEF Persists, Persisting
  <2> QED
    BY <1>5, <1>11, <2>2, <2>3, <2>5, <2>6, RunnerParts DEF MemoryInv
<1>15. PairInv'
  <2> SUFFICES ASSUME NEW k \in Jobs
               PROVE  /\ jobs'[k] \in {"none", "created", "uploaded"} => pairs'[k] = None /\ Unreleased(k)'
                      /\ pairs'[k] # None => /\ JobOf(pairs'[k].id) = k
                                             /\ pairs'[k].id[2] <= drawn'[k] /\ pairs'[k].version <= drawn'[k]
    BY DEF PairInv, Unreleased
  <2>1. CASE k = j
    BY <1>2, <1>3, <1>5, <2>1
  <2>2. CASE k # j
    BY <1>5, <1>11, <1>13, <2>2 DEF MemoryInv, PairInv
  <2> QED
    BY <2>1, <2>2
<1>16. NoOrphans' /\ VerdictInv'
  BY <1>5 DEF MemoryInv, NoOrphans, Known, VerdictInv, VerdictStands
<1> QED
  BY <1>10, <1>13, <1>14, <1>15, <1>16, WholeRunner DEF SharedInv

(* Found or drawn, the invariant is kept.                                    *)
LEMMA PersistCheckKeeps ==
  ASSUME MemoryInv, NEW w \in Workers, PersistCheck(w)
  PROVE  MemoryInv'
  BY FoundKeeps, DrawnKeeps

(* The revision is saved: nobody else of this job may, and nobody decided.   *)
LEMMA SaveKeeps ==
  ASSUME MemoryInv, NEW w \in Workers, Save(w)
  PROVE  MemoryInv'
<1>1. StoreTypes /\ RunnerTypes /\ RunnerHas(w)
  BY Parts, RunnerParts DEF MemoryInv
<1>2. PICK j : j = Job(w)
  OBVIOUS
<1>3. runner[w].at = "save" /\ runner[w].at \in Persisting /\ Working(w) /\ j \in Jobs /\ jobs[j] = "extracting"
  BY <1>2, Holding DEF Save, Working, Work, Persisting
<1>4. PICK m : m = [id |-> RevisionOf(w), project |-> home[j], version |-> 1, status |-> runner[w].status]
  OBVIOUS
<1>5. pairs[j] = None /\ runner[w].no \in 1..drawn[j] /\ runner[w].status # "none"
  BY <1>1, <1>2, <1>3 DEF RunnerHas
<1>6. /\ pairs' = [pairs EXCEPT ![j] = m] /\ Run(w, "complete")
      /\ UNCHANGED <<workspaces, projects, uploads, home, jobs, decisions, objects, queue, drawn, retries, connections>>
  BY <1>1, <1>2, <1>3, <1>4, <1>5 DEF Save, StoreTypes
<1>7. home[j] \in ProjectIds /\ Known(home[j])
  <2>1. NoOrphans
    BY DEF MemoryInv
  <2> QED
    BY <1>3, <2>1 DEF NoOrphans, Known
<1>8. drawn[j] \in 1..MaxRevisions /\ MaxRevisions \in Nat /\ runner[w].no \in 1..MaxRevisions
  <2>1. drawn[j] \in 0..MaxRevisions /\ MaxRevisions \in Nat
    BY <1>1, <1>3, MemoryAssumption DEF StoreTypes
  <2> QED
    BY <1>5, <2>1
<1>9. /\ m \in Revision /\ m # None /\ JobOf(m.id) = j /\ m.id[2] <= drawn[j] /\ m.version <= drawn[j]
      /\ m.project = home[j] /\ m.status = runner[w].status
  <2>1. runner[w].status \in Settled
    BY <1>1, <1>5 DEF RunnerTypes
  <2>2. RevisionOf(w) = <<j, runner[w].no>> /\ RevisionOf(w) \in RevisionIds
    BY <1>2, <1>3, <1>8 DEF RevisionOf, RevisionIds
  <2>3. m \in Revision
    BY <1>4, <1>7, <1>8, <2>1, <2>2 DEF Revision
  <2>4. m # None
    BY <2>3, MemoryAssumption
  <2>5. 1 <= drawn[j] /\ runner[w].no <= drawn[j]
    BY <1>5, <1>8
  <2> QED
    BY <1>4, <2>2, <2>3, <2>4, <2>5 DEF JobOf
<1>10. pairs'[j] = m /\ \A k \in Jobs : k # j => pairs'[k] = pairs[k]
  BY <1>1, <1>3, <1>6 DEF StoreTypes
<1>11. PICK r : r = [runner[w] EXCEPT !.at = "complete"]
  OBVIOUS
<1>12. /\ r \in RunnerStates /\ r.job = j /\ r.at = "complete" /\ r.status = runner[w].status
       /\ runner' = [runner EXCEPT ![w] = r]
  <2>1. "complete" \in Work
    BY DEF Work
  <2> QED
    BY <1>1, <1>2, <1>6, <1>11, <2>1, Steps DEF Job
<1>13. runner'[w] = r /\ \A v \in Workers \ {w} : runner'[v] = runner[v]
  BY <1>1, <1>12, Steps
<1>14. StoreTypes' /\ RunnerTypes'
  BY <1>1, <1>6, <1>9, <1>12 DEF StoreTypes, RunnerTypes, RunnerStates
<1>15. \A k \in Jobs : drawn'[k] \in Nat /\ drawn[k] <= drawn'[k]
  BY <1>1, <1>6 DEF StoreTypes
<1>16. \A k \in Jobs : Revises(k)
  BY <1>5, <1>10 DEF Revises
<1>17. /\ ConnectionTypes' /\ OwnIds' /\ \A d \in Connections : ConnectionInv(d)'
       /\ \A k \in Jobs : Unreleased(k) => Unreleased(k)'
  <2>1. runner'[w].job = Job(w) /\ \A k : Pushed(k)' => Pushed(k)
    BY <1>2, <1>6, <1>12, <1>13 DEF Pushed
  <2>2. \A k \in Jobs : k # Job(w) => jobs'[k] = jobs[k] /\ pairs'[k] = pairs[k]
    BY <1>2, <1>6, <1>10
  <2> QED
    BY <1>6, <1>13, <1>15, <1>16, <2>1, <2>2, RunnerSpares
<1>18. RunnerInv'
  <2>1. \A v \in Workers \ {w} : Working(v) => Job(v) # j /\ Job(v) \in Jobs
    BY <1>2, <1>3, Holding, RunnerParts DEF MemoryInv
  <2>2. \A v \in Workers \ {w} : RunnerHas(v)'
    BY <1>6, <1>10, <1>13, <1>15, <2>1, OtherRunner
  <2>3. RunnerHas(w)'
    <3>1. Job(w)' = j /\ pairs'[j] = m /\ jobs'[j] = "extracting" /\ j # None
      BY <1>3, <1>6, <1>10, <1>12, <1>13, MemoryAssumption DEF Job
    <3> QED
      BY <1>9, <1>12, <1>13, <3>1 DEF RunnerHas, Working, Work, Persisting
  <2>4. \A v \in Workers : Job(v)' = Job(v) /\ (Working(v)' => Working(v))
    BY <1>2, <1>3, <1>12, <1>13 DEF Job, Working
  <2>5. \A k \in Jobs : k # j /\ Persists(k) => Persists(k)'
    <3> SUFFICES ASSUME NEW k \in Jobs, k # j, NEW v \in Workers, runner[v].at \in Persisting, Job(v) = k
                 PROVE  Persists(k)'
      BY DEF Persists
    <3>1. v # w
      BY <1>2
    <3> QED
      BY <1>13, <3>1 DEF Persists, Job
  <2> QED
    BY <1>6, <1>9, <1>10, <2>2, <2>3, <2>4, <2>5, RunnerParts DEF MemoryInv
<1>19. PairInv'
  <2> SUFFICES ASSUME NEW k \in Jobs
               PROVE  /\ jobs'[k] \in {"none", "created", "uploaded"} => pairs'[k] = None /\ Unreleased(k)'
                      /\ pairs'[k] # None => /\ JobOf(pairs'[k].id) = k
                                             /\ pairs'[k].id[2] <= drawn'[k] /\ pairs'[k].version <= drawn'[k]
    BY DEF PairInv, Unreleased
  <2>1. CASE k = j
    BY <1>3, <1>6, <1>9, <1>10, <2>1
  <2>2. CASE k # j
    BY <1>6, <1>10, <1>17, <2>2 DEF MemoryInv, PairInv
  <2> QED
    BY <2>1, <2>2
<1>20. NoOrphans'
  BY <1>6, <1>9, <1>10 DEF MemoryInv, NoOrphans, Known
<1>21. VerdictInv'
  <2>1. \A d \in decisions : JobOf(d.reviewed) \in Jobs /\ JobOf(d.reviewed) # j
    BY <1>1, <1>5 DEF MemoryInv, VerdictInv, StoreTypes, RevisionIds, JobOf
  <2> QED
    BY <1>6, <1>10, <2>1 DEF MemoryInv, VerdictInv, VerdictStands
<1> QED
  BY <1>14, <1>17, <1>18, <1>19, <1>20, <1>21, WholeRunner DEF SharedInv

(* The end of a run: the job gets the status of its revision, or fails; of a *)
(* decided job, which can only be here after a retry, neither says more than *)
(* the decision did.                                                         *)
LEMMA SettleKeeps ==
  ASSUME MemoryInv, NEW w \in Workers, Settle(w)
  PROVE  MemoryInv'
<1>1. StoreTypes /\ RunnerTypes /\ RunnerHas(w)
  BY Parts, RunnerParts DEF MemoryInv
<1>2. PICK j : j = Job(w)
  OBVIOUS
<1>3. runner[w].at \in {"complete", "fail"} /\ runner[w].at \notin Persisting /\ Working(w)
      /\ j \in Jobs /\ jobs[j] = "extracting"
  BY <1>2, Holding DEF Settle, Working, Work, Persisting
<1>4. PICK to \in Settled :
        /\ jobs' = [jobs EXCEPT ![j] = to]
        /\ to = "failed" \/ (pairs[j] # None /\ pairs[j].status = to)
  <2>1. CASE runner[w].at = "complete"
    <3>1. pairs[j] # None /\ pairs[j].status = runner[w].status
      BY <1>1, <1>2, <2>1 DEF RunnerHas
    <3>2. pairs[j].status \in Settled
      BY <1>1, <1>3, <3>1 DEF StoreTypes, Revision
    <3>3. StatusFromCircuit(pairs[j].status) = pairs[j].status
      BY <3>2 DEF StatusFromCircuit, Settled
    <3>4. jobs' = [jobs EXCEPT ![j] = StatusFromCircuit(runner[w].status)]
      BY <1>2, <1>3, <2>1 DEF Settle, StatusIs
    <3> QED
      BY <3>1, <3>2, <3>3, <3>4
  <2>2. CASE runner[w].at = "fail"
    <3>1. jobs' = [jobs EXCEPT ![j] = "failed"]
      BY <1>2, <1>3, <2>2 DEF Settle, StatusIs
    <3> QED
      BY <3>1 DEF Settled
  <2> QED
    BY <1>3, <2>1, <2>2
<1>5. PICK r : /\ runner' = [runner EXCEPT ![w] = r] /\ r \in RunnerStates
               /\ r.at \in {"dequeue", "down"} /\ r.job = None
  <2>1. PICK call \in {"dequeue", "down"} : Drop(w, call)
    BY DEF Settle
  <2>2. PICK r : r = [Idle EXCEPT !.at = call]
    OBVIOUS
  <2>3. Idle \in RunnerStates /\ Idle.job = None
    BY MemoryAssumption DEF Idle, RunnerStates
  <2>4. r \in RunnerStates /\ r.at = call /\ r.job = None
    BY <2>2, <2>3 DEF Idle, RunnerStates
  <2> QED
    BY <2>1, <2>2, <2>4 DEF Drop
<1>6. UNCHANGED <<workspaces, projects, uploads, home, pairs, decisions, objects, queue, drawn, retries, connections>>
  BY DEF Settle
<1>7. jobs'[j] = to /\ \A k \in Jobs : k # j => jobs'[k] = jobs[k]
  BY <1>1, <1>3, <1>4 DEF StoreTypes
<1>8. runner'[w] = r /\ \A v \in Workers \ {w} : runner'[v] = runner[v]
  BY <1>1, <1>5, Steps
<1>9. StoreTypes' /\ RunnerTypes'
  BY <1>1, <1>4, <1>5, <1>6 DEF StoreTypes, RunnerTypes, RunnerStates
<1>10. \A k \in Jobs : drawn'[k] \in Nat /\ drawn[k] <= drawn'[k]
  BY <1>1, <1>6 DEF StoreTypes
<1>11. \A k \in Jobs : Revises(k)
  BY <1>6 DEF Revises
<1>12. /\ ConnectionTypes' /\ OwnIds' /\ \A d \in Connections : ConnectionInv(d)'
       /\ \A k \in Jobs : Unreleased(k) => Unreleased(k)'
  <2>1. runner'[w].job = None /\ \A k : Pushed(k)' => Pushed(k)
    BY <1>5, <1>6, <1>8 DEF Pushed
  <2>2. \A k \in Jobs : k # Job(w) => jobs'[k] = jobs[k] /\ pairs'[k] = pairs[k]
    BY <1>2, <1>6, <1>7
  <2> QED
    BY <1>6, <1>8, <1>10, <1>11, <2>1, <2>2, RunnerSpares
<1>13. RunnerInv'
  <2>1. \A v \in Workers \ {w} : Working(v) => Job(v) # j /\ Job(v) \in Jobs
    BY <1>2, <1>3, Holding, RunnerParts DEF MemoryInv
  <2>2. \A v \in Workers \ {w} : RunnerHas(v)'
    BY <1>6, <1>7, <1>8, <1>10, <2>1, OtherRunner
  <2>3. RunnerHas(w)' /\ ~Working(w)'
    BY <1>5, <1>8 DEF RunnerHas, Working, Work, Persisting, Job
  <2>4. \A v \in Workers \ {w} : Job(v)' = Job(v) /\ (Working(v)' => Working(v))
    BY <1>8 DEF Job, Working
  <2>5. \A k \in Jobs : Persists(k) => Persists(k)'
    <3>1. \A v \in Workers : runner[v].at \in Persisting => v # w
      BY <1>3
    <3> QED
      BY <1>8, <3>1 DEF Persists, Job
  <2> QED
    BY <1>6, <2>2, <2>3, <2>4, <2>5, RunnerParts DEF MemoryInv
<1>14. PairInv' /\ NoOrphans' /\ VerdictInv'
  <2>1. ASSUME NEW d \in decisions, JobOf(d.reviewed) = j
        PROVE  to = Final(d.kind) \/ (retries' > 0 /\ to \in {"queued", "extracting", "failed"})
    <3>1. /\ pairs[j].status = Final(d.kind)
          /\ jobs[j] = Final(d.kind) \/ retries > 0
      BY <2>1 DEF MemoryInv, VerdictInv, VerdictStands
    <3>2. Final(d.kind) # "extracting"
      BY DEF Final
    <3> QED
      BY <1>3, <1>4, <1>6, <3>1, <3>2
  <2>2. retries' \in 0..MaxRetries /\ retries <= retries'
    BY <1>6, MemoryAssumption DEF MemoryInv, MemoryTypeOK
  <2>3. jobs[j] \notin {"none", "created", "uploaded"}
    BY <1>3
  <2> QED
    BY <1>3, <1>4, <1>6, <1>12, <2>1, <2>2, <2>3, StatusMoves
<1> QED
  BY <1>9, <1>12, <1>13, <1>14, WholeRunner DEF SharedInv

(* Every step of a runner.                                                   *)
LEMMA RunnerStepKeeps ==
  ASSUME MemoryInv, NEW w \in Workers, RunnerStep(w)
  PROVE  MemoryInv'
  BY StartRunnerKeeps, DequeueKeeps, ClaimKeeps, GetUploadKeeps, GetObjectKeeps, ExtractKeeps,
     PersistCheckKeeps, PutArtifactKeeps, SaveKeeps, SettleKeeps DEF RunnerStep

(* A retry takes a job that nobody works on and no handler still has.        *)
LEMMA RetryKeeps ==
  ASSUME MemoryInv, NEW j \in Jobs, Retry(j)
  PROVE  MemoryInv'
<1>1. StoreTypes /\ RunnerTypes /\ ConnectionTypes /\ OwnIds
  BY Parts
<1>2. /\ jobs' = [jobs EXCEPT ![j] = "queued"] /\ queue' = Append(queue, j)
      /\ jobs[j] \in Settled /\ retries' = retries + 1 /\ retries < MaxRetries
      /\ UNCHANGED <<workspaces, projects, uploads, home, pairs, decisions, objects, drawn, connections, runner>>
  BY DEF Retry
<1>3. UNCHANGED <<at, req, draft, code>>
  BY <1>2 DEF connections
<1>4. queue' \in Seq(Jobs) /\ \A k : Pushed(k)' => Pushed(k) \/ k = j
  BY <1>1, <1>2, Push DEF StoreTypes
<1>5. retries' \in 0..MaxRetries /\ retries <= retries' /\ retries' > 0
  BY <1>1, <1>2, MemoryAssumption DEF StoreTypes
<1>6. StoreTypes' /\ RunnerTypes' /\ ConnectionTypes' /\ OwnIds'
  BY <1>1, <1>2, <1>3, <1>4, <1>5 DEF StoreTypes, RunnerTypes, ConnectionTypes, OwnIds
<1>7. \A k \in Jobs : k # j => jobs'[k] = jobs[k]
  BY <1>1, <1>2 DEF StoreTypes
<1>8. ASSUME NEW k \in Jobs, k # j, Unreleased(k) PROVE Unreleased(k)'
  <2>1. ~Pushed(k) /\ \A w \in Workers : Job(w) # k
    BY <1>8, UnreleasedMeans
  <2>2. ~Pushed(k)' /\ \A w \in Workers : Job(w)' # k
    BY <1>2, <1>4, <1>8, <2>1 DEF Job
  <2> QED
    BY <2>2 DEF Unreleased, Pushed
<1>9. Grows /\ \A k \in Jobs : Revises(k)
  BY <1>1, <1>2 DEF Grows, Known, Revises, StoreTypes
<1>10. ASSUME NEW d \in Connections PROVE ConnectionInv(d)'
  <2>1. SameConnection(d)
    BY <1>3 DEF SameConnection
  <2>2. ASSUME at[d] \in DOMAIN JobAt PROVE \E u \in Jobs : u = Upload(d) /\ Untouched(u)
    <3>1. Upload(d) \in Jobs /\ jobs[Upload(d)] = JobAt[at[d]]
      BY <2>2 DEF MemoryInv, UploadInv
    <3>2. JobAt[at[d]] \notin Settled
      BY <2>2, UploadCalls DEF Settled
    <3>3. PICK u \in Jobs : u = Upload(d)
      BY <3>1
    <3>4. u # j
      BY <1>2, <3>1, <3>2, <3>3
    <3>5. Untouched(u)
      BY <1>2, <1>7, <1>8, <3>4 DEF Untouched
    <3> QED
      BY <3>3, <3>5
  <2> QED
    BY <1>9, <2>1, <2>2, SparedKeeps
<1>11. RunnerInv'
  <2>1. \A v \in Workers : Working(v) => Job(v) # j /\ Job(v) \in Jobs
    BY <1>2, Holding DEF Settled
  <2>2. \A k \in Jobs : drawn'[k] \in Nat /\ drawn[k] <= drawn'[k]
    BY <1>1, <1>2 DEF StoreTypes
  <2>3. \A v \in Workers : RunnerHas(v)'
    BY <1>2, <1>7, <2>1, <2>2, OtherRunner
  <2> QED
    BY <1>2, <2>3, RunnerParts DEF MemoryInv, Working, Persists, Job
<1>12. PairInv' /\ NoOrphans' /\ VerdictInv'
  <2>1. jobs[j] \notin {"none", "created", "uploaded"}
    BY <1>2 DEF Settled
  <2> QED
    BY <1>2, <1>5, <1>8, <2>1, StatusMoves
<1> QED
  BY <1>6, <1>10, <1>11, <1>12, WholeRunner DEF SharedInv

-----------------------------------------------------------------------------
(* Nothing is stored, asked or run at first.                                 *)
LEMMA MemoryStarts == MemoryInit => MemoryInv
<1> SUFFICES ASSUME MemoryInit PROVE MemoryInv
  OBVIOUS
<1>1. StoreTypes
  <2>1. 0 \in 0..MaxRevisions /\ 0 \in 0..MaxRetries /\ <<>> \in Seq(Jobs)
    BY MemoryAssumption
  <2> QED
    BY <2>1 DEF MemoryInit, StoreTypes
<1>2. RunnerTypes
  BY MemoryAssumption DEF MemoryInit, RunnerTypes, Idle
<1>3. ConnectionTypes
  BY DEF MemoryInit, ConnectionTypes, Calls
<1>4. RunnerInv
  BY DEF MemoryInit, RunnerInv, Idle, Working, Work, Persisting, Persists, Job
<1>5. PairInv
  <2>1. \A j \in Jobs : Unreleased(j)
    BY MemoryAssumption DEF MemoryInit, Unreleased, Job, Idle
  <2> QED
    BY <2>1 DEF MemoryInit, PairInv
<1>6. NoOrphans /\ VerdictInv
  BY DEF MemoryInit, NoOrphans, VerdictInv, VerdictStands
<1>7. OwnIds
  BY DEF MemoryInit, OwnIds, NoRequest
<1>8. ASSUME NEW c \in Connections PROVE ConnectionInv(c)
  BY UploadCalls DEF MemoryInit, ConnectionInv, RequestInv, UploadInv, DraftInv, NoRequest, Deciding
<1> QED
  BY <1>1, <1>2, <1>3, <1>4, <1>5, <1>6, <1>7, <1>8, Parts DEF SharedInv

(* A step of something else changes nothing.                                 *)
LEMMA MemoryStutters == MemoryInv /\ UNCHANGED memoryVars => MemoryInv'
<1> SUFFICES ASSUME MemoryInv, UNCHANGED memoryVars PROVE MemoryInv'
  OBVIOUS
<1>1. UNCHANGED <<workspaces, projects, uploads, home, jobs, pairs, decisions, objects, queue, drawn, retries>>
  BY DEF memoryVars, repositories
<1>2. UNCHANGED <<at, req, draft, code, runner>>
  BY DEF memoryVars, connections
<1>3. StoreTypes /\ RunnerTypes /\ ConnectionTypes /\ SharedInv /\ OwnIds
      /\ \A c \in Connections : ConnectionInv(c)
  BY Parts
<1>4. StoreTypes' /\ RunnerTypes' /\ ConnectionTypes' /\ OwnIds'
  BY <1>1, <1>2, <1>3 DEF StoreTypes, RunnerTypes, ConnectionTypes, OwnIds
<1>5. RunnerInv' /\ PairInv'
  BY <1>1, <1>2 DEF MemoryInv, RunnerInv, PairInv, Working, Persists, Job, Unreleased
<1>6. NoOrphans' /\ VerdictInv'
  BY <1>1, <1>2 DEF MemoryInv, NoOrphans, Known, VerdictInv, VerdictStands
<1>7. ASSUME NEW c \in Connections PROVE ConnectionInv(c)'
  <2>1. SameConnection(c) /\ Grows /\ \A j \in Jobs : Revises(j) /\ Untouched(j)
    BY <1>1, <1>2, <1>3 DEF SameConnection, Grows, Known, Revises, Untouched, Unreleased, Job, StoreTypes
  <2>2. at[c] \in DOMAIN JobAt => Upload(c) \in Jobs
    BY DEF MemoryInv, UploadInv
  <2>3. at[c] \in DOMAIN JobAt => \E u \in Jobs : u = Upload(c) /\ Untouched(u)
    BY <2>1, <2>2
  <2> QED
    BY <2>1, <2>3, SparedKeeps
<1> QED
  BY <1>4, <1>5, <1>6, <1>7, WholeRunner DEF SharedInv

(* Every step keeps the invariant.                                           *)
LEMMA MemoryKeeps == MemoryInv /\ [MemoryNext]_memoryVars => MemoryInv'
  BY ServeKeeps, RunnerStepKeeps, RetryKeeps, MemoryStutters DEF MemoryNext

(* The rows of the in-memory backend, its requests and its runners agree     *)
(* after any number of requests, runs and retries, however they interleave.  *)
THEOREM MemoryInvariant == MemorySpec => []MemoryInv
<1>1. MemoryInit => MemoryInv
  BY MemoryStarts
<1>2. MemoryInv /\ [MemoryNext]_memoryVars => MemoryInv'
  BY MemoryKeeps
<1> QED
  BY <1>1, <1>2, PTL DEF MemorySpec

(* Every row, request and runner stays in its type, whatever the bounds.     *)
THEOREM MemoryTypes == MemorySpec => []MemoryTypeOK
<1>1. MemoryInv => MemoryTypeOK
  BY DEF MemoryInv
<1> QED
  BY <1>1, MemoryInvariant, PTL

(* No interleaving of retries, runs and further requests undoes a decision.  *)
THEOREM StandingVerdicts == MemorySpec => []VerdictStands
<1>1. MemoryInv => VerdictStands
  BY DEF MemoryInv, VerdictInv
<1> QED
  BY <1>1, MemoryInvariant, PTL

(* No upload, job or revision without a project that somebody created, and   *)
(* none of another project than its job's.                                   *)
THEOREM OrphanFree == MemorySpec => []NoOrphans
<1>1. MemoryInv => NoOrphans
  BY DEF MemoryInv
<1> QED
  BY <1>1, MemoryInvariant, PTL

-----------------------------------------------------------------------------
(* What a request is told.  Each step is of one connection at most; a        *)
(* request has no answer before it is answered, save for a refused decision  *)
(* that still has an object to delete.                                       *)
Unanswered(c) == at[c] \notin {"answered", "dropSuccessor"} => code[c] = 0
CodeInv == \A c \in Connections : Unanswered(c)

(* A request that arrives is answered, or its handler goes on.               *)
LEMMA Arrives ==
  ASSUME NEW c \in Connections, Receive(c)
  PROVE  \/ \E b, n : AnswerTo(c, b, n)
         \/ /\ at[c] = "idle" /\ UNCHANGED <<code, draft>>
            /\ \E call : at' = [at EXCEPT ![c] = call]
            /\ \E r : req' = [req EXCEPT ![c] = r]
<1>1. PICK line \in RequestLines :
        LET h == line.handler
            parts == line.parts
            job == IF Len(parts) > 3 THEN parts[4] ELSE None
            part == IF Len(parts) > 1 THEN parts[2] ELSE None
        IN \E body \in Bodies(h) :
             LET refusal == Refusal(h, parts, body)
             IN \/ /\ refusal # 0
                   /\ AnswerTo(c, h = "decision", refusal)
                \/ /\ refusal = 0 /\ h \in Reads
                   /\ AnswerTo(c, FALSE, IF Found(h, part, job) THEN 200 ELSE 404)
                \/ /\ refusal = 0 /\ h \notin Reads
                   /\ \E id \in Fresh(h) :
                        req' = [req EXCEPT ![c] =
                          [deciding |-> h = "decision", method |-> line.method, subject |-> part,
                           job |-> job, fresh |-> id, body |-> body]]
                   /\ Goto(c, FirstCall(h)) /\ UNCHANGED draft
  BY Zenon DEF Receive
<1>2. \/ \E b, n : AnswerTo(c, b, n)
      \/ /\ \E r : req' = [req EXCEPT ![c] = r]
         /\ Goto(c, FirstCall(line.handler)) /\ UNCHANGED draft
  BY <1>1, Zenon
<1>3. at[c] = "idle"
  BY Zenon DEF Receive
<1> QED
  BY <1>2, <1>3, Zenon DEF Goto

(* A decision is answered when it finds no pending revision of its own, and  *)
(* has a draft when it does.                                                 *)
LEMMA Drafts ==
  ASSUME NEW c \in Connections, GetReviewable(c)
  PROVE  \/ \E n : Answer(c, n)
         \/ /\ at[c] = "getReviewable" /\ UNCHANGED <<code, req>>
            /\ \E call : at' = [at EXCEPT ![c] = call]
            /\ \E d : draft' = [draft EXCEPT ![c] = d]
<1>1. PICK j : j = req[c].job
  OBVIOUS
<1>2. PICK p : p = pairs[j]
  OBVIOUS
<1>3. PICK f : f = Final(req[c].body.kind)
  OBVIOUS
<1>4. /\ at[c] = "getReviewable" /\ UNCHANGED <<repositories, retries, runner>>
      /\ \/ Answer(c, 404) /\ UNCHANGED drawn
         \/ Answer(c, 409) /\ UNCHANGED drawn
         \/ Answer(c, 400) /\ UNCHANGED drawn
         \/ /\ Reviewable(req[c].subject, j) /\ p.id = Reviewed(c)
            /\ req[c].body.spec = "valid" /\ drawn[j] < MaxRevisions
            /\ drawn' = [drawn EXCEPT ![j] = @ + 1]
            /\ draft' = [draft EXCEPT ![c] =
                 [[p EXCEPT !.status = f] EXCEPT !.id = <<j, drawn[j] + 1>>, !.version = @ + 1]]
            /\ Goto(c, "putSuccessor") /\ UNCHANGED req
         \/ /\ Reviewable(req[c].subject, j) /\ p.id = Reviewed(c) /\ ~Corrected(c)
            /\ draft' = [draft EXCEPT ![c] = [p EXCEPT !.status = f]]
            /\ Goto(c, "save") /\ UNCHANGED <<drawn, req>>
  BY <1>1, <1>2, <1>3, Zenon DEF GetReviewable
<1>5. ASSUME NEW call, NEW d, draft' = [draft EXCEPT ![c] = d], Goto(c, call), req' = req
      PROVE  /\ UNCHANGED <<code, req>>
             /\ \E k : at' = [at EXCEPT ![c] = k]
             /\ \E e : draft' = [draft EXCEPT ![c] = e]
  BY <1>5, Zenon DEF Goto
<1>6. CASE Answer(c, 404) \/ Answer(c, 409) \/ Answer(c, 400)
  BY <1>6, Zenon
<1>7. CASE /\ draft' = [draft EXCEPT ![c] =
                [[p EXCEPT !.status = f] EXCEPT !.id = <<j, drawn[j] + 1>>, !.version = @ + 1]]
           /\ Goto(c, "putSuccessor") /\ UNCHANGED req
  BY <1>4, <1>5, <1>7, Zenon
<1>8. CASE /\ draft' = [draft EXCEPT ![c] = [p EXCEPT !.status = f]]
           /\ Goto(c, "save") /\ UNCHANGED req
  BY <1>4, <1>5, <1>8, Zenon
<1> QED
  BY <1>4, <1>6, <1>7, <1>8, Zenon

(* The calls of a request that neither arrives nor decides take it to the    *)
(* next call or to its answer.                                               *)
LEMMA PlainCalls ==
  ASSUME NEW c \in Connections, Serve(c)
  PROVE  \/ Receive(c) \/ Release(c) \/ GetReviewable(c) \/ SaveDecision(c)
         \/ \E call : Continue(c, call)
         \/ \E b, n : AnswerTo(c, b, n)
<1>1. CASE CreateWorkspace(c) \/ CreateProject(c) \/ Enqueue(c) \/ DropSuccessor(c)
  BY <1>1 DEF CreateWorkspace, CreateProject, Enqueue, DropSuccessor, Answer
<1>2. CASE GetWorkspace(c) \/ Lookup(c) \/ GetDecision(c)
  BY <1>2 DEF GetWorkspace, Lookup, GetDecision, Answer
<1>3. CASE CreateUpload(c) \/ Put(c) \/ MarkUploaded(c) \/ MoveUploadedJob(c) \/ PutSuccessor(c)
  BY <1>3 DEF CreateUpload, Put, MarkUploaded, MoveUploadedJob, PutSuccessor
<1> QED
  BY <1>1, <1>2, <1>3, Zenon DEF Serve

(* A step of a connection leaves the other connections alone.                *)
LEMMA OneAtATime ==
  ASSUME ConnectionTypes, NEW c \in Connections, Serve(c)
  PROVE  Spares(c)
<1>1. /\ \E n : at' = [at EXCEPT ![c] = n]
      /\ code' = code \/ \E n : code' = [code EXCEPT ![c] = n]
      /\ req' = req \/ \E n : req' = [req EXCEPT ![c] = n]
      /\ draft' = draft \/ \E n : draft' = [draft EXCEPT ![c] = n]
  <2>1. CASE \E call : Continue(c, call)
    BY <2>1, Zenon DEF Continue, Goto
  <2>2. CASE \E b, n : AnswerTo(c, b, n)
    BY <2>2, Zenon DEF AnswerTo
  <2>3. CASE Receive(c)
    BY <2>2, <2>3, Arrives, Zenon
  <2>4. CASE Release(c)
    BY <2>4, Zenon DEF Release
  <2>5. CASE GetReviewable(c)
    BY <2>2, <2>5, Drafts, Zenon DEF Answer
  <2>6. CASE SaveDecision(c)
    BY <2>2, <2>6, Zenon DEF SaveDecision, Abort, Answer
  <2> QED
    BY <2>1, <2>2, <2>3, <2>4, <2>5, <2>6, PlainCalls, Zenon
<1> QED
  BY <1>1 DEF ConnectionTypes, Spares, SameConnection

(* How a step of a connection changes its answer.                            *)
LEMMA Answering ==
  ASSUME ConnectionTypes, NEW c \in Connections, Serve(c)
  PROVE  \/ at'[c] = "answered"
         \/ at[c] = "save" /\ at'[c] = "dropSuccessor" /\ code'[c] = SaveError(c) /\ SaveError(c) # 0
         \/ at[c] \notin {"answered", "dropSuccessor"} /\ code'[c] = code[c]
         \/ code'[c] = 0
<1>1. CASE \E b, n : AnswerTo(c, b, n)
  BY <1>1 DEF AnswerTo, ConnectionTypes
<1>2. CASE at[c] \notin {"answered", "dropSuccessor"} /\ UNCHANGED code
  BY <1>2
<1>3. CASE Release(c)
  BY <1>3 DEF Release, ConnectionTypes
<1>4. CASE SaveDecision(c)
  BY <1>1, <1>4 DEF SaveDecision, Abort, Answer, ConnectionTypes
<1>5. CASE GetReviewable(c)
  BY <1>1, <1>2, <1>5, Drafts, Zenon DEF Answer
<1>6. CASE Receive(c)
  BY <1>1, <1>2, <1>6, Arrives, Zenon
<1> QED
  BY <1>1, <1>2, <1>3, <1>4, <1>5, <1>6
  DEF Serve, Answer, Continue, Goto, CreateWorkspace, GetWorkspace, CreateProject, Lookup,
      CreateUpload, Put, MarkUploaded, MoveUploadedJob, MoveTo, Enqueue, GetDecision, PutSuccessor,
      DropSuccessor

(* A step that is not of a connection leaves them all.                       *)
LEMMA NotOfAConnection ==
  ASSUME MemoryNext \/ UNCHANGED memoryVars
  PROVE  (\E c \in Connections : Serve(c)) \/ UNCHANGED connections
  BY DEF MemoryNext, memoryVars, RunnerStep, Retry, StartRunner, Dequeue, Claim, GetUpload,
     GetObject, Extract, PersistCheck, PutExtraction, PutCircuit, PutArtifact, Save, Settle

(* No step answers a request before its end.                                 *)
LEMMA CodeKeeps == ConnectionTypes /\ CodeInv /\ [MemoryNext]_memoryVars => CodeInv'
<1> SUFFICES ASSUME ConnectionTypes, CodeInv, [MemoryNext]_memoryVars, NEW d \in Connections
             PROVE  Unanswered(d)'
  BY DEF CodeInv, Unanswered
<1>1. CASE UNCHANGED connections
  BY <1>1 DEF connections, CodeInv, Unanswered
<1>2. ASSUME NEW c \in Connections, Serve(c) PROVE Unanswered(d)'
  <2>1. Spares(c)
    BY <1>2, OneAtATime
  <2>2. CASE d # c
    BY <2>1, <2>2 DEF Spares, SameConnection, CodeInv, Unanswered
  <2>3. CASE d = c
    BY <1>2, <2>3, Answering DEF CodeInv, Unanswered
  <2> QED
    BY <2>2, <2>3
<1> QED
  BY <1>1, <1>2, NotOfAConnection

(* So a request that is not answered has no status yet.                      *)
LEMMA CodeInvariant == MemorySpec => [](MemoryInv /\ CodeInv)
<1>1. MemoryInit => CodeInv
  BY DEF MemoryInit, CodeInv, Unanswered
<1>2. MemoryInv => ConnectionTypes
  BY Parts
<1> QED
  BY <1>1, <1>2, CodeKeeps, MemoryInvariant, PTL DEF MemorySpec

(* A decision that is answered 200 was sent under the project of its job.    *)
THEOREM HomeDecisions == MemorySpec => DecidedAtHome
<1>1. MemoryInv /\ CodeInv /\ [MemoryNext]_memoryVars => [DecidesAtHome]_memoryVars
  <2> SUFFICES ASSUME MemoryInv, CodeInv, MemoryNext, NEW c \in Connections, at[c] = "save", code'[c] = 200
               PROVE  req[c].subject = home[req[c].job]
    BY DEF DecidesAtHome
  <2>1. ConnectionTypes /\ ConnectionInv(c) /\ code[c] = 0
    BY Parts DEF CodeInv, Unanswered
  <2>2. Serve(c)
    BY <2>1, NotOfAConnection, OneAtATime DEF connections, Spares, SameConnection
  <2>3. SaveDecision(c)
    BY <2>2 DEF Serve, Receive, Release, CreateWorkspace, GetWorkspace, CreateProject, Lookup,
       CreateUpload, Put, MarkUploaded, MoveUploadedJob, MoveTo, Enqueue, GetDecision,
       GetReviewable, PutSuccessor, DropSuccessor
  <2>4. SaveError(c) = 0
    <3> SUFFICES ASSUME SaveError(c) # 0 PROVE FALSE
      OBVIOUS
    <3>1. Abort(c, SaveError(c)) /\ SaveError(c) \in {404, 409, 500}
      BY <2>3 DEF SaveDecision, SaveError
    <3>2. code'[c] = SaveError(c)
      BY <2>1, <3>1 DEF Abort, Answer, AnswerTo, ConnectionTypes
    <3> QED
      BY <3>1, <3>2
  <2> QED
    BY <2>3, <2>4, SavedDecision
<1> QED
  BY <1>1, CodeInvariant, PTL DEF MemorySpec, DecidedAtHome

(* The loser of a race between two decisions is not told of a server error.  *)
THEOREM ConflictsAreTold == MemorySpec => RacersGetConflict
<1>1. MemoryInv /\ CodeInv /\ [MemoryNext]_memoryVars => [LosesWithConflict]_memoryVars
  <2> SUFFICES ASSUME MemoryInv, CodeInv, MemoryNext, NEW c \in Connections,
                      code[c] = 0, code'[c] = 500, req[c].deciding
               PROVE  ~\E d \in decisions : d.reviewed = Reviewed(c)
    BY DEF LosesWithConflict
  <2>1. ConnectionTypes /\ RequestInv(c)
    BY DEF MemoryInv, MemoryTypeOK, ConnectionTypes
  <2>2. Serve(c)
    BY <2>1, NotOfAConnection, OneAtATime DEF connections, Spares, SameConnection
  <2>3. at[c] # "answered" => at[c] \in Deciding
    BY <2>1 DEF RequestInv
  <2>4. at[c] # "dropSuccessor"
    BY <2>1 DEF RequestInv
  <2>5. SaveDecision(c)
    <3>1. CASE Release(c)
      BY <2>1, <3>1 DEF Release, ConnectionTypes
    <3>2. CASE GetDecision(c)
      BY <2>1, <3>2 DEF GetDecision, Continue, Goto, Answer, AnswerTo, ConnectionTypes
    <3>3. CASE GetReviewable(c)
      BY <2>1, <3>3 DEF GetReviewable, Goto, Answer, AnswerTo, ConnectionTypes
    <3>4. CASE PutSuccessor(c)
      BY <2>1, <3>4 DEF PutSuccessor, Continue, Goto
    <3> QED
      BY <2>2, <2>3, <2>4, <3>1, <3>2, <3>3, <3>4
      DEF Serve, Receive, Deciding, CreateWorkspace, GetWorkspace, CreateProject, Lookup,
          CreateUpload, Put, MarkUploaded, MoveUploadedJob, MoveTo, Enqueue, DropSuccessor
  <2>6. SaveError(c) = 500
    <3>1. CASE SaveError(c) # 0
      BY <2>1, <2>5, <3>1 DEF SaveDecision, Abort, Answer, AnswerTo, ConnectionTypes
    <3>2. CASE SaveError(c) = 0
      BY <2>1, <2>5, <3>2 DEF SaveDecision, Answer, AnswerTo, ConnectionTypes
    <3> QED
      BY <3>1, <3>2
  <2> QED
    BY <2>6 DEF SaveError
<1> QED
  BY <1>1, CodeInvariant, PTL DEF MemorySpec, RacersGetConflict

(* Whatever its path, a request with another method than POST writes no row, *)
(* no payload and no object.                                                 *)
THEOREM OnlyPostWrites == MemorySpec => WritesOnlyByPost
<1>1. MemoryInv /\ [MemoryNext]_memoryVars => [SafeMethods]_memoryVars
  <2> SUFFICES ASSUME MemoryInv, MemoryNext, NEW c \in Connections, at'[c] # at[c], req[c].method # "POST"
               PROVE  UNCHANGED repositories
    BY DEF SafeMethods
  <2>1. ConnectionTypes /\ RequestInv(c)
    BY DEF MemoryInv, MemoryTypeOK, ConnectionTypes
  <2>2. Serve(c)
    BY <2>1, NotOfAConnection, OneAtATime DEF connections, Spares, SameConnection
  <2>3. at[c] \in {"idle", "answered"}
    BY <2>1 DEF RequestInv
  <2> QED
    BY <2>2, <2>3
    DEF Serve, Receive, Release, CreateWorkspace, GetWorkspace, CreateProject, Lookup, CreateUpload,
        Put, MarkUploaded, MoveUploadedJob, MoveTo, Enqueue, GetDecision, GetReviewable,
        PutSuccessor, SaveDecision, DropSuccessor
<1> QED
  BY <1>1, MemoryInvariant, PTL DEF MemorySpec, WritesOnlyByPost

-----------------------------------------------------------------------------
(* What keeps the object of a circuit, and that a step which only adds       *)
(* images and disturbs nobody with a revision in hand leaves none over.      *)
Kept(x) ==
  \/ \E j \in Jobs : pairs[j] # None /\ pairs[j].id = x
  \/ \E d \in decisions : d.reviewed = x
  \/ \E w \in Workers : runner[w].at = "save" /\ RevisionOf(w) = x
  \/ \E c \in Connections : at[c] \in {"save", "dropSuccessor"} /\ draft[c].id = x

(* The invariant in terms of what keeps an object.                           *)
LEMMA LooseMeans ==
  /\ NoLooseObjects <=> \A o \in objects : o[1] = "circuit" => Kept(o[2])
  /\ NoLooseObjects' <=> \A o \in objects' : o[1] = "circuit" => Kept(o[2])'
  BY DEF NoLooseObjects, Kept

(* A revision stays with its job or becomes one that was decided.            *)
LEMMA KeptByRows ==
  ASSUME NEW x, decisions \subseteq decisions', \A j \in Jobs : Revises(j),
         (\E j \in Jobs : pairs[j] # None /\ pairs[j].id = x) \/ \E d \in decisions : d.reviewed = x
  PROVE  Kept(x)'
  BY DEF Kept, Revises

(* A step of a connection takes the keeper of its own draft at most.         *)
LEMMA KeptByConnections ==
  ASSUME NEW x, NEW c \in Connections, Kept(x), Spares(c), runner' = runner,
         decisions \subseteq decisions', \A j \in Jobs : Revises(j)
  PROVE  Kept(x)' \/ (at[c] \in {"save", "dropSuccessor"} /\ draft[c].id = x)
<1>1. CASE (\E j \in Jobs : pairs[j] # None /\ pairs[j].id = x) \/ \E d \in decisions : d.reviewed = x
  BY <1>1, KeptByRows
<1>2. CASE \E w \in Workers : runner[w].at = "save" /\ RevisionOf(w) = x
  BY <1>2 DEF Kept, RevisionOf, Job
<1>3. CASE \E d \in Connections : at[d] \in {"save", "dropSuccessor"} /\ draft[d].id = x
  BY <1>3 DEF Kept, Spares, SameConnection
<1> QED
  BY <1>1, <1>2, <1>3 DEF Kept

(* No request leaves an object over.                                         *)
LEMMA ServeLeavesNone ==
  ASSUME MemoryInv, NoLooseObjects, NEW c \in Connections, Serve(c)
  PROVE  NoLooseObjects'
<1>1. StoreTypes /\ ConnectionTypes /\ ConnectionInv(c) /\ Spares(c) /\ runner' = runner
  <2>1. runner' = runner
    BY DEF Serve, Receive, Release, CreateWorkspace, GetWorkspace, CreateProject, Lookup,
       CreateUpload, Put, MarkUploaded, MoveUploadedJob, Enqueue, GetDecision, GetReviewable,
       PutSuccessor, SaveDecision, DropSuccessor
  <2> QED
    BY <2>1, Parts, OneAtATime
<1>2. CASE PutSuccessor(c)
  <2>1. UNCHANGED <<pairs, decisions>> /\ objects' = objects \cup {<<"circuit", draft[c].id>>}
        /\ at'[c] = "save" /\ draft' = draft /\ at[c] = "putSuccessor"
    BY <1>1, <1>2 DEF PutSuccessor, Continue, Goto, ConnectionTypes
  <2>2. \A j \in Jobs : Revises(j)
    BY <2>1 DEF Revises
  <2>3. ASSUME NEW o \in objects', o[1] = "circuit" PROVE Kept(o[2])'
    <3>1. CASE o \in objects
      BY <1>1, <2>1, <2>2, <2>3, <3>1, KeptByConnections, LooseMeans
    <3>2. CASE o = <<"circuit", draft[c].id>>
      BY <2>1, <3>2 DEF Kept
    <3> QED
      BY <2>1, <3>1, <3>2
  <2> QED
    BY <2>3, LooseMeans
<1>3. CASE DropSuccessor(c)
  <2>1. UNCHANGED <<pairs, decisions>> /\ objects' = objects \ {<<"circuit", draft[c].id>>}
    BY <1>3 DEF DropSuccessor
  <2>2. \A j \in Jobs : Revises(j)
    BY <2>1 DEF Revises
  <2>3. ASSUME NEW o \in objects', o[1] = "circuit" PROVE Kept(o[2])'
    <3>1. o \in ({"image"} \X Jobs) \cup ({"extraction", "circuit"} \X RevisionIds)
      BY <1>1, <2>1 DEF StoreTypes
    <3>2. o = <<o[1], o[2]>>
      BY <3>1
    <3>3. o[2] # draft[c].id
      BY <2>1, <2>3, <3>2
    <3> QED
      BY <1>1, <2>1, <2>2, <2>3, <3>3, KeptByConnections, LooseMeans
  <2> QED
    BY <2>3, LooseMeans
<1>4. CASE SaveDecision(c) /\ SaveError(c) # 0
  <2>1. UNCHANGED <<pairs, decisions, objects>> /\ at[c] = "save" /\ Abort(c, SaveError(c))
    BY <1>4 DEF SaveDecision
  <2>2. \A j \in Jobs : Revises(j)
    BY <2>1 DEF Revises
  <2>3. ASSUME NEW x, draft[c].id = x PROVE Kept(x)'
    <3>1. CASE Corrected(c)
      <4>1. at'[c] = "dropSuccessor" /\ draft' = draft
        BY <1>1, <2>1, <3>1 DEF Abort, ConnectionTypes
      <4> QED
        BY <2>3, <4>1 DEF Kept
    <3>2. CASE ~Corrected(c)
      <4>1. /\ draft[c].id = Reviewed(c) /\ pairs[req[c].job] # None /\ req[c].job \in Jobs
            /\ pairs[req[c].job].id = Reviewed(c) \/ \E d \in decisions : d.reviewed = Reviewed(c)
        BY <1>1, <2>1, <3>2 DEF ConnectionInv, DraftInv, Deciding
      <4> QED
        BY <2>1, <2>2, <2>3, <4>1, KeptByRows
    <3> QED
      BY <3>1, <3>2
  <2>4. ASSUME NEW o \in objects', o[1] = "circuit" PROVE Kept(o[2])'
    <3>1. Kept(o[2])
      BY <2>1, <2>4, LooseMeans
    <3> QED
      BY <1>1, <2>1, <2>2, <2>3, <3>1, KeptByConnections
  <2> QED
    BY <2>4, LooseMeans
<1>5. CASE SaveDecision(c) /\ SaveError(c) = 0
  <2>1. PICK j : j = req[c].job
    OBVIOUS
  <2>2. PICK m : m = draft[c]
    OBVIOUS
  <2>3. /\ j \in Jobs /\ pairs[j].id = Reviewed(c) /\ m \in Revision
        /\ pairs' = [pairs EXCEPT ![j] = m]
        /\ decisions' = decisions \cup
             {[reviewed |-> Reviewed(c), resolved |-> m.id, kind |-> req[c].body.kind]}
    BY <1>5, <2>1, <2>2, SavedDecision
  <2>4. m # None /\ pairs'[j] = m /\ \A k \in Jobs : k # j => pairs'[k] = pairs[k]
    BY <1>1, <2>3, MemoryAssumption DEF StoreTypes
  <2>5. PICK e : e = [reviewed |-> Reviewed(c), resolved |-> m.id, kind |-> req[c].body.kind]
    OBVIOUS
  <2>6. e \in decisions' /\ e.reviewed = pairs[j].id /\ decisions \subseteq decisions'
    BY <2>3, <2>5
  <2>7. \A k \in Jobs : Revises(k)
    BY <2>4, <2>6 DEF Revises
  <2>8. ASSUME NEW o \in objects', o[1] = "circuit" PROVE Kept(o[2])'
    <3>1. Kept(o[2])
      BY <1>5, <2>8, LooseMeans DEF SaveDecision
    <3>2. Kept(o[2])' \/ m.id = o[2]
      BY <1>1, <2>2, <2>6, <2>7, <3>1, KeptByConnections
    <3> QED
      BY <2>3, <2>4, <3>2 DEF Kept
  <2> QED
    BY <2>8, LooseMeans
<1>6. CASE at[c] \notin {"putSuccessor", "save", "dropSuccessor"}
  <2>1. UNCHANGED <<pairs, decisions>> /\ objects' \subseteq objects \cup {<<"image", Upload(c)>>}
    BY <1>6 DEF Serve, Receive, Release, CreateWorkspace, GetWorkspace, CreateProject, Lookup,
       CreateUpload, Put, MarkUploaded, MoveUploadedJob, Enqueue, GetDecision, GetReviewable,
       PutSuccessor, SaveDecision, DropSuccessor, repositories
  <2>2. \A j \in Jobs : Revises(j)
    BY <2>1 DEF Revises
  <2>3. ASSUME NEW o \in objects', o[1] = "circuit" PROVE Kept(o[2])'
    <3>1. o \in objects
      BY <2>1, <2>3
    <3> QED
      BY <1>1, <1>6, <2>1, <2>2, <2>3, <3>1, KeptByConnections, LooseMeans
  <2> QED
    BY <2>3, LooseMeans
<1> QED
  <2>1. at[c] = "putSuccessor" => PutSuccessor(c)
    BY DEF Serve, Receive, Release, CreateWorkspace, GetWorkspace, CreateProject, Lookup,
       CreateUpload, Put, MarkUploaded, MoveUploadedJob, MoveTo, Enqueue, GetDecision, GetReviewable,
       SaveDecision, DropSuccessor
  <2>2. at[c] = "save" => SaveDecision(c)
    BY DEF Serve, Receive, Release, CreateWorkspace, GetWorkspace, CreateProject, Lookup,
       CreateUpload, Put, MarkUploaded, MoveUploadedJob, MoveTo, Enqueue, GetDecision, GetReviewable,
       PutSuccessor, DropSuccessor
  <2>3. at[c] = "dropSuccessor" => DropSuccessor(c)
    BY DEF Serve, Receive, Release, CreateWorkspace, GetWorkspace, CreateProject, Lookup,
       CreateUpload, Put, MarkUploaded, MoveUploadedJob, MoveTo, Enqueue, GetDecision, GetReviewable,
       PutSuccessor, SaveDecision
  <2> QED
    BY <1>2, <1>3, <1>4, <1>5, <1>6, <2>1, <2>2, <2>3

(* A step of a runner takes the keeper of its own revision at most.          *)
LEMMA KeptByRunners ==
  ASSUME NEW x, NEW w \in Workers, Kept(x), \A v \in Workers \ {w} : runner'[v] = runner[v],
         UNCHANGED connections, decisions' = decisions, \A j \in Jobs : Revises(j)
  PROVE  Kept(x)' \/ (runner[w].at = "save" /\ RevisionOf(w) = x)
<1>1. CASE (\E j \in Jobs : pairs[j] # None /\ pairs[j].id = x) \/ \E d \in decisions : d.reviewed = x
  BY <1>1, KeptByRows
<1>2. CASE \E v \in Workers : runner[v].at = "save" /\ RevisionOf(v) = x
  BY <1>2 DEF Kept, RevisionOf, Job
<1>3. CASE \E d \in Connections : at[d] \in {"save", "dropSuccessor"} /\ draft[d].id = x
  BY <1>3 DEF Kept, connections
<1> QED
  BY <1>1, <1>2, <1>3 DEF Kept

(* No run leaves an object over.                                             *)
LEMMA RunnersLeaveNone ==
  ASSUME MemoryInv, NoLooseObjects, NEW w \in Workers, RunnerStep(w)
  PROVE  NoLooseObjects'
<1>1. StoreTypes /\ RunnerTypes /\ RunnerHas(w) /\ UNCHANGED connections /\ decisions' = decisions
  <2>1. UNCHANGED connections /\ decisions' = decisions
    BY DEF RunnerStep, StartRunner, Dequeue, Claim, GetUpload, GetObject, Extract, PersistCheck,
       PutExtraction, PutCircuit, PutArtifact, Save, Settle, repositories
  <2> QED
    BY <2>1, Parts, RunnerParts DEF MemoryInv
<1>2. \A v \in Workers \ {w} : runner'[v] = runner[v]
  <2>1. \E r : runner' = [runner EXCEPT ![w] = r]
    BY <1>1, Zenon DEF RunnerStep, StartRunner, Dequeue, Claim, GetUpload, GetObject, Extract, PersistCheck,
       PutExtraction, PutCircuit, PutArtifact, Save, Settle, Run, Drop
  <2> QED
    BY <1>1, <2>1 DEF RunnerTypes
<1>3. CASE Save(w)
  <2>1. PICK j : j = Job(w)
    OBVIOUS
  <2>2. runner[w].at \in Persisting /\ Working(w)
    BY <1>3 DEF Save, Persisting, Working, Work
  <2>3. j \in Jobs /\ pairs[j] = None
    BY <1>1, <2>1, <2>2, Holding DEF RunnerHas
  <2>4. MemoryInv'
    BY <1>3, SaveKeeps
  <2>5. /\ objects' = objects
        /\ pairs' = [pairs EXCEPT ![j] = [id |-> RevisionOf(w), project |-> home[j], version |-> 1,
                                          status |-> runner[w].status]]
    BY <1>1, <1>3, <2>1, <2>3 DEF Save, StoreTypes
  <2>6. pairs'[j].id = RevisionOf(w) /\ \A k \in Jobs : k # j => pairs'[k] = pairs[k]
    BY <1>1, <2>3, <2>5 DEF StoreTypes
  <2>7. \A k \in Jobs : Revises(k)
    BY <2>3, <2>6 DEF Revises
  <2>8. pairs'[j] # None
    <3>1. runner'[w].at = "complete" /\ Job(w)' = j
      BY <1>1, <1>3, <2>1 DEF Save, Run, RunnerTypes, Job
    <3> QED
      BY <2>4, <3>1, RunnerParts DEF MemoryInv, RunnerHas
  <2>9. ASSUME NEW o \in objects', o[1] = "circuit" PROVE Kept(o[2])'
    <3>1. Kept(o[2])' \/ RevisionOf(w) = o[2]
      BY <1>1, <1>2, <2>5, <2>7, <2>9, KeptByRunners, LooseMeans
    <3> QED
      BY <2>3, <2>6, <2>8, <3>1 DEF Kept
  <2> QED
    BY <2>9, LooseMeans
<1>4. CASE ~Save(w)
  <2>1. pairs' = pairs /\ runner[w].at # "save"
    BY <1>4 DEF RunnerStep, StartRunner, Dequeue, Claim, GetUpload, GetObject, Extract, PersistCheck,
       PutExtraction, PutCircuit, PutArtifact, Settle, repositories
  <2>2. \A k \in Jobs : Revises(k)
    BY <2>1 DEF Revises
  <2>3. ASSUME NEW o \in objects', o[1] = "circuit", o \notin objects PROVE Kept(o[2])'
    <3>1. PutCircuit(w)
      BY <1>4, <2>3 DEF RunnerStep, StartRunner, Dequeue, Claim, GetUpload, GetObject, Extract, PersistCheck,
         PutExtraction, PutCircuit, PutArtifact, Settle, repositories
    <3>2. o = <<"circuit", RevisionOf(w)>>
      BY <2>3, <3>1 DEF PutCircuit, PutArtifact
    <3>3. runner'[w].at = "save" /\ RevisionOf(w)' = RevisionOf(w)
      BY <1>1, <3>1 DEF PutCircuit, PutArtifact, Run, RunnerTypes, RevisionOf, Job
    <3> QED
      BY <3>2, <3>3 DEF Kept
  <2>4. ASSUME NEW o \in objects', o[1] = "circuit", o \in objects PROVE Kept(o[2])'
    BY <1>1, <1>2, <2>1, <2>2, <2>4, KeptByRunners, LooseMeans
  <2> QED
    BY <2>3, <2>4, LooseMeans
<1> QED
  BY <1>3, <1>4

(* No JSON object of a circuit outlives the revision it was written for: a   *)
(* refused correction deletes its own, and a run that wrote one saves it.    *)
THEOREM ObjectsAccountedFor == MemorySpec => []NoLooseObjects
<1>1. MemoryInit => NoLooseObjects
  BY DEF MemoryInit, NoLooseObjects
<1>2. MemoryInv /\ NoLooseObjects /\ [MemoryNext]_memoryVars => NoLooseObjects'
  <2> SUFFICES ASSUME MemoryInv, NoLooseObjects, [MemoryNext]_memoryVars PROVE NoLooseObjects'
    OBVIOUS
  <2>1. CASE UNCHANGED memoryVars
    BY <2>1 DEF memoryVars, repositories, connections, NoLooseObjects, RevisionOf, Job
  <2>2. CASE \E j \in Jobs : Retry(j)
    BY <2>2 DEF Retry, connections, NoLooseObjects, RevisionOf, Job
  <2> QED
    BY <2>1, <2>2, ServeLeavesNone, RunnersLeaveNone DEF MemoryNext
<1> QED
  BY <1>1, <1>2, MemoryInvariant, PTL DEF MemorySpec

-----------------------------------------------------------------------------
(* The ledger of the reviews: what a job shows before and after its decision.*)
Decided(j) == \E d \in decisions : JobOf(d.reviewed) = j

(* The verdict on a job with at most one decision.                           *)
LEMMA VerdictIs ==
  ASSUME NEW j, \A d, e \in decisions : JobOf(d.reviewed) = JobOf(e.reviewed) => d = e
  PROVE  /\ ~Decided(j) => Verdict(j) = IF jobs[j] = "needs_review" THEN "pending" ELSE "open"
         /\ \A d \in decisions : JobOf(d.reviewed) = j => Verdict(j) = d.kind
<1>1. ~Decided(j) => Verdict(j) = IF jobs[j] = "needs_review" THEN "pending" ELSE "open"
  BY Zenon DEF Verdict, Decided
<1>2. ASSUME NEW d \in decisions, JobOf(d.reviewed) = j PROVE Verdict(j) = d.kind
  <2>1. PICK e : e = CHOOSE f \in decisions : JobOf(f.reviewed) = j
    OBVIOUS
  <2>2. e \in decisions /\ JobOf(e.reviewed) = j
    BY <1>2, <2>1, Zenon
  <2>3. e = d
    BY <1>2, <2>2, Zenon
  <2> QED
    BY <1>2, <2>1, <2>3, Zenon DEF Verdict
<1> QED
  BY <1>1, <1>2

(* And after the step.                                                       *)
LEMMA VerdictWillBe ==
  ASSUME NEW j, \A d, e \in decisions' : JobOf(d.reviewed) = JobOf(e.reviewed) => d = e
  PROVE  /\ ~Decided(j)' => Verdict(j)' = IF jobs'[j] = "needs_review" THEN "pending" ELSE "open"
         /\ \A d \in decisions' : JobOf(d.reviewed) = j => Verdict(j)' = d.kind
<1>1. ~Decided(j)' => Verdict(j)' = IF jobs'[j] = "needs_review" THEN "pending" ELSE "open"
  BY Zenon DEF Verdict, Decided
<1>2. ASSUME NEW d \in decisions', JobOf(d.reviewed) = j PROVE Verdict(j)' = d.kind
  <2>1. PICK e : e = CHOOSE f \in decisions' : JobOf(f.reviewed) = j
    OBVIOUS
  <2>2. e \in decisions' /\ JobOf(e.reviewed) = j
    BY <1>2, <2>1, Zenon
  <2>3. e = d
    BY <1>2, <2>2, Zenon
  <2> QED
    BY <1>2, <2>1, <2>3, Zenon DEF Verdict
<1> QED
  BY <1>1, <1>2

(* A step that decides nothing moves the verdict of a job only by moving the *)
(* job from or to the review queue.                                          *)
LEMMA VerdictStays ==
  ASSUME decisions' = decisions, NEW j
  PROVE  /\ Decided(j) => Verdict(j)' = Verdict(j)
         /\ (jobs'[j] = "needs_review" <=> jobs[j] = "needs_review") => Verdict(j)' = Verdict(j)
         /\ ~Decided(j) => Verdict(j) \in {"pending", "open"} /\ Verdict(j)' \in {"pending", "open"}
  BY Zenon DEF Verdict, Decided

(* One job moves, and nobody is told anything.                               *)
LEMMA OneJobMoves ==
  ASSUME decisions' = decisions, UNCHANGED connections, NEW j \in Jobs,
         \A k \in Jobs : k # j => jobs'[k] = jobs[k]
  PROVE  Reviews!Next \/ UNCHANGED Reviews!book
<1>1. \A c \in Connections : Told(c)' = Told(c)
  BY DEF connections, Told
<1>2. \A k \in Jobs : k # j => Verdict(k)' = Verdict(k)
  BY VerdictStays
<1>3. CASE Verdict(j)' = Verdict(j)
  BY <1>1, <1>2, <1>3 DEF Reviews!book
<1>4. CASE Verdict(j) = "open" /\ Verdict(j)' = "pending"
  BY <1>1, <1>2, <1>4 DEF Reviews!Next, Reviews!Offer, Reviews!Turn
<1>5. CASE Verdict(j) = "pending" /\ Verdict(j)' = "open"
  BY <1>1, <1>2, <1>5 DEF Reviews!Next, Reviews!Withdraw, Reviews!Turn
<1> QED
  BY <1>3, <1>4, <1>5, VerdictStays

(* A run offers a job or moves nothing in the ledger.                        *)
LEMMA RunnersKeepBook ==
  ASSUME MemoryInv, NEW w \in Workers, RunnerStep(w)
  PROVE  Reviews!Next \/ UNCHANGED Reviews!book
<1>1. UNCHANGED connections /\ decisions' = decisions
  BY DEF RunnerStep, StartRunner, Dequeue, Claim, GetUpload, GetObject, Extract, PersistCheck,
     PutExtraction, PutCircuit, PutArtifact, Save, Settle, repositories
<1>2. CASE jobs' = jobs
  <2>1. (\A c \in Connections : Told(c)' = Told(c)) /\ \A k \in Jobs : Verdict(k)' = Verdict(k)
    BY <1>1, <1>2, VerdictStays DEF connections, Told
  <2> QED
    BY <2>1 DEF Reviews!book
<1>3. CASE Claim(w) \/ Settle(w)
  <2>1. PICK j \in Jobs : j = Job(w)
    BY <1>3, Holding DEF Claim, Settle
  <2>2. \A k \in Jobs : k # j => jobs'[k] = jobs[k]
    BY <1>3, <2>1 DEF Claim, Settle, MemoryInv, MemoryTypeOK
  <2> QED
    BY <1>1, <2>2, OneJobMoves
<1> QED
  BY <1>2, <1>3 DEF RunnerStep, StartRunner, Dequeue, GetUpload, GetObject, Extract, PersistCheck,
     PutExtraction, PutCircuit, PutArtifact, Save, repositories

(* A retry withdraws a job that waited.                                      *)
LEMMA RetryKeepsBook ==
  ASSUME MemoryInv, NEW j \in Jobs, Retry(j)
  PROVE  Reviews!Next \/ UNCHANGED Reviews!book
<1>1. \A k \in Jobs : k # j => jobs'[k] = jobs[k]
  BY DEF Retry, MemoryInv, MemoryTypeOK
<1> QED
  BY <1>1, OneJobMoves DEF Retry

(* A connection on which no decision is saved: its client has read an answer *)
(* or is refused, and the jobs that its handler moves wait for nobody.       *)
LEMMA UndecidedKeepsVerdicts ==
  ASSUME MemoryInv, NEW c \in Connections, Serve(c), ~(SaveDecision(c) /\ SaveError(c) = 0)
  PROVE  \A k \in Jobs : Verdict(k)' = Verdict(k)
<1>1. decisions' = decisions
  BY DEF Serve, Receive, Release, CreateWorkspace, GetWorkspace, CreateProject, Lookup,
     CreateUpload, Put, MarkUploaded, MoveUploadedJob, Enqueue, GetDecision, GetReviewable,
     PutSuccessor, SaveDecision, DropSuccessor, repositories
<1>2. CASE jobs' = jobs
  BY <1>1, <1>2, VerdictStays
<1>3. CASE MoveUploadedJob(c)
  <2>1. PICK u : u = Upload(c)
    OBVIOUS
  <2>2. at[c] \in {"createJob", "toUploaded", "toQueued"}
    BY <1>3 DEF MoveUploadedJob, MoveTo
  <2>3. at[c] \in DOMAIN JobAt /\ JobAt[at[c]] # "needs_review"
    BY <2>2, UploadCalls
  <2>4. u \in Jobs /\ jobs[u] # "needs_review"
    BY <2>1, <2>3, Zenon DEF MemoryInv, UploadInv
  <2>5. MoveTo[at[c]] # "needs_review" /\ jobs' = [jobs EXCEPT ![u] = MoveTo[at[c]]]
    BY <1>3, <2>1, <2>2 DEF MoveUploadedJob, MoveTo
  <2>6. \A k \in Jobs : jobs'[k] = "needs_review" <=> jobs[k] = "needs_review"
    BY <2>4, <2>5 DEF MemoryInv, MemoryTypeOK
  <2> QED
    BY <1>1, <2>6, VerdictStays
<1> QED
  BY <1>2, <1>3
  DEF Serve, Receive, Release, CreateWorkspace, GetWorkspace, CreateProject, Lookup, CreateUpload,
      Put, MarkUploaded, Enqueue, GetDecision, GetReviewable, PutSuccessor, SaveDecision,
      DropSuccessor, repositories

(* A request that arrives is not told at once that it decided.               *)
LEMMA Received ==
  ASSUME ConnectionTypes, NEW c \in Connections, Receive(c)
  PROVE  at'[c] = "answered" => code'[c] # 200 \/ ~req'[c].deciding
<1>1. PICK line \in RequestLines :
        LET h == line.handler
            parts == line.parts
            job == IF Len(parts) > 3 THEN parts[4] ELSE None
            part == IF Len(parts) > 1 THEN parts[2] ELSE None
        IN \E body \in Bodies(h) :
             LET refusal == Refusal(h, parts, body)
             IN \/ /\ refusal # 0
                   /\ AnswerTo(c, h = "decision", refusal)
                \/ /\ refusal = 0 /\ h \in Reads
                   /\ AnswerTo(c, FALSE, IF Found(h, part, job) THEN 200 ELSE 404)
                \/ /\ refusal = 0 /\ h \notin Reads
                   /\ \E id \in Fresh(h) :
                        req' = [req EXCEPT ![c] =
                          [deciding |-> h = "decision", method |-> line.method, subject |-> part,
                           job |-> job, fresh |-> id, body |-> body]]
                   /\ Goto(c, FirstCall(h)) /\ UNCHANGED draft
  BY Zenon DEF Receive
<1> DEFINE h == line.handler
           parts == line.parts
           job == IF Len(parts) > 3 THEN parts[4] ELSE None
           part == IF Len(parts) > 1 THEN parts[2] ELSE None
<1>2. PICK body \in Bodies(h) :
        \/ /\ Refusal(h, parts, body) # 0
           /\ AnswerTo(c, h = "decision", Refusal(h, parts, body))
        \/ /\ Refusal(h, parts, body) = 0 /\ h \in Reads
           /\ AnswerTo(c, FALSE, IF Found(h, part, job) THEN 200 ELSE 404)
        \/ /\ Refusal(h, parts, body) = 0 /\ h \notin Reads
           /\ \E id \in Fresh(h) :
                req' = [req EXCEPT ![c] =
                  [deciding |-> h = "decision", method |-> line.method, subject |-> part,
                   job |-> job, fresh |-> id, body |-> body]]
           /\ Goto(c, FirstCall(h)) /\ UNCHANGED draft
  BY <1>1, Zenon
<1>3. h \in Writers \cup Reads \cup {"notFound"}
  BY LineHandlers
<1> HIDE DEF h, parts, job, part
<1>4. Refusal(h, parts, body) \in {0, 400, 404, 500} /\ Refusal("notFound", parts, body) = 404
  <2>1. Refusal("notFound", parts, body) = 404
    BY Zenon DEF Refusal
  <2> QED
    BY <1>3, <2>1, Refusals
<1>5. CASE Refusal(h, parts, body) # 0 /\ AnswerTo(c, h = "decision", Refusal(h, parts, body))
  BY <1>4, <1>5 DEF AnswerTo, ConnectionTypes
<1>6. CASE AnswerTo(c, FALSE, IF Found(h, part, job) THEN 200 ELSE 404)
  BY <1>6 DEF AnswerTo, ConnectionTypes, NoRequest
<1>7. CASE Refusal(h, parts, body) = 0 /\ h \notin Reads /\ Goto(c, FirstCall(h))
  <2>1. h \in Writers
    BY <1>3, <1>4, <1>7
  <2>2. FirstCall(h) # "answered"
    BY <2>1, FirstCalls DEF Writers
  <2> QED
    BY <1>7, <2>2 DEF Goto, ConnectionTypes
<1> QED
  BY <1>2, <1>5, <1>6, <1>7

(* No answer says saved unless the step saved.                               *)
LEMMA UndecidedIsNotSaved ==
  ASSUME MemoryInv, CodeInv, NEW c \in Connections, Serve(c), ~(SaveDecision(c) /\ SaveError(c) = 0)
  PROVE  IF at[c] = "answered" THEN Told(c)' = "asking" ELSE Told(c)' \in {"asking", "refused"}
<1>1. ConnectionTypes /\ RequestInv(c)
  BY DEF MemoryInv, MemoryTypeOK, ConnectionTypes
<1>2. /\ \A b, n : AnswerTo(c, b, n) /\ n # 200 => Told(c)' \in {"asking", "refused"}
      /\ \A n : AnswerTo(c, FALSE, n) => Told(c)' \in {"asking", "refused"}
  BY <1>1 DEF AnswerTo, ConnectionTypes, Told, NoRequest
<1>3. ASSUME NEW call, Goto(c, call), call # "answered"
      PROVE  Told(c)' = "asking"
  BY <1>1, <1>3 DEF Goto, ConnectionTypes, Told
<1>4. CASE Release(c)
  BY <1>1, <1>4 DEF Release, ConnectionTypes, Told
<1>5. CASE Receive(c)
  <2>1. at[c] = "idle"
    BY <1>5 DEF Receive
  <2> QED
    BY <1>1, <1>5, <2>1, Received DEF Told
<1>6. CASE CreateWorkspace(c) \/ CreateProject(c) \/ Enqueue(c)
  BY <1>2, <1>6 DEF CreateWorkspace, CreateProject, Enqueue, Answer
<1>7. CASE GetWorkspace(c) \/ Lookup(c) \/ GetDecision(c)
  BY <1>2, <1>3, <1>7 DEF GetWorkspace, Lookup, GetDecision, Answer, Continue
<1>8. CASE CreateUpload(c) \/ Put(c) \/ MarkUploaded(c) \/ MoveUploadedJob(c)
  BY <1>3, <1>8 DEF CreateUpload, Put, MarkUploaded, MoveUploadedJob, MoveTo, Continue, AfterCall
<1>9. CASE GetReviewable(c)
  BY <1>2, <1>3, <1>9 DEF GetReviewable, Answer
<1>10. CASE PutSuccessor(c)
  BY <1>3, <1>10 DEF PutSuccessor, Continue
<1>11. CASE DropSuccessor(c)
  BY <1>1, <1>2, <1>11 DEF DropSuccessor, Answer, RequestInv
<1>12. CASE SaveDecision(c)
  <2>1. at[c] = "save" /\ Abort(c, SaveError(c)) /\ SaveError(c) # 200
    BY <1>12 DEF SaveDecision, SaveError
  <2>2. CASE Corrected(c)
    BY <1>1, <2>1, <2>2 DEF Abort, ConnectionTypes, Told
  <2>3. CASE ~Corrected(c)
    BY <1>2, <2>1, <2>3 DEF Abort, Answer
  <2> QED
    BY <2>2, <2>3
<1>13. CASE at[c] = "answered"
  BY <1>4, <1>13 DEF Serve, Receive, CreateWorkspace, GetWorkspace, CreateProject, Lookup,
     CreateUpload, Put, MarkUploaded, MoveUploadedJob, MoveTo, Enqueue, GetDecision, GetReviewable,
     PutSuccessor, SaveDecision, DropSuccessor
<1> QED
  <2>1. at[c] # "answered" => Told(c)' \in {"asking", "refused"}
    BY <1>4, <1>5, <1>6, <1>7, <1>8, <1>9, <1>10, <1>11, <1>12, Zenon DEF Serve, Release
  <2> QED
    BY <1>4, <1>13, <2>1, Zenon

(* A step that saves no decision refuses, asks again or says nothing.        *)
LEMMA UndecidedKeepsBook ==
  ASSUME MemoryInv, CodeInv, NEW c \in Connections, Serve(c), ~(SaveDecision(c) /\ SaveError(c) = 0)
  PROVE  Reviews!Next \/ UNCHANGED Reviews!book
<1>1. Spares(c)
  BY OneAtATime, Parts
<1>2. \A k \in Jobs : Verdict(k)' = Verdict(k)
  BY UndecidedKeepsVerdicts
<1>3. \A d \in Connections : d # c => Told(d)' = Told(d)
  BY <1>1 DEF Spares, SameConnection, Told
<1>4. at[c] # "answered" => Told(c) = "asking" /\ Told(c)' \in {"asking", "refused"}
  BY UndecidedIsNotSaved DEF Told
<1>5. at[c] = "answered" => Told(c)' = "asking"
  BY UndecidedIsNotSaved
<1>6. CASE Told(c)' = Told(c)
  BY <1>2, <1>3, <1>6 DEF Reviews!book
<1>7. CASE Told(c) = "asking" /\ Told(c)' = "refused"
  <2>1. Reviews!Refuse(c)
    BY <1>2, <1>3, <1>7 DEF Reviews!Refuse, Reviews!Tell
  <2> QED
    BY <2>1 DEF Reviews!Next
<1>8. CASE Told(c) # "asking" /\ Told(c)' = "asking"
  <2>1. Reviews!AskAgain(c)
    BY <1>2, <1>3, <1>8 DEF Reviews!AskAgain, Reviews!Tell
  <2> QED
    BY <2>1 DEF Reviews!Next
<1> QED
  BY <1>4, <1>5, <1>6, <1>7, <1>8

(* The step that saves a decision is the step that tells the reviewer so.    *)
LEMMA SavedEntersBook ==
  ASSUME MemoryInv, NEW c \in Connections, SaveDecision(c), SaveError(c) = 0
  PROVE  Reviews!Next
<1>1. ConnectionTypes /\ RequestInv(c) /\ Spares(c)
  <2>1. Serve(c)
    BY DEF Serve
  <2> QED
    BY <2>1, OneAtATime, Parts DEF ConnectionInv
<1>2. PICK j : j = req[c].job
  OBVIOUS
<1>3. PICK v : v = req[c].body.kind
  OBVIOUS
<1>4. PICK e : e = [reviewed |-> Reviewed(c), resolved |-> draft[c].id, kind |-> v]
  OBVIOUS
<1>5. /\ j \in Jobs /\ jobs[j] = "needs_review" /\ JobOf(Reviewed(c)) = j
      /\ v \in {"approve", "reject"} /\ \A d \in decisions : JobOf(d.reviewed) # j
      /\ jobs' = [jobs EXCEPT ![j] = Final(v)] /\ decisions' = decisions \cup {e}
  BY <1>2, <1>3, <1>4, SavedDecision
<1>6. e \in decisions' /\ JobOf(e.reviewed) = j /\ e.kind = v
  BY <1>4, <1>5
<1>7. /\ \A d, f \in decisions : JobOf(d.reviewed) = JobOf(f.reviewed) => d = f
      /\ \A d, f \in decisions' : JobOf(d.reviewed) = JobOf(f.reviewed) => d = f
  BY SaveDecisionKeeps DEF MemoryInv, VerdictInv
<1>8. Verdict(j) = "pending" /\ Verdict(j)' = v
  BY <1>5, <1>6, <1>7, VerdictIs, VerdictWillBe DEF Decided
<1>9. ASSUME NEW k \in Jobs, k # j PROVE Verdict(k)' = Verdict(k)
  <2>1. jobs'[k] = jobs[k]
    BY <1>5, <1>9 DEF MemoryInv, MemoryTypeOK
  <2>2. CASE Decided(k)
    <3>1. PICK d \in decisions : JobOf(d.reviewed) = k
      BY <2>2 DEF Decided
    <3>2. d \in decisions'
      BY <1>5
    <3> QED
      BY <1>7, <3>1, <3>2, VerdictIs, VerdictWillBe
  <2>3. CASE ~Decided(k)
    <3>1. ~Decided(k)'
      BY <1>5, <1>6, <1>9, <2>3 DEF Decided
    <3> QED
      BY <1>7, <2>1, <2>3, <3>1, VerdictIs, VerdictWillBe
  <2> QED
    BY <2>2, <2>3
<1>10. Told(c) = "asking" /\ Told(c)' = "saved"
  <2>1. at[c] = "save" /\ AnswerTo(c, req[c].deciding, 200)
    BY <1>5 DEF SaveDecision, Answer
  <2>2. req[c].deciding
    BY <1>1, <2>1 DEF RequestInv, Deciding
  <2>3. at'[c] = "answered" /\ code'[c] = 200 /\ req'[c].deciding = req[c].deciding
    BY <1>1, <2>1 DEF AnswerTo, ConnectionTypes, NoRequest
  <2> QED
    BY <2>1, <2>2, <2>3 DEF Told
<1>11. \A d \in Connections : d # c => Told(d)' = Told(d)
  BY <1>1 DEF Spares, SameConnection, Told
<1>12. Reviews!Decide(c, j, v)
  BY <1>5, <1>8, <1>9, <1>10, <1>11 DEF Reviews!Decide, Reviews!Turn, Reviews!Tell
<1> QED
  BY <1>5, <1>12 DEF Reviews!Next

(* The in-memory repositories keep the promise of the review ledger: a job   *)
(* that waits is decided once, in the step that tells the reviewer so, and   *)
(* never by a request that is refused.                                       *)
THEOREM MemoryRefinement == MemorySpec => MemoryImplementsLedger
<1>1. MemoryInit => Reviews!Init
  <2> SUFFICES ASSUME MemoryInit PROVE Reviews!Init
    OBVIOUS
  <2>1. (\A j \in Jobs : Verdict(j) = "open") /\ \A c \in Connections : Told(c) = "asking"
    BY DEF MemoryInit, Verdict, Told
  <2> QED
    BY <2>1 DEF Reviews!Init
<1>2. MemoryInv /\ CodeInv /\ [MemoryNext]_memoryVars => [Reviews!Next]_Reviews!book
  <2> SUFFICES ASSUME MemoryInv, CodeInv, [MemoryNext]_memoryVars
               PROVE  Reviews!Next \/ UNCHANGED Reviews!book
    OBVIOUS
  <2>1. CASE UNCHANGED memoryVars
    BY <2>1 DEF memoryVars, repositories, connections, Reviews!book, Verdict, Told
  <2> QED
    BY <2>1, RunnersKeepBook, RetryKeepsBook, UndecidedKeepsBook, SavedEntersBook DEF MemoryNext
<1> QED
  BY <1>1, <1>2, CodeInvariant, PTL DEF MemorySpec, MemoryImplementsLedger, Reviews!Spec

-----------------------------------------------------------------------------
(* Only a job that is extracting is held, by the one runner at work on it.   *)
LEMMA Held ==
  ASSUME MemoryInv
  PROVE  /\ \A j \in Jobs : jobs[j] # "extracting" => HoldersOf(j) = {}
         /\ \A w \in Workers : Working(w) =>
              /\ Job(w) \in Jobs /\ jobs[Job(w)] = "extracting" /\ HoldersOf(Job(w)) = {w}
<1>1. \A w \in Workers : Working(w) => Job(w) \in Jobs /\ jobs[Job(w)] = "extracting"
  BY Holding
<1>2. \A v, w \in Workers : Working(v) /\ Working(w) /\ Job(v) = Job(w) => v = w
  BY RunnerParts DEF MemoryInv
<1> QED
  BY <1>1, <1>2 DEF HoldersOf

(* When no runner takes or leaves a job, the same runners hold the same.     *)
LEMMA SameHolders ==
  ASSUME \A w \in Workers : Working(w)' = Working(w) /\ (Working(w) => Job(w)' = Job(w))
  PROVE  \A j \in Jobs : HoldersOf(j)' = HoldersOf(j)
  BY DEF HoldersOf

(* A job nobody holds is moved ahead by its handler, moved by a decision     *)
(* within what the ledger calls settled, or offered again.                   *)
LEMMA UnheldMoves ==
  ASSUME NEW j \in Jobs, HoldersOf(j) = {},
         \A k \in Jobs : HoldersOf(k)' = HoldersOf(k) /\ (k # j => jobs'[k] = jobs[k]),
         \/ jobs[j] = "none" /\ jobs'[j] = "created"
         \/ jobs[j] = "created" /\ jobs'[j] = "uploaded"
         \/ jobs[j] = "uploaded" /\ jobs'[j] = "queued"
         \/ jobs[j] \in Settled /\ jobs'[j] \in Settled \cup {"queued"}
  PROVE  Claims!Next \/ (\E k \in Jobs : Claims!Reoffer(k)) \/ UNCHANGED Claims!ledger
<1>1. \A k \in Jobs : k # j => Phase(k)' = Phase(k)
  BY DEF Phase
<1>2. CASE Phase(j)' = Phase(j)
  BY <1>1, <1>2 DEF Claims!ledger
<1>3. CASE Phase(j) = "absent" /\ Phase(j)' = "prepared"
  <2>1. Claims!Prepare(j)
    BY <1>1, <1>3 DEF Claims!Prepare, Claims!Move
  <2> QED
    BY <2>1 DEF Claims!Next
<1>4. CASE Phase(j) = "prepared" /\ Phase(j)' = "offered"
  <2>1. Claims!Offer(j)
    BY <1>1, <1>4 DEF Claims!Offer, Claims!Move
  <2> QED
    BY <2>1 DEF Claims!Next
<1>5. CASE Phase(j) = "settled" /\ Phase(j)' = "offered"
  <2>1. Claims!Reoffer(j)
    BY <1>1, <1>5 DEF Claims!Reoffer, Claims!Move
  <2> QED
    BY <2>1
<1> QED
  BY <1>2, <1>3, <1>4, <1>5 DEF Phase, Settled

(* What a connection does to a job is no claim.                              *)
LEMMA ServeKeepsClaims ==
  ASSUME MemoryInv, NEW c \in Connections, Serve(c)
  PROVE  Claims!Next \/ (\E k \in Jobs : Claims!Reoffer(k)) \/ UNCHANGED Claims!ledger
<1>1. runner' = runner
  BY DEF Serve, Receive, Release, CreateWorkspace, GetWorkspace, CreateProject, Lookup,
     CreateUpload, Put, MarkUploaded, MoveUploadedJob, Enqueue, GetDecision, GetReviewable,
     PutSuccessor, SaveDecision, DropSuccessor
<1>2. \A k \in Jobs : HoldersOf(k)' = HoldersOf(k)
  BY <1>1 DEF HoldersOf, Working, Job
<1>3. CASE jobs' = jobs
  BY <1>2, <1>3 DEF Claims!ledger, Phase
<1>4. CASE MoveUploadedJob(c)
  <2>1. PICK u, call : u = Upload(c) /\ call = at[c]
    OBVIOUS
  <2>2. call \in {"createJob", "toUploaded", "toQueued"} /\ jobs' = [jobs EXCEPT ![u] = MoveTo[call]]
    BY <1>4, <2>1, Moves DEF MoveUploadedJob
  <2>3. u \in Jobs /\ jobs[u] = JobAt[call]
    BY <2>1, <2>2, UploadCalls DEF MemoryInv, UploadInv
  <2>4. jobs'[u] = MoveTo[call] /\ \A k \in Jobs : k # u => jobs'[k] = jobs[k]
    BY <2>2, <2>3 DEF MemoryInv, MemoryTypeOK
  <2>5. \/ jobs[u] = "none" /\ jobs'[u] = "created"
        \/ jobs[u] = "created" /\ jobs'[u] = "uploaded"
        \/ jobs[u] = "uploaded" /\ jobs'[u] = "queued"
    BY <2>2, <2>3, <2>4, Moves, UploadCalls
  <2>6. HoldersOf(u) = {}
    BY <2>3, <2>5, Held
  <2> QED
    BY <1>2, <2>3, <2>4, <2>5, <2>6, UnheldMoves
<1>5. CASE SaveDecision(c) /\ SaveError(c) = 0
  <2>1. PICK j, kind : j = req[c].job /\ kind = req[c].body.kind
    OBVIOUS
  <2>2. /\ j \in Jobs /\ jobs[j] = "needs_review" /\ jobs' = [jobs EXCEPT ![j] = Final(kind)]
    BY <1>5, <2>1, SavedDecision
  <2>3. jobs'[j] \in Settled /\ \A k \in Jobs : k # j => jobs'[k] = jobs[k]
    BY <2>2 DEF MemoryInv, MemoryTypeOK, Final, Settled
  <2>4. HoldersOf(j) = {} /\ jobs[j] \in Settled
    BY <2>2, Held DEF Settled
  <2> QED
    BY <1>2, <2>2, <2>3, <2>4, UnheldMoves
<1> QED
  BY <1>3, <1>4, <1>5 DEF Serve, Receive, Release, CreateWorkspace, GetWorkspace, CreateProject,
     Lookup, CreateUpload, Put, MarkUploaded, Enqueue, GetDecision, GetReviewable, PutSuccessor,
     SaveDecision, DropSuccessor, repositories

(* What a runner does to a job it claims or holds.                           *)
LEMMA RunnersClaim ==
  ASSUME MemoryInv, NEW w \in Workers, RunnerStep(w)
  PROVE  Claims!Next \/ UNCHANGED Claims!ledger
<1> USE DEF Working, Work, Persisting, Job
<1>1. PICK j : j = Job(w)
  OBVIOUS
<1>2. runner[w] \in [at : {"down", "dequeue", "claim"} \cup Work, job : Jobs \cup {None},
                    status : {"none"} \cup Settled, no : 0..MaxRevisions]
      /\ DOMAIN runner = Workers /\ DOMAIN jobs = Jobs
  BY DEF MemoryInv, MemoryTypeOK
<1>3. \A v \in Workers : v # w => runner'[v] = runner[v]
  BY <1>2 DEF RunnerStep, StartRunner, Dequeue, Claim, GetUpload, GetObject, Extract, PersistCheck,
     PutExtraction, PutCircuit, PutArtifact, Save, Settle, Run, Drop
<1>4. CASE Claim(w) /\ jobs[j] = "queued"
  <2>1. /\ j \in Jobs /\ HoldersOf(j) = {} /\ ~Working(w)
    BY <1>1, <1>4, Held, Holding DEF Claim
  <2>2. /\ jobs' = [jobs EXCEPT ![j] = "extracting"] /\ runner' = [runner EXCEPT ![w].at = "getUpload"]
    BY <1>1, <1>4 DEF Claim, StatusIs, Run
  <2>3. /\ jobs'[j] = "extracting" /\ \A k \in Jobs : k # j => jobs'[k] = jobs[k]
        /\ runner'[w].at = "getUpload" /\ runner'[w].job = j
    BY <1>1, <1>2, <2>1, <2>2
  <2>4. Phase(j) = "offered" /\ Phase(j)' = "claimed" /\ \A k \in Jobs : k # j => Phase(k)' = Phase(k)
    BY <1>4, <2>3 DEF Phase
  <2>5. HoldersOf(j)' = {w} /\ \A k \in Jobs : k # j => HoldersOf(k)' = HoldersOf(k)
    BY <1>3, <2>1, <2>3 DEF HoldersOf
  <2>6. Claims!Claim(j, {w})
    BY <2>1, <2>4, <2>5 DEF Claims!Claim, Claims!Move
  <2> QED
    BY <2>1, <2>6 DEF Claims!Next
<1>5. CASE Settle(w)
  <2>1. Working(w)
    BY <1>5 DEF Settle
  <2>2. j \in Jobs /\ jobs[j] = "extracting" /\ HoldersOf(j) = {w}
    BY <1>1, <2>1, Held
  <2>3. PICK to \in Settled : jobs' = [jobs EXCEPT ![j] = to]
    BY <1>1, <1>5, <2>2 DEF Settle, StatusIs, StatusFromCircuit, Settled
  <2>4. /\ jobs'[j] \in Settled /\ \A k \in Jobs : k # j => jobs'[k] = jobs[k]
        /\ ~Working(w)'
    BY <1>2, <1>5, <2>2, <2>3 DEF Settle, Drop, Idle
  <2>5. Phase(j) = "claimed" /\ Phase(j)' = "settled" /\ \A k \in Jobs : k # j => Phase(k)' = Phase(k)
    BY <2>2, <2>4 DEF Phase, Settled
  <2>6. HoldersOf(j)' = {} /\ \A k \in Jobs : k # j => HoldersOf(k)' = HoldersOf(k)
    BY <1>1, <1>3, <2>2, <2>4 DEF HoldersOf
  <2>7. Claims!Settle(j, w)
    BY <2>2, <2>5, <2>6 DEF Claims!Settle, Claims!Move
  <2> QED
    BY <2>2, <2>7 DEF Claims!Next
<1>6. CASE ~(Claim(w) /\ jobs[j] = "queued") /\ ~Settle(w)
  <2>1. jobs' = jobs
    BY <1>1, <1>6 DEF RunnerStep, StartRunner, Dequeue, Claim, GetUpload, GetObject, Extract,
       PersistCheck, PutExtraction, PutCircuit, PutArtifact, Save, StatusIs, repositories
  <2>2. Working(w)' = Working(w) /\ (Working(w) => Job(w)' = Job(w))
    <3>1. CASE StartRunner(w) \/ Dequeue(w) \/ Claim(w)
      <4>1. \/ Run(w, "dequeue") \/ Drop(w, "down")
            \/ \E k : runner' = [runner EXCEPT ![w] = [Idle EXCEPT !.at = "claim", !.job = k]]
        BY <1>1, <1>6, <3>1 DEF StartRunner, Dequeue, Claim, StatusIs
      <4>2. ~Working(w) /\ runner'[w].at \in {"down", "dequeue", "claim"}
        BY <1>2, <3>1, <4>1 DEF StartRunner, Dequeue, Claim, Run, Drop, Idle
      <4> QED
        BY <4>2
    <3>2. CASE GetUpload(w) \/ GetObject(w) \/ Save(w) \/ PutExtraction(w) \/ PutCircuit(w)
      <4>1. PICK call \in Work : Run(w, call) /\ Working(w)
        BY <3>2 DEF GetUpload, GetObject, Save, PutExtraction, PutCircuit, PutArtifact
      <4>2. runner'[w].at = call /\ runner'[w].job = runner[w].job
        BY <1>2, <4>1 DEF Run
      <4> QED
        BY <4>1, <4>2
    <3>3. CASE Extract(w)
      <4>1. runner[w].at = "extract" /\ runner'[w].at \in {"fail", "persistCheck"}
            /\ runner'[w].job = runner[w].job
        BY <1>2, <3>3 DEF Extract, Run
      <4> QED
        BY <4>1
    <3>4. CASE PersistCheck(w)
      <4>1. runner[w].at = "persistCheck" /\ runner'[w].at \in {"complete", "putExtraction"}
            /\ runner'[w].job = runner[w].job
        BY <1>2, <3>4 DEF PersistCheck
      <4> QED
        BY <4>1
    <3> QED
      BY <1>6, <3>1, <3>2, <3>3, <3>4 DEF RunnerStep
  <2>3. \A k \in Jobs : HoldersOf(k)' = HoldersOf(k)
    BY <1>3, <2>2, SameHolders
  <2> QED
    BY <2>1, <2>3 DEF Claims!ledger, Phase
<1> QED
  BY <1>4, <1>5, <1>6

(* An operator offers a job again that is settled, so that nobody holds it.  *)
LEMMA RetryReoffers ==
  ASSUME MemoryInv, NEW j \in Jobs, Retry(j)
  PROVE  Claims!Next \/ (\E k \in Jobs : Claims!Reoffer(k)) \/ UNCHANGED Claims!ledger
<1>1. \A k \in Jobs : HoldersOf(k)' = HoldersOf(k)
  BY DEF Retry, HoldersOf, Working, Job
<1>2. jobs[j] \in Settled /\ jobs'[j] = "queued" /\ \A k \in Jobs : k # j => jobs'[k] = jobs[k]
  BY DEF Retry, MemoryInv, MemoryTypeOK
<1>3. HoldersOf(j) = {}
  BY <1>2, Held DEF Settled
<1> QED
  BY <1>1, <1>2, <1>3, UnheldMoves

(* The in-memory repositories and queue keep the promise of the claim ledger *)
(* with retries, for any number of runners: one claim per offer, settled by  *)
(* the runner that made it, with no job lost, and a job that an operator     *)
(* offers again is not decided by a request that began before.               *)
THEOREM MemoryClaimRefinement == MemorySpec => MemoryImplementsClaims
<1>1. MemoryInit => Claims!Init
  <2> SUFFICES ASSUME MemoryInit PROVE Claims!Init
    OBVIOUS
  <2>1. \A j \in Jobs : Phase(j) = "absent" /\ HoldersOf(j) = {}
    BY DEF MemoryInit, Phase, HoldersOf, Working, Work, Persisting, Idle
  <2> QED
    BY <2>1 DEF Claims!Init
<1>2. MemoryInv /\ [MemoryNext]_memoryVars
        => [Claims!Next \/ \E j \in Jobs : Claims!Reoffer(j)]_Claims!ledger
  <2> SUFFICES ASSUME MemoryInv, [MemoryNext]_memoryVars
               PROVE  Claims!Next \/ (\E j \in Jobs : Claims!Reoffer(j)) \/ UNCHANGED Claims!ledger
    OBVIOUS
  <2>1. CASE UNCHANGED memoryVars
    BY <2>1 DEF memoryVars, repositories, Claims!ledger, Phase, HoldersOf, Working, Job
  <2> QED
    BY <2>1, ServeKeepsClaims, RunnersClaim, RetryReoffers DEF MemoryNext
<1> QED
  BY <1>1, <1>2, MemoryInvariant, PTL DEF MemorySpec, MemoryImplementsClaims, Claims!RetriedSpec
=============================================================================
