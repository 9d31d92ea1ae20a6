---------------------------- MODULE BuildsProofs ----------------------------
(***************************************************************************)
(* The queue of builds hands each row to one worker at a time, and the     *)
(* table keeps its shape, for any number of services, workers, polling     *)
(* passes, commits and dependencies.                                       *)
(***************************************************************************)
EXTENDS Builds, Integers, SequenceTheorems, FiniteSetTheorems, WellFoundedInduction, TLAPS

\* The rows of service_builds, and what a polling pass remembers.
BuildRow ==
  [service : Service, sha : Nat, by : {"poll", "manual"}, status : Status,
   deps : SUBSET (Service \X Nat)]

PollState ==
  [at : {"idle"}] \cup [at : {"remote", "new"}, service : Service, sha : Nat]

AtWork == {"resolve", "pipeline", "dependencies"}
FollowingUp == {"dispatch", "list", "trigger"}

-----------------------------------------------------------------------------
\* The newest of a set of rows is one of them, and no other is newer: what ORDER
\* BY created_at DESC LIMIT 1 returns.
LEMMA NewestRow ==
  ASSUME NEW n \in Nat, NEW I \in SUBSET (1 .. n)
  PROVE  /\ Newest(I) \in I \cup {0}
         /\ I # {} => Newest(I) \in I
         /\ \A j \in I : j <= Newest(I)
<1>1. CASE I = {}
  BY <1>1 DEF Newest
<1>2. CASE I # {}
  <2> DEFINE D == {m \in Nat : n - m \in I}
  <2>1. D # {}
    <3>1. PICK i \in I : TRUE
      BY <1>2
    <3>2. n - i \in Nat /\ n - (n - i) = i
      OBVIOUS
    <3> QED
      BY <3>1, <3>2
  <2>2. PICK d \in D : \A e \in D : d <= e
    <3>1. \E d \in D : \A e \in D : ~(<<e, d>> \in OpToRel(<, Nat))
      BY <2>1, NatLessThanWellFounded, WFMin
    <3>2. \A d, e \in Nat : (<<e, d>> \in OpToRel(<, Nat)) <=> e < d
      BY Zenon DEF OpToRel
    <3>3. \E d \in D : \A e \in D : ~(e < d)
      BY <3>1, <3>2
    <3> QED
      BY <3>3
  <2>3. PICK i \in I : d = n - i
    OBVIOUS
  <2>4. \A j \in I : j <= i
    BY <2>2, <2>3
  <2> QED
    BY <1>2, <2>3, <2>4 DEF Newest
<1> QED
  BY <1>1, <1>2

-----------------------------------------------------------------------------
\* What the table keeps through every step, ...
Shapes ==
  /\ head \in [Service -> Nat]
  /\ builds \in Seq(BuildRow)
  /\ dependsOn \in [Service -> SUBSET Service]
  /\ poll \in [Poller -> PollState]
  /\ job \in [Worker -> Nat]
  /\ pc \in [Worker -> {"idle"} \cup AtWork \cup FollowingUp]
  /\ todo \in [Worker -> SUBSET Service]
  /\ deployed \in [Service -> Nat]
  /\ overlapped \subseteq Service /\ lost \subseteq Service
  /\ manual \in 0 .. MaxManual /\ faults \in 0 .. MaxFaults

\* ... nothing names a commit that was not pushed, ...
Commits ==
  /\ \A s \in Service : head[s] \in 1 .. MaxCommits(s)
  /\ \A i \in Id : builds[i].sha <= head[builds[i].service]
  /\ \A p \in Poller : poll[p].at # "idle" => poll[p].sha <= head[poll[p].service]

\* ... or a build that does not exist, ...
References ==
  /\ \A i \in Id : builds[i].deps \subseteq Service \X Id
  /\ \A s \in Service : deployed[s] \in {0} \cup Id

\* ... and the row of a worker's build is where the worker is: never queued, so
\* never claimed again.
WorkerJob(w) ==
  /\ pc[w] = "idle" => job[w] = 0
  /\ pc[w] # "idle" => job[w] \in Id
  /\ pc[w] \in AtWork => builds[job[w]].status = "running"
  /\ pc[w] \in {"pipeline", "dependencies"} => builds[job[w]].sha # 0
  /\ pc[w] \in FollowingUp => builds[job[w]].status = "success"

Jobs == \A w \in Worker : WorkerJob(w)

IInv == Shapes /\ Commits /\ References /\ Jobs /\ ClaimedOnce

LEMMA RowsTyped ==
  ASSUME Shapes
  PROVE  \A i \in Id : i \in Nat /\ i # 0 /\ builds[i] \in BuildRow
  BY DEF Shapes, Id

\* What an INSERT does to the table.
LEMMA AfterEnqueue ==
  ASSUME Shapes, NEW r \in BuildRow, Enqueue(r)
  PROVE  /\ builds' \in Seq(BuildRow)
         /\ Id' = Id \cup {Len(builds) + 1}
         /\ \A i \in Id : builds'[i] = builds[i] /\ i # Len(builds) + 1
         /\ builds'[Len(builds) + 1] = r
<1>1. Len(builds) \in Nat
  BY DEF Shapes
<1>2. /\ builds' \in Seq(BuildRow)
      /\ Len(builds') = Len(builds) + 1
      /\ \A i \in Id : builds'[i] = builds[i]
      /\ builds'[Len(builds) + 1] = r
  BY AppendProperties DEF Shapes, Enqueue, Id
<1> QED
  BY <1>1, <1>2 DEF Id

\* What an UPDATE of one row does.
LEMMA AfterUpdate ==
  ASSUME Shapes, NEW i \in Id, NEW r \in BuildRow, builds' = [builds EXCEPT ![i] = r]
  PROVE  /\ builds' \in Seq(BuildRow)
         /\ Id' = Id
         /\ builds'[i] = r
         /\ \A j \in Id : j # i => builds'[j] = builds[j]
<1>1. /\ builds' \in Seq(BuildRow)
      /\ Len(builds') = Len(builds)
      /\ \A j \in Id : builds'[j] = IF j = i THEN r ELSE builds[j]
  BY ExceptSeq DEF Shapes, Id
<1> QED
  BY <1>1 DEF Id

LEMMA AfterSetStatus ==
  ASSUME Shapes, NEW i \in Id, NEW st \in Status, SetStatus(i, st)
  PROVE  /\ builds' \in Seq(BuildRow)
         /\ Id' = Id
         /\ builds'[i].status = st
         /\ \A j \in Id : j # i => builds'[j] = builds[j]
         /\ \A j \in Id : /\ builds'[j].service = builds[j].service
                          /\ builds'[j].sha = builds[j].sha
                          /\ builds'[j].by = builds[j].by
                          /\ builds'[j].deps = builds[j].deps
<1> DEFINE r == [builds[i] EXCEPT !.status = st]
<1>1. builds[i] \in BuildRow
  BY RowsTyped
<1>2. r \in BuildRow /\ r.status = st /\ r.service = builds[i].service
      /\ r.sha = builds[i].sha /\ r.by = builds[i].by /\ r.deps = builds[i].deps
  BY <1>1 DEF BuildRow
<1>3. builds' = [builds EXCEPT ![i] = r]
  BY DEF SetStatus
<1> HIDE DEF r
<1> QED
  BY <1>2, <1>3, AfterUpdate

\* A new row names a commit that exists, and no build.
LEMMA EnqueueKeeps ==
  ASSUME IInv, NEW s \in Service, NEW n \in Nat, n <= head[s], NEW by \in {"poll", "manual"},
         Enqueue(Row(s, n, by)), head' = head, deployed' = deployed
  PROVE  /\ builds' \in Seq(BuildRow)
         /\ \A i \in Id' : builds'[i].sha <= head'[builds'[i].service]
         /\ References'
         /\ \A i \in Id : i \in Id' /\ builds'[i] = builds[i]
<1> DEFINE r == Row(s, n, by)
<1>1. r \in BuildRow /\ r.service = s /\ r.sha = n /\ r.deps = {}
  BY DEF Row, BuildRow, Status
<1> HIDE DEF r
<1>2. /\ builds' \in Seq(BuildRow)
      /\ Id' = Id \cup {Len(builds) + 1}
      /\ \A i \in Id : builds'[i] = builds[i]
      /\ builds'[Len(builds) + 1] = r
  BY <1>1, AfterEnqueue DEF IInv, r
<1>3. \A i \in Id' : builds'[i].sha <= head'[builds'[i].service]
  BY <1>1, <1>2 DEF IInv, Commits
<1>4. References'
  BY <1>1, <1>2 DEF IInv, References
<1> QED
  BY <1>2, <1>3, <1>4

\* A row that changes its status keeps everything else.
LEMMA SetStatusKeeps ==
  ASSUME IInv, NEW i \in Id, NEW st \in Status, SetStatus(i, st),
         head' = head, deployed' = deployed
  PROVE  /\ builds' \in Seq(BuildRow)
         /\ \A j \in Id' : builds'[j].sha <= head'[builds'[j].service]
         /\ References'
         /\ Id' = Id
         /\ builds'[i].status = st
         /\ \A j \in Id : builds'[j].sha = builds[j].sha
         /\ \A j \in Id : j # i => builds'[j] = builds[j]
<1>1. /\ builds' \in Seq(BuildRow)
      /\ Id' = Id
      /\ builds'[i].status = st
      /\ \A j \in Id : j # i => builds'[j] = builds[j]
      /\ \A j \in Id : /\ builds'[j].service = builds[j].service
                       /\ builds'[j].sha = builds[j].sha
                       /\ builds'[j].deps = builds[j].deps
  BY AfterSetStatus DEF IInv
<1>2. \A j \in Id' : builds'[j].sha <= head'[builds'[j].service]
  BY <1>1 DEF IInv, Commits
<1>3. References'
  BY <1>1 DEF IInv, References
<1> QED
  BY <1>1, <1>2, <1>3

\* Steps that leave the table and the branches alone.
LEMMA NoRowKeeps ==
  ASSUME IInv, UNCHANGED <<head, builds>>
  PROVE  /\ builds' \in Seq(BuildRow)
         /\ Id' = Id
         /\ \A i \in Id' : builds'[i].sha <= head'[builds'[i].service]
         /\ \A i \in Id' : builds'[i].deps \subseteq Service \X Id'
  BY DEF IInv, Shapes, Commits, References, Id

\* Steps of others leave a worker where it is.
LEMMA JobsKept ==
  ASSUME Jobs, ClaimedOnce, UNCHANGED <<job, pc>>,
         \A i \in Id : i \in Id' /\ builds'[i] = builds[i]
  PROVE  Jobs' /\ ClaimedOnce'
<1>1. ClaimedOnce'
  BY DEF ClaimedOnce
<1>2. Jobs'
  BY DEF Jobs, WorkerJob, AtWork, FollowingUp
<1> QED
  BY <1>1, <1>2

-----------------------------------------------------------------------------
\* Pushes, manual builds and the poller.
LEMMA OutsideKeeps ==
  ASSUME IInv,
         \/ \E s \in Service : Push(s) \/ StartManualBuild(s)
         \/ \E p \in Poller : PollerStep(p) \/ \E s \in Service : LsRemote(p, s)
  PROVE  IInv'
<1> USE DEF IInv, workerVars, historyVars
<1>1. ASSUME NEW s \in Service, Push(s)
      PROVE  IInv'
  <2>1. Shapes' /\ References' /\ Jobs' /\ ClaimedOnce'
    BY <1>1 DEF Push, Shapes, References, Jobs, WorkerJob, ClaimedOnce, Id
  <2>2. \A i \in Id : builds[i].service \in Service
    BY RowsTyped DEF BuildRow
  <2>3. \A p \in Poller : poll[p].at # "idle" => poll[p].service \in Service /\ poll[p].sha \in Nat
    BY DEF Shapes, PollState
  <2>4. head' \in [Service -> Nat] /\ \A t \in Service : head[t] <= head'[t]
    BY <1>1 DEF Push, Shapes
  <2>5. \A t \in Service : head'[t] \in 1 .. MaxCommits(t)
    BY <1>1, BoundsAssumption DEF Push, Shapes, Commits
  <2>6. \A i \in Id : builds[i].sha \in Nat
    BY RowsTyped DEF BuildRow
  <2>7. UNCHANGED <<builds, poll, Id>>
    BY <1>1 DEF Push, Id
  <2>8. \A i \in Id : builds[i].sha <= head'[builds[i].service]
    BY <2>2, <2>4, <2>6 DEF Shapes, Commits
  <2>9. \A p \in Poller : poll[p].at # "idle" => poll[p].sha <= head'[poll[p].service]
    BY <2>3, <2>4 DEF Shapes, Commits
  <2>10. Commits'
    BY <2>5, <2>7, <2>8, <2>9 DEF Commits
  <2> QED
    BY <2>1, <2>10
<1>2. ASSUME NEW s \in Service, StartManualBuild(s)
      PROVE  IInv'
  <2>1. /\ builds' \in Seq(BuildRow)
        /\ \A i \in Id' : builds'[i].sha <= head'[builds'[i].service]
        /\ References'
        /\ \A i \in Id : i \in Id' /\ builds'[i] = builds[i]
    <3>1. 0 <= head[s]
      BY DEF Shapes
    <3> QED
      BY <1>2, <3>1, EnqueueKeeps DEF StartManualBuild
  <2>2. Shapes'
    BY <1>2, <2>1, BoundsAssumption DEF StartManualBuild, Shapes
  <2>3. Commits'
    BY <1>2, <2>1 DEF StartManualBuild, Commits
  <2>4. Jobs' /\ ClaimedOnce'
    BY <1>2, <2>1, JobsKept DEF StartManualBuild
  <2> QED
    BY <2>1, <2>2, <2>3, <2>4
<1>3. ASSUME NEW p \in Poller, NEW s \in Service, LsRemote(p, s)
      PROVE  IInv'
  <2>1. UNCHANGED <<head, builds, dependsOn, workerVars, historyVars>>
    BY <1>3 DEF LsRemote
  <2>2. poll' \in [Poller -> PollState]
    BY <1>3 DEF LsRemote, Shapes, PollState
  <2>3. \A q \in Poller : poll'[q].at # "idle" => poll'[q].sha <= head[poll'[q].service]
    BY <1>3 DEF LsRemote, Shapes, Commits
  <2>4. Shapes' /\ Commits'
    BY <2>1, <2>2, <2>3 DEF Shapes, Commits, Id
  <2>5. References' /\ Jobs' /\ ClaimedOnce'
    BY <2>1 DEF References, Jobs, WorkerJob, ClaimedOnce, Id
  <2> QED
    BY <2>4, <2>5
<1>4. ASSUME NEW p \in Poller, CompareSha(p)
      PROVE  IInv'
  <2>1. UNCHANGED <<head, builds, dependsOn, workerVars, historyVars>>
    BY <1>4 DEF CompareSha
  <2>2. poll[p] \in [at : {"remote", "new"}, service : Service, sha : Nat]
    BY <1>4 DEF CompareSha, Shapes, PollState
  <2>3. \E r \in {IdlePoll, [poll[p] EXCEPT !.at = "new"]} : poll' = [poll EXCEPT ![p] = r]
    BY <1>4 DEF CompareSha
  <2>4. /\ IdlePoll \in PollState /\ IdlePoll.at = "idle"
        /\ [poll[p] EXCEPT !.at = "new"] \in PollState
        /\ [poll[p] EXCEPT !.at = "new"].service = poll[p].service
        /\ [poll[p] EXCEPT !.at = "new"].sha = poll[p].sha
    BY <2>2 DEF PollState, IdlePoll
  <2>5. poll' \in [Poller -> PollState]
    BY <2>3, <2>4 DEF Shapes
  <2>6. poll[p].at # "idle"
    BY <2>2
  <2>7. \A q \in Poller : poll'[q].at # "idle" => poll'[q].sha <= head[poll'[q].service]
    BY <2>3, <2>4, <2>6 DEF Shapes, Commits
  <2>8. Shapes' /\ Commits'
    BY <2>1, <2>5, <2>7 DEF Shapes, Commits, Id
  <2>9. References' /\ Jobs' /\ ClaimedOnce'
    BY <2>1 DEF References, Jobs, WorkerJob, ClaimedOnce, Id
  <2> QED
    BY <2>8, <2>9
<1>5. ASSUME NEW p \in Poller, EnqueuePolled(p)
      PROVE  IInv'
  <2>1. poll[p].service \in Service /\ poll[p].sha \in Nat
        /\ poll[p].sha <= head[poll[p].service]
    BY <1>5 DEF EnqueuePolled, Shapes, Commits, PollState
  <2>2. /\ builds' \in Seq(BuildRow)
        /\ \A i \in Id' : builds'[i].sha <= head'[builds'[i].service]
        /\ References'
        /\ \A i \in Id : i \in Id' /\ builds'[i] = builds[i]
    BY <1>5, <2>1, EnqueueKeeps DEF EnqueuePolled
  <2>3. IdlePoll \in PollState /\ IdlePoll.at = "idle"
    BY DEF IdlePoll, PollState
  <2>4. Shapes'
    BY <1>5, <2>2, <2>3 DEF EnqueuePolled, Shapes
  <2>5. Commits'
    BY <1>5, <2>2, <2>3 DEF EnqueuePolled, Shapes, Commits
  <2>6. Jobs' /\ ClaimedOnce'
    BY <1>5, <2>2, JobsKept DEF EnqueuePolled
  <2> QED
    BY <2>2, <2>4, <2>5, <2>6
<1> QED
  BY <1>1, <1>2, <1>3, <1>4, <1>5 DEF PollerStep

-----------------------------------------------------------------------------
\* The build a worker has is a row, and its service a service.
LEMMA OwnJob ==
  ASSUME IInv, NEW w \in Worker, pc[w] # "idle"
  PROVE  job[w] \in Id /\ builds[job[w]] \in BuildRow /\ builds[job[w]].service \in Service
<1>1. job[w] \in Id
  BY DEF IInv, Jobs, WorkerJob
<1>2. builds[job[w]] \in BuildRow
  BY <1>1, RowsTyped DEF IInv
<1> QED
  BY <1>1, <1>2 DEF BuildRow

\* A step of one worker leaves the builds of the others alone.
LEMMA OtherJobsKept ==
  ASSUME IInv, NEW w \in Worker,
         \A v \in Worker \ {w} : job'[v] = job[v] /\ pc'[v] = pc[v],
         \A i \in Id : i \in Id' /\ (i \notin {job[w], job'[w]} => builds'[i] = builds[i]),
         job'[w] \in {0, job[w]} \/ \A v \in Worker : job[v] # job'[w],
         WorkerJob(w)'
  PROVE  Jobs' /\ ClaimedOnce'
<1>1. ClaimedOnce'
  BY DEF IInv, ClaimedOnce
<1>2. 0 \notin Id
  BY RowsTyped DEF IInv
<1>3. ASSUME NEW v \in Worker \ {w}
      PROVE  WorkerJob(v)'
  <2>1. CASE pc[v] = "idle"
    BY <2>1 DEF IInv, Jobs, WorkerJob, AtWork, FollowingUp
  <2>2. CASE pc[v] # "idle"
    <3>1. job[v] \in Id /\ job[v] # 0
      BY <1>2, <2>2, OwnJob
    <3>2. job[v] # job[w] /\ job[v] # job'[w]
      BY <3>1 DEF IInv, ClaimedOnce
    <3>3. job[v] \in Id' /\ builds'[job[v]] = builds[job[v]]
      BY <3>1, <3>2
    <3> QED
      BY <2>2, <3>3 DEF IInv, Jobs, WorkerJob, AtWork, FollowingUp
  <2> QED
    BY <2>1, <2>2
<1> QED
  BY <1>1, <1>3 DEF Jobs

\* A worker takes a build, and its row becomes running.
LEMMA ClaimKeeps ==
  ASSUME IInv, NEW w \in Worker, NEW i \in Id, Claim(w, i)
  PROVE  IInv'
<1> USE DEF IInv
<1>1. /\ pc[w] = "idle" /\ builds[i].status = "queued"
      /\ UNCHANGED <<head, poll, todo, dependsOn, deployed, lost, manual, faults>>
      /\ SetStatus(i, "running")
      /\ job' = [job EXCEPT ![w] = i]
      /\ pc' = [pc EXCEPT ![w] = IF builds[i].sha = 0 THEN "resolve" ELSE "pipeline"]
  BY DEF Claim, Take, Claimable, Queued, Goto
<1>2. /\ builds' \in Seq(BuildRow)
      /\ \A j \in Id' : builds'[j].sha <= head'[builds'[j].service]
      /\ References'
      /\ Id' = Id
      /\ builds'[i].status = "running"
      /\ \A j \in Id : builds'[j].sha = builds[j].sha
      /\ \A j \in Id : j # i => builds'[j] = builds[j]
  BY <1>1, SetStatusKeeps DEF Status
<1>3. i \in Nat /\ builds[i].service \in Service
  BY RowsTyped DEF BuildRow
<1>4. overlapped' \subseteq Service
  BY <1>3 DEF Claim, Take, Shapes
<1>5. Shapes'
  BY <1>1, <1>2, <1>3, <1>4 DEF Shapes, AtWork
<1>6. Commits'
  BY <1>1, <1>2 DEF Commits
<1>7. \A v \in Worker : job[v] # i
  <2> SUFFICES ASSUME NEW v \in Worker, job[v] = i
               PROVE  FALSE
    OBVIOUS
  <2>1. pc[v] # "idle"
    BY RowsTyped DEF Jobs, WorkerJob
  <2> QED
    BY <1>1, <2>1 DEF Jobs, WorkerJob, Shapes, AtWork, FollowingUp
<1>8. WorkerJob(w)'
  BY <1>1, <1>2 DEF WorkerJob, Shapes, AtWork, FollowingUp
<1>9. job'[w] = i /\ \A v \in Worker \ {w} : job'[v] = job[v] /\ pc'[v] = pc[v]
  BY <1>1 DEF Shapes
<1>10. Jobs' /\ ClaimedOnce'
  BY <1>2, <1>7, <1>8, <1>9, OtherJobsKept
<1> QED
  BY <1>2, <1>5, <1>6, <1>10

\* A worker's build ends without an image, or with one.
LEMMA EndKeeps ==
  ASSUME IInv, NEW w \in Worker, NoPipeline(w) \/ Fail(w) \/ Succeed(w)
  PROVE  IInv'
<1> USE DEF IInv
<1> DEFINE i == job[w]
<1>1. /\ pc[w] \in AtWork
      /\ \E st \in {"no_pipeline", "failed", "success"} : SetStatus(i, st)
      /\ UNCHANGED <<head, poll, dependsOn, historyVars>>
  BY DEF NoPipeline, Fail, Succeed, EndWithout, AtWork
<1>2. i \in Id /\ i \in Nat
  BY <1>1, OwnJob, RowsTyped DEF AtWork
<1>3. /\ builds' \in Seq(BuildRow)
      /\ \A j \in Id' : builds'[j].sha <= head'[builds'[j].service]
      /\ References'
      /\ Id' = Id
      /\ \A j \in Id : j # i => builds'[j] = builds[j]
  BY <1>1, <1>2, SetStatusKeeps DEF Status, historyVars
<1>4. \/ job' = [job EXCEPT ![w] = 0] /\ pc' = [pc EXCEPT ![w] = "idle"]
           /\ todo' = [todo EXCEPT ![w] = {}]
      \/ /\ job' = job /\ todo' = todo /\ SetStatus(i, "success")
         /\ pc' = [pc EXCEPT ![w] = "dispatch"] \/ pc' = [pc EXCEPT ![w] = "list"]
  BY DEF NoPipeline, Fail, Succeed, EndWithout, Release, Goto
<1>5. Shapes'
  <2>1. job' \in [Worker -> Nat]
    <3>1. job' \in {job, [job EXCEPT ![w] = 0]}
      BY <1>4
    <3>2. job \in [Worker -> Nat]
      BY DEF Shapes
    <3> QED
      BY ONLY <3>1, <3>2
  <2>3. todo' \in [Worker -> SUBSET Service]
    <3>1. todo' \in {todo, [todo EXCEPT ![w] = {}]}
      BY <1>4
    <3> QED
      BY <3>1 DEF Shapes
  <2>2. pc' \in [Worker -> {"idle"} \cup AtWork \cup FollowingUp]
    BY <1>4 DEF Shapes, FollowingUp
  <2> QED
    BY <1>1, <1>3, <2>1, <2>2, <2>3 DEF Shapes, historyVars
<1>6. Commits'
  BY <1>1, <1>3 DEF Commits
<1>7. SetStatus(i, "success") => builds'[i].status = "success"
  BY <1>1, <1>2, SetStatusKeeps DEF Status, historyVars
<1>8. WorkerJob(w)'
  BY <1>2, <1>3, <1>4, <1>7 DEF WorkerJob, Shapes, AtWork, FollowingUp
<1>9. job'[w] \in {0, i} /\ \A v \in Worker \ {w} : job'[v] = job[v] /\ pc'[v] = pc[v]
  BY <1>4 DEF Shapes
<1>10. Jobs' /\ ClaimedOnce'
  BY <1>3, <1>8, <1>9, OtherJobsKept
<1> QED
  BY <1>3, <1>5, <1>6, <1>10

\* A manual build learns the branch's newest commit.
LEMMA ResolveHeadKeeps ==
  ASSUME IInv, NEW w \in Worker, ResolveHead(w)
  PROVE  IInv'
<1> USE DEF IInv
<1> DEFINE i == job[w]
           s == builds[i].service
           r == [builds[i] EXCEPT !.sha = head[s]]
<1>1. /\ pc[w] = "resolve" /\ pc' = [pc EXCEPT ![w] = "pipeline"]
      /\ UNCHANGED <<head, poll, dependsOn, job, todo, historyVars>>
      /\ builds' = [builds EXCEPT ![i] = r]
  BY DEF ResolveHead, Goto
<1>2. i \in Id /\ builds[i] \in BuildRow /\ s \in Service
  BY <1>1, OwnJob
<1>3. head[s] \in Nat /\ head[s] # 0
  BY <1>2 DEF Shapes, Commits
<1>4. /\ r \in BuildRow /\ r.sha = head[s] /\ r.service = s
      /\ r.status = builds[i].status /\ r.deps = builds[i].deps
  BY <1>2, <1>3 DEF BuildRow
<1> HIDE DEF r
<1>5. /\ builds' \in Seq(BuildRow)
      /\ Id' = Id
      /\ builds'[i] = r
      /\ \A j \in Id : j # i => builds'[j] = builds[j]
  BY <1>1, <1>2, <1>4, AfterUpdate
<1>6. Shapes'
  BY <1>1, <1>5 DEF Shapes, historyVars, AtWork
<1>7. Commits'
  BY <1>1, <1>3, <1>4, <1>5 DEF Commits
<1>8. References'
  BY <1>1, <1>2, <1>4, <1>5 DEF References, historyVars
<1>9. WorkerJob(w)'
  BY <1>1, <1>2, <1>3, <1>4, <1>5 DEF Jobs, WorkerJob, Shapes, AtWork, FollowingUp
<1>10. job'[w] = i /\ \A v \in Worker \ {w} : job'[v] = job[v] /\ pc'[v] = pc[v]
  BY <1>1 DEF Shapes
<1>11. Jobs' /\ ClaimedOnce'
  BY <1>5, <1>9, <1>10, OtherJobsKept
<1> QED
  BY <1>6, <1>7, <1>8, <1>11

\* A build notes the build of a dependency it uses.
LEMMA ResolveDependencyKeeps ==
  ASSUME IInv, NEW w \in Worker, NEW d \in Service, ResolveDependency(w, d)
  PROVE  IInv'
<1> USE DEF IInv
<1> DEFINE i == job[w]
           u == <<d, LatestSuccess(d)>>
           r == [builds[i] EXCEPT !.deps = builds[i].deps \cup {u}]
<1>1. /\ pc[w] = "dependencies" /\ LatestSuccess(d) # 0
      /\ todo' = [todo EXCEPT ![w] = @ \ {d}]
      /\ UNCHANGED <<head, poll, dependsOn, job, pc, historyVars>>
      /\ builds' = [builds EXCEPT ![i] = r]
  BY DEF ResolveDependency
<1>2. i \in Id /\ builds[i] \in BuildRow
  BY <1>1, OwnJob
<1>3. LatestSuccess(d) \in Id
  <2>1. Len(builds) \in Nat
    BY DEF Shapes
  <2>2. {j \in BuildsOf(d) : builds[j].status = "success"} \subseteq Id
    BY DEF BuildsOf
  <2> QED
    BY <1>1, <2>1, <2>2, NewestRow DEF LatestSuccess, Id
<1>4. LatestSuccess(d) \in Nat
  BY <1>3, RowsTyped
<1> HIDE DEF u
<1>5. u \in Service \X Nat /\ u \in Service \X Id
  BY <1>3, <1>4 DEF u
<1>6. /\ r \in BuildRow /\ r.sha = builds[i].sha /\ r.service = builds[i].service
      /\ r.status = builds[i].status /\ r.deps = builds[i].deps \cup {u}
  BY <1>2, <1>5 DEF BuildRow
<1> HIDE DEF r
<1>7. /\ builds' \in Seq(BuildRow)
      /\ Id' = Id
      /\ builds'[i] = r
      /\ \A j \in Id : j # i => builds'[j] = builds[j]
  BY <1>1, <1>2, <1>6, AfterUpdate
<1>8. Shapes'
  BY <1>1, <1>7 DEF Shapes, historyVars
<1>9. Commits'
  BY <1>1, <1>2, <1>6, <1>7 DEF Commits
<1>10. References'
  BY <1>1, <1>2, <1>5, <1>6, <1>7 DEF References, historyVars
<1>11. WorkerJob(w)'
  BY <1>1, <1>2, <1>6, <1>7 DEF Jobs, WorkerJob, AtWork, FollowingUp
<1>12. Jobs' /\ ClaimedOnce'
  BY <1>1, <1>7, <1>11, OtherJobsKept
<1> QED
  BY <1>8, <1>9, <1>10, <1>12

\* A dependent is enqueued.
LEMMA TriggerKeeps ==
  ASSUME IInv, NEW w \in Worker, NEW s \in Service, TriggerDependent(w, s)
  PROVE  IInv'
<1> USE DEF IInv
<1>1. /\ Enqueue(Row(s, 0, "manual"))
      /\ todo' = [todo EXCEPT ![w] = @ \ {s}]
      /\ UNCHANGED <<head, dependsOn, poll, job, pc, historyVars>>
  BY DEF TriggerDependent
<1>2. 0 <= head[s]
  BY DEF Shapes
<1>3. /\ builds' \in Seq(BuildRow)
      /\ \A i \in Id' : builds'[i].sha <= head'[builds'[i].service]
      /\ References'
      /\ \A i \in Id : i \in Id' /\ builds'[i] = builds[i]
  BY <1>1, <1>2, EnqueueKeeps DEF historyVars
<1>4. Shapes'
  BY <1>1, <1>3 DEF Shapes, historyVars
<1>5. Commits'
  BY <1>1, <1>3 DEF Commits
<1>6. Jobs' /\ ClaimedOnce'
  BY <1>1, <1>3, JobsKept
<1> QED
  BY <1>3, <1>4, <1>5, <1>6

\* A worker goes on from its pipeline, its dispatch, its list or its triggers.
LEMMA GoOnKeeps ==
  ASSUME IInv, NEW w \in Worker,
         \/ ReadPipeline(w) \/ ReadPipelineFails(w)
         \/ DispatchRedeploy(w) \/ DispatchFails(w) \/ ListDependents(w)
         \/ \E s \in Service : TriggerFails(w, s)
  PROVE  IInv'
<1> USE DEF IInv, Goto
<1> DEFINE i == job[w]
<1>1. pc[w] # "idle" /\ UNCHANGED <<head, builds, poll, job, overlapped, manual>>
  BY DEF ReadPipeline, ReadPipelineFails, ReadDependencies, DispatchRedeploy, DispatchFails,
         ListDependents, TriggerFails, Fault, historyVars
<1>2. i \in Id /\ i \in Nat /\ builds[i] \in BuildRow /\ builds[i].service \in Service
  BY <1>1, OwnJob, RowsTyped
<1>3. /\ builds' \in Seq(BuildRow)
      /\ Id' = Id
      /\ \A j \in Id' : builds'[j].sha <= head'[builds'[j].service]
      /\ \A j \in Id' : builds'[j].deps \subseteq Service \X Id'
  BY <1>1, NoRowKeeps
<1>4. Commits'
  BY <1>1, <1>3 DEF Commits
<1>5. faults' \in 0 .. MaxFaults /\ lost' \subseteq Service
  <2>1. \/ UNCHANGED <<faults, lost>>
        \/ Fault(w)
    BY DEF ReadPipeline, ReadPipelineFails, DispatchRedeploy, DispatchFails, ListDependents,
           TriggerFails, historyVars
  <2> QED
    BY <1>2, <2>1, BoundsAssumption DEF Fault, Shapes
<1>6. deployed' \in [Service -> Nat] /\ \A s \in Service : deployed'[s] \in {0} \cup Id
  <2>1. deployed' \in {deployed, [deployed EXCEPT ![builds[i].service] = i]}
    BY DEF ReadPipeline, ReadPipelineFails, DispatchRedeploy, DispatchFails, ListDependents,
           TriggerFails, Fault, historyVars
  <2> QED
    BY <1>2, <2>1 DEF Shapes, References
<1>7. ASSUME ReadDependencies(w)
      PROVE  todo' \in [Worker -> SUBSET Service] /\ todo'[w] \subseteq Service
  <2>1. builds[i].sha \in 1 .. MaxCommits(builds[i].service)
    <3>1. builds[i].sha \in Nat /\ builds[i].sha # 0
      BY <1>2, <1>7 DEF BuildRow, ReadDependencies, Jobs, WorkerJob
    <3>2. builds[i].sha <= head[builds[i].service]
      BY <1>2 DEF Commits
    <3> QED
      BY <1>2, <3>1, <3>2, BoundsAssumption DEF Commits
  <2>2. DependsAt(builds[i].service, builds[i].sha) \subseteq Service
    BY <1>2, <2>1, ServiceAssumption
  <2> QED
    BY <1>7, <2>2 DEF ReadDependencies, Shapes
<1>8. todo' \in [Worker -> SUBSET Service] /\ dependsOn' \in [Service -> SUBSET Service]
  <2>1. CASE ReadDependencies(w)
    BY <1>2, <1>7, <2>1 DEF ReadPipeline, ReadPipelineFails, DispatchRedeploy, DispatchFails,
          ListDependents, TriggerFails, ReadDependencies, Shapes
  <2>2. CASE ~ReadDependencies(w)
    <3>1. dependsOn' = dependsOn
      BY <2>2 DEF ReadPipeline, ReadPipelineFails, DispatchRedeploy, DispatchFails,
                  ListDependents, TriggerFails
    <3>2. \E T \in SUBSET Service : todo' = [todo EXCEPT ![w] = T] \/ todo' = todo
      BY <2>2 DEF ReadPipeline, ReadPipelineFails, DispatchRedeploy, DispatchFails,
                  ListDependents, Dependents, TriggerFails, Shapes
    <3> QED
      BY <3>1, <3>2 DEF Shapes
  <2> QED
    BY <2>1, <2>2
<1>9. /\ pc[w] \in {"pipeline"} \cup FollowingUp
      /\ pc[w] = "pipeline" => pc' = [pc EXCEPT ![w] = "dependencies"]
      /\ pc[w] \in FollowingUp =>
           \/ pc' = [pc EXCEPT ![w] = "list"]
           \/ pc' = [pc EXCEPT ![w] = "trigger"]
           \/ pc' = pc
  BY DEF ReadPipeline, ReadPipelineFails, ReadDependencies, DispatchRedeploy, DispatchFails,
         ListDependents, TriggerFails, FollowingUp
<1>10. pc' \in [Worker -> {"idle"} \cup AtWork \cup FollowingUp]
  BY <1>9 DEF Shapes, AtWork, FollowingUp
<1>11. Shapes'
  BY <1>1, <1>3, <1>5, <1>6, <1>8, <1>10 DEF Shapes
<1>12. References'
  BY <1>3, <1>6 DEF References
<1>13. WorkerJob(w)'
  BY <1>1, <1>2, <1>3, <1>9 DEF Jobs, WorkerJob, Shapes, AtWork, FollowingUp
<1>14. \A v \in Worker \ {w} : job'[v] = job[v] /\ pc'[v] = pc[v]
  BY <1>1, <1>9 DEF Shapes
<1>15. Jobs' /\ ClaimedOnce'
  BY <1>1, <1>3, <1>13, <1>14, OtherJobsKept
<1> QED
  BY <1>4, <1>11, <1>12, <1>15

\* A worker is done with its build, or dies.
LEMMA ReleaseKeeps ==
  ASSUME IInv, NEW w \in Worker, FinishJob(w) \/ Crash(w)
  PROVE  IInv'
<1> USE DEF IInv
<1>1. /\ UNCHANGED <<head, builds, dependsOn, poll, deployed, overlapped, manual>>
      /\ job' = [job EXCEPT ![w] = 0] /\ pc' = [pc EXCEPT ![w] = "idle"]
      /\ todo' = [todo EXCEPT ![w] = {}]
  BY DEF FinishJob, Crash, Release, historyVars
<1>2. faults' \in 0 .. MaxFaults /\ lost' \subseteq Service
  <2>1. CASE FinishJob(w)
    BY <2>1 DEF FinishJob, historyVars, Shapes
  <2>2. CASE Crash(w)
    <3>1. pc[w] # "idle"
      BY <2>2 DEF Crash, Jobs, WorkerJob
    <3>2. builds[job[w]].service \in Service
      BY <3>1, OwnJob
    <3> QED
      BY <2>2, <3>2, BoundsAssumption DEF Crash, Shapes
  <2> QED
    BY <2>1, <2>2
<1>3. Id' = Id
  BY <1>1 DEF Id
<1>4. Shapes'
  BY <1>1, <1>2 DEF Shapes
<1>5. Commits' /\ References'
  BY <1>1, <1>3 DEF Commits, References
<1>6. WorkerJob(w)'
  BY <1>1 DEF WorkerJob, Shapes, AtWork, FollowingUp
<1>7. job'[w] = 0 /\ \A v \in Worker \ {w} : job'[v] = job[v] /\ pc'[v] = pc[v]
  BY <1>1 DEF Shapes
<1>8. Jobs' /\ ClaimedOnce'
  BY <1>1, <1>3, <1>6, <1>7, OtherJobsKept
<1> QED
  BY <1>4, <1>5, <1>8

-----------------------------------------------------------------------------
\* The table keeps its shape and its references, and every worker its own build.
LEMMA Inductive == Spec => []IInv
<1>1. Init => IInv
  <2> SUFFICES ASSUME Init
               PROVE  IInv
    OBVIOUS
  <2>1. Id = {}
    BY DEF Init, Id
  <2>2. Shapes
    BY BoundsAssumption DEF Init, Shapes, IdlePoll, PollState
  <2>3. Commits /\ References
    BY <2>1, BoundsAssumption DEF Init, Commits, References, IdlePoll
  <2>4. Jobs /\ ClaimedOnce
    BY DEF Init, Jobs, WorkerJob, ClaimedOnce, AtWork, FollowingUp
  <2> QED
    BY <2>2, <2>3, <2>4 DEF IInv
<1>2. IInv /\ [Next]_vars => IInv'
  <2> SUFFICES ASSUME IInv, [Next]_vars
               PROVE  IInv'
    OBVIOUS
  <2>1. CASE \/ \E s \in Service : Push(s) \/ StartManualBuild(s)
             \/ \E p \in Poller : PollerStep(p) \/ \E s \in Service : LsRemote(p, s)
    BY <2>1, OutsideKeeps
  <2>2. ASSUME NEW w \in Worker, WorkerStep(w)
        PROVE  IInv'
    BY <2>2, ClaimKeeps, EndKeeps, ResolveHeadKeeps, ResolveDependencyKeeps, TriggerKeeps,
       GoOnKeeps, ReleaseKeeps DEF WorkerStep, JobStep
  <2>3. ASSUME NEW w \in Worker, FaultStep(w)
        PROVE  IInv'
    BY <2>3, GoOnKeeps, ReleaseKeeps DEF FaultStep
  <2>4. CASE UNCHANGED vars
    BY <2>4 DEF vars, workerVars, IInv, Shapes, Commits, References, Jobs, WorkerJob,
                ClaimedOnce, Id
  <2> QED
    BY <2>1, <2>2, <2>3, <2>4 DEF Next
<1> QED
  BY <1>1, <1>2, PTL DEF Spec

\* Rows, branches, polling passes and workers keep their types; a worker at work
\* has a running build, one that follows up a successful one.
THEOREM TypeCorrect == Spec => []TypeOK
<1>1. IInv => TypeOK
  <2> SUFFICES ASSUME IInv
               PROVE  TypeOK
    OBVIOUS
  <2> USE DEF IInv
  <2>1. \A i \in Id : /\ builds[i].service \in Service
                      /\ builds[i].sha \in 0 .. head[builds[i].service]
                      /\ builds[i].by \in {"poll", "manual"}
                      /\ builds[i].status \in Status
                      /\ builds[i].deps \subseteq Service \X Id
    <3>1. \A i \in Id : builds[i] \in BuildRow
      BY RowsTyped
    <3>2. ASSUME NEW i \in Id
          PROVE  builds[i].sha \in 0 .. head[builds[i].service]
      <4>1. builds[i].service \in Service /\ builds[i].sha \in Nat
        BY <3>1 DEF BuildRow
      <4>2. head[builds[i].service] \in Nat /\ builds[i].sha <= head[builds[i].service]
        BY <4>1 DEF Commits, Shapes
      <4> QED
        BY <4>1, <4>2
    <3>3. \A i \in Id : builds[i].deps \subseteq Service \X Id
      BY DEF References
    <3> QED
      BY <3>1, <3>2, <3>3 DEF BuildRow
  <2>2. \A p \in Poller : poll[p].at \in {"idle", "remote", "new"}
    BY DEF Shapes, PollState
  <2>3. job \in [Worker -> {0} \cup Id]
    BY DEF Shapes, Jobs, WorkerJob
  <2>4. \A w \in Worker :
          CASE pc[w] = "idle" -> job[w] = 0
            [] pc[w] \in {"resolve", "pipeline", "dependencies"} ->
                 job[w] # 0 /\ builds[job[w]].status = "running"
            [] pc[w] \in {"dispatch", "list", "trigger"} ->
                 job[w] # 0 /\ builds[job[w]].status = "success"
    BY RowsTyped DEF Shapes, Jobs, WorkerJob, AtWork, FollowingUp
  <2>5. deployed \in [Service -> {0} \cup Id]
    BY DEF Shapes, References
  <2> QED
    BY <2>1, <2>2, <2>3, <2>4, <2>5 DEF TypeOK, Shapes, Commits
<1> QED
  BY <1>1, Inductive, PTL

\* No two workers run, or follow up, one row of the queue: the UPDATE that picks
\* it takes it out of the queue, and nothing puts it back.
THEOREM OneWorkerPerBuild == Spec => []ClaimedOnce
<1>1. IInv => ClaimedOnce
  BY DEF IInv
<1> QED
  BY <1>1, Inductive, PTL

-----------------------------------------------------------------------------
(* The queue is first in, first out, and what follows from it.             *)

\* A row behind a queued one is queued: claimNextBuild takes the oldest, ...
Fifo == \A i, j \in Id : i < j /\ builds[i].status = "queued" => builds[j].status = "queued"

\* ... so while a worker has a build, the later ones of its service are queued,
\* unless two of them ran at once.
LastTaken ==
  \A w \in Worker, j \in Id :
    (/\ job[w] # 0 /\ job[w] < j
     /\ builds[j].service = builds[job[w]].service
     /\ builds[j].service \notin overlapped)
    => builds[j].status = "queued"

\* What a step leaves of the rows: the same service and status everywhere, ...
SameRows(I) ==
  \A i \in I : /\ i \in Id'
               /\ builds'[i].service = builds[i].service
               /\ builds'[i].status = builds[i].status

\* ... a queued row more, ...
Grows ==
  /\ Id' = Id \cup {Len(builds) + 1}
  /\ builds'[Len(builds) + 1].status = "queued"
  /\ \A i \in Id : builds'[i] = builds[i]

\* ... or the status of one row changed.
Marks(i, st) ==
  /\ i \in Id /\ Id' = Id
  /\ builds'[i].status = st
  /\ \A j \in Id : /\ builds'[j].service = builds[j].service
                   /\ builds'[j].sha = builds[j].sha
                   /\ builds'[j].deps = builds[j].deps
  /\ \A j \in Id \ {i} : builds'[j] = builds[j]

LEMMA EnqueueGrows ==
  ASSUME IInv, NEW s \in Service, NEW n \in Nat, NEW by \in {"poll", "manual"},
         Enqueue(Row(s, n, by))
  PROVE  Grows /\ builds'[Len(builds) + 1].service = s
<1> DEFINE r == Row(s, n, by)
<1>1. r \in BuildRow /\ r.service = s /\ r.status = "queued"
  BY DEF Row, BuildRow, Status
<1> HIDE DEF r
<1> QED
  BY <1>1, AfterEnqueue DEF Grows, IInv, r

LEMMA SetStatusMarks ==
  ASSUME IInv, NEW i \in Id, NEW st \in Status, SetStatus(i, st)
  PROVE  Marks(i, st)
  BY AfterSetStatus DEF IInv, Marks

\* The order in which builds are taken survives a step that takes none.
LEMMA QueueFrame ==
  ASSUME IInv, Fifo, LastTaken, Id' = Id, SameRows(Id), overlapped' = overlapped,
         \A w \in Worker : job'[w] \in {0, job[w]}
  PROVE  Fifo' /\ LastTaken'
<1>1. Fifo'
  BY DEF Fifo, SameRows
<1>2. ASSUME NEW w \in Worker, NEW j \in Id,
             job'[w] # 0, job'[w] < j, builds'[j].service = builds'[job'[w]].service,
             builds'[j].service \notin overlapped'
      PROVE  builds'[j].status = "queued"
  <2>1. job'[w] = job[w] /\ pc[w] # "idle"
    BY <1>2 DEF IInv, Jobs, WorkerJob
  <2>2. job[w] \in Id
    BY <2>1, OwnJob
  <2> QED
    BY <1>2, <2>1, <2>2 DEF LastTaken, SameRows
<1> QED
  BY <1>1, <1>2 DEF LastTaken

\* A new row goes behind every other.
LEMMA QueueGrows ==
  ASSUME IInv, Fifo, LastTaken, Grows, UNCHANGED <<overlapped, job>>
  PROVE  Fifo' /\ LastTaken'
<1>1. Fifo'
  <2>1. Len(builds) \in Nat /\ \A i \in Id : i \in Nat /\ i <= Len(builds)
    BY DEF IInv, Shapes, Id
  <2>2. ASSUME NEW i \in Id', NEW j \in Id', i < j, builds'[i].status = "queued"
        PROVE  builds'[j].status = "queued"
    <3>1. i \in Id
      BY <2>1, <2>2 DEF Grows
    <3>2. CASE j \in Id
      BY <2>2, <3>1, <3>2 DEF Fifo, Grows
    <3> QED
      BY <3>2 DEF Grows
  <2> QED
    BY <2>2 DEF Fifo
<1>2. ASSUME NEW w \in Worker, NEW j \in Id',
             job[w] # 0, job[w] < j, builds'[j].service = builds'[job[w]].service,
             builds'[j].service \notin overlapped
      PROVE  builds'[j].status = "queued"
  <2>1. job[w] \in Id
    BY <1>2, OwnJob DEF IInv, Jobs, WorkerJob
  <2>2. CASE j \in Id
    BY <1>2, <2>1, <2>2 DEF LastTaken, Grows
  <2>3. CASE j = Len(builds) + 1
    BY <2>3 DEF Grows
  <2> QED
    BY <2>2, <2>3 DEF Grows
<1> QED
  BY <1>1, <1>2 DEF LastTaken

\* The oldest queued row is taken.
LEMMA QueueTaken ==
  ASSUME IInv, Fifo, LastTaken, NEW w \in Worker, NEW i \in Id, Claim(w, i)
  PROVE  Fifo' /\ LastTaken'
<1>1. /\ pc[w] = "idle" /\ builds[i].status = "queued"
      /\ \A j \in Id : builds[j].status = "queued" => i <= j
      /\ job' = [job EXCEPT ![w] = i]
      /\ overlapped' = overlapped \cup
           {s \in {builds[i].service} : \E v \in Worker : job[v] # 0 /\ builds[job[v]].service = s}
  BY DEF Claim, Take, Claimable, Queued
<1>2. Marks(i, "running")
  BY SetStatusMarks DEF Claim, Status
<1>3. Id \subseteq Nat
  BY RowsTyped DEF IInv
<1>4. Fifo'
  BY <1>1, <1>2, <1>3 DEF Fifo, Marks
<1>5. ASSUME NEW v \in Worker, NEW j \in Id,
             job'[v] # 0, job'[v] < j, builds'[j].service = builds'[job'[v]].service,
             builds'[j].service \notin overlapped'
      PROVE  builds'[j].status = "queued"
  <2>1. job'[v] = IF v = w THEN i ELSE job[v]
    BY <1>1 DEF IInv, Shapes
  <2>2. CASE v = w
    <3>1. builds[j].status = "queued"
      BY <1>1, <1>5, <2>1, <2>2 DEF Fifo
    <3> QED
      BY <1>2, <1>3, <1>5, <2>1, <2>2, <3>1 DEF Marks
  <2>3. CASE v # w
    <3>1. job[v] \in Id
      BY <1>5, <2>1, <2>3, OwnJob DEF IInv, Jobs, WorkerJob
    <3>2. /\ builds[j].service = builds[job[v]].service
          /\ builds[j].service \notin overlapped'
      BY <1>2, <1>5, <2>1, <2>3, <3>1 DEF Marks
    <3>3. j # i
      BY <1>1, <1>5, <2>1, <2>3, <3>2
    <3>4. builds[j].status = "queued"
      BY <1>1, <1>5, <2>1, <2>3, <3>2 DEF LastTaken
    <3> QED
      BY <1>2, <3>3, <3>4 DEF Marks
  <2> QED
    BY <2>2, <2>3
<1>6. Id' = Id
  BY <1>2 DEF Marks
<1> QED
  BY <1>4, <1>5, <1>6 DEF LastTaken

\* A row that was running is marked: no queued one changes.
LEMMA QueueMarked ==
  ASSUME IInv, Fifo, LastTaken, NEW i \in Id, NEW st \in Status, Marks(i, st),
         builds[i].status = "running", st # "queued",
         overlapped' = overlapped, \A w \in Worker : job'[w] \in {0, job[w]}
  PROVE  Fifo' /\ LastTaken'
<1>1. Fifo'
  BY DEF Fifo, Marks
<1>2. ASSUME NEW w \in Worker, NEW j \in Id,
             job'[w] # 0, job'[w] < j, builds'[j].service = builds'[job'[w]].service,
             builds'[j].service \notin overlapped'
      PROVE  builds'[j].status = "queued"
  <2>1. job'[w] = job[w] /\ pc[w] # "idle"
    BY <1>2 DEF IInv, Jobs, WorkerJob
  <2>2. job[w] \in Id
    BY <2>1, OwnJob
  <2>3. builds[j].status = "queued"
    BY <1>2, <2>1, <2>2 DEF LastTaken, Marks
  <2> QED
    BY <2>3 DEF Marks
<1> QED
  BY <1>1, <1>2 DEF LastTaken, Marks

\* Rows that learn their commit or a dependency keep their service and status.
LEMMA ResolveRows ==
  ASSUME IInv, NEW w \in Worker,
         ResolveHead(w) \/ \E d \in Service : ResolveDependency(w, d)
  PROVE  /\ Id' = Id /\ SameRows(Id) /\ job' = job /\ overlapped' = overlapped
         /\ \A i \in Id : i # job[w] => builds'[i] = builds[i]
<1> DEFINE i == job[w]
<1>1. i \in Id /\ builds[i] \in BuildRow /\ pc[w] # "idle"
  BY OwnJob DEF ResolveHead, ResolveDependency
<1>2. \E r : /\ r \in BuildRow /\ r.service = builds[i].service /\ r.status = builds[i].status
             /\ builds' = [builds EXCEPT ![i] = r]
  <2>1. CASE ResolveHead(w)
    <3> DEFINE r == [builds[i] EXCEPT !.sha = head[builds[i].service]]
    <3>1. r \in BuildRow /\ r.service = builds[i].service /\ r.status = builds[i].status
      BY <1>1 DEF BuildRow, IInv, Shapes
    <3>2. builds' = [builds EXCEPT ![i] = r]
      BY <2>1 DEF ResolveHead
    <3> QED
      BY <3>1, <3>2
  <2>2. ASSUME NEW d \in Service, ResolveDependency(w, d)
        PROVE  \E r : /\ r \in BuildRow /\ r.service = builds[i].service
                      /\ r.status = builds[i].status
                      /\ builds' = [builds EXCEPT ![i] = r]
    <3> DEFINE r == [builds[i] EXCEPT !.deps = @ \cup {<<d, LatestSuccess(d)>>}]
    <3>1. LatestSuccess(d) \in Nat
      <4>1. Len(builds) \in Nat
        BY DEF IInv, Shapes
      <4>2. LatestSuccess(d) \in {j \in BuildsOf(d) : builds[j].status = "success"} \cup {0}
        BY <4>1, NewestRow DEF LatestSuccess, BuildsOf, Id
      <4> QED
        BY <4>2, RowsTyped DEF BuildsOf, IInv
    <3>2. r \in BuildRow /\ r.service = builds[i].service /\ r.status = builds[i].status
      BY <1>1, <2>2, <3>1 DEF BuildRow
    <3>3. builds' = [builds EXCEPT ![i] = r]
      BY <2>2 DEF ResolveDependency
    <3> QED
      BY <3>2, <3>3
  <2> QED
    BY <2>1, <2>2
<1>3. PICK r : /\ r \in BuildRow /\ r.service = builds[i].service /\ r.status = builds[i].status
               /\ builds' = [builds EXCEPT ![i] = r]
  BY <1>2
<1>4. Id' = Id /\ SameRows(Id) /\ \A j \in Id : j # i => builds'[j] = builds[j]
  BY <1>1, <1>3, AfterUpdate DEF IInv, SameRows
<1> QED
  BY <1>4 DEF ResolveHead, ResolveDependency, historyVars

\* What the steps of the poller, the panel and the workers do to the rows.
LEMMA OutsideRows ==
  ASSUME IInv,
         \/ \E s \in Service : Push(s) \/ StartManualBuild(s)
         \/ \E p \in Poller : PollerStep(p) \/ \E s \in Service : LsRemote(p, s)
         \/ UNCHANGED vars
  PROVE  /\ builds' = builds \/ Grows
         /\ UNCHANGED <<dependsOn, job, pc, todo, deployed, overlapped, lost>>
<1>1. ASSUME NEW s \in Service, StartManualBuild(s)
      PROVE  Grows
    BY <1>1, EnqueueGrows DEF StartManualBuild
<1>2. ASSUME NEW p \in Poller, EnqueuePolled(p)
      PROVE  Grows
  <2>1. poll[p].service \in Service /\ poll[p].sha \in Nat
    BY <1>2 DEF EnqueuePolled, IInv, Shapes, PollState
  <2> QED
    BY <1>2, <2>1, EnqueueGrows DEF EnqueuePolled
<1>3. \/ builds' = builds
      \/ \E s \in Service : StartManualBuild(s)
      \/ \E p \in Poller : EnqueuePolled(p)
  BY DEF Push, PollerStep, CompareSha, LsRemote, vars
<1>4. UNCHANGED <<dependsOn, job, pc, todo, deployed, overlapped, lost>>
  BY DEF Push, StartManualBuild, PollerStep, CompareSha, EnqueuePolled, LsRemote, vars,
         workerVars, historyVars
<1> QED
  BY <1>1, <1>2, <1>3, <1>4

\* A worker's row is running until it ends, and never queued again.
LEMMA EndRows ==
  ASSUME IInv, NEW w \in Worker, NoPipeline(w) \/ Fail(w) \/ Succeed(w)
  PROVE  /\ \E st \in Status \ {"queued", "running"} :
              /\ Marks(job[w], st)
              /\ ~Succeed(w) => st # "success"
              /\ Succeed(w) => st = "success"
         /\ builds[job[w]].status = "running"
         /\ overlapped' = overlapped
         /\ \A v \in Worker : job'[v] \in {0, job[v]}
<1>1. pc[w] \in AtWork /\ pc[w] # "idle"
  BY DEF NoPipeline, Fail, Succeed, AtWork
<1>2. job[w] \in Id /\ builds[job[w]].status = "running"
  BY <1>1, OwnJob DEF IInv, Jobs, WorkerJob
<1>3. \A st \in Status : SetStatus(job[w], st) => Marks(job[w], st)
  BY <1>2, SetStatusMarks
<1>4. overlapped' = overlapped /\ \A v \in Worker : job'[v] \in {0, job[v]}
  BY DEF NoPipeline, Fail, Succeed, EndWithout, Release, historyVars, IInv, Shapes
<1>5. CASE Succeed(w)
  BY <1>2, <1>3, <1>4, <1>5 DEF Succeed, Status
<1>6. CASE ~Succeed(w)
  BY <1>2, <1>3, <1>4, <1>6 DEF NoPipeline, Fail, EndWithout, Status
<1> QED
  BY <1>5, <1>6

\* The steps of a worker that touch no row.
LEMMA GoOnRows ==
  ASSUME IInv, NEW w \in Worker,
         \/ ReadPipeline(w) \/ ReadPipelineFails(w)
         \/ DispatchRedeploy(w) \/ DispatchFails(w) \/ ListDependents(w)
         \/ FinishJob(w) \/ Crash(w)
         \/ \E s \in Service : TriggerFails(w, s)
  PROVE  UNCHANGED <<builds, overlapped>> /\ \A v \in Worker : job'[v] \in {0, job[v]}
  BY DEF ReadPipeline, ReadPipelineFails, ReadDependencies, DispatchRedeploy, DispatchFails,
         ListDependents, FinishJob, Crash, TriggerFails, Fault, Release, historyVars, IInv, Shapes

\* The queue stays in order.
LEMMA QueueOrdered == Spec => [](Fifo /\ LastTaken)
<1>1. Init => Fifo /\ LastTaken
  BY DEF Init, Fifo, LastTaken, Id
<1>2. IInv /\ Fifo /\ LastTaken /\ [Next]_vars => (Fifo /\ LastTaken)'
  <2> SUFFICES ASSUME IInv, Fifo, LastTaken, [Next]_vars
               PROVE  Fifo' /\ LastTaken'
    OBVIOUS
  <2>1. ASSUME UNCHANGED <<builds, overlapped>>, \A v \in Worker : job'[v] \in {0, job[v]}
        PROVE  Fifo' /\ LastTaken'
    BY <2>1, QueueFrame DEF SameRows, Id
  <2>2. CASE \/ \E s \in Service : Push(s) \/ StartManualBuild(s)
             \/ \E p \in Poller : PollerStep(p) \/ \E s \in Service : LsRemote(p, s)
             \/ UNCHANGED vars
    BY <2>1, <2>2, OutsideRows, QueueGrows
  <2>3. ASSUME NEW w \in Worker, NoPipeline(w) \/ Fail(w) \/ Succeed(w)
        PROVE  Fifo' /\ LastTaken'
    <3>1. PICK st \in Status \ {"queued", "running"} : Marks(job[w], st)
      BY <2>3, EndRows
    <3>2. job[w] \in Id
      BY <3>1 DEF Marks
    <3> QED
      BY <2>3, <3>1, <3>2, EndRows, QueueMarked
  <2>4. ASSUME NEW w \in Worker, NEW i \in Id, Claim(w, i)
        PROVE  Fifo' /\ LastTaken'
    BY <2>4, QueueTaken
  <2>5. ASSUME NEW w \in Worker, ResolveHead(w) \/ \E d \in Service : ResolveDependency(w, d)
        PROVE  Fifo' /\ LastTaken'
    BY <2>5, ResolveRows, QueueFrame
  <2>6. ASSUME NEW w \in Worker, NEW s \in Service, TriggerDependent(w, s)
        PROVE  Fifo' /\ LastTaken'
    BY <2>6, EnqueueGrows, QueueGrows DEF TriggerDependent, historyVars
  <2>7. ASSUME NEW w \in Worker,
               \/ ReadPipeline(w) \/ ReadPipelineFails(w)
               \/ DispatchRedeploy(w) \/ DispatchFails(w) \/ ListDependents(w)
               \/ FinishJob(w) \/ Crash(w)
               \/ \E s \in Service : TriggerFails(w, s)
        PROVE  Fifo' /\ LastTaken'
    BY <2>1, <2>7, GoOnRows
  <2> QED
    BY <2>2, <2>3, <2>4, <2>5, <2>6, <2>7 DEF Next, WorkerStep, JobStep, FaultStep
<1> QED
  BY <1>1, <1>2, Inductive, PTL DEF Spec

-----------------------------------------------------------------------------
(* What agents are told to run.                                            *)

Successes(s) == {i \in BuildsOf(s) : builds[i].status = "success"}

LEMMA SuccessesSame ==
  ASSUME NEW s, Successes(s)' = Successes(s)
  PROVE  LatestSuccess(s)' = LatestSuccess(s)
  BY DEF LatestSuccess, Successes

\* Only finishBuild(success) changes which builds of which service succeeded.
LEMMA SuccessesKept ==
  ASSUME IInv, NEW s \in Service,
         \/ Id' = Id /\ SameRows(Id)
         \/ Grows
         \/ \E i \in Id, st \in Status : /\ Marks(i, st)
                                         /\ \/ builds[i].service # s
                                            \/ builds[i].status # "success" /\ st # "success"
  PROVE  Successes(s)' = Successes(s)
<1>1. CASE Id' = Id /\ SameRows(Id)
  BY <1>1 DEF SameRows, Successes, BuildsOf
<1>2. CASE Grows
  BY <1>2 DEF Grows, Successes, BuildsOf
<1>3. CASE \E i \in Id, st \in Status : /\ Marks(i, st)
                                        /\ \/ builds[i].service # s
                                           \/ builds[i].status # "success" /\ st # "success"
  <2>1. PICK i \in Id, st \in Status : /\ Marks(i, st)
                                       /\ \/ builds[i].service # s
                                          \/ builds[i].status # "success" /\ st # "success"
    BY <1>3
  <2>2. \A j \in Id : /\ builds'[j].service = builds[j].service
                      /\ builds[j].service = s =>
                           (builds'[j].status = "success" <=> builds[j].status = "success")
    BY <2>1 DEF Marks
  <2> QED
    BY <2>1, <2>2 DEF Marks, Successes, BuildsOf
<1> QED
  BY <1>1, <1>2, <1>3

\* The builds that are deployed, and the newest of them.
Deploys(s) == {i \in Successes(s) : builds[i].sha \in Deployable(s)}
LatestDeploy(s) == Newest(Deploys(s))

LEMMA LatestDeployIsNewest ==
  ASSUME IInv, NEW s \in Service
  PROVE  /\ LatestDeploy(s) \in Deploys(s) \cup {0}
         /\ Deploys(s) # {} => LatestDeploy(s) \in Deploys(s)
         /\ \A i \in Deploys(s) : i <= LatestDeploy(s)
<1>1. Len(builds) \in Nat /\ Deploys(s) \subseteq 1 .. Len(builds)
  BY DEF IInv, Shapes, Deploys, Successes, BuildsOf, Id
<1> QED
  BY <1>1, NewestRow DEF LatestDeploy

\* A row that is the newest of them is the latest.
LEMMA LatestDeployIs ==
  ASSUME IInv, NEW s \in Service, NEW i \in Deploys(s), \A j \in Deploys(s) : j <= i
  PROVE  LatestDeploy(s) = i
<1>1. LatestDeploy(s) \in Deploys(s) /\ i <= LatestDeploy(s) /\ LatestDeploy(s) <= i
  BY LatestDeployIsNewest
<1>2. Deploys(s) \subseteq Nat
  BY RowsTyped DEF IInv, Deploys, Successes, BuildsOf
<1> QED
  BY <1>1, <1>2

LEMMA DeploysSame ==
  ASSUME NEW s, Successes(s)' = Successes(s),
         \A i \in Successes(s) : builds'[i].sha = builds[i].sha
  PROVE  Deploys(s)' = Deploys(s) /\ LatestDeploy(s)' = LatestDeploy(s)
<1>1. Deploys(s)' = Deploys(s)
  BY DEF Deploys
<1> QED
  BY <1>1 DEF LatestDeploy

\* The agents of a service run its newest success, or a worker is about to tell
\* them.
Told ==
  /\ \A s \in Service \ (overlapped \cup lost) :
       \/ deployed[s] = LatestDeploy(s)
       \/ \E w \in Worker : pc[w] = "dispatch" /\ job[w] = LatestDeploy(s)
  /\ \A w \in Worker : pc[w] = "dispatch" => job[w] \in Deploys(builds[job[w]].service)

\* Steps that neither finish a build nor dispatch one.
LEMMA ToldFrame ==
  ASSUME IInv, Told, deployed' = deployed, overlapped \subseteq overlapped', lost \subseteq lost',
         \A s \in Service : Successes(s)' = Successes(s),
         \A i \in Id : builds[i].status = "success" => builds'[i].sha = builds[i].sha,
         \A w \in Worker : pc[w] = "dispatch" =>
           \/ pc'[w] = "dispatch" /\ job'[w] = job[w]
           \/ builds[job[w]].service \in lost',
         \A w \in Worker : pc'[w] = "dispatch" => pc[w] = "dispatch" /\ job'[w] = job[w]
  PROVE  Told'
<1>1. ASSUME NEW s \in Service
      PROVE  Deploys(s)' = Deploys(s) /\ LatestDeploy(s)' = LatestDeploy(s)
  BY <1>1, DeploysSame DEF Successes, BuildsOf
<1>2. ASSUME NEW s \in Service, s \notin overlapped', s \notin lost'
      PROVE  \/ deployed'[s] = LatestDeploy(s)'
             \/ \E w \in Worker : pc'[w] = "dispatch" /\ job'[w] = LatestDeploy(s)'
  <2>1. CASE deployed[s] = LatestDeploy(s)
    BY <1>1, <1>2, <2>1
  <2>2. ASSUME NEW w \in Worker, pc[w] = "dispatch", job[w] = LatestDeploy(s)
        PROVE  pc'[w] = "dispatch" /\ job'[w] = LatestDeploy(s)'
    <3>1. job[w] \in Id /\ job[w] # 0
      BY <2>2, OwnJob, RowsTyped DEF IInv
    <3>2. builds[job[w]].service = s
      BY <1>2, <2>2, <3>1, LatestDeployIsNewest DEF Deploys, Successes, BuildsOf
    <3> QED
      BY <1>1, <1>2, <2>2, <3>2
  <2> QED
    BY <1>2, <2>1, <2>2 DEF Told
<1>3. ASSUME NEW w \in Worker, pc'[w] = "dispatch"
      PROVE  (job[w] \in Deploys(builds[job[w]].service))'
  <2>1. PICK s : s = builds[job[w]].service
    OBVIOUS
  <2>2. s \in Service /\ job[w] \in Deploys(s) /\ job'[w] = job[w]
    BY <1>3, <2>1, OwnJob DEF Told
  <2>3. job[w] \in Deploys(s)'
    BY <1>1, <2>2
  <2>4. builds'[job'[w]].service = s
    BY <2>2, <2>3 DEF Deploys, Successes, BuildsOf
  <2> QED
    BY <2>2, <2>3, <2>4
<1> QED
  BY <1>2, <1>3 DEF Told

\* A worker that is to dispatch a build has the latest there is to.
FollowersLatest ==
  IInv /\ LastTaken =>
    \A w \in Worker, s \in Service :
      pc[w] = "dispatch" /\ job[w] \in Deploys(s) /\ s \notin overlapped
      => job[w] = LatestDeploy(s)

LEMMA FollowsLatest == FollowersLatest
<1> SUFFICES ASSUME IInv, LastTaken, NEW w \in Worker, NEW s \in Service,
                    pc[w] = "dispatch", job[w] \in Deploys(s), s \notin overlapped
             PROVE  job[w] = LatestDeploy(s)
  BY DEF FollowersLatest
<1>1. job[w] \in Id /\ job[w] \in Nat /\ job[w] # 0
  BY OwnJob, RowsTyped DEF FollowingUp, IInv
<1>2. builds[job[w]].service = s
  BY DEF Deploys, Successes, BuildsOf
<1>3. ASSUME NEW j \in Deploys(s)
      PROVE  j <= job[w]
  <2>1. j \in Id /\ j \in Nat /\ builds[j].service = s /\ builds[j].status # "queued"
    BY RowsTyped DEF IInv, Deploys, Successes, BuildsOf
  <2>2. ~(job[w] < j)
    BY <1>1, <1>2, <2>1 DEF LastTaken
  <2> QED
    BY <1>1, <2>1, <2>2
<1> QED
  BY <1>3, LatestDeployIs

\* A worker that finishes a build goes on to dispatch it.
LEMMA SucceedTold ==
  ASSUME IInv, IInv', LastTaken', Told, NEW w \in Worker, Succeed(w)
  PROVE  Told'
<1> DEFINE i == job[w]
<1>1. PICK e : e = builds[i].service
  OBVIOUS
<1>2. i \in Id /\ e \in Service /\ pc[w] = "dependencies" /\ builds[i].status = "running"
  BY <1>1, OwnJob DEF Succeed, IInv, Jobs, WorkerJob, AtWork
<1>3. /\ Marks(i, "success")
      /\ UNCHANGED <<job, deployed, overlapped, lost>>
      /\ pc' = [pc EXCEPT ![w] = IF builds[i].sha \in Deployable(e) THEN "dispatch" ELSE "list"]
  BY <1>1, <1>2, SetStatusMarks DEF Succeed, Goto, historyVars, Status
<1>4. i \in Successes(e)' /\ builds'[i].service = e /\ builds'[i].sha = builds[i].sha
  BY <1>1, <1>2, <1>3 DEF Marks, Successes, BuildsOf
<1>5. /\ \A v \in Worker \ {w} : pc'[v] = pc[v]
      /\ pc'[w] = "dispatch" <=> builds[i].sha \in Deployable(e)
  BY <1>3 DEF IInv, Shapes
<1>6. ASSUME NEW s \in Service \ {e}
      PROVE  Deploys(s)' = Deploys(s) /\ LatestDeploy(s)' = LatestDeploy(s)
  <2>1. Successes(s)' = Successes(s)
    BY <1>1, <1>2, <1>3, <1>6, SuccessesKept DEF Status
  <2> QED
    BY <1>3, <2>1, DeploysSame DEF Marks, Successes, BuildsOf
<1>7. Deploys(e)' = Deploys(e) \cup (IF builds[i].sha \in Deployable(e) THEN {i} ELSE {})
  <2>1. Successes(e)' = Successes(e) \cup {i}
    BY <1>1, <1>2, <1>3 DEF Marks, Successes, BuildsOf
  <2>2. \A j \in Id : builds'[j].sha = builds[j].sha
    BY <1>3 DEF Marks
  <2> QED
    BY <1>2, <2>1, <2>2 DEF Deploys, Successes, BuildsOf
<1>8. ASSUME NEW s \in Service, s \notin overlapped, s \notin lost
      PROVE  \/ deployed'[s] = LatestDeploy(s)'
             \/ \E v \in Worker : pc'[v] = "dispatch" /\ job'[v] = LatestDeploy(s)'
  <2>1. CASE s = e /\ builds[i].sha \in Deployable(e)
    <3>1. pc'[w] = "dispatch" /\ job'[w] = i /\ i \in Deploys(s)' /\ s \notin overlapped'
      BY <1>3, <1>5, <1>7, <1>8, <2>1
    <3>2. FollowersLatest'
      BY FollowsLatest, PTL
    <3>3. job'[w] = LatestDeploy(s)'
      BY <3>1, <3>2 DEF FollowersLatest
    <3> QED
      BY <3>1, <3>3
  <2>2. CASE ~(s = e /\ builds[i].sha \in Deployable(e))
    <3>1. Deploys(s)' = Deploys(s) /\ LatestDeploy(s)' = LatestDeploy(s)
      BY <1>6, <1>7, <2>2 DEF LatestDeploy
    <3>2. \A v \in Worker : pc[v] = "dispatch" => pc'[v] = "dispatch" /\ job'[v] = job[v]
      BY <1>2, <1>3, <1>5
    <3> QED
      BY <1>3, <1>8, <3>1, <3>2 DEF Told
  <2> QED
    BY <2>1, <2>2
<1>9. ASSUME NEW v \in Worker, pc'[v] = "dispatch"
      PROVE  (job[v] \in Deploys(builds[job[v]].service))'
  <2>1. CASE v = w
    BY <1>3, <1>4, <1>5, <1>7, <1>9, <2>1
  <2>2. CASE v # w
    <3>1. PICK s : s = builds[job[v]].service
      OBVIOUS
    <3>2. s \in Service /\ job[v] \in Deploys(s) /\ job'[v] = job[v]
      BY <1>3, <1>5, <1>9, <2>2, <3>1, OwnJob DEF Told
    <3>3. job[v] \in Deploys(s)'
      BY <1>6, <1>7, <3>2
    <3>4. builds'[job'[v]].service = s
      BY <3>2, <3>3 DEF Deploys, Successes, BuildsOf
    <3> QED
      BY <3>2, <3>3, <3>4
  <2> QED
    BY <2>1, <2>2
<1> QED
  BY <1>3, <1>8, <1>9 DEF Told

\* Without two builds at once and without lost steps, what was dispatched last
\* is the newest success as soon as the pipeline rests.
THEOREM AgentsRunNewest == Spec => []DeployedIsNewest
<1>1. Init => Told
  <2> SUFFICES ASSUME Init
               PROVE  Told
    OBVIOUS
  <2>1. \A s \in Service : Successes(s) = {} /\ deployed[s] = 0
    BY DEF Init, Successes, BuildsOf, Id
  <2>2. \A s \in Service : LatestDeploy(s) = 0
    BY <2>1 DEF LatestDeploy, Deploys, Newest
  <2>3. \A w \in Worker : pc[w] # "dispatch"
    BY DEF Init
  <2> QED
    BY <2>1, <2>2, <2>3 DEF Told
<1>2. IInv /\ IInv' /\ LastTaken /\ LastTaken' /\ Told /\ [Next]_vars => Told'
  <2> SUFFICES ASSUME IInv, IInv', LastTaken, LastTaken', Told, [Next]_vars
               PROVE  Told'
    OBVIOUS
  <2>1. CASE \/ \E s \in Service : Push(s) \/ StartManualBuild(s)
             \/ \E p \in Poller : PollerStep(p) \/ \E s \in Service : LsRemote(p, s)
             \/ UNCHANGED vars
    <3>1. /\ Grows \/ (Id' = Id /\ SameRows(Id))
          /\ UNCHANGED <<job, pc, deployed, overlapped, lost>>
      BY <2>1, OutsideRows DEF SameRows, Id
    <3>2. \A s \in Service : Successes(s)' = Successes(s)
      BY <3>1, SuccessesKept
    <3>3. \A i \in Id : builds'[i].sha = builds[i].sha
      BY <2>1, OutsideRows DEF Grows
    <3> QED
      BY <3>1, <3>2, <3>3, ToldFrame
  <2>2. ASSUME NEW w \in Worker, Succeed(w)
        PROVE  Told'
    BY <2>2, SucceedTold
  <2>3. ASSUME NEW w \in Worker, NoPipeline(w) \/ Fail(w), ~Succeed(w)
        PROVE  Told'
    <3>1. PICK st \in Status : Marks(job[w], st) /\ st # "success"
      BY <2>3, EndRows
    <3>2. job[w] \in Id /\ builds[job[w]].status # "success"
      BY <2>3, <3>1, EndRows DEF Marks
    <3>3. \A s \in Service : Successes(s)' = Successes(s)
      BY <3>1, <3>2, SuccessesKept
    <3>4. /\ pc[w] # "dispatch" /\ UNCHANGED <<deployed, overlapped, lost>>
          /\ \A v \in Worker \ {w} : pc'[v] = pc[v] /\ job'[v] = job[v]
      BY <2>3 DEF NoPipeline, Fail, EndWithout, Release, historyVars, IInv, Shapes
    <3>5. pc'[w] # "dispatch" /\ \A i \in Id : builds'[i].sha = builds[i].sha
      BY <2>3, <3>1 DEF NoPipeline, Fail, EndWithout, Release, Marks, IInv, Shapes
    <3> QED
      BY <3>3, <3>4, <3>5, ToldFrame
  <2>4. ASSUME NEW w \in Worker, NEW i \in Id, Claim(w, i)
        PROVE  Told'
    <3>1. Marks(i, "running") /\ builds[i].status # "success"
      BY <2>4, SetStatusMarks DEF Claim, Take, Claimable, Queued, Status
    <3>2. \A s \in Service : Successes(s)' = Successes(s)
      BY <3>1, SuccessesKept DEF Status
    <3>3. /\ pc[w] # "dispatch" /\ UNCHANGED <<deployed, lost>> /\ overlapped \subseteq overlapped'
          /\ \A v \in Worker \ {w} : pc'[v] = pc[v] /\ job'[v] = job[v]
      BY <2>4 DEF Claim, Take, Goto, IInv, Shapes
    <3>4. pc'[w] # "dispatch" /\ \A j \in Id : builds'[j].sha = builds[j].sha
      BY <2>4, <3>1 DEF Claim, Take, Goto, Marks, IInv, Shapes
    <3> QED
      BY <3>2, <3>3, <3>4, ToldFrame
  <2>5. ASSUME NEW w \in Worker, ResolveHead(w) \/ \E d \in Service : ResolveDependency(w, d)
        PROVE  Told'
    <3>1. \A s \in Service : Successes(s)' = Successes(s)
      BY <2>5, ResolveRows, SuccessesKept
    <3>2. /\ pc[w] # "dispatch" /\ UNCHANGED <<deployed, overlapped, lost, job>>
          /\ \A v \in Worker \ {w} : pc'[v] = pc[v]
      BY <2>5 DEF ResolveHead, ResolveDependency, Goto, historyVars, IInv, Shapes
    <3>3. pc'[w] # "dispatch" /\ builds[job[w]].status = "running"
      BY <2>5, OwnJob DEF ResolveHead, ResolveDependency, Goto, IInv, Shapes, Jobs, WorkerJob, AtWork
    <3>4. \A i \in Id : builds[i].status = "success" => builds'[i].sha = builds[i].sha
      BY <2>5, <3>3, ResolveRows
    <3> QED
      BY <3>1, <3>2, <3>3, <3>4, ToldFrame
  <2>6. ASSUME NEW w \in Worker, NEW s \in Service, TriggerDependent(w, s)
        PROVE  Told'
    <3>1. Grows /\ UNCHANGED <<deployed, overlapped, lost, job, pc>>
      BY <2>6, EnqueueGrows DEF TriggerDependent, historyVars
    <3>2. \A t \in Service : Successes(t)' = Successes(t)
      BY <3>1, SuccessesKept
    <3> QED
      BY <3>1, <3>2, ToldFrame DEF Grows
  <2>7. ASSUME NEW w \in Worker, DispatchRedeploy(w)
        PROVE  Told'
    <3>1. PICK e : e = builds[job[w]].service
      OBVIOUS
    <3>2. /\ pc[w] = "dispatch" /\ e \in Service
          /\ deployed' = [deployed EXCEPT ![e] = job[w]]
          /\ UNCHANGED <<builds, overlapped, lost, job>>
          /\ \A v \in Worker \ {w} : pc'[v] = pc[v]
      BY <2>7, <3>1, OwnJob DEF DispatchRedeploy, Goto, IInv, Shapes
    <3>3. \A s \in Service : Deploys(s)' = Deploys(s) /\ LatestDeploy(s)' = LatestDeploy(s)
      BY <3>2 DEF LatestDeploy, Deploys, Successes, BuildsOf, Id
    <3>4. e \in overlapped \/ job[w] = LatestDeploy(e)
      BY <3>1, <3>2, FollowsLatest DEF FollowersLatest, Told
    <3>5. ASSUME NEW s \in Service, s \notin overlapped, s \notin lost
          PROVE  \/ deployed'[s] = LatestDeploy(s)'
                 \/ \E v \in Worker : pc'[v] = "dispatch" /\ job'[v] = LatestDeploy(s)'
      <4>1. s \in Service /\ deployed \in [Service -> Nat]
        BY ServiceAssumption DEF IInv, Shapes
      <4>2. CASE s = e
        BY <3>2, <3>3, <3>4, <3>5, <4>1, <4>2
      <4>3. CASE s # e /\ deployed[s] = LatestDeploy(s)
        BY <3>2, <3>3, <4>1, <4>3
      <4>4. ASSUME s # e, NEW v \in Worker, pc[v] = "dispatch", job[v] = LatestDeploy(s)
            PROVE  pc'[v] = "dispatch" /\ job'[v] = LatestDeploy(s)'
        <5>1. job[v] \in Id /\ job[v] # 0
          BY <4>4, OwnJob, RowsTyped DEF IInv
        <5>2. builds[job[v]].service = s
          BY <4>1, <4>4, <5>1, LatestDeployIsNewest DEF Deploys, Successes, BuildsOf
        <5>3. v # w
          BY <3>1, <4>4, <5>2
        <5> QED
          BY <3>2, <3>3, <4>1, <4>4, <5>3
      <4> QED
        BY <3>5, <4>2, <4>3, <4>4 DEF Told
    <3>6. pc'[w] # "dispatch"
      BY <2>7 DEF DispatchRedeploy, Goto, IInv, Shapes
    <3>7. ASSUME NEW v \in Worker, pc'[v] = "dispatch"
          PROVE  (job[v] \in Deploys(builds[job[v]].service))'
      <4>1. builds[job[v]].service \in Service /\ job[v] \in Deploys(builds[job[v]].service)
        BY <3>2, <3>6, <3>7, OwnJob DEF Told
      <4> QED
        BY <3>2, <3>3, <4>1
    <3> QED
      BY <3>2, <3>5, <3>7 DEF Told
  <2>8. ASSUME NEW w \in Worker,
               \/ ReadPipeline(w) \/ ReadPipelineFails(w) \/ DispatchFails(w)
               \/ ListDependents(w) \/ FinishJob(w) \/ Crash(w)
               \/ \E s \in Service : TriggerFails(w, s)
        PROVE  Told'
    <3>1. UNCHANGED <<builds, overlapped>>
      BY <2>8, GoOnRows
    <3>2. \A s \in Service : Successes(s)' = Successes(s)
      BY <3>1 DEF Successes, BuildsOf, Id
    <3>3. deployed' = deployed /\ lost \subseteq lost'
      BY <2>8 DEF ReadPipeline, ReadPipelineFails, DispatchFails, ListDependents, FinishJob,
                  Crash, TriggerFails, Fault, historyVars
    <3>4. \A v \in Worker \ {w} : pc'[v] = pc[v] /\ job'[v] = job[v]
      BY <2>8 DEF ReadPipeline, ReadPipelineFails, ReadDependencies, DispatchFails,
                  ListDependents, FinishJob, Crash, TriggerFails, Fault, Release, Goto,
                  historyVars, IInv, Shapes
    <3>5. pc[w] = "dispatch" => builds[job[w]].service \in lost'
      BY <2>8 DEF ReadPipeline, ReadPipelineFails, ReadDependencies, DispatchFails,
                  ListDependents, FinishJob, Crash, TriggerFails, Fault
    <3>6. pc'[w] # "dispatch"
      BY <2>8 DEF ReadPipeline, ReadPipelineFails, ReadDependencies, DispatchFails,
                  ListDependents, FinishJob, Crash, TriggerFails, Fault, Release, Goto,
                  historyVars, IInv, Shapes
    <3> QED
      BY <3>1, <3>2, <3>3, <3>4, <3>5, <3>6, ToldFrame
  <2>9. \A w \in Worker : Succeed(w) \/ ~Succeed(w)
    OBVIOUS
  <2> QED
    BY <2>1, <2>2, <2>3, <2>4, <2>5, <2>6, <2>7, <2>8, <2>9
       DEF Next, WorkerStep, JobStep, FaultStep
<1>3. IInv /\ Told => DeployedIsNewest
  <2> SUFFICES ASSUME IInv, Told, Quiet,
                      NEW s \in Service \ (overlapped \cup lost)
               PROVE  deployed[s] = LatestDeploy(s)
    <3>1. \A s \in Service : Deploys(s) = {i \in BuildsOf(s) : /\ builds[i].status = "success"
                                                              /\ builds[i].sha \in Deployable(s)}
      BY DEF Deploys, Successes
    <3> QED
      BY <3>1 DEF DeployedIsNewest, LatestDeploy
  <2>1. \A w \in Worker : pc[w] # "dispatch"
    BY RowsTyped DEF Quiet, IInv, Jobs, WorkerJob
  <2> QED
    BY <2>1 DEF Told
<1> QED
  BY <1>1, <1>2, <1>3, Inductive, QueueOrdered, PTL DEF Spec

-----------------------------------------------------------------------------
(* What a service was built with.                                          *)

\* Row i is the newest build of s.
Current(s, i) == i \in BuildsOf(s) /\ \A j \in BuildsOf(s) : j <= i

\* The worker is still looking up what row i is built with.
Resolving(w, i) == job[w] = i /\ pc[w] = "dependencies"

\* The kaiad.yaml of row i was read, and its build goes on or succeeded.
Read(i) == builds[i].status = "success" \/ \E w \in Worker : Resolving(w, i)

\* A worker that follows up a build of d enqueues s, if it depends on d.
Follows(w, s) == pc[w] \in {"dispatch", "list"} \/ (pc[w] = "trigger" /\ s \in todo[w])

Coming(s, d) == \E w \in Worker : Follows(w, s) /\ builds[job[w]].service = d

\* Row i, of s, uses the newest success of d, is yet to look it up, or is going
\* to be followed by a build that does.
Settled(i, s, d) ==
  \/ <<d, LatestSuccess(d)>> \in builds[i].deps
  \/ \E w \in Worker : Resolving(w, i) /\ d \in todo[w]
  \/ Coming(s, d)

\* The newest build of a service is settled for all that its kaiad.yaml names,
\* and depends_on, which triggerDependentBuilds reads, names the same.
SettledFor(s, i) ==
  /\ dependsOn[s] = DependsAt(s, builds[i].sha)
  /\ \A d \in dependsOn[s] \ lost : Settled(i, s, d)

Fresh ==
  \A s \in Service \ (overlapped \cup lost), i \in Id :
    Current(s, i) /\ Read(i) => SettledFor(s, i)

\* Only the newest build of a service is at work, or was read.
LEMMA CurrentAtWork ==
  ASSUME IInv, LastTaken, NEW w \in Worker, NEW s \in Service, pc[w] # "idle",
         builds[job[w]].service = s, s \notin overlapped,
         NEW i \in Id, Current(s, i), builds[i].status # "queued"
  PROVE  i = job[w]
<1>1. job[w] \in BuildsOf(s) /\ job[w] \in Nat /\ i \in Nat /\ job[w] # 0
  BY OwnJob, RowsTyped DEF BuildsOf, IInv
<1>2. job[w] <= i /\ builds[i].service = s
  BY <1>1 DEF Current, BuildsOf
<1>3. ~(job[w] < i)
  BY <1>2, <1>1 DEF LastTaken
<1> QED
  BY <1>1, <1>2, <1>3

LEMMA ReadIsTaken ==
  ASSUME IInv, NEW i \in Id, Read(i)
  PROVE  builds[i].status # "queued"
  BY DEF IInv, Jobs, WorkerJob, Read, Resolving, AtWork

\* What a step must leave alone for row i to stay settled.
LEMMA SettledFrame ==
  ASSUME IInv, Fresh, NEW s \in Service, s \notin overlapped, s \notin lost,
         NEW i \in Id, Current(s, i), Read(i),
         lost \subseteq lost',
         dependsOn'[s] = dependsOn[s],
         builds'[i].sha = builds[i].sha, builds[i].deps \subseteq builds'[i].deps,
         \A d \in dependsOn[s] : LatestSuccess(d)' = LatestSuccess(d) \/ Coming(s, d)',
         \A w \in Worker, d \in dependsOn[s] : Resolving(w, i) /\ d \in todo[w] =>
           \/ Resolving(w, i)' /\ d \in todo'[w]
           \/ <<d, LatestSuccess(d)>> \in builds'[i].deps,
         \A w \in Worker : Follows(w, s) /\ builds[job[w]].service \in dependsOn[s] \ lost' =>
           Follows(w, s)' /\ builds'[job'[w]].service = builds[job[w]].service
  PROVE  SettledFor(s, i)'
<1>1. SettledFor(s, i)
  BY DEF Fresh
<1>2. dependsOn'[s] = DependsAt(s, builds'[i].sha)
  BY <1>1 DEF SettledFor
<1>3. ASSUME NEW d \in dependsOn[s], d \notin lost'
      PROVE  Settled(i, s, d)'
  <2>1. d \notin lost /\ Settled(i, s, d)
    BY <1>1, <1>3 DEF SettledFor
  <2>2. LatestSuccess(d)' = LatestSuccess(d) \/ Coming(s, d)'
    OBVIOUS
  <2>3. CASE Coming(s, d)'
    BY <2>3 DEF Settled
  <2>4. CASE Coming(s, d)
    <3>1. PICK w \in Worker : Follows(w, s) /\ builds[job[w]].service = d
      BY <2>4 DEF Coming
    <3>2. Follows(w, s)' /\ builds'[job'[w]].service = d
      BY <1>3, <3>1
    <3> QED
      BY <2>3, <3>2 DEF Coming
  <2>5. CASE LatestSuccess(d)' = LatestSuccess(d) /\ <<d, LatestSuccess(d)>> \in builds[i].deps
    BY <2>5 DEF Settled
  <2>6. ASSUME LatestSuccess(d)' = LatestSuccess(d),
               NEW w \in Worker, Resolving(w, i), d \in todo[w]
        PROVE  Settled(i, s, d)'
    <3>1. \/ Resolving(w, i)' /\ d \in todo'[w]
          \/ <<d, LatestSuccess(d)>> \in builds'[i].deps
      BY <2>6
    <3> QED
      BY <2>6, <3>1 DEF Settled
  <2> QED
    BY <2>1, <2>2, <2>3, <2>4, <2>5, <2>6 DEF Settled
<1> QED
  BY <1>2, <1>3 DEF SettledFor

\* It stays settled while no worker but those it does not wait for moves.
LEMMA FreshFrame ==
  ASSUME IInv, IInv', Fresh, overlapped \subseteq overlapped', lost \subseteq lost',
         dependsOn' = dependsOn,
         \A j \in Id : /\ j \in Id' /\ builds'[j].service = builds[j].service
                       /\ builds[j].deps \subseteq builds'[j].deps,
         \A j \in Id' : Read(j)' /\ builds'[j].service \notin lost' =>
           j \in Id /\ Read(j) /\ builds'[j].sha = builds[j].sha,
         \A d \in Service : Successes(d)' = Successes(d),
         \A w \in Worker, j \in Id : Resolving(w, j) /\ Read(j)' =>
           \/ builds'[j].service \in lost'
           \/ Resolving(w, j)' /\ todo'[w] = todo[w]
           \/ todo[w] = {}
           \/ /\ Resolving(w, j)'
              /\ \A d \in todo[w] \ todo'[w] : <<d, LatestSuccess(d)>> \in builds'[j].deps,
         \A w \in Worker : pc[w] \in FollowingUp =>
           \/ builds[job[w]].service \in lost'
           \/ /\ job'[w] = job[w]
              /\ \A s \in Service :
                   Follows(w, s) /\ builds[job[w]].service \in dependsOn[s]
                   => Follows(w, s)' \/ \E j \in BuildsOf(s)' : \A k \in Id : ~(j <= k)
           \/ pc[w] = "trigger" /\ todo[w] = {}
  PROVE  Fresh'
<1> SUFFICES ASSUME NEW s \in Service, s \notin overlapped', s \notin lost',
                    NEW i \in Id', Current(s, i)', Read(i)'
             PROVE  SettledFor(s, i)'
  BY DEF Fresh
<1>1. i \in Id /\ Read(i) /\ s \notin overlapped /\ s \notin lost
      /\ builds'[i].sha = builds[i].sha /\ builds[i].deps \subseteq builds'[i].deps
  BY DEF Current, BuildsOf
<1>2. Current(s, i)
  BY <1>1 DEF Current, BuildsOf
<1>3. dependsOn[s] \subseteq Service
  BY DEF IInv, Shapes
<1>4. \A d \in dependsOn[s] : LatestSuccess(d)' = LatestSuccess(d)
  BY <1>3, SuccessesSame
<1>5. ASSUME NEW w \in Worker, NEW d \in dependsOn[s], Resolving(w, i), d \in todo[w]
      PROVE  \/ Resolving(w, i)' /\ d \in todo'[w]
             \/ <<d, LatestSuccess(d)>> \in builds'[i].deps
  BY <1>1, <1>5 DEF Current, BuildsOf
<1>6. ASSUME NEW w \in Worker, Follows(w, s), builds[job[w]].service \in dependsOn[s] \ lost'
      PROVE  Follows(w, s)' /\ builds'[job'[w]].service = builds[job[w]].service
  <2>1. pc[w] \in FollowingUp /\ job[w] \in Id
    BY <1>6, OwnJob DEF Follows, FollowingUp
  <2>2. ~ \E j \in BuildsOf(s)' : \A k \in Id : ~(j <= k)
    BY <1>1 DEF Current
  <2>3. ~(pc[w] = "trigger" /\ todo[w] = {})
    BY <1>6 DEF Follows
  <2> QED
    BY <1>6, <2>1, <2>2, <2>3
<1> QED
  BY <1>1, <1>2, <1>4, <1>5, <1>6, SettledFrame

\* A build is one worker's.
LEMMA OwnedOnce ==
  ASSUME IInv, NEW v \in Worker, NEW w \in Worker, pc[w] # "idle", job[v] = job[w]
  PROVE  v = w
<1>1. job[w] # 0
  BY OwnJob, RowsTyped DEF IInv
<1> QED
  BY <1>1 DEF IInv, ClaimedOnce

\* A row more: nothing is known of it yet.
LEMMA GrowsFresh ==
  ASSUME IInv, IInv', Fresh, Grows, UNCHANGED <<dependsOn, job, pc, overlapped, lost>>,
         \A w \in Worker : pc[w] = "dependencies" => todo'[w] = todo[w],
         \A w \in Worker, s \in Service : s \in todo[w] =>
           s \in todo'[w] \/ builds'[Len(builds) + 1].service = s
  PROVE  Fresh'
<1> DEFINE n == Len(builds) + 1
<1>1. n \notin Id /\ n \in Id' /\ \A k \in Id : ~(n <= k)
  BY DEF Grows, IInv, Shapes, Id
<1>2. \A d \in Service : Successes(d)' = Successes(d)
  BY SuccessesKept
<1>3. ASSUME NEW j \in Id', Read(j)'
      PROVE  j \in Id /\ Read(j)
  <2>1. CASE j \in Id
    BY <1>3, <2>1 DEF Grows, Read, Resolving
  <2>2. CASE j = n
    <3>1. builds'[j].status = "queued"
      BY <2>2 DEF Grows
    <3>2. PICK w \in Worker : job[w] = j /\ pc[w] = "dependencies"
      BY <1>3, <3>1 DEF Read, Resolving
    <3> QED
      BY <1>1, <2>2, <3>2, OwnJob
  <2> QED
    BY <2>1, <2>2 DEF Grows
<1>4. ASSUME NEW w \in Worker, pc[w] \in FollowingUp, NEW s \in Service, Follows(w, s)
      PROVE  Follows(w, s)' \/ \E j \in BuildsOf(s)' : \A k \in Id : ~(j <= k)
  BY <1>1, <1>4 DEF Follows, BuildsOf
<1> QED
  BY <1>2, <1>3, <1>4, FreshFrame DEF Grows, Resolving

\* The poller and the panel.
LEMMA OutsideFresh ==
  ASSUME IInv, IInv', Fresh,
         \/ \E s \in Service : Push(s) \/ StartManualBuild(s)
         \/ \E p \in Poller : PollerStep(p) \/ \E s \in Service : LsRemote(p, s)
         \/ UNCHANGED vars
  PROVE  Fresh'
<1>1. UNCHANGED <<dependsOn, job, pc, todo, overlapped, lost>>
  BY OutsideRows
<1>2. CASE Grows
  BY <1>1, <1>2, GrowsFresh
<1>3. CASE builds' = builds
  BY <1>1, <1>3 DEF Fresh, Current, Read, Resolving, SettledFor, Settled, Coming, Follows,
                    LatestSuccess, BuildsOf, Id
<1> QED
  BY <1>2, <1>3, OutsideRows

\* A build of s is enqueued behind that of d.
LEMMA TriggerFresh ==
  ASSUME IInv, IInv', Fresh, NEW w \in Worker, NEW s \in Service, TriggerDependent(w, s)
  PROVE  Fresh'
<1>1. /\ Grows /\ builds'[Len(builds) + 1].service = s
      /\ UNCHANGED <<dependsOn, job, pc, overlapped, lost>>
      /\ pc[w] = "trigger" /\ todo' = [todo EXCEPT ![w] = @ \ {s}]
  BY EnqueueGrows DEF TriggerDependent, historyVars
<1>2. \A v \in Worker : todo'[v] = IF v = w THEN todo[v] \ {s} ELSE todo[v]
  BY <1>1 DEF IInv, Shapes
<1> QED
  BY <1>1, <1>2, GrowsFresh

\* A taken build was not read yet.
LEMMA ClaimFresh ==
  ASSUME IInv, IInv', Fresh, NEW w \in Worker, NEW i \in Id, Claim(w, i)
  PROVE  Fresh'
<1>1. /\ Marks(i, "running") /\ builds[i].status = "queued" /\ pc[w] = "idle"
      /\ UNCHANGED <<dependsOn, todo, lost>> /\ overlapped \subseteq overlapped'
      /\ \A v \in Worker \ {w} : pc'[v] = pc[v] /\ job'[v] = job[v]
      /\ pc'[w] \in {"resolve", "pipeline"}
  BY SetStatusMarks DEF Claim, Take, Claimable, Queued, Goto, Status, IInv, Shapes
<1>2. \A d \in Service : Successes(d)' = Successes(d)
  BY <1>1, SuccessesKept DEF Status
<1>3. ASSUME NEW v \in Worker, NEW j \in Id, Resolving(v, j)'
      PROVE  Resolving(v, j) /\ j # i
  BY <1>1, <1>3 DEF Resolving, IInv, Jobs, WorkerJob, AtWork
<1>4. ASSUME NEW j \in Id, Read(j)'
      PROVE  Read(j) /\ builds'[j].sha = builds[j].sha
  BY <1>1, <1>3, <1>4 DEF Read, Marks
<1>5. \A v \in Worker : pc[v] \in FollowingUp =>
        job'[v] = job[v] /\ \A s \in Service : Follows(v, s) => Follows(v, s)'
  BY <1>1 DEF Follows, FollowingUp
<1>6. \A v \in Worker, j \in Id : Resolving(v, j) => Resolving(v, j)'
  BY <1>1 DEF Resolving
<1> QED
  BY <1>1, <1>2, <1>4, <1>5, <1>6, FreshFrame DEF Marks

\* A build that ends without an image is not looked at again.
LEMMA EndFresh ==
  ASSUME IInv, IInv', Fresh, NEW w \in Worker, NoPipeline(w) \/ Fail(w), ~Succeed(w)
  PROVE  Fresh'
<1> DEFINE i == job[w]
<1>1. PICK st \in Status \ {"success"} : Marks(i, st)
  BY EndRows
<1>2. i \in Id /\ builds[i].status = "running" /\ pc[w] # "idle" /\ pc[w] \notin FollowingUp
  BY <1>1, EndRows DEF Marks, NoPipeline, Fail, FollowingUp
<1>3. /\ UNCHANGED <<dependsOn, overlapped, lost>> /\ pc'[w] = "idle"
      /\ \A v \in Worker \ {w} : pc'[v] = pc[v] /\ job'[v] = job[v] /\ todo'[v] = todo[v]
  BY DEF NoPipeline, Fail, EndWithout, Release, historyVars, IInv, Shapes
<1>4. \A d \in Service : Successes(d)' = Successes(d)
  BY <1>1, <1>2, SuccessesKept
<1>5. \A v \in Worker, j \in Id : Resolving(v, j)' => v # w /\ Resolving(v, j)
  BY <1>3 DEF Resolving
<1>6. ASSUME NEW j \in Id, Read(j)'
      PROVE  Read(j) /\ j # i
  <2>1. CASE j = i
    <3>1. PICK v \in Worker : Resolving(v, j)'
      BY <1>1, <1>6, <2>1 DEF Read, Marks
    <3>2. v # w /\ job[v] = job[w]
      BY <1>5, <2>1, <3>1 DEF Resolving
    <3> QED
      BY <1>2, <3>2, OwnedOnce
  <2>2. CASE j # i
    BY <1>1, <1>5, <1>6, <2>2 DEF Read, Marks
  <2> QED
    BY <2>1, <2>2
<1>7. ASSUME NEW v \in Worker, NEW j \in Id, Resolving(v, j), Read(j)'
      PROVE  Resolving(v, j)' /\ todo'[v] = todo[v]
  BY <1>3, <1>6, <1>7 DEF Resolving
<1>8. \A v \in Worker : pc[v] \in FollowingUp =>
        job'[v] = job[v] /\ \A s \in Service : Follows(v, s) => Follows(v, s)'
  BY <1>2, <1>3 DEF Follows
<1> QED
  BY <1>1, <1>3, <1>4, <1>6, <1>7, <1>8, FreshFrame DEF Marks

\* A manual build learns its commit before anything of it is read.
LEMMA ResolveHeadFresh ==
  ASSUME IInv, IInv', Fresh, NEW w \in Worker, ResolveHead(w)
  PROVE  Fresh'
<1> DEFINE i == job[w]
           r == [builds[i] EXCEPT !.sha = head[builds[i].service]]
<1>1. /\ pc[w] = "resolve" /\ pc' = [pc EXCEPT ![w] = "pipeline"]
      /\ UNCHANGED <<dependsOn, job, todo, overlapped, lost>>
      /\ builds' = [builds EXCEPT ![i] = r]
  BY DEF ResolveHead, Goto, historyVars
<1>2. i \in Id /\ builds[i] \in BuildRow /\ builds[i].service \in Service
      /\ builds[i].status = "running"
  BY <1>1, OwnJob DEF IInv, Jobs, WorkerJob, AtWork
<1>3. /\ r \in BuildRow /\ r.service = builds[i].service
      /\ r.status = builds[i].status /\ r.deps = builds[i].deps
  BY <1>2 DEF BuildRow, IInv, Shapes
<1> HIDE DEF r
<1>4. Id' = Id /\ builds'[i] = r /\ \A j \in Id : j # i => builds'[j] = builds[j]
  BY <1>1, <1>2, <1>3, AfterUpdate DEF IInv
<1>5. \A j \in Id : /\ builds'[j].service = builds[j].service
                    /\ builds'[j].status = builds[j].status
                    /\ builds'[j].deps = builds[j].deps
  BY <1>3, <1>4
<1>6. \A d \in Service : Successes(d)' = Successes(d)
  BY <1>4, <1>5, SuccessesKept DEF SameRows
<1>7. \A v \in Worker : pc'[v] = IF v = w THEN "pipeline" ELSE pc[v]
  BY <1>1 DEF IInv, Shapes
<1>8. \A v \in Worker, j \in Id : Resolving(v, j)' <=> Resolving(v, j)
  BY <1>1, <1>7 DEF Resolving
<1>9. ASSUME NEW j \in Id, Read(j)'
      PROVE  Read(j) /\ j # i
  <2>1. Read(j)
    BY <1>5, <1>8, <1>9 DEF Read
  <2>2. j # i
    BY <1>1, <1>2, <2>1, OwnedOnce DEF Read, Resolving
  <2> QED
    BY <2>1, <2>2
<1>10. \A v \in Worker : pc[v] \in FollowingUp =>
         job'[v] = job[v] /\ \A s \in Service : Follows(v, s) => Follows(v, s)'
  BY <1>1, <1>7 DEF Follows, FollowingUp
<1> QED
  BY <1>1, <1>4, <1>5, <1>6, <1>8, <1>9, <1>10, FreshFrame

\* A dependency is looked up: its newest success is noted as it leaves the list
\* of those to look up.
LEMMA ResolveDependencyFresh ==
  ASSUME IInv, IInv', Fresh, NEW w \in Worker, NEW e \in Service, ResolveDependency(w, e)
  PROVE  Fresh'
<1> DEFINE i == job[w]
           u == <<e, LatestSuccess(e)>>
           r == [builds[i] EXCEPT !.deps = @ \cup {u}]
<1>1. /\ pc[w] = "dependencies" /\ todo' = [todo EXCEPT ![w] = @ \ {e}]
      /\ UNCHANGED <<dependsOn, job, pc, overlapped, lost>>
      /\ builds' = [builds EXCEPT ![i] = r]
  BY DEF ResolveDependency, historyVars
<1>2. i \in Id /\ builds[i] \in BuildRow
  BY <1>1, OwnJob
<1>3. r.deps = builds[i].deps \cup {u} /\ r.sha = builds[i].sha
  BY <1>2 DEF BuildRow
<1>4. Id' = Id /\ SameRows(Id) /\ \A j \in Id : j # i => builds'[j] = builds[j]
  BY ResolveRows
<1> HIDE DEF r
<1>5. builds'[i] = r
  BY <1>1, <1>2 DEF IInv, Shapes, Id
<1>6. /\ \A j \in Id : /\ builds'[j].sha = builds[j].sha
                       /\ builds[j].deps \subseteq builds'[j].deps
      /\ u \in builds'[i].deps
  BY <1>3, <1>4, <1>5
<1>7. \A d \in Service : Successes(d)' = Successes(d)
  BY <1>4, SuccessesKept
<1>8. \A v \in Worker : todo'[v] = IF v = w THEN todo[v] \ {e} ELSE todo[v]
  BY <1>1 DEF IInv, Shapes
<1>9. \A v \in Worker, j \in Id : Resolving(v, j)' <=> Resolving(v, j)
  BY <1>1 DEF Resolving
<1>10. ASSUME NEW v \in Worker, NEW j \in Id, Resolving(v, j)
       PROVE  \/ todo'[v] = todo[v]
              \/ \A d \in todo[v] \ todo'[v] : <<d, LatestSuccess(d)>> \in builds'[j].deps
  BY <1>6, <1>8, <1>10 DEF Resolving
<1>11. \A v \in Worker : pc[v] \in FollowingUp =>
         job'[v] = job[v] /\ \A s \in Service : Follows(v, s) => Follows(v, s)'
  BY <1>1, <1>8 DEF Follows, FollowingUp
<1>12. \A j \in Id : Read(j)' => Read(j)
  BY <1>4, <1>9 DEF Read, SameRows
<1> QED
  BY <1>1, <1>4, <1>6, <1>7, <1>9, <1>10, <1>11, <1>12, FreshFrame DEF SameRows

\* A worker follows up its build, or loses a step, which the service's name in
\* lost records.
LEMMA FollowFresh ==
  ASSUME IInv, IInv', Fresh, NEW w \in Worker,
         \/ ReadPipelineFails(w) \/ DispatchRedeploy(w) \/ DispatchFails(w)
         \/ ListDependents(w) \/ FinishJob(w) \/ Crash(w)
         \/ \E s \in Service : TriggerFails(w, s)
  PROVE  Fresh'
<1> DEFINE e == builds[job[w]].service
<1>1. /\ UNCHANGED <<builds, dependsOn, overlapped>> /\ lost \subseteq lost'
      /\ \A v \in Worker : job'[v] \in {0, job[v]}
      /\ \A v \in Worker \ {w} : job'[v] = job[v] /\ pc'[v] = pc[v] /\ todo'[v] = todo[v]
      /\ pc[w] # "idle" /\ Id' = Id
  <2>1. UNCHANGED <<builds, dependsOn, overlapped>> /\ lost \subseteq lost'
    BY DEF ReadPipelineFails, ReadDependencies, DispatchRedeploy, DispatchFails, ListDependents,
           FinishJob, Crash, TriggerFails, Fault, historyVars
  <2>2. /\ \A v \in Worker : job'[v] \in {0, job[v]}
        /\ \A v \in Worker \ {w} : job'[v] = job[v]
    BY DEF ReadPipelineFails, DispatchRedeploy, DispatchFails, ListDependents,
           FinishJob, Crash, TriggerFails, Fault, Release, IInv, Shapes
  <2>3. \A v \in Worker \ {w} : pc'[v] = pc[v] /\ todo'[v] = todo[v]
    BY DEF ReadPipelineFails, ReadDependencies, DispatchRedeploy, DispatchFails, ListDependents,
           FinishJob, Crash, TriggerFails, Release, Goto, IInv, Shapes
  <2>4. pc[w] # "idle"
    BY DEF ReadPipelineFails, ReadDependencies, DispatchRedeploy, DispatchFails, ListDependents,
           FinishJob, Crash, TriggerFails, IInv, Jobs, WorkerJob
  <2> QED
    BY <2>1, <2>2, <2>3, <2>4 DEF Id
<1>2. \A d \in Service : Successes(d)' = Successes(d)
  BY <1>1 DEF Successes, BuildsOf, Id
<1>3. job[w] \in Id /\ job[w] # 0
  BY <1>1, OwnJob, RowsTyped DEF IInv
<1>4. \/ e \in lost'
      \/ pc[w] = "dispatch" /\ pc'[w] = "list" /\ job'[w] = job[w]
      \/ pc[w] = "list" /\ pc'[w] = "trigger" /\ job'[w] = job[w] /\ todo'[w] = Dependents(e)
      \/ pc[w] = "trigger" /\ todo[w] = {} /\ job'[w] = 0 /\ pc'[w] = "idle"
  BY DEF ReadPipelineFails, ReadDependencies, DispatchRedeploy, DispatchFails, ListDependents,
         FinishJob, Crash, TriggerFails, Fault, Release, Goto, IInv, Shapes
<1>5. ASSUME NEW j \in Id, Read(j)', builds'[j].service \notin lost'
      PROVE  Read(j)
  <2>1. CASE builds[j].status = "success"
    BY <2>1 DEF Read
  <2>2. ASSUME NEW v \in Worker, Resolving(v, j)'
        PROVE  Resolving(v, j)
    <3>1. v # w
      <4>1. v = w => pc'[w] = "dependencies" /\ job[w] = j
        BY <1>1, <1>3, <2>2, RowsTyped DEF Resolving, IInv
      <4> QED
        BY <1>1, <1>4, <1>5, <4>1
    <3> QED
      BY <1>1, <2>2, <3>1 DEF Resolving
  <2> QED
    BY <1>1, <1>5, <2>1, <2>2 DEF Read
<1>6. ASSUME NEW v \in Worker, NEW j \in Id, Resolving(v, j), Read(j)'
      PROVE  (Resolving(v, j)' /\ todo'[v] = todo[v]) \/ builds'[j].service \in lost'
  BY <1>1, <1>4, <1>6 DEF Resolving
<1>7. ASSUME NEW v \in Worker, pc[v] \in FollowingUp
      PROVE  \/ builds[job[v]].service \in lost'
             \/ /\ job'[v] = job[v]
                /\ \A s \in Service :
                     Follows(v, s) /\ builds[job[v]].service \in dependsOn[s] => Follows(v, s)'
             \/ pc[v] = "trigger" /\ todo[v] = {}
  BY <1>1, <1>4, <1>7 DEF Follows, FollowingUp, Dependents
<1> QED
  BY <1>1, <1>2, <1>5, <1>6, <1>7, FreshFrame

\* kaiad.yaml is read: depends_on is written, and every name is yet to look up.
LEMMA ReadFresh ==
  ASSUME IInv, LastTaken, Fresh, NEW w \in Worker, ReadPipeline(w)
  PROVE  Fresh'
<1> DEFINE n == job[w]
<1>1. PICK e : e = builds[n].service
  OBVIOUS
<1>2. /\ pc[w] = "pipeline" /\ pc[w] # "idle" /\ pc[w] \notin FollowingUp
      /\ UNCHANGED <<builds, job, overlapped, lost>>
      /\ todo' = [todo EXCEPT ![w] = DependsAt(e, builds[n].sha)]
      /\ pc' = [pc EXCEPT ![w] = "dependencies"]
      /\ dependsOn' = [dependsOn EXCEPT ![e] = todo'[w]]
      /\ Id' = Id
  BY <1>1 DEF ReadPipeline, ReadDependencies, Goto, historyVars, FollowingUp, Id
<1>3. n \in Id /\ e \in Service /\ builds[n].status = "running"
  BY <1>1, <1>2, OwnJob DEF IInv, Jobs, WorkerJob, AtWork
<1>4. /\ todo'[w] = DependsAt(e, builds[n].sha) /\ dependsOn'[e] = todo'[w]
      /\ \A v \in Worker \ {w} : pc'[v] = pc[v] /\ todo'[v] = todo[v]
      /\ \A s \in Service \ {e} : dependsOn'[s] = dependsOn[s]
      /\ pc'[w] = "dependencies"
  BY <1>2, <1>3 DEF IInv, Shapes
<1> SUFFICES ASSUME NEW s \in Service, s \notin overlapped, s \notin lost,
                    NEW i \in Id, Current(s, i), Read(i)'
             PROVE  SettledFor(s, i)'
  BY <1>2 DEF Fresh, Current, BuildsOf
<1>5. CASE i = n
  <2>1. s = e
    BY <1>1, <1>5 DEF Current, BuildsOf
  <2>2. Resolving(w, i)'
    BY <1>2, <1>4, <1>5 DEF Resolving
  <2>3. \A d \in dependsOn'[s] : Settled(i, s, d)'
    BY <1>4, <2>1, <2>2 DEF Settled
  <2> QED
    BY <1>2, <1>4, <1>5, <2>1, <2>3 DEF SettledFor
<1>6. CASE i # n
  <2>1. Read(i)
    BY <1>2, <1>4, <1>6 DEF Read, Resolving
  <2>2. s # e
    <3>1. builds[i].status # "queued"
      BY <2>1, ReadIsTaken
    <3> QED
      BY <1>1, <1>2, <1>3, <1>6, <3>1, CurrentAtWork
  <2>3. \A v \in Worker, d \in dependsOn[s] : Resolving(v, i) /\ d \in todo[v] =>
           Resolving(v, i)' /\ d \in todo'[v]
    BY <1>2, <1>4 DEF Resolving
  <2>4. \A v \in Worker : Follows(v, s) => Follows(v, s)' /\ builds'[job'[v]].service = builds[job[v]].service
    BY <1>2, <1>4 DEF Follows
  <2>5. \A d \in dependsOn[s] : LatestSuccess(d)' = LatestSuccess(d)
    BY <1>2 DEF LatestSuccess, BuildsOf, Id
  <2> QED
    BY <1>2, <1>4, <2>1, <2>2, <2>3, <2>4, <2>5, SettledFrame
<1> QED
  BY <1>5, <1>6

\* A build succeeds: it is the newest of its service, and whoever depends on it
\* is going to be enqueued.
LEMMA SucceedFresh ==
  ASSUME IInv, Fresh, NEW w \in Worker, Succeed(w)
  PROVE  Fresh'
<1> DEFINE n == job[w]
<1>1. PICK e : e = builds[n].service
  OBVIOUS
<1>2. /\ pc[w] = "dependencies" /\ pc[w] # "idle" /\ todo[w] = {}
      /\ UNCHANGED <<job, todo, dependsOn, overlapped, lost>>
      /\ pc' = [pc EXCEPT ![w] = IF builds[n].sha \in Deployable(e) THEN "dispatch" ELSE "list"]
  BY <1>1 DEF Succeed, Goto, historyVars
<1>3. n \in Id /\ e \in Service
  BY <1>1, <1>2, OwnJob
<1>4. Marks(n, "success")
  BY <1>3, SetStatusMarks DEF Succeed, Status
<1>5. /\ \A v \in Worker \ {w} : pc'[v] = pc[v]
      /\ pc'[w] \in {"dispatch", "list"}
  BY <1>2 DEF IInv, Shapes
<1>6. \A s : Coming(s, e)'
  <2>1. builds'[job'[w]].service = e
    BY <1>1, <1>2, <1>3, <1>4 DEF Marks
  <2>2. \A s : Follows(w, s)'
    BY <1>5 DEF Follows
  <2> QED
    BY <2>1, <2>2 DEF Coming
<1>7. \A d \in Service \ {e} : LatestSuccess(d)' = LatestSuccess(d)
  BY <1>1, <1>3, <1>4, SuccessesKept, SuccessesSame DEF Status
<1> SUFFICES ASSUME NEW s \in Service, s \notin overlapped, s \notin lost,
                    NEW i \in Id, Current(s, i), Read(i)'
             PROVE  SettledFor(s, i)'
  BY <1>2, <1>4 DEF Fresh, Current, BuildsOf, Marks
<1>8. Read(i)
  <2>1. CASE i = n
    BY <1>2, <2>1 DEF Read, Resolving
  <2>2. CASE i # n
    BY <1>2, <1>4, <1>5, <2>2 DEF Read, Resolving, Marks
  <2> QED
    BY <2>1, <2>2
<1>9. dependsOn[s] \subseteq Service
  BY DEF IInv, Shapes
<1>10. \A v \in Worker, d \in dependsOn[s] : Resolving(v, i) /\ d \in todo[v] =>
         Resolving(v, i)' /\ d \in todo'[v]
  BY <1>2, <1>5 DEF Resolving
<1>11. ASSUME NEW v \in Worker, Follows(v, s)
       PROVE  Follows(v, s)' /\ builds'[job'[v]].service = builds[job[v]].service
  <2>1. v # w /\ job[v] \in Id
    BY <1>2, <1>11, OwnJob DEF Follows
  <2> QED
    BY <1>2, <1>4, <1>5, <1>11, <2>1 DEF Follows, Marks
<1>12. \A d \in dependsOn[s] : LatestSuccess(d)' = LatestSuccess(d) \/ Coming(s, d)'
  BY <1>6, <1>7, <1>9
<1> QED
  BY <1>2, <1>4, <1>8, <1>10, <1>11, <1>12, SettledFrame DEF Marks

\* Without two builds at once and without lost steps, no service rests on an
\* old build of what it depends on: depends_on is written before the dependencies
\* are looked up, and read after a success is recorded, so a new success is found
\* by the look-up or finds the service.
THEOREM DependentsRebuilt == Spec => []DependentsFresh
<1>1. Init => Fresh
  BY DEF Init, Fresh, Id
<1>2. IInv /\ IInv' /\ LastTaken /\ Fresh /\ [Next]_vars => Fresh'
  <2> SUFFICES ASSUME IInv, IInv', LastTaken, Fresh, [Next]_vars
               PROVE  Fresh'
    OBVIOUS
  <2>1. CASE \/ \E s \in Service : Push(s) \/ StartManualBuild(s)
             \/ \E p \in Poller : PollerStep(p) \/ \E s \in Service : LsRemote(p, s)
             \/ UNCHANGED vars
    BY <2>1, OutsideFresh
  <2>2. ASSUME NEW w \in Worker, WorkerStep(w)
        PROVE  Fresh'
    <3>1. CASE NoPipeline(w) \/ Fail(w)
      BY <3>1, EndFresh, SucceedFresh
    <3> QED
      BY <2>2, <3>1, ClaimFresh, ResolveHeadFresh, ReadFresh, SucceedFresh, FollowFresh,
         ResolveDependencyFresh, TriggerFresh DEF WorkerStep, JobStep
  <2>3. ASSUME NEW w \in Worker, FaultStep(w)
        PROVE  Fresh'
    BY <2>3, FollowFresh DEF FaultStep
  <2> QED
    BY <2>1, <2>2, <2>3 DEF Next
<1>3. IInv /\ Fresh => DependentsFresh
  <2> SUFFICES ASSUME IInv, Fresh, Quiet, NEW s \in Service \ (overlapped \cup lost),
                      NEW i, i = Newest(BuildsOf(s)),
                      i # 0, builds[i].status = "success",
                      NEW d \in DependsAt(s, builds[i].sha) \ lost
               PROVE  <<d, LatestSuccess(d)>> \in builds[i].deps
    BY DEF DependentsFresh
  <2>1. \A w \in Worker : pc[w] = "idle"
    BY RowsTyped DEF Quiet, IInv, Jobs, WorkerJob
  <2>2. Current(s, i) /\ i \in Id
    <3>1. Len(builds) \in Nat /\ BuildsOf(s) \subseteq 1 .. Len(builds)
      BY DEF IInv, Shapes, BuildsOf, Id
    <3>2. i \in BuildsOf(s) /\ \A j \in BuildsOf(s) : j <= i
      BY <3>1, NewestRow
    <3> QED
      BY <3>2 DEF Current, BuildsOf
  <2>3. SettledFor(s, i)
    BY <2>2 DEF Fresh, Read
  <2>4. Settled(i, s, d)
    BY <2>3 DEF SettledFor
  <2> QED
    BY <2>1, <2>4 DEF Settled, Resolving, Coming, Follows
<1> QED
  BY <1>1, <1>2, <1>3, Inductive, QueueOrdered, PTL DEF Spec

=============================================================================
