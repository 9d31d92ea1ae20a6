------------------------------- MODULE Builds -------------------------------
(***************************************************************************)
(* The build pipeline: the poller and the builder of                       *)
(* apps/worker/src/builds.ts over the service_builds table and the         *)
(* kind/depends_on columns of monitored_services (packages/db/src/         *)
(* queries.ts).  Several worker processes may run it (a worker beside an   *)
(* API that embeds one, or replicas), and one process may poll twice at    *)
(* once: its first pass does not take the timer's busy flag.               *)
(*                                                                         *)
(* A build is an index into the sequence of rows, in the order of          *)
(* created_at.  Its rows live through every crash; a worker's program      *)
(* counter does not.  A loop is cut where it awaits the database, git, a   *)
(* build container or the API.                                             *)
(***************************************************************************)
EXTENDS Naturals, Sequences, FiniteSets

CONSTANTS Service,
          Worker,           \* processes that drain the queue
          Poller,           \* polling passes that can be under way at once
          MaxCommits(_),    \* bound: commits of a service's watched branch
          Deployable(_),    \* those whose pipeline is of that kind, and makes an image
          DependsAt(_, _),  \* dependsOn in the kaiad.yaml of a service's n-th commit
          MaxManual,        \* bound: builds started from the panel
          MaxFaults         \* bound: workers that die, calls that fail

ASSUME BoundsAssumption ==
  /\ \A s \in Service : MaxCommits(s) \in Nat \ {0}
  /\ MaxManual \in Nat /\ MaxFaults \in Nat

ASSUME ServiceAssumption ==
  \A s \in Service : \A n \in 1 .. MaxCommits(s) : DependsAt(s, n) \subseteq Service \ {s}

VARIABLES
  head,       \* the newest commit of each watched branch
  builds,     \* service_builds
  dependsOn,  \* monitored_services.depends_on
  poll,       \* each polling pass: where it stands, and what it has read
  job,        \* the build each worker runs, or 0
  pc,         \* where it stands with it
  todo,       \* services it still has to look up, or to enqueue
  \* --- history ---
  deployed,   \* the build last dispatched to the agents of each service
  overlapped, \* services of which two builds ran at the same time
  lost,       \* services a build of which lost a step to a fault
  manual, faults

vars == <<head, builds, dependsOn, poll, job, pc, todo,
          deployed, overlapped, lost, manual, faults>>
workerVars  == <<job, pc, todo>>
historyVars == <<deployed, overlapped, lost, manual, faults>>

Id == 1 .. Len(builds)

\* A row of service_builds.  Commit 0 is the empty git_sha of a manual build
\* not yet claimed; deps are the "dep:" lines of its log: service and build.
Row(s, n, by) ==
  [service |-> s, sha |-> n, by |-> by, status |-> "queued", deps |-> {}]

Enqueue(row) == builds' = Append(builds, row)

Newest(I) == IF I = {} THEN 0 ELSE CHOOSE i \in I : \A j \in I : j <= i

BuildsOf(s) == {i \in Id : builds[i].service = s}

Finished(i) == builds[i].status \in {"success", "failed", "no_pipeline"}

IdlePoll == [at |-> "idle"]

Init ==
  /\ head = [s \in Service |-> 1]
  /\ builds = <<>>
  /\ dependsOn = [s \in Service |-> {}]
  /\ poll = [p \in Poller |-> IdlePoll]
  /\ job = [w \in Worker |-> 0]
  /\ pc = [w \in Worker |-> "idle"]
  /\ todo = [w \in Worker |-> {}]
  /\ deployed = [s \in Service |-> 0]
  /\ overlapped = {}
  /\ lost = {}
  /\ manual = 0
  /\ faults = 0

-----------------------------------------------------------------------------
(* The outside world.                                                      *)

\* Someone pushes to the watched branch.
Push(s) ==
  /\ head[s] < MaxCommits(s)
  /\ head' = [head EXCEPT ![s] = @ + 1]
  /\ UNCHANGED <<builds, dependsOn, poll, workerVars, historyVars>>

\* POST /api/v1/services/:id/builds.
StartManualBuild(s) ==
  /\ manual < MaxManual
  /\ manual' = manual + 1
  /\ Enqueue(Row(s, 0, "manual"))
  /\ UNCHANGED <<head, dependsOn, poll, workerVars, deployed, overlapped, lost, faults>>

-----------------------------------------------------------------------------
(* runPollOnce, one service of a pass.                                     *)

\* Mistake: manual builds count as polled.
LatestShaOfAny(s) ==
  LET i == Newest({j \in BuildsOf(s) : builds[j].sha # 0})
  IN  IF i = 0 THEN 0 ELSE builds[i].sha

\* getLatestBuildSha: the commit the poller enqueued last, 0 if none.
LatestSha(s) ==
  LET i == Newest({j \in BuildsOf(s) : builds[j].by = "poll" /\ builds[j].sha # 0})
  IN  IF i = 0 THEN 0 ELSE builds[i].sha

\* git ls-remote answers.
LsRemote(p, s) ==
  /\ poll[p].at = "idle"
  /\ LatestSha(s) # head[s]  \* bound: passes that find nothing to do are left out
  /\ poll' = [poll EXCEPT ![p] = [at |-> "remote", service |-> s, sha |-> head[s]]]
  /\ UNCHANGED <<head, builds, dependsOn, workerVars, historyVars>>

\* getLatestBuildSha answers: the pass goes on if the commit is another one.
CompareSha(p) ==
  /\ poll[p].at = "remote"
  /\ poll' = [poll EXCEPT ![p] =
                IF LatestSha(@.service) = @.sha THEN IdlePoll ELSE [@ EXCEPT !.at = "new"]]
  /\ UNCHANGED <<head, builds, dependsOn, workerVars, historyVars>>

\* enqueueBuild.
EnqueuePolled(p) ==
  /\ poll[p].at = "new"
  /\ Enqueue(Row(poll[p].service, poll[p].sha, "poll"))
  /\ poll' = [poll EXCEPT ![p] = IdlePoll]
  /\ UNCHANGED <<head, dependsOn, workerVars, historyVars>>

-----------------------------------------------------------------------------
(* runDrainOnce and runBuild.                                              *)

SetStatus(i, status) == builds' = [builds EXCEPT ![i].status = status]

\* Mistake: drainBusy is not cleared.
ReleaseButBusy(w) ==
  /\ job' = [job EXCEPT ![w] = 0]
  /\ pc' = [pc EXCEPT ![w] = "busy"]
  /\ todo' = [todo EXCEPT ![w] = {}]

\* The worker is done with its build.
Release(w) ==
  /\ job' = [job EXCEPT ![w] = 0]
  /\ pc' = [pc EXCEPT ![w] = "idle"]
  /\ todo' = [todo EXCEPT ![w] = {}]

Goto(w, label) == pc' = [pc EXCEPT ![w] = label]

Queued == {i \in Id : builds[i].status = "queued"}

\* Mistake: the newest queued row is claimed first.
NewestQueued(i) == i \in Queued /\ \A j \in Queued : j <= i

\* The row claimNextBuild picks: the oldest queued one.
Claimable(i) == i \in Queued /\ \A j \in Queued : i <= j

Take(w, i) ==
  /\ pc[w] = "idle"
  /\ Claimable(i)
  /\ job' = [job EXCEPT ![w] = i]
  /\ Goto(w, IF builds[i].sha = 0 THEN "resolve" ELSE "pipeline")
  /\ overlapped' = overlapped \cup
       {s \in {builds[i].service} : \E v \in Worker : job[v] # 0 /\ builds[job[v]].service = s}
  /\ UNCHANGED <<head, dependsOn, poll, todo, deployed, lost, manual, faults>>

\* Mistake: the row is selected first and made running later.
ClaimUnmarked(w, i) == Take(w, i) /\ UNCHANGED builds

\* claimNextBuild: one UPDATE picks the row and makes it running.
Claim(w, i) == Take(w, i) /\ SetStatus(i, "running")

\* A manual build gets the branch's newest commit.
ResolveHead(w) ==
  LET i == job[w] IN
  /\ pc[w] = "resolve"
  /\ builds' = [builds EXCEPT ![i].sha = head[builds[i].service]]
  /\ Goto(w, "pipeline")
  /\ UNCHANGED <<head, dependsOn, poll, job, todo, historyVars>>

\* The build ends without an image: git fails, there is no kaiad.yaml or it is
\* invalid, a dependency has no successful build (BuildDepsError), a step fails.
EndWithout(w, status) ==
  /\ SetStatus(job[w], status)
  /\ Release(w)
  /\ UNCHANGED <<head, dependsOn, poll, historyVars>>

NoPipeline(w) == pc[w] = "pipeline" /\ EndWithout(w, "no_pipeline")

Fail(w) == pc[w] \in {"resolve", "pipeline", "dependencies"} /\ EndWithout(w, "failed")

\* A call fails, is logged, and the build goes on without it.
Fault(w) ==
  /\ faults < MaxFaults
  /\ faults' = faults + 1
  /\ lost' = lost \cup {builds[job[w]].service}
  /\ UNCHANGED <<head, builds, poll, job, deployed, overlapped, manual>>

\* kaiad.yaml is read at the commit, ...
ReadDependencies(w) ==
  /\ pc[w] = "pipeline"
  /\ todo' = [todo EXCEPT ![w] = DependsAt(builds[job[w]].service, builds[job[w]].sha)]
  /\ Goto(w, "dependencies")

\* Mistake: the row's depends_on is left as it was.
ReadPipelineUnsaved(w) ==
  ReadDependencies(w) /\ UNCHANGED <<head, builds, dependsOn, poll, job, historyVars>>

\* ... and updateServicePipelineMeta writes its dependsOn to the service's row.
ReadPipeline(w) ==
  /\ ReadDependencies(w)
  /\ dependsOn' = [dependsOn EXCEPT ![builds[job[w]].service] = todo'[w]]
  /\ UNCHANGED <<head, builds, poll, job, historyVars>>

ReadPipelineFails(w) == ReadDependencies(w) /\ Fault(w) /\ UNCHANGED dependsOn

\* getLatestSuccessfulBuildByServiceName.
LatestSuccess(s) == Newest({i \in BuildsOf(s) : builds[i].status = "success"})

\* resolveDeps, one dependency: its newest successful build is used.
ResolveDependency(w, d) ==
  /\ pc[w] = "dependencies"
  /\ d \in todo[w]
  /\ LatestSuccess(d) # 0
  /\ builds' = [builds EXCEPT ![job[w]].deps = @ \cup {<<d, LatestSuccess(d)>>}]
  /\ todo' = [todo EXCEPT ![w] = @ \ {d}]
  /\ UNCHANGED <<head, dependsOn, poll, job, pc, historyVars>>

\* The image is built and pushed: finishBuild(success).  A build of a
\* supporting pipeline is not deployed.
Succeed(w) ==
  /\ pc[w] = "dependencies"
  /\ todo[w] = {}
  /\ SetStatus(job[w], "success")
  /\ LET row == builds[job[w]]
     IN  Goto(w, IF row.sha \in Deployable(row.service) THEN "dispatch" ELSE "list")
  /\ UNCHANGED <<head, dependsOn, poll, job, todo, historyVars>>

\* dispatchRedeployToBoundAgents.
DispatchRedeploy(w) ==
  /\ pc[w] = "dispatch"
  /\ deployed' = [deployed EXCEPT ![builds[job[w]].service] = job[w]]
  /\ Goto(w, "list")
  /\ UNCHANGED <<head, builds, dependsOn, poll, job, todo, overlapped, lost, manual, faults>>

DispatchFails(w) ==
  pc[w] = "dispatch" /\ Goto(w, "list") /\ Fault(w) /\ UNCHANGED <<dependsOn, todo>>

\* Mistake: only services that have been built are dependents.
BuiltDependents(d) ==
  {s \in Service : d \in dependsOn[s] /\ LatestSuccess(s) # 0}

\* listServicesDependingOn.
Dependents(d) == {s \in Service : d \in dependsOn[s]}

\* triggerDependentBuilds reads who depends on the service.
ListDependents(w) ==
  /\ pc[w] = "list"
  /\ todo' = [todo EXCEPT ![w] = Dependents(builds[job[w]].service)]
  /\ Goto(w, "trigger")
  /\ UNCHANGED <<head, builds, dependsOn, poll, job, historyVars>>

\* One enqueueManualBuild of the loop.
TriggerDependent(w, s) ==
  /\ pc[w] = "trigger"
  /\ s \in todo[w]
  /\ Enqueue(Row(s, 0, "manual"))
  /\ todo' = [todo EXCEPT ![w] = @ \ {s}]
  /\ UNCHANGED <<head, dependsOn, poll, job, pc, historyVars>>

TriggerFails(w, s) ==
  /\ pc[w] = "trigger"
  /\ s \in todo[w]
  /\ todo' = [todo EXCEPT ![w] = @ \ {s}]
  /\ Fault(w)
  /\ UNCHANGED <<dependsOn, pc>>

FinishJob(w) ==
  /\ pc[w] = "trigger"
  /\ todo[w] = {}
  /\ Release(w)
  /\ UNCHANGED <<head, builds, dependsOn, poll, historyVars>>

\* The worker process dies, and another takes its place: nothing touches the
\* row it was running.
Crash(w) ==
  /\ faults < MaxFaults
  /\ job[w] # 0
  /\ faults' = faults + 1
  /\ lost' = lost \cup {builds[job[w]].service}
  /\ Release(w)
  /\ UNCHANGED <<head, builds, dependsOn, poll, deployed, overlapped, manual>>

-----------------------------------------------------------------------------
PollerStep(p) == CompareSha(p) \/ EnqueuePolled(p)

JobStep(w) ==
  \/ ResolveHead(w) \/ NoPipeline(w) \/ Fail(w) \/ ReadPipeline(w) \/ Succeed(w)
  \/ DispatchRedeploy(w) \/ ListDependents(w) \/ FinishJob(w)
  \/ \E s \in Service : ResolveDependency(w, s) \/ TriggerDependent(w, s)

FaultStep(w) ==
  \/ ReadPipelineFails(w) \/ DispatchFails(w) \/ Crash(w)
  \/ \E s \in Service : TriggerFails(w, s)

WorkerStep(w) == JobStep(w) \/ \E i \in Id : Claim(w, i)

Next ==
  \/ \E s \in Service : Push(s) \/ StartManualBuild(s)
  \/ \E p \in Poller : PollerStep(p) \/ \E s \in Service : LsRemote(p, s)
  \/ \E w \in Worker : WorkerStep(w) \/ FaultStep(w)

Spec == Init /\ [][Next]_vars

\* The timers fire for ever, every pass asks for every service, and git, the
\* containers and the database answer or time out.
Fairness ==
  /\ \A s \in Service : WF_vars(\E p \in Poller : LsRemote(p, s))
  /\ \A p \in Poller : WF_vars(PollerStep(p))
  /\ \A w \in Worker : WF_vars(WorkerStep(w))

FairSpec == Spec /\ Fairness

-----------------------------------------------------------------------------
(* Properties.                                                             *)

Status == {"queued", "running", "success", "failed", "no_pipeline"}

\* Types of the variables; a worker at work has a running build, or one it has
\* finished and is following up.
TypeOK ==
  /\ \A s \in Service : head[s] \in 1 .. MaxCommits(s)
  /\ \A i \in Id : /\ builds[i].service \in Service
                   /\ builds[i].sha \in 0 .. head[builds[i].service]
                   /\ builds[i].by \in {"poll", "manual"}
                   /\ builds[i].status \in Status
                   /\ builds[i].deps \subseteq Service \X Id
  /\ dependsOn \in [Service -> SUBSET Service]
  /\ \A p \in Poller : poll[p].at \in {"idle", "remote", "new"}
  /\ job \in [Worker -> {0} \cup Id]
  /\ \A w \in Worker :
       CASE pc[w] = "idle" -> job[w] = 0
         [] pc[w] \in {"resolve", "pipeline", "dependencies"} ->
              job[w] # 0 /\ builds[job[w]].status = "running"
         [] pc[w] \in {"dispatch", "list", "trigger"} ->
              job[w] # 0 /\ builds[job[w]].status = "success"
  /\ todo \in [Worker -> SUBSET Service]
  /\ deployed \in [Service -> {0} \cup Id]
  /\ overlapped \subseteq Service /\ lost \subseteq Service
  /\ manual \in 0 .. MaxManual /\ faults \in 0 .. MaxFaults

\* Nothing is queued and no worker is busy.
Quiet == Queued = {} /\ \A w \in Worker : job[w] = 0

\* When the pipeline comes to rest, a service whose newest build succeeded was
\* built with the newest successful build of each service its kaiad.yaml names, even
\* when that named the dependency for the first time while that was being built:
\* depends_on is written before the dependencies are read, and read after a
\* success is recorded.  Two builds of the service at once, or a step lost to
\* a fault, can leave it behind.
DependentsFresh ==
  Quiet => \A s \in Service \ (overlapped \cup lost) :
    LET i == Newest(BuildsOf(s)) IN
    i # 0 /\ builds[i].status = "success" =>
      \A d \in DependsAt(s, builds[i].sha) \ lost : <<d, LatestSuccess(d)>> \in builds[i].deps

\* Unless two builds of a service ran at once or a step was lost, the build its
\* agents were told to run is its newest success of those that are deployed.
DeployedIsNewest ==
  Quiet => \A s \in Service \ (overlapped \cup lost) :
    deployed[s] = Newest({i \in BuildsOf(s) : /\ builds[i].status = "success"
                                             /\ builds[i].sha \in Deployable(s)})

\* No two workers run, or follow up, the same build.
ClaimedOnce == \A v, w \in Worker : v # w /\ job[v] # 0 => job[v] # job[w]

\* The builds of a service all come to an end, unless a worker dies with one.
BuildsEnd ==
  \A s \in Service : []<>(s \in lost \/ \A i \in BuildsOf(s) : Finished(i))

\* Every push is polled in the end, whatever manual builds of the same commit
\* there are: the poller enqueues the newest commit of the branch itself.
PushesArePolled ==
  \A s \in Service :
    []<>(\E i \in BuildsOf(s) : builds[i].by = "poll" /\ builds[i].sha = head[s])

=============================================================================
