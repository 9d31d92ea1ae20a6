------------------------------- MODULE Deploy -------------------------------
(***************************************************************************)
(* Deployments: which build of a service each bound agent should run, the  *)
(* handlers of apps/api/src/server.ts and the step of the worker that send *)
(* redeploy_service and teardown_service for it, the agent's executor      *)
(* (apps/agent/internal/executor/redeploy.go) that carries them out, and   *)
(* the table service_loadbalancer_status in which the API keeps what the   *)
(* agents report.  The drift scheduler reads that table and nothing else.  *)
(*                                                                         *)
(* A handler that awaits is a job: it holds what it has read while others  *)
(* go on.  How a command reaches an agent is CommandChannel's subject; here*)
(* it is held until the agent is online, and runs in a goroutine of its    *)
(* own, in no order.  An API that restarts forgets its jobs.               *)
(***************************************************************************)
EXTENDS Naturals, FiniteSets

CONSTANTS Agent, Service, Env,
          Development,       \* the default of agents.environment
          Pipeline(_),       \* the kaiad.yaml captured with a build: what it sets, and
                             \* in .environments what some environments override
          Job,               \* handlers that can be under way at once
          Slot,              \* bound: commands not yet finished, 1..n
          MaxBuilds, MaxRequests, MaxFaults  \* bounds

ASSUME BoundsAssumption ==
  MaxBuilds \in Nat /\ MaxRequests \in Nat /\ MaxFaults \in Nat

ASSUME EnvAssumption == Development \in Env

ASSUME JobAssumption == Job \subseteq Nat /\ Slot \subseteq Nat

VARIABLES
  bound,       \* agent_services
  env,         \* agents.environment
  latest,      \* the newest successful build of each service, 0 if none
  rows,        \* service_loadbalancer_status
  job,         \* what each handler under way still has to do
  online,      \* agents with a registered connection
  kubernetes,  \* agents whose runtime is kubectl; the others use docker
  command,     \* commands sent and not finished
  containers,  \* what runs on the agents
  \* --- history ---
  lost,        \* places of which a row, a report or a teardown was lost
  requests, faults  \* requests of operators, failures: bounded

vars == <<bound, env, latest, rows, job, online, kubernetes, command,
          containers, lost, requests, faults>>
countVars == <<kubernetes, requests, faults>>

\* No namespace in kaiad.yaml, and the one a docker agent then takes.
Unset == "unset"
Default == "kaiad"

\* resolveEnvironment: an environment's own value, or else the pipeline's.
Resolve(b, e) ==
  LET def == Pipeline(b)
      Own(field) == /\ e \in DOMAIN def.environments
                    /\ def.environments[e][field] # Unset
      Value(field) == IF Own(field) THEN def.environments[e][field] ELSE def[field]
  IN  [namespace |-> Value("namespace"), instances |-> Value("instances")]

NamespaceOf(b, e) == Resolve(b, e).namespace

\* The namespace the agent's executor then works in.
InUse(ns) == IF ns = Unset THEN Default ELSE ns

NoCommand == [kind |-> "none"]
Nowhere   == [step |-> "none"]
IdleJob   == [kind |-> "none", todo |-> {}, at |-> Nowhere]

Init ==
  /\ bound \in SUBSET (Agent \X Service)
  /\ env = [a \in Agent |-> Development]
  /\ latest = [s \in Service |-> 0]
  /\ rows = {}
  /\ job = [j \in Job |-> IdleJob]
  /\ online = [a \in Agent |-> TRUE]
  /\ kubernetes \in SUBSET Agent
  /\ command = [c \in Slot |-> NoCommand]
  /\ containers = {}
  /\ lost = {}
  /\ requests = 0 /\ faults = 0

RowsOf(a, s) == {r \in rows : r.agent = a /\ r.service = s}

-----------------------------------------------------------------------------
(* Targets: one service of one agent, the build and the environment to     *)
(* deploy, and the place to tear down first, if any.                       *)

NoPlace == [env |-> Unset, ns |-> Unset]
Place(r) == [env |-> r.env, ns |-> r.ns]

Target(a, s, e, b, old, step) ==
  [agent |-> a, service |-> s, env |-> e, build |-> b, old |-> old, step |-> step]

Deployable == {p \in bound : latest[p[2]] > 0}

Moved(r, b, e) == NamespaceOf(b, e) # Unset /\ r.ns # NamespaceOf(b, e)

\* Mistake: the environment of the row is not compared.
DriftedBuild(r, b, e) == r.build # b

Drifted(r, b, e) == r.build # b \/ r.env # e \/ Moved(r, b, e)

\* listAllDeployTargets, and the comparison with what is desired.
Drift ==
  UNION {LET a == p[1]
             s == p[2]
             T(old, step) == Target(a, s, env[a], latest[s], old, step)
         IN  IF RowsOf(a, s) = {}
             THEN {T(NoPlace, "send")}
             ELSE {T(IF Moved(r, latest[s], env[a]) THEN Place(r) ELSE NoPlace,
                     IF Moved(r, latest[s], env[a]) THEN "pop" ELSE "send") :
                     r \in {q \in RowsOf(a, s) : Drifted(q, latest[s], env[a])}} :
         p \in {q \in Deployable : online[q[1]]}}

\* listMissingDeploysForAgent.
Missing(a, e) ==
  {Target(a, p[2], e, latest[p[2]], NoPlace, "send") :
     p \in {q \in Deployable : q[1] = a /\ RowsOf(a, q[2]) = {}}}

\* listLatestBuildsForBoundServices, and the two resolutions compared.
Flipped(a, old, new) ==
  {LET b == latest[p[2]]
       moves == NamespaceOf(b, old) # NamespaceOf(b, new)
   IN  Target(a, p[2], new, b,
              [env |-> old, ns |-> NamespaceOf(b, old)], IF moves THEN "pop" ELSE "send") :
     p \in {q \in Deployable : q[1] = a /\ Resolve(latest[q[2]], old) # Resolve(latest[q[2]], new)}}

\* Every agent bound to a service, in the environment it has now.
BoundTargets(s, b) ==
  {Target(p[1], s, env[p[1]], b, NoPlace, "send") : p \in {q \in bound : q[2] = s}}

-----------------------------------------------------------------------------
(* A job begins.                                                           *)

Begin(j, kind, todo, at) ==
  /\ job[j].kind = "none" /\ \A i \in Job : job[i].kind = "none" => j <= i
  /\ job' = [job EXCEPT ![j] = IF todo = {} /\ at = Nowhere THEN IdleJob
                                ELSE [kind |-> kind, todo |-> todo, at |-> at]]

Ask(a, old, new) == [step |-> "list", agent |-> a, old |-> old, new |-> new]

\* reconcileAllDeployments from its timer, one pass at a time.
TimerPass(j) ==
  /\ Drift # {}  \* bound: a pass that finds nothing is left out
  /\ \A i \in Job : job[i].kind # "timer"
  /\ Begin(j, "timer", Drift, Nowhere)
  /\ UNCHANGED <<bound, env, latest, rows, online, command, containers, lost, countVars>>

\* POST /api/v1/internal/reconcile-all: a pass that does not take the flag.
ManualPass(j) ==
  /\ requests < MaxRequests /\ Drift # {}
  /\ requests' = requests + 1
  /\ Begin(j, "manual", Drift, Nowhere)
  /\ UNCHANGED <<bound, env, latest, rows, online, command, containers, lost, kubernetes, faults>>

\* POST /api/v1/agents/:agentId/reconcile-deploys reads the environment first.
ReconcileAgent(j, a) ==
  /\ requests < MaxRequests
  /\ requests' = requests + 1
  /\ Begin(j, "connect", {}, Ask(a, env[a], env[a]))
  /\ UNCHANGED <<bound, env, latest, rows, online, command, containers, lost, kubernetes, faults>>

\* A build succeeds, and the worker tells every agent bound to its service.
BuildSucceeds(j, s) ==
  /\ latest[s] < MaxBuilds
  /\ latest' = [latest EXCEPT ![s] = @ + 1]
  /\ Begin(j, "build", BoundTargets(s, latest'[s]), Nowhere)
  /\ UNCHANGED <<bound, env, rows, online, command, containers, lost, countVars>>

\* POST /api/v1/services/:id/deploy: an operator chooses any successful build.
DeployChosen(j, s, b) ==
  /\ requests < MaxRequests /\ b \in 1 .. latest[s]
  /\ requests' = requests + 1
  /\ Begin(j, "deploy", BoundTargets(s, b), Nowhere)
  /\ UNCHANGED <<bound, env, latest, rows, online, command, containers, lost, kubernetes, faults>>

\* POST /api/v1/agents/:agentId/deploy: on one agent, if it is bound.
DeployOnAgent(j, a, s, b) ==
  /\ requests < MaxRequests /\ b \in 1 .. latest[s] /\ <<a, s>> \in bound
  /\ requests' = requests + 1
  /\ Begin(j, "deploy", {t \in BoundTargets(s, b) : t.agent = a}, Nowhere)
  /\ UNCHANGED <<bound, env, latest, rows, online, command, containers, lost, kubernetes, faults>>

\* PATCH /api/v1/agents/:id: the redeploys follow after the answer.
FlipEnvironment(j, a, e) ==
  /\ requests < MaxRequests /\ e # env[a]
  /\ requests' = requests + 1
  /\ env' = [env EXCEPT ![a] = e]
  /\ Begin(j, "flip", {}, Ask(a, env[a], e))
  /\ UNCHANGED <<bound, latest, rows, online, command, containers, lost, kubernetes, faults>>

\* POST /api/v1/agents/:agentId/services/:serviceId sends nothing.
Attach(a, s) ==
  /\ requests < MaxRequests /\ <<a, s>> \notin bound
  /\ requests' = requests + 1
  /\ bound' = bound \cup {<<a, s>>}
  /\ UNCHANGED <<env, latest, rows, job, online, command, containers, lost, kubernetes, faults>>

\* DELETE of the same: the binding goes, then the row, then the containers.
Detach(j, a, s) ==
  /\ requests < MaxRequests /\ <<a, s>> \in bound
  /\ requests' = requests + 1
  /\ bound' = bound \ {<<a, s>>}
  /\ Begin(j, "detach", {Target(a, s, Unset, 0, NoPlace, "pop")}, Nowhere)
  /\ UNCHANGED <<env, latest, rows, online, command, containers, lost, kubernetes, faults>>

\* The bindings of a service become those to a set of agents.
Rebound(s, A) == {p \in bound : p[2] # s} \cup (A \X {s})

\* PATCH /api/v1/services/:id { agentIds }: setAgentBindings tears nothing down.
SetBindings(s, A) ==
  /\ requests < MaxRequests
  /\ requests' = requests + 1
  /\ bound' = Rebound(s, A)
  /\ bound' # bound
  /\ UNCHANGED <<env, latest, rows, job, online, command, containers, lost, kubernetes, faults>>

-----------------------------------------------------------------------------
(* A job goes on: one target at a time, one awaited call per step.         *)

\* The target in hand, or any of those left when none is.
Turn(j) == IF job[j].at = Nowhere THEN job[j].todo ELSE {job[j].at}

\* The job after a step of target t, which is now next; or done, if Nowhere.
Proceed(j, t, next) ==
  LET left == job[j].todo \ {t}
  IN  job' = [job EXCEPT ![j] = IF left = {} /\ next = Nowhere THEN IdleJob
                                ELSE [@ EXCEPT !.todo = left, !.at = next]]

ListTargets(j) ==
  LET ask == job[j].at
      T == IF job[j].kind = "flip" THEN Flipped(ask.agent, ask.old, ask.new)
           ELSE Missing(ask.agent, ask.new)
  IN  /\ ask.step = "list"
      /\ job' = [job EXCEPT ![j] = IF T = {} THEN IdleJob
                                   ELSE [@ EXCEPT !.todo = T, !.at = Nowhere]]
      /\ UNCHANGED <<bound, env, latest, rows, online, command, containers, lost, countVars>>

\* What to tear down: the scheduler's own reading, else the first popped row.
Last(j, t, place) ==
  CASE job[j].kind \in {"timer", "manual"} -> t.old
    [] place # NoPlace -> place
    [] OTHER -> t.old

\* popLoadBalancerStatusForAgentService deletes every row of the pair and
\* returns one of them.
PopRow(j, t) ==
  /\ t.step = "pop"
  /\ LET popped == RowsOf(t.agent, t.service)
     IN  \E place \in IF popped = {} THEN {NoPlace} ELSE {Place(r) : r \in popped} :
           LET last == Last(j, t, place)
           IN  /\ rows' = rows \ popped
               /\ lost' = lost \cup {<<t.agent, t.service>> :
                                       r \in {q \in popped : q.ns # last.ns}}
               /\ Proceed(j, t, [t EXCEPT !.old = last, !.step = "tear"])
               /\ UNCHANGED <<bound, env, latest, online, command, containers, countVars>>

\* What parseRedeployPayload takes out of a command, as far as it matters here.
Payload(t, kind, e, b, ns) ==
  [kind |-> kind, agent |-> t.agent, service |-> t.service, env |-> e, build |-> b, ns |-> ns,
   at |-> "sent"]

\* A command is on its way; its agent may be away.
Send(p) ==
  /\ \E c \in Slot : command[c] = NoCommand  \* bound
  /\ command' = [command EXCEPT
       ![CHOOSE c \in Slot : command[c] = NoCommand /\ \A d \in Slot : command[d] = NoCommand => c <= d] =
         [p EXCEPT !.at = IF online[p.agent] THEN @ ELSE "held"]]

\* Mistake: the old place is left as it is.
TearNothing(j, t) ==
  /\ t.step = "tear"
  /\ Proceed(j, t, IF t.build = 0 THEN Nowhere ELSE [t EXCEPT !.step = "send"])
  /\ UNCHANGED <<bound, env, latest, rows, online, command, containers, lost, countVars>>

\* The old place is torn down; one that was detached is not deployed again.
SendTeardown(j, t) ==
  /\ t.step = "tear"
  /\ Send(Payload(t, "teardown", t.old.env, 0, t.old.ns))
  /\ Proceed(j, t, IF t.build = 0 THEN Nowhere ELSE [t EXCEPT !.step = "send"])
  /\ UNCHANGED <<bound, env, latest, rows, online, containers, lost, countVars>>

\* Mistake: the namespace is looked up in the environment the agent has now.
SendToCurrent(j, t) ==
  /\ t.step = "send"
  /\ Send(Payload(t, "redeploy", t.env, t.build, NamespaceOf(t.build, env[t.agent])))
  /\ Proceed(j, t, Nowhere)
  /\ UNCHANGED <<bound, env, latest, rows, online, containers, lost, countVars>>

\* Its answer says whether it was delivered or queued; either will do.
SendRedeploy(j, t) ==
  /\ t.step = "send"
  /\ Send(Payload(t, "redeploy", t.env, t.build, NamespaceOf(t.build, t.env)))
  /\ Proceed(j, t, Nowhere)
  /\ UNCHANGED <<bound, env, latest, rows, online, containers, lost, countVars>>

-----------------------------------------------------------------------------
(* The agent: each command in a goroutine of its own.                      *)

Finish(c) == command' = [command EXCEPT ![c] = NoCommand]
MoveTo(c, at) == command' = [command EXCEPT ![c].at = at]

NsOf(c) == InUse(command[c].ns)

Containers(c, ns) ==
  {k \in containers : k.agent = command[c].agent /\ k.service = command[c].service /\ k.ns \in ns}

Backend(c) == IF command[c].agent \in kubernetes THEN "kubernetes" ELSE "docker"

\* executeRedeployService turns to the backend of its agent.
Redeploys(c, backend) ==
  command[c].kind = "redeploy" /\ command[c].at = "sent" /\ Backend(c) = backend

\* redeployDocker pulls the image, then removes the replicas it replaces.
Clear(c) ==
  /\ Redeploys(c, "docker")
  /\ containers' = containers \ Containers(c, {NsOf(c)})
  /\ MoveTo(c, "cleared")
  /\ UNCHANGED <<bound, env, latest, rows, job, online, lost, countVars>>

\* The pull fails: the command is answered, and nothing is reported.
PullFails(c) ==
  /\ Redeploys(c, "docker")
  /\ faults < MaxFaults /\ faults' = faults + 1
  /\ Finish(c)
  /\ UNCHANGED <<bound, env, latest, rows, job, online, containers, lost, kubernetes, requests>>

\* The command's service as it runs: the replicas, or the manifests.
Workload(c) ==
  [agent |-> command[c].agent, service |-> command[c].service, ns |-> NsOf(c),
   env |-> command[c].env, build |-> command[c].build]

Replaced(c) == (containers \ Containers(c, {NsOf(c)})) \cup {Workload(c)}

\* The new replicas, under names of which stale bearers are removed.
Start(c) ==
  /\ command[c].kind = "redeploy" /\ command[c].at = "cleared"
  /\ containers' = Replaced(c)
  /\ MoveTo(c, "started")
  /\ UNCHANGED <<bound, env, latest, rows, job, online, lost, countVars>>

\* The selector of a Deployment names the environment and cannot change.
Selects(c) == \A k \in Containers(c, {NsOf(c)}) : k.env = command[c].env

\* kubectl apply; what it does not accept is reported all the same.
Apply(c) ==
  /\ Redeploys(c, "kubernetes")
  /\ containers' = IF Selects(c) THEN Replaced(c) ELSE containers
  /\ MoveTo(c, "started")
  /\ UNCHANGED <<bound, env, latest, rows, job, online, lost, countVars>>

\* Nor does it matter why it fails.
ApplyFails(c) ==
  /\ Redeploys(c, "kubernetes")
  /\ faults < MaxFaults /\ faults' = faults + 1
  /\ MoveTo(c, "started")
  /\ UNCHANGED <<bound, env, latest, rows, job, online, containers, lost, kubernetes, requests>>

\* upsertLoadBalancerStatus: the table has one row per service and environment.
Upsert(r) ==
  LET old == {q \in rows : q.service = r.service /\ q.env = r.env}
  IN  /\ rows' = (rows \ old) \cup {r}
      /\ lost' = lost \cup {<<q.agent, q.service>> : q \in {o \in old : o.agent # r.agent \/ o.ns # r.ns}}

\* What was asked for, whatever runs.
LbStatusReport(c) ==
  LET m == command[c]
  IN  [service |-> m.service, env |-> m.env, agent |-> m.agent, build |-> m.build, ns |-> NsOf(c)]

\* lb_status_report; without a connection it goes nowhere.
Report(c) ==
  LET m == command[c]
  IN  /\ m.kind = "redeploy" /\ m.at = "started"
      /\ Finish(c)
      /\ IF online[m.agent]
         THEN Upsert(LbStatusReport(c))
         ELSE rows' = rows /\ lost' = lost \cup {<<m.agent, m.service>>}
      /\ UNCHANGED <<bound, env, latest, job, online, containers, countVars>>

\* teardownDocker: the default namespace stands for every one of them.
Teardown(c) ==
  LET m == command[c]
      every == {k.ns : k \in containers}
      scope == IF Backend(c) = "docker" /\ NsOf(c) = Default THEN every ELSE {NsOf(c)}
  IN  /\ m.kind = "teardown" /\ m.at = "sent"
      /\ containers' = containers \ Containers(c, scope)
      /\ Finish(c)
      /\ UNCHANGED <<bound, env, latest, rows, job, online, lost, countVars>>

-----------------------------------------------------------------------------
(* Connections and processes.                                              *)

\* The connection closes; the agent goes on with what it has.
GoOffline(a) ==
  /\ online[a] /\ faults < MaxFaults
  /\ faults' = faults + 1
  /\ online' = [online EXCEPT ![a] = FALSE]
  /\ UNCHANGED <<bound, env, latest, rows, job, command, containers, lost, kubernetes, requests>>

\* The agent's process dies: what it had not answered is held for it again.
AgentDies(a) ==
  /\ faults < MaxFaults
  /\ faults' = faults + 1
  /\ online' = [online EXCEPT ![a] = FALSE]
  /\ command' = [c \in Slot |-> IF command[c].kind # "none" /\ command[c].agent = a
                                THEN [command[c] EXCEPT !.at = "held"] ELSE command[c]]
  /\ UNCHANGED <<bound, env, latest, rows, job, containers, lost, kubernetes, requests>>

\* ensureRegistered: held commands are delivered, then reconcileAgentDeploys
\* (bound: left to the timer when every job is under way).
GoOnline(j, a) ==
  /\ ~online[a]
  /\ online' = [online EXCEPT ![a] = TRUE]
  /\ command' = [c \in Slot |-> IF command[c].kind # "none" /\ command[c].agent = a /\ command[c].at = "held"
                                THEN [command[c] EXCEPT !.at = "sent"] ELSE command[c]]
  /\ \/ Begin(j, "connect", {}, Ask(a, env[a], env[a]))
     \/ (\A i \in Job : job[i].kind # "none") /\ job' = job
  /\ UNCHANGED <<bound, env, latest, rows, containers, lost, countVars>>

\* The API dies with its jobs; a row popped is not known to anyone any more.
RestartApi ==
  /\ faults < MaxFaults
  /\ faults' = faults + 1
  /\ job' = [j \in Job |-> IdleJob]
  /\ job' # job
  /\ lost' = lost \cup UNION {{<<t.agent, t.service>> : t \in {u \in {job[j].at} : u.step = "tear"}} : j \in Job}
  /\ UNCHANGED <<bound, env, latest, rows, online, command, containers, kubernetes, requests>>

-----------------------------------------------------------------------------
JobStep(j) ==
  \/ ListTargets(j)
  \/ \E t \in Turn(j) : PopRow(j, t) \/ SendTeardown(j, t) \/ SendRedeploy(j, t)

CommandStep(c) == Clear(c) \/ Start(c) \/ Apply(c) \/ Report(c) \/ Teardown(c)

Next ==
  \/ \E j \in Job :
       \/ TimerPass(j) \/ ManualPass(j) \/ JobStep(j)
       \/ \E a \in Agent : \/ ReconcileAgent(j, a) \/ GoOnline(j, a)
                           \/ \E e \in Env : FlipEnvironment(j, a, e)
                           \/ \E s \in Service : Detach(j, a, s)
       \/ \E s \in Service : BuildSucceeds(j, s) \/ \E b \in 1 .. MaxBuilds :
            DeployChosen(j, s, b) \/ \E a \in Agent : DeployOnAgent(j, a, s, b)
  \/ \E s \in Service : (\E a \in Agent : Attach(a, s)) \/ \E A \in SUBSET Agent : SetBindings(s, A)
  \/ \E c \in Slot : CommandStep(c) \/ PullFails(c) \/ ApplyFails(c)
  \/ \E a \in Agent : GoOffline(a) \/ AgentDies(a)
  \/ RestartApi

Spec == Init /\ [][Next]_vars

\* The API's event loop, its timer, the agent and its reconnecting go on; an
\* operator, a build or a fault may come or not.
Fairness ==
  /\ \A j \in Job : WF_vars(JobStep(j))
  /\ WF_vars(\E j \in Job : TimerPass(j))
  /\ \A c \in Slot : WF_vars(CommandStep(c))
  /\ \A a \in Agent : WF_vars(\E j \in Job : GoOnline(j, a))

FairSpec == Spec /\ Fairness

-----------------------------------------------------------------------------
(* Properties.                                                             *)

TypeOK ==
  /\ bound \subseteq Agent \X Service
  /\ env \in [Agent -> Env]
  /\ latest \in [Service -> 0 .. MaxBuilds]
  /\ \A r \in rows \cup containers : r.agent \in Agent /\ r.service \in Service /\ r.build \in 1 .. MaxBuilds
  /\ online \in [Agent -> BOOLEAN]
  /\ lost \subseteq Agent \X Service

\* Whatever handlers, flips, retries and commands overlap: what runs on an agent,
\* and what the table says of it, is a build that succeeded, in the namespace
\* that build's own pipeline gives it in the environment it runs for; and a
\* service runs once in a namespace, and has one row per environment.
PlacedAsBuilt ==
  /\ \A x \in containers \cup rows :
       x.build \in 1 .. latest[x.service] /\ x.ns = InUse(NamespaceOf(x.build, x.env))
  /\ \A k, l \in containers : k.agent = l.agent /\ k.service = l.service /\ k.ns = l.ns => k = l
  /\ \A q, r \in rows : q.service = r.service /\ q.env = r.env => q = r

Rivals(a, s) == {b \in Agent \ {a} : <<b, s>> \in bound /\ env[b] = env[a]}

Current(a, s) ==
  \E r \in RowsOf(a, s) : r.env = env[a] /\ r.build = latest[s]

\* What the scheduler is for: whatever is pushed, flipped, lost or restarted,
\* the table ends up saying that a bound agent runs the newest build in its
\* environment - unless another agent shares the row.
StatusCatchesUp ==
  \A a \in Agent, s \in Service :
    <>[](<<a, s>> \in Deployable => Current(a, s) \/ Rivals(a, s) # {})

\* A namespace an agent left behind is torn down, unless its row, its report
\* or its teardown was lost on the way.
OldNamespacesGo ==
  \A a \in Agent, s \in Service :
    <>[]( <<a, s>> \in Deployable \ lost =>
            \A k \in containers : k.agent = a /\ k.service = s => k.ns = InUse(NamespaceOf(latest[s], env[a])))

=============================================================================
