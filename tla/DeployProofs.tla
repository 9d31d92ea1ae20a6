---------------------------- MODULE DeployProofs ----------------------------
(***************************************************************************)
(* What Deploy guarantees for any agents, services, environments and       *)
(* pipelines, and any bounds.                                              *)
(***************************************************************************)
EXTENDS Deploy, TLAPS

\* Build b of service s has succeeded.
Succeeded(s, b) == s \in Service /\ b \in 1 .. latest[s]

\* A target names such a build, unless it is only to be torn down.
TargetOK(t) ==
  /\ t = Target(t.agent, t.service, t.env, t.build, t.old, t.step)
  /\ t.agent \in Agent /\ t.service \in Service
  /\ Succeeded(t.service, t.build) \/ (t.build = 0 /\ t.step \in {"pop", "tear"})

InHand(x) == x.step \notin {"none", "list"}

JobOK(x) ==
  /\ x = [kind |-> x.kind, todo |-> x.todo, at |-> x.at]
  /\ \A t \in x.todo : TargetOK(t)
  /\ InHand(x.at) => TargetOK(x.at)

\* A redeploy carries the namespace of its own build and environment.
CommandOK(m) ==
  m # NoCommand =>
    /\ m = [kind |-> m.kind, agent |-> m.agent, service |-> m.service, env |-> m.env,
            build |-> m.build, ns |-> m.ns, at |-> m.at]
    /\ m.agent \in Agent /\ m.service \in Service
    /\ m.kind = "redeploy" => Succeeded(m.service, m.build) /\ m.ns = NamespaceOf(m.build, m.env)

\* A row, or what runs, of a build that succeeded, where that build belongs.
Placed(x) ==
  /\ x.agent \in Agent /\ Succeeded(x.service, x.build)
  /\ x.ns = InUse(NamespaceOf(x.build, x.env))

\* A service runs once in a namespace, and has one row per environment.
Once ==
  /\ \A k, l \in containers : k.agent = l.agent /\ k.service = l.service /\ k.ns = l.ns => k = l
  /\ \A q, r \in rows : q.service = r.service /\ q.env = r.env => q = r

Counts == latest \in [Service -> 0 .. MaxBuilds]
Typed == bound \subseteq Agent \X Service /\ env \in [Agent -> Env] /\ online \in [Agent -> BOOLEAN]
Losses == lost \subseteq Agent \X Service
Jobs == job = [j \in Job |-> job[j]] /\ \A j \in Job : JobOK(job[j])
Commands == command = [c \in Slot |-> command[c]] /\ \A c \in Slot : CommandOK(command[c])
Places == \A x \in containers \cup rows : Placed(x)

DInv == Counts /\ Typed /\ Losses /\ Jobs /\ Commands /\ Places /\ Once

-----------------------------------------------------------------------------
\* The number of builds of a service only grows.
Grown == Counts' /\ \A s \in Service : latest[s] <= latest'[s]

\* What has succeeded stays so, and with it all that rests on it.
LEMMA GrownKeeps ==
  ASSUME Counts, Grown
  PROVE  /\ \A s, b : Succeeded(s, b) => Succeeded(s, b)'
         /\ \A t : TargetOK(t) => TargetOK(t)'
         /\ \A x : JobOK(x) => JobOK(x)'
         /\ \A m : CommandOK(m) => CommandOK(m)'
         /\ \A x : Placed(x) => Placed(x)'
<1>1. ASSUME NEW s, NEW b, Succeeded(s, b) PROVE Succeeded(s, b)'
  <2>1. /\ s \in Service /\ latest[s] \in Nat /\ latest'[s] \in Nat
        /\ latest[s] <= latest'[s] /\ b \in 1 .. latest[s]
    BY <1>1, BoundsAssumption DEF Succeeded, Counts, Grown
  <2>2. b \in 1 .. latest'[s]
    BY <2>1
  <2> QED
    BY <2>1, <2>2 DEF Succeeded
<1>2. \A t : TargetOK(t) => TargetOK(t)'
  BY <1>1 DEF TargetOK
<1>3. \A x : JobOK(x) => JobOK(x)'
  BY <1>2 DEF JobOK
<1>4. \A m : CommandOK(m) => CommandOK(m)'
  BY <1>1 DEF CommandOK
<1>5. \A x : Placed(x) => Placed(x)'
  BY <1>1 DEF Placed
<1> QED
  BY <1>1, <1>2, <1>3, <1>4, <1>5

\* A step that builds nothing.
LEMMA SameKeeps ==
  ASSUME Counts, latest' = latest
  PROVE  /\ Grown
         /\ \A s, b : Succeeded(s, b) => Succeeded(s, b)'
         /\ \A t : TargetOK(t) => TargetOK(t)'
         /\ \A x : JobOK(x) => JobOK(x)'
         /\ \A m : CommandOK(m) => CommandOK(m)'
         /\ \A x : Placed(x) => Placed(x)'
<1>1. \A s \in Service : latest[s] \in Nat
  BY BoundsAssumption DEF Counts
<1>2. Grown
  BY <1>1 DEF Counts, Grown
<1> QED
  BY <1>2, GrownKeeps

-----------------------------------------------------------------------------
(* Targets, and the jobs that hold them.                                   *)

\* Target makes a record of its arguments.
LEMMA MadeOf ==
  ASSUME NEW a, NEW s, NEW e, NEW b, NEW old, NEW step, NEW t, t = Target(a, s, e, b, old, step)
  PROVE  /\ t = Target(t.agent, t.service, t.env, t.build, t.old, t.step)
         /\ t.agent = a /\ t.service = s /\ t.build = b /\ t.step = step
  BY DEF Target

LEMMA SucceededTarget ==
  ASSUME NEW a \in Agent, NEW s, NEW e, NEW b, NEW old, NEW step, Succeeded(s, b)
  PROVE  TargetOK(Target(a, s, e, b, old, step))
  BY MadeOf DEF TargetOK, Succeeded

\* A deployable pair has a newest build, and it has succeeded.
LEMMA NewestSucceeded ==
  ASSUME Counts, Typed, NEW p \in Deployable
  PROVE  p[1] \in Agent /\ Succeeded(p[2], latest[p[2]])
<1>1. p[1] \in Agent /\ p[2] \in Service /\ latest[p[2]] > 0
  BY DEF Deployable, Typed
<1>2. latest[p[2]] \in Nat
  BY <1>1, BoundsAssumption DEF Counts
<1> QED
  BY <1>1, <1>2 DEF Succeeded

LEMMA DriftOK == ASSUME Counts, Typed PROVE \A t \in Drift : TargetOK(t)
<1> SUFFICES ASSUME NEW t \in Drift PROVE TargetOK(t)
  OBVIOUS
<1>1. PICK p \in Deployable : \E old, step : t = Target(p[1], p[2], env[p[1]], latest[p[2]], old, step)
  BY DEF Drift
<1> QED
  BY <1>1, NewestSucceeded, SucceededTarget

LEMMA MissingOK ==
  ASSUME Counts, Typed, NEW a, NEW e PROVE \A t \in Missing(a, e) : TargetOK(t)
<1> SUFFICES ASSUME NEW t \in Missing(a, e) PROVE TargetOK(t)
  OBVIOUS
<1>1. PICK p \in Deployable : p[1] = a /\ t = Target(a, p[2], e, latest[p[2]], NoPlace, "send")
  BY DEF Missing
<1> QED
  BY <1>1, NewestSucceeded, SucceededTarget

LEMMA FlippedOK ==
  ASSUME Counts, Typed, NEW a, NEW o, NEW n PROVE \A t \in Flipped(a, o, n) : TargetOK(t)
<1> SUFFICES ASSUME NEW t \in Flipped(a, o, n) PROVE TargetOK(t)
  OBVIOUS
<1>1. PICK p \in Deployable : p[1] = a /\ \E old, step : t = Target(a, p[2], n, latest[p[2]], old, step)
  BY DEF Flipped
<1> QED
  BY <1>1, NewestSucceeded, SucceededTarget

LEMMA BoundTargetsOK ==
  ASSUME Typed, NEW s, NEW b, Succeeded(s, b) PROVE \A t \in BoundTargets(s, b) : TargetOK(t)
<1> SUFFICES ASSUME NEW t \in BoundTargets(s, b) PROVE TargetOK(t)
  OBVIOUS
<1>1. PICK p \in bound : t = Target(p[1], s, env[p[1]], b, NoPlace, "send")
  BY DEF BoundTargets
<1>2. p[1] \in Agent
  BY <1>1 DEF Typed
<1> QED
  BY <1>1, <1>2, SucceededTarget

\* A job that begins with such targets leaves the jobs in order.
LEMMA Began ==
  ASSUME Counts, Jobs, Grown, NEW j \in Job, NEW kind, NEW T, NEW at,
         \A t \in T : TargetOK(t)', InHand(at) => TargetOK(at)', Begin(j, kind, T, at)
  PROVE  Jobs'
<1>1. JobOK(IdleJob)'
  BY DEF JobOK, IdleJob, InHand, Nowhere
<1>2. JobOK([kind |-> kind, todo |-> T, at |-> at])'
  BY DEF JobOK
<1>3. \A i \in Job : \A x : x = job[i] => JobOK(x)'
  BY GrownKeeps DEF Jobs
<1>4. PICK x : job' = [job EXCEPT ![j] = x] /\ JobOK(x)'
  BY <1>1, <1>2 DEF Begin
<1> QED
  BY <1>3, <1>4 DEF Jobs

\* So does one that goes on with a target in hand, or with none.
LEMMA Proceeded ==
  ASSUME Counts, Jobs, Grown, NEW j \in Job, NEW t, NEW next,
         InHand(next) => TargetOK(next)', Proceed(j, t, next)
  PROVE  Jobs'
<1>1. JobOK(IdleJob)'
  BY DEF JobOK, IdleJob, InHand, Nowhere
<1>2. \A i \in Job : \A x : x = job[i] => JobOK(x)'
  BY GrownKeeps DEF Jobs
<1>3. PICK x : x = [job[j] EXCEPT !.todo = job[j].todo \ {t}, !.at = next]
  OBVIOUS
<1>4. PICK y : y = job[j]
  OBVIOUS
<1>5. JobOK(y)' /\ x = [y EXCEPT !.todo = y.todo \ {t}, !.at = next]
  BY <1>2, <1>3, <1>4
<1>6. JobOK(x)'
  BY <1>5 DEF JobOK
<1>7. job' = [job EXCEPT ![j] = IdleJob] \/ job' = [job EXCEPT ![j] = x]
  BY <1>3 DEF Proceed, Jobs
<1> QED
  BY <1>1, <1>2, <1>6, <1>7 DEF Jobs

\* The targets whose turn it is are in order, and those left.
LEMMA TurnOK ==
  ASSUME Jobs, NEW j \in Job, NEW t \in Turn(j), InHand(t)
  PROVE  TargetOK(t)
  BY DEF Turn, Jobs, JobOK

-----------------------------------------------------------------------------
(* Commands.                                                               *)

LEMMA Sent ==
  ASSUME Counts, Commands, Grown, NEW p, Send(p), p.agent \in Agent,
         p = [kind |-> p.kind, agent |-> p.agent, service |-> p.service, env |-> p.env,
              build |-> p.build, ns |-> p.ns, at |-> p.at],
         (p.service \in Service
          /\ (p.kind = "redeploy" => Succeeded(p.service, p.build) /\ p.ns = NamespaceOf(p.build, p.env)))'
  PROVE  Commands'
<1>1. PICK d, at, q : command' = [command EXCEPT ![d] = q] /\ q = [p EXCEPT !.at = at]
  BY Zenon DEF Send
<1>2. CommandOK(q)'
  BY <1>1 DEF CommandOK
<1>3. \A c \in Slot : \A m : m = command[c] => CommandOK(m)'
  BY GrownKeeps DEF Commands
<1> QED
  BY <1>1, <1>2, <1>3 DEF Commands

LEMMA Finished ==
  ASSUME Counts, Commands, Grown, NEW c \in Slot, Finish(c)
  PROVE  Commands'
<1>1. CommandOK(NoCommand)'
  BY DEF CommandOK
<1>2. \A d \in Slot : \A m : m = command[d] => CommandOK(m)'
  BY GrownKeeps DEF Commands
<1> QED
  BY <1>1, <1>2 DEF Finish, Commands

LEMMA OtherAt ==
  ASSUME NEW m, NEW at, m # NoCommand, CommandOK(m)
  PROVE  CommandOK([m EXCEPT !.at = at])
  BY DEF CommandOK

LEMMA MovedOn ==
  ASSUME Counts, Commands, Grown, NEW c \in Slot, NEW at, command[c].kind # "none", MoveTo(c, at)
  PROVE  Commands'
<1>1. command[c] # NoCommand
  BY DEF NoCommand
<1>2. PICK q : q = [command[c] EXCEPT !.at = at]
  OBVIOUS
<1>3. CommandOK(q)
  BY <1>1, <1>2, OtherAt DEF Commands
<1>4. \A d \in Slot : \A m : m = command[d] => CommandOK(m)'
  BY GrownKeeps DEF Commands
<1>5. command' = [command EXCEPT ![c] = q]
  BY <1>2 DEF MoveTo, Commands
<1>6. CommandOK(q)'
  BY <1>3, GrownKeeps
<1> QED
  BY <1>4, <1>5, <1>6 DEF Commands

\* Holding and releasing an agent's commands changes where they are only.
LEMMA Shifted ==
  ASSUME Counts, Commands, Grown, NEW S \in SUBSET Slot, NEW at,
         \A c \in S : command[c].kind # "none",
         command' = [c \in Slot |-> IF c \in S THEN [command[c] EXCEPT !.at = at] ELSE command[c]]
  PROVE  Commands'
<1>1. \A c \in S : CommandOK([command[c] EXCEPT !.at = at])
  <2>1. \A c \in S : command[c] # NoCommand
    BY DEF NoCommand
  <2> QED
    BY <2>1, OtherAt DEF Commands
<1>2. \A c \in Slot : \E m : command'[c] = m /\ CommandOK(m)
  BY <1>1 DEF Commands
<1>3. \A c \in Slot : CommandOK(command[c])'
  BY <1>2, GrownKeeps
<1> QED
  BY <1>3 DEF Commands

\* A command that redeploys names a place of its own build.
LEMMA WorkloadPlaced ==
  ASSUME Commands, NEW c \in Slot, command[c].kind = "redeploy"
  PROVE  /\ Placed(Workload(c)) /\ Placed(LbStatusReport(c))
         /\ command[c].agent \in Agent /\ command[c].service \in Service
<1>1. command[c] # NoCommand
  BY DEF NoCommand
<1> QED
  BY <1>1 DEF Commands, CommandOK, Placed, Workload, LbStatusReport, NsOf

-----------------------------------------------------------------------------
(* What runs, and the table.                                               *)

\* Taking containers or rows away leaves the others where they belong.
LEMMA Removed ==
  ASSUME Counts, Places, Once, Grown, containers' \subseteq containers, rows' \subseteq rows
  PROVE  Places' /\ Once'
<1>1. \A x \in containers \cup rows : Placed(x)'
  BY GrownKeeps DEF Places
<1> QED
  BY <1>1 DEF Places, Once

\* A workload takes the place of what ran in its namespace.
LEMMA ReplacedKeeps ==
  ASSUME Counts, Places, Once, Grown, Commands, NEW c \in Slot, command[c].kind = "redeploy",
         containers' = Replaced(c), rows' = rows
  PROVE  Places' /\ Once'
<1>1. \A x \in containers \cup rows : Placed(x)'
  BY GrownKeeps DEF Places
<1>2. PICK w : w = Workload(c)
  OBVIOUS
<1>3. Placed(w)'
  BY <1>2, WorkloadPlaced, GrownKeeps
<1>4. containers' = {w} \cup
        (containers \ {k \in containers : k.agent = w.agent /\ k.service = w.service /\ k.ns = w.ns})
  BY <1>2 DEF Replaced, Containers, Workload
<1>5. Places'
  BY <1>1, <1>3, <1>4 DEF Places
<1>6. Once'
  BY <1>4 DEF Once
<1> QED
  BY <1>5, <1>6

\* A report takes the place of the row of its service and environment.
LEMMA UpsertKeeps ==
  ASSUME Counts, Places, Once, Losses, Grown, Commands, NEW c \in Slot, command[c].kind = "redeploy",
         Upsert(LbStatusReport(c)), containers' = containers
  PROVE  Places' /\ Once' /\ Losses'
<1>1. \A x \in containers \cup rows : Placed(x)'
  BY GrownKeeps DEF Places
<1>2. PICK r : r = LbStatusReport(c)
  OBVIOUS
<1>3. Placed(r)'
  BY <1>2, WorkloadPlaced, GrownKeeps
<1>4. PICK old \in SUBSET rows :
        /\ old = {q \in rows : q.service = r.service /\ q.env = r.env}
        /\ rows' = (rows \ old) \cup {r}
        /\ lost' = lost \cup {<<q.agent, q.service>> : q \in {o \in old : o.agent # r.agent \/ o.ns # r.ns}}
  BY <1>2 DEF Upsert
<1>5. Places'
  BY <1>1, <1>3, <1>4 DEF Places
<1>6. Once'
  BY <1>4 DEF Once
<1>7. \A q \in rows : q.agent \in Agent /\ q.service \in Service
  BY DEF Places, Placed, Succeeded
<1>8. Losses'
  BY <1>4, <1>7 DEF Losses
<1> QED
  BY <1>5, <1>6, <1>8

-----------------------------------------------------------------------------
(* The operations.                                                         *)

\* A step that leaves the commands, what runs and the table alone.
LEMMA Elsewhere ==
  ASSUME Counts, Commands, Places, Once, Grown, UNCHANGED <<command, containers, rows>>
  PROVE  Commands' /\ Places' /\ Once'
<1>1. \A c \in Slot : \A m : m = command[c] => CommandOK(m)'
  BY GrownKeeps DEF Commands
<1>2. Commands'
  BY <1>1 DEF Commands
<1> QED
  BY <1>2, Removed

\* A step that leaves the jobs alone.
LEMMA JobsStay ==
  ASSUME Counts, Jobs, Grown, UNCHANGED job PROVE Jobs'
<1>1. \A j \in Job : \A x : x = job[j] => JobOK(x)'
  BY GrownKeeps DEF Jobs
<1> QED
  BY <1>1 DEF Jobs

\* The scheduler's passes take the targets that have drifted.
LEMMA PassKeeps ==
  ASSUME DInv, NEW j \in Job, TimerPass(j) \/ ManualPass(j) PROVE DInv'
<1>1. UNCHANGED <<bound, env, latest, rows, online, command, containers, lost>>
  BY DEF TimerPass, ManualPass
<1>2. Counts' /\ Typed' /\ Losses' /\ Grown
  BY <1>1, SameKeeps DEF DInv, Counts, Typed, Losses
<1>3. PICK T, kind : T = Drift /\ Begin(j, kind, T, Nowhere)
  BY DEF TimerPass, ManualPass
<1>4. \A t \in T : TargetOK(t)'
  BY <1>1, <1>3, DriftOK, SameKeeps DEF DInv
<1>5. ~InHand(Nowhere)
  BY DEF InHand, Nowhere
<1>6. Jobs'
  BY <1>2, <1>3, <1>4, <1>5, Began DEF DInv
<1> QED
  BY <1>1, <1>2, <1>6, Elsewhere DEF DInv

\* A job that has to ask first has no target yet.
LEMMA AskKeeps ==
  ASSUME DInv, Grown, NEW j \in Job, NEW a, NEW o, NEW n, NEW kind, Begin(j, kind, {}, Ask(a, o, n))
  PROVE  Jobs'
<1>1. ~InHand(Ask(a, o, n))
  BY DEF InHand, Ask
<1> QED
  BY <1>1, Began DEF DInv

LEMMA ReconcileAgentKeeps ==
  ASSUME DInv, NEW j \in Job, NEW a \in Agent, ReconcileAgent(j, a) PROVE DInv'
<1>1. UNCHANGED <<bound, env, latest, rows, online, command, containers, lost>>
  BY DEF ReconcileAgent
<1>2. Counts' /\ Typed' /\ Losses' /\ Grown
  BY <1>1, SameKeeps DEF DInv, Counts, Typed, Losses
<1>3. PICK e : Begin(j, "connect", {}, Ask(a, e, e))
  BY DEF ReconcileAgent
<1>4. Jobs'
  BY <1>2, <1>3, AskKeeps
<1> QED
  BY <1>1, <1>2, <1>4, Elsewhere DEF DInv

LEMMA FlipKeeps ==
  ASSUME DInv, NEW j \in Job, NEW a \in Agent, NEW e \in Env, FlipEnvironment(j, a, e) PROVE DInv'
<1>1. UNCHANGED <<bound, latest, rows, online, command, containers, lost>> /\ env' = [env EXCEPT ![a] = e]
  BY DEF FlipEnvironment
<1>2. Counts' /\ Typed' /\ Losses' /\ Grown
  BY <1>1, SameKeeps DEF DInv, Counts, Typed, Losses
<1>3. PICK o : Begin(j, "flip", {}, Ask(a, o, e))
  BY DEF FlipEnvironment
<1>4. Jobs'
  BY <1>2, <1>3, AskKeeps
<1> QED
  BY <1>1, <1>2, <1>4, Elsewhere DEF DInv

\* A new build is told to every agent bound to its service.
LEMMA BuildKeeps ==
  ASSUME DInv, NEW j \in Job, NEW s \in Service, BuildSucceeds(j, s) PROVE DInv'
<1>1. UNCHANGED <<bound, env, rows, online, command, containers, lost>>
  BY DEF BuildSucceeds
<1>2. latest[s] < MaxBuilds /\ latest' = [latest EXCEPT ![s] = @ + 1]
  BY DEF BuildSucceeds
<1>3. \A r \in Service : latest[r] \in 0 .. MaxBuilds
  BY DEF DInv, Counts
<1>4. Grown
  BY <1>2, <1>3, BoundsAssumption DEF Grown, Counts, DInv
<1>5. Counts' /\ Typed' /\ Losses'
  BY <1>1, <1>4 DEF DInv, Grown, Typed, Losses
<1>6. PICK T : T = BoundTargets(s, latest'[s]) /\ Begin(j, "build", T, Nowhere)
  BY DEF BuildSucceeds
<1>7. PICK b : b = latest'[s]
  OBVIOUS
<1>8. Succeeded(s, b)'
  BY <1>2, <1>3, <1>7, BoundsAssumption DEF Succeeded, DInv, Counts
<1>9. \A t \in T : \E a \in Agent : \E e : t = Target(a, s, e, b, NoPlace, "send")
  BY <1>6, <1>7 DEF BoundTargets, DInv, Typed
<1>10. \A t \in T : TargetOK(t)'
  BY <1>8, <1>9, MadeOf DEF TargetOK, Succeeded
<1>11. ~InHand(Nowhere)
  BY DEF InHand, Nowhere
<1>12. Jobs'
  BY <1>4, <1>6, <1>10, <1>11, Began DEF DInv
<1> QED
  BY <1>1, <1>4, <1>5, <1>12, Elsewhere DEF DInv

\* So is a build that was chosen, to all of them or to one.
LEMMA DeployKeeps ==
  ASSUME DInv, NEW j \in Job, NEW s \in Service, NEW b \in 1 .. MaxBuilds,
         DeployChosen(j, s, b) \/ \E a \in Agent : DeployOnAgent(j, a, s, b)
  PROVE  DInv'
<1>1. UNCHANGED <<bound, env, latest, rows, online, command, containers, lost>> /\ b \in 1 .. latest[s]
  BY DEF DeployChosen, DeployOnAgent
<1>2. Counts' /\ Typed' /\ Losses' /\ Grown
  BY <1>1, SameKeeps DEF DInv, Counts, Typed, Losses
<1>3. PICK T \in SUBSET BoundTargets(s, b) : Begin(j, "deploy", T, Nowhere)
  BY DEF DeployChosen, DeployOnAgent
<1>4. \A t \in T : TargetOK(t)'
  BY <1>1, <1>3, BoundTargetsOK, SameKeeps DEF DInv, Succeeded
<1>5. ~InHand(Nowhere)
  BY DEF InHand, Nowhere
<1>6. Jobs'
  BY <1>2, <1>3, <1>4, <1>5, Began DEF DInv
<1> QED
  BY <1>1, <1>2, <1>6, Elsewhere DEF DInv

\* A pair that is detached is to be torn down only.
LEMMA DetachKeeps ==
  ASSUME DInv, NEW j \in Job, NEW a \in Agent, NEW s \in Service, Detach(j, a, s) PROVE DInv'
<1>1. UNCHANGED <<env, latest, rows, online, command, containers, lost>> /\ bound' \subseteq bound
  BY DEF Detach
<1>2. Counts' /\ Typed' /\ Losses' /\ Grown
  BY <1>1, SameKeeps DEF DInv, Counts, Typed, Losses
<1>3. PICK T : T = {Target(a, s, Unset, 0, NoPlace, "pop")} /\ Begin(j, "detach", T, Nowhere)
  BY DEF Detach
<1>4. \A t \in T : TargetOK(t)'
  BY <1>3, MadeOf DEF TargetOK
<1>5. ~InHand(Nowhere)
  BY DEF InHand, Nowhere
<1>6. Jobs'
  BY <1>2, <1>3, <1>4, <1>5, Began DEF DInv
<1> QED
  BY <1>1, <1>2, <1>6, Elsewhere DEF DInv

\* Bindings change without a job.
LEMMA BindingsKeep ==
  ASSUME DInv, NEW s \in Service,
         (\E a \in Agent : Attach(a, s)) \/ (\E A \in SUBSET Agent : SetBindings(s, A))
  PROVE  DInv'
<1>1. UNCHANGED <<env, latest, rows, job, online, command, containers, lost>>
  BY DEF Attach, SetBindings
<1>2. bound' \subseteq Agent \X Service
  <2>1. CASE \E a \in Agent : Attach(a, s)
    BY <2>1 DEF Attach, DInv, Typed
  <2>2. CASE \E A \in SUBSET Agent : SetBindings(s, A)
    <3>1. PICK A \in SUBSET Agent : bound' = Rebound(s, A)
      BY <2>2 DEF SetBindings
    <3> QED
      BY <3>1 DEF Rebound, DInv, Typed
  <2> QED
    BY <2>1, <2>2
<1>3. Counts' /\ Typed' /\ Losses' /\ Grown
  BY <1>1, <1>2, SameKeeps DEF DInv, Counts, Typed, Losses
<1> QED
  BY <1>1, <1>3, Elsewhere, JobsStay DEF DInv

-----------------------------------------------------------------------------
(* A job goes on.                                                          *)

LEMMA ListKeeps ==
  ASSUME DInv, NEW j \in Job, ListTargets(j) PROVE DInv'
<1>1. UNCHANGED <<bound, env, latest, rows, online, command, containers, lost>>
  BY DEF ListTargets
<1>2. Counts' /\ Typed' /\ Losses' /\ Grown
  BY <1>1, SameKeeps DEF DInv, Counts, Typed, Losses
<1>3. PICK T : /\ \E a, o, n : T = Flipped(a, o, n) \/ T = Missing(a, n)
               /\ job' = [job EXCEPT ![j] = IF T = {} THEN IdleJob
                                            ELSE [@ EXCEPT !.todo = T, !.at = Nowhere]]
  BY DEF ListTargets
<1>4. \A t \in T : TargetOK(t)'
  BY <1>1, <1>3, FlippedOK, MissingOK, SameKeeps DEF DInv
<1>5. PICK y : y = job[j] /\ JobOK(y)
  BY DEF DInv, Jobs
<1>6. PICK z : z = [y EXCEPT !.todo = T, !.at = Nowhere]
  OBVIOUS
<1>7. JobOK(y)'
  BY <1>2, <1>5, GrownKeeps DEF DInv
<1>8. JobOK(z)'
  BY <1>4, <1>6, <1>7 DEF JobOK, InHand, Nowhere
<1>9. JobOK(IdleJob)'
  BY DEF JobOK, IdleJob, InHand, Nowhere
<1>10. PICK x : job' = [job EXCEPT ![j] = x] /\ JobOK(x)'
  BY <1>3, <1>5, <1>6, <1>8, <1>9 DEF DInv, Jobs
<1>11. \A i \in Job : \A u : u = job[i] => JobOK(u)'
  BY <1>2, GrownKeeps DEF DInv, Jobs
<1>12. Jobs'
  BY <1>10, <1>11 DEF DInv, Jobs
<1> QED
  BY <1>1, <1>2, <1>12, Elsewhere DEF DInv

\* A target keeps what it names when its step or its old place changes.
LEMMA NextStep ==
  ASSUME NEW t, TargetOK(t), NEW old, NEW step,
         Succeeded(t.service, t.build) \/ step \in {"pop", "tear"}
  PROVE  /\ TargetOK([t EXCEPT !.old = old, !.step = step])
         /\ TargetOK([t EXCEPT !.step = step])
<1>1. PICK u : u = [t EXCEPT !.old = old, !.step = step]
  OBVIOUS
<1>2. TargetOK(u)
  BY <1>1, MadeOf DEF TargetOK, Target
<1>3. PICK v : v = [t EXCEPT !.step = step]
  OBVIOUS
<1>4. TargetOK(v)
  BY <1>3, MadeOf DEF TargetOK, Target
<1> QED
  BY <1>1, <1>2, <1>3, <1>4

\* Popping the rows of a pair leaves its target to be torn down.
LEMMA PopKeeps ==
  ASSUME DInv, NEW j \in Job, NEW t \in Turn(j), PopRow(j, t) PROVE DInv'
<1>1. UNCHANGED <<bound, env, latest, online, command, containers>> /\ t.step = "pop" /\ rows' \subseteq rows
  BY DEF PopRow
<1>2. TargetOK(t)
  BY <1>1, TurnOK DEF DInv, InHand
<1>3. Losses'
  <2>1. PICK S : lost' = lost \cup {<<t.agent, t.service>> : r \in S}
    BY DEF PopRow
  <2> QED
    BY <1>2, <2>1 DEF DInv, Losses, TargetOK
<1>4. Counts' /\ Typed' /\ Grown
  BY <1>1, SameKeeps DEF DInv, Counts, Typed
<1>5. PICK last, next : next = [t EXCEPT !.old = last, !.step = "tear"] /\ Proceed(j, t, next)
  BY DEF PopRow
<1>6. TargetOK(next)'
  BY <1>1, <1>2, <1>5, NextStep, SameKeeps DEF DInv
<1>7. Jobs'
  BY <1>4, <1>5, <1>6, Proceeded DEF DInv
<1>8. Places' /\ Once'
  BY <1>1, <1>4, Removed DEF DInv
<1>9. \A c \in Slot : \A m : m = command[c] => CommandOK(m)'
  BY <1>4, GrownKeeps DEF DInv, Commands
<1>10. Commands'
  BY <1>1, <1>9 DEF DInv, Commands
<1> QED
  BY <1>3, <1>4, <1>7, <1>8, <1>10 DEF DInv

\* The teardown goes out; what is still to be deployed is left in hand.
LEMMA SendTeardownKeeps ==
  ASSUME DInv, NEW j \in Job, NEW t \in Turn(j), SendTeardown(j, t) PROVE DInv'
<1>1. UNCHANGED <<bound, env, latest, rows, online, containers, lost>> /\ t.step = "tear"
  BY DEF SendTeardown
<1>2. TargetOK(t)
  BY <1>1, TurnOK DEF DInv, InHand
<1>3. Counts' /\ Typed' /\ Losses' /\ Grown
  BY <1>1, SameKeeps DEF DInv, Counts, Typed, Losses
<1>4. PICK next : /\ next = IF t.build = 0 THEN Nowhere ELSE [t EXCEPT !.step = "send"]
                  /\ Proceed(j, t, next)
  BY DEF SendTeardown
<1>5. InHand(next) => TargetOK(next)
  <2>1. CASE t.build = 0
    BY <1>4, <2>1 DEF InHand, Nowhere
  <2>2. CASE t.build # 0
    <3>1. Succeeded(t.service, t.build)
      BY <1>2, <2>2 DEF TargetOK
    <3> QED
      BY <1>2, <1>4, <2>2, <3>1, NextStep
  <2> QED
    BY <2>1, <2>2
<1>6. InHand(next) => TargetOK(next)'
  BY <1>3, <1>5, GrownKeeps DEF DInv
<1>7. Jobs'
  BY <1>3, <1>4, <1>6, Proceeded DEF DInv
<1>8. PICK p, e, ns : p = Payload(t, "teardown", e, 0, ns) /\ Send(p)
  BY DEF SendTeardown
<1>9. /\ p.agent \in Agent /\ p.service \in Service /\ p.kind # "redeploy"
      /\ p = [kind |-> p.kind, agent |-> p.agent, service |-> p.service, env |-> p.env,
              build |-> p.build, ns |-> p.ns, at |-> p.at]
  BY <1>2, <1>8 DEF Payload, TargetOK
<1>10. Commands'
  BY <1>3, <1>8, <1>9, Sent DEF DInv
<1>11. Places' /\ Once'
  BY <1>1, <1>3, Removed DEF DInv
<1> QED
  BY <1>3, <1>7, <1>10, <1>11 DEF DInv

\* The redeploy carries the build of its target.
LEMMA SendRedeployKeeps ==
  ASSUME DInv, NEW j \in Job, NEW t \in Turn(j), SendRedeploy(j, t) PROVE DInv'
<1>1. UNCHANGED <<bound, env, latest, rows, online, containers, lost>> /\ t.step = "send"
  BY DEF SendRedeploy
<1>2. TargetOK(t) /\ Succeeded(t.service, t.build)
  BY <1>1, TurnOK DEF DInv, InHand, TargetOK
<1>3. Counts' /\ Typed' /\ Losses' /\ Grown
  BY <1>1, SameKeeps DEF DInv, Counts, Typed, Losses
<1>4. Proceed(j, t, Nowhere) /\ ~InHand(Nowhere)
  BY DEF SendRedeploy, InHand, Nowhere
<1>5. Jobs'
  BY <1>3, <1>4, Proceeded DEF DInv
<1>6. PICK p : p = Payload(t, "redeploy", t.env, t.build, NamespaceOf(t.build, t.env)) /\ Send(p)
  BY DEF SendRedeploy
<1>7. /\ p.agent \in Agent /\ p.service \in Service
      /\ p.service = t.service /\ p.build = t.build /\ p.ns = NamespaceOf(p.build, p.env)
      /\ p = [kind |-> p.kind, agent |-> p.agent, service |-> p.service, env |-> p.env,
              build |-> p.build, ns |-> p.ns, at |-> p.at]
  BY <1>2, <1>6 DEF Payload, TargetOK
<1>8. Succeeded(p.service, p.build)'
  BY <1>2, <1>3, <1>7, GrownKeeps DEF DInv
<1>9. Commands'
  BY <1>3, <1>6, <1>7, <1>8, Sent DEF DInv
<1>10. Places' /\ Once'
  BY <1>1, <1>3, Removed DEF DInv
<1> QED
  BY <1>3, <1>5, <1>9, <1>10 DEF DInv

-----------------------------------------------------------------------------
(* The agent and its connection.                                           *)

\* Each step of a command takes what runs away, replaces it or reports it.
LEMMA CommandKeeps ==
  ASSUME DInv, NEW c \in Slot, CommandStep(c) \/ PullFails(c) \/ ApplyFails(c)
  PROVE  DInv'
<1>1. UNCHANGED <<bound, env, latest, job, online>>
  BY DEF CommandStep, Clear, Start, Apply, Report, Teardown, PullFails, ApplyFails, countVars
<1>2. Counts' /\ Typed' /\ Grown
  BY <1>1, SameKeeps DEF DInv, Counts, Typed
<1>3. Jobs'
  BY <1>1, <1>2, JobsStay DEF DInv
<1>4. Commands'
  <2>1. command[c].kind # "none" /\ ((\E at : MoveTo(c, at)) \/ Finish(c))
    BY DEF CommandStep, Clear, Start, Apply, Report, Teardown, PullFails, ApplyFails, Redeploys
  <2> QED
    BY <1>2, <2>1, MovedOn, Finished DEF DInv
<1>5. CASE Report(c)
  <2>1. command[c].kind = "redeploy" /\ UNCHANGED containers
    BY <1>5 DEF Report
  <2>2. CASE Upsert(LbStatusReport(c))
    BY <1>2, <1>3, <1>4, <2>1, <2>2, UpsertKeeps DEF DInv
  <2>3. CASE rows' = rows /\ lost' = lost \cup {<<command[c].agent, command[c].service>>}
    <3>1. Losses'
      BY <2>1, <2>3, WorkloadPlaced DEF DInv, Losses
    <3>2. Places' /\ Once'
      BY <1>2, <2>1, <2>3, Removed DEF DInv
    <3> QED
      BY <1>2, <1>3, <1>4, <3>1, <3>2 DEF DInv
  <2> QED
    BY <1>5, <2>2, <2>3 DEF Report
<1>6. CASE ~Report(c)
  <2>1. UNCHANGED <<rows, lost>>
    BY <1>6 DEF CommandStep, Clear, Start, Apply, Teardown, PullFails, ApplyFails
  <2>2. Losses'
    BY <2>1 DEF DInv, Losses
  <2>3. containers' \subseteq containers \/ (command[c].kind = "redeploy" /\ containers' = Replaced(c))
    BY <1>6 DEF CommandStep, Clear, Start, Apply, Teardown, PullFails, ApplyFails, Redeploys
  <2>4. Places' /\ Once'
    BY <1>2, <2>1, <2>3, Removed, ReplacedKeeps DEF DInv
  <2> QED
    BY <1>2, <1>3, <1>4, <2>2, <2>4 DEF DInv
<1> QED
  BY <1>5, <1>6

\* An agent goes away, with its connection or with its process.
LEMMA AwayKeeps ==
  ASSUME DInv, NEW a \in Agent, GoOffline(a) \/ AgentDies(a) PROVE DInv'
<1>1. UNCHANGED <<bound, env, latest, rows, job, containers, lost>> /\ online' = [online EXCEPT ![a] = FALSE]
  BY DEF GoOffline, AgentDies
<1>2. Typed'
  BY <1>1 DEF DInv, Typed
<1>3. Counts' /\ Losses' /\ Grown
  BY <1>1, SameKeeps DEF DInv, Counts, Losses
<1>4. Jobs' /\ Places' /\ Once'
  BY <1>1, <1>3, JobsStay, Removed DEF DInv
<1>5. CASE GoOffline(a)
  <2>1. UNCHANGED command
    BY <1>5 DEF GoOffline
  <2> QED
    BY <1>1, <1>2, <1>3, <1>4, <2>1, Elsewhere DEF DInv
<1>6. CASE AgentDies(a)
  <2>1. PICK S \in SUBSET Slot : S = {c \in Slot : command[c].kind # "none" /\ command[c].agent = a}
    OBVIOUS
  <2>2. command' = [c \in Slot |-> IF c \in S THEN [command[c] EXCEPT !.at = "held"] ELSE command[c]]
    BY <1>6, <2>1 DEF AgentDies
  <2>3. Commands'
    BY <1>3, <2>1, <2>2, Shifted DEF DInv
  <2> QED
    BY <1>2, <1>3, <1>4, <2>3 DEF DInv
<1> QED
  BY <1>5, <1>6

\* It comes back to the commands held for it, and is asked about the rest.
LEMMA OnlineKeeps ==
  ASSUME DInv, NEW j \in Job, NEW a \in Agent, GoOnline(j, a) PROVE DInv'
<1>1. UNCHANGED <<bound, env, latest, rows, containers, lost>> /\ online' = [online EXCEPT ![a] = TRUE]
  BY DEF GoOnline
<1>2. Typed'
  BY <1>1 DEF DInv, Typed
<1>3. Counts' /\ Losses' /\ Grown
  BY <1>1, SameKeeps DEF DInv, Counts, Losses
<1>4. Places' /\ Once'
  BY <1>1, <1>3, Removed DEF DInv
<1>5. Jobs'
  <2>1. (\E e : Begin(j, "connect", {}, Ask(a, e, e))) \/ job' = job
    BY DEF GoOnline
  <2> QED
    BY <1>3, <2>1, AskKeeps, JobsStay DEF DInv
<1>6. PICK S \in SUBSET Slot :
        S = {c \in Slot : command[c].kind # "none" /\ command[c].agent = a /\ command[c].at = "held"}
  OBVIOUS
<1>7. command' = [c \in Slot |-> IF c \in S THEN [command[c] EXCEPT !.at = "sent"] ELSE command[c]]
  BY <1>6 DEF GoOnline
<1>8. Commands'
  BY <1>3, <1>6, <1>7, Shifted DEF DInv
<1> QED
  BY <1>2, <1>3, <1>4, <1>5, <1>8 DEF DInv

\* The API forgets its jobs, and with them rows it has popped.
LEMMA RestartKeeps ==
  ASSUME DInv, RestartApi PROVE DInv'
<1>1. UNCHANGED <<bound, env, latest, rows, online, command, containers>> /\ job' = [j \in Job |-> IdleJob]
  BY DEF RestartApi
<1>2. Counts' /\ Typed' /\ Grown
  BY <1>1, SameKeeps DEF DInv, Counts, Typed
<1>3. Jobs'
  BY <1>1 DEF Jobs, JobOK, IdleJob, InHand, Nowhere
<1>4. \A j \in Job : job[j].at.step = "tear" => TargetOK(job[j].at)
  BY DEF DInv, Jobs, JobOK, InHand
<1>5. lost' \subseteq lost \cup
        {<<job[j].at.agent, job[j].at.service>> : j \in {i \in Job : job[i].at.step = "tear"}}
  BY DEF RestartApi
<1>6. Losses'
  BY <1>4, <1>5 DEF DInv, Losses, TargetOK
<1> QED
  BY <1>1, <1>2, <1>3, <1>6, Elsewhere DEF DInv

-----------------------------------------------------------------------------
\* The invariant holds at the start and through every step.
LEMMA Inductive == Spec => []DInv
<1>1. Init => DInv
  <2> SUFFICES ASSUME Init PROVE DInv
    OBVIOUS
  <2>1. Counts /\ Typed /\ Losses /\ Places /\ Once
    BY BoundsAssumption, EnvAssumption DEF Init, Counts, Typed, Losses, Places, Once
  <2>2. Jobs
    BY DEF Init, Jobs, JobOK, IdleJob, InHand, Nowhere
  <2>3. Commands
    BY DEF Init, Commands, CommandOK
  <2> QED
    BY <2>1, <2>2, <2>3 DEF DInv
<1>2. DInv /\ [Next]_vars => DInv'
  <2> SUFFICES ASSUME DInv, [Next]_vars PROVE DInv'
    OBVIOUS
  <2>1. CASE UNCHANGED vars
    <3>1. Counts' /\ Typed' /\ Losses' /\ Grown
      BY <2>1, SameKeeps DEF vars, DInv, Counts, Typed, Losses
    <3> QED
      BY <2>1, <3>1, Elsewhere, JobsStay DEF vars, DInv
  <2>2. ASSUME NEW j \in Job, TimerPass(j) \/ ManualPass(j) \/ JobStep(j) PROVE DInv'
    BY <2>2, PassKeeps, ListKeeps, PopKeeps, SendTeardownKeeps, SendRedeployKeeps DEF JobStep
  <2>3. ASSUME NEW j \in Job, NEW a \in Agent,
               \/ ReconcileAgent(j, a) \/ GoOnline(j, a)
               \/ \E e \in Env : FlipEnvironment(j, a, e)
               \/ \E s \in Service : Detach(j, a, s)
        PROVE  DInv'
    BY <2>3, ReconcileAgentKeeps, OnlineKeeps, FlipKeeps, DetachKeeps
  <2>4. ASSUME NEW j \in Job, NEW s \in Service,
               \/ BuildSucceeds(j, s)
               \/ \E b \in 1 .. MaxBuilds : \/ DeployChosen(j, s, b)
                                           \/ \E a \in Agent : DeployOnAgent(j, a, s, b)
        PROVE  DInv'
    <3>1. CASE BuildSucceeds(j, s)
      BY <3>1, BuildKeeps
    <3> QED
      BY <2>4, <3>1, DeployKeeps
  <2>5. ASSUME NEW s \in Service,
               (\E a \in Agent : Attach(a, s)) \/ \E A \in SUBSET Agent : SetBindings(s, A)
        PROVE  DInv'
    BY <2>5, BindingsKeep
  <2>6. ASSUME NEW c \in Slot, CommandStep(c) \/ PullFails(c) \/ ApplyFails(c) PROVE DInv'
    BY <2>6, CommandKeeps
  <2>7. ASSUME NEW a \in Agent, GoOffline(a) \/ AgentDies(a) PROVE DInv'
    BY <2>7, AwayKeeps
  <2>8. CASE RestartApi
    BY <2>8, RestartKeeps
  <2> QED
    BY <2>1, <2>2, <2>3, <2>4, <2>5, <2>6, <2>7, <2>8 DEF Next
<1> QED
  BY <1>1, <1>2, PTL DEF Spec

\* The variables keep their types: every row and container is of a bound on
\* builds, every loss of an agent and a service.
THEOREM TypeCorrect == Spec => []TypeOK
<1>1. DInv => TypeOK
  <2> SUFFICES ASSUME DInv PROVE TypeOK
    OBVIOUS
  <2>1. ASSUME NEW r \in rows \cup containers
        PROVE  r.agent \in Agent /\ r.service \in Service /\ r.build \in 1 .. MaxBuilds
    <3>1. r.agent \in Agent /\ r.service \in Service /\ r.build \in 1 .. latest[r.service]
      BY DEF DInv, Places, Placed, Succeeded
    <3>2. latest[r.service] \in 0 .. MaxBuilds
      BY <3>1 DEF DInv, Counts
    <3> QED
      BY <3>1, <3>2, BoundsAssumption
  <2> QED
    BY <2>1 DEF DInv, Counts, Typed, Losses, TypeOK
<1> QED
  BY <1>1, Inductive, PTL

\* Whatever is flipped, chosen, retried, lost or restarted, every container and
\* every row is of a build that succeeded, in the namespace its own pipeline
\* gives it in its own environment; none is there twice.
THEOREM RunsAsBuilt == Spec => []PlacedAsBuilt
<1>1. DInv => PlacedAsBuilt
  BY DEF DInv, Places, Placed, Succeeded, Once, PlacedAsBuilt
<1> QED
  BY <1>1, Inductive, PTL
=============================================================================
