----------------------------- MODULE Ingestion -----------------------------
(***************************************************************************)
(* From a log line to a remediation: the API queues every log event of an  *)
(* agent, the worker detects errors, records incidents in the memory of    *)
(* its process, queues a remediation for each and runs an executor.        *)
(*                                                                         *)
(* The queues are BullMQ's (external): a worker has one active job of a    *)
(* queue at a time, a job that fails is not retried, and a job whose       *)
(* worker died is stalled: it waits once more, then it fails.              *)
(***************************************************************************)
EXTENDS Naturals, Sequences

CONSTANTS Message,    \* what is logged: the error its fingerprint stands for,
                      \* volatile tokens left out, and the patterns it contains
          Setup,      \* executor settings, and what of them is installed
          Cooldown,   \* cooldownMs, in units of Time
          MaxTime, MaxEvents, MaxStops  \* bounds

ASSUME IngestionAssumption ==
  /\ {Cooldown, MaxTime, MaxEvents, MaxStops} \subseteq Nat
  /\ \A e \in Setup : {e.simulate, e.isolate, e.image, e.found} \subseteq BOOLEAN

VARIABLES
  logs,   \* jobs of the log-ingestion queue, in the order they were added
  fixes,  \* jobs of the remediation queue, likewise
  worker, \* "up", "closing" or "down"
  seen,   \* the worker's incidents: lastSeenAt of each error, or Never
  child,  \* the process group of the executor that runs
  life    \* how often the worker process was started before

vars == <<logs, fixes, worker, seen, child, life>>

Never == MaxTime + 1
Error == {m.error : m \in Message}
NoChild == [alive |-> {}, deaf |-> FALSE, timedOut |-> FALSE]

Init ==
  /\ logs = <<>> /\ fixes = <<>>
  /\ worker = "up" /\ life = 0
  /\ seen = [e \in Error |-> Never]
  /\ child = NoChild

-----------------------------------------------------------------------------
(* Detectors.                                                              *)

\* BUILT_IN_DETECTORS: the patterns of each in the order it tries them.
BuiltIn ==
  {<<"javaTrace">>, <<"nodeTrace", "nodeError">>, <<"pythonTrace", "pythonError">>,
   <<"fatal", "errorWord">>, <<"phpFatal", "phpWarning">>}

Confidence ==
  [javaTrace |-> 90, nodeTrace |-> 95, nodeError |-> 80, pythonTrace |-> 95, pythonError |-> 75,
   fatal |-> 90, errorWord |-> 60, phpFatal |-> 90, phpWarning |-> 70]

Found(d, m) == SelectSeq(d, LAMBDA p : p \in m.patterns)
runDetectors(m) == {Confidence[Head(Found(d, m))] : d \in {b \in BuiltIn : Found(b, m) # <<>>}}
Threshold == 50
HasMatch(m) == \E c \in runDetectors(m) : c > Threshold

-----------------------------------------------------------------------------
(* Jobs.                                                                   *)

Busy == {"active", "clear", "recorded", "queued", "running", "ended"}
At(q, i, at) == i \in DOMAIN q /\ q[i].at = at
Waiting(q) == {i \in DOMAIN q : q[i].at = "waiting"}

\* A stalled job goes back in front of those that never ran.
IsNext(q, i) == i \in Waiting(q) /\ \A j \in Waiting(q) : i <= j

\* Mistake: the worker takes several jobs at once.
TakeAny(q, i) == worker = "up" /\ IsNext(q, i)

\* createNamedWorker leaves the concurrency at 1.
MayTake(q, i) == worker = "up" /\ IsNext(q, i) /\ \A j \in DOMAIN q : q[j].at \notin Busy

Moved(q, i, at) == [q EXCEPT ![i].at = at]

-----------------------------------------------------------------------------
(* Log ingestion.                                                          *)

\* A log_event on the socket of an agent: clocks of agents differ.
LogEvent(m, t) ==
  /\ Len(logs) < MaxEvents
  /\ logs' = Append(logs, [msg |-> m, ts |-> t, at |-> "waiting", stalls |-> 0])
  /\ UNCHANGED <<fixes, worker, seen, child, life>>

TakeLog(i) ==
  /\ MayTake(logs, i)
  /\ logs' = Moved(logs, i, "active")
  /\ UNCHANGED <<fixes, worker, seen, child, life>>

InCooldown(e, t) == seen[e] # Never /\ t < seen[e] + Cooldown

\* Detectors and findOpenByFingerprint.
Look(i) ==
  /\ At(logs, i, "active")
  /\ logs' = Moved(logs, i,
       IF HasMatch(logs[i].msg) /\ ~InCooldown(logs[i].msg.error, logs[i].ts) THEN "clear" ELSE "done")
  /\ UNCHANGED <<fixes, worker, seen, child, life>>

UpsertIncident(i) ==
  /\ At(logs, i, "clear")
  /\ logs' = Moved(logs, i, "recorded")
  /\ seen' = [seen EXCEPT ![logs[i].msg.error] = logs[i].ts]
  /\ UNCHANGED <<fixes, worker, child, life>>

\* remediationQueue.add, which Redis may refuse.
QueueRemediation(i) ==
  /\ At(logs, i, "recorded")
  /\ \/ /\ logs' = Moved(logs, i, "queued")
        /\ fixes' = Append(fixes, [error |-> logs[i].msg.error, ts |-> logs[i].ts, life |-> life,
                                   at |-> "waiting", stalls |-> 0])
     \/ logs' = Moved(logs, i, "failed") /\ fixes' = fixes
  /\ UNCHANGED <<worker, seen, child, life>>

\* The processor has returned: the job is moved to the completed ones.
CompleteLog(i) ==
  /\ At(logs, i, "queued")
  /\ logs' = Moved(logs, i, "done")
  /\ UNCHANGED <<fixes, worker, seen, child, life>>

-----------------------------------------------------------------------------
(* Remediation: runRemediation and the executor.                           *)

TakeFix(r) ==
  /\ MayTake(fixes, r)
  /\ fixes' = Moved(fixes, r, "active")
  /\ UNCHANGED <<logs, worker, seen, child, life>>

\* A child is started unless the run is simulated, is to be isolated without
\* an image, or the binary (docker's, when isolated) is not there.
Spawns(e) == ~e.simulate /\ (e.isolate => e.image) /\ e.found

\* A tool has a process of its own, either may end first, and they may ignore
\* SIGTERM.
Launch(r) ==
  /\ At(fixes, r, "active")
  /\ \E e \in Setup :
       IF Spawns(e)
       THEN /\ fixes' = Moved(fixes, r, "running")
            /\ \E deaf \in BOOLEAN :
                 child' = [alive |-> {"tool", "sub"}, deaf |-> deaf, timedOut |-> FALSE]
       ELSE fixes' = Moved(fixes, r, "ended") /\ child' = child
  /\ UNCHANGED <<logs, worker, seen, life>>

\* No workspace, or no room for the log.
RunFails(r) ==
  /\ At(fixes, r, "active") \/ At(fixes, r, "ended")
  /\ fixes' = Moved(fixes, r, "failed")
  /\ UNCHANGED <<logs, worker, seen, child, life>>

Exit(p) ==
  /\ p \in child.alive
  /\ child' = [child EXCEPT !.alive = @ \ {p}]
  /\ UNCHANGED <<logs, fixes, worker, seen, life>>

\* Mistake: the signal goes to the tool alone.
KillTool ==
  /\ child.alive # {} /\ ~child.timedOut
  /\ child' = [child EXCEPT !.alive = IF child.deaf THEN @ ELSE @ \ {"tool"}, !.timedOut = TRUE]
  /\ UNCHANGED <<logs, fixes, worker, seen, life>>

\* SIGTERM to the process group, once.
Timeout ==
  /\ child.alive # {} /\ ~child.timedOut
  /\ child' = [child EXCEPT !.alive = IF child.deaf THEN @ ELSE {}, !.timedOut = TRUE]
  /\ UNCHANGED <<logs, fixes, worker, seen, life>>

\* 'close': nobody holds the pipes.
Close(r) ==
  /\ At(fixes, r, "running") /\ child.alive = {}
  /\ fixes' = Moved(fixes, r, "ended")
  /\ child' = NoChild
  /\ UNCHANGED <<logs, worker, seen, life>>

\* The log is written and the audit tried.
EndRun(r) ==
  /\ At(fixes, r, "ended")
  /\ fixes' = Moved(fixes, r, "done")
  /\ UNCHANGED <<logs, worker, seen, child, life>>

-----------------------------------------------------------------------------
(* The worker process.                                                     *)

Stalled(q) == [i \in DOMAIN q |-> IF q[i].at \in Busy THEN [q[i] EXCEPT !.at = "stalled"] ELSE q[i]]
Resting == \A i \in DOMAIN logs : logs[i].at \notin Busy
Rested == Resting /\ \A r \in DOMAIN fixes : fixes[r].at \notin Busy

\* SIGTERM: the workers close, active jobs are waited for.
Shutdown ==
  /\ worker = "up" /\ life < MaxStops
  /\ worker' = "closing"
  /\ UNCHANGED <<logs, fixes, seen, child, life>>

Gone ==
  /\ worker' = "down"
  /\ seen' = [e \in Error |-> Never]

Stop == worker = "closing" /\ Rested /\ Gone /\ UNCHANGED <<logs, fixes, child, life>>

Crash ==
  /\ worker # "down" /\ life < MaxStops
  /\ Gone
  /\ logs' = Stalled(logs) /\ fixes' = Stalled(fixes)
  /\ child' = NoChild
  /\ UNCHANGED life

Start ==
  /\ worker = "down"
  /\ worker' = "up" /\ life' = life + 1
  /\ UNCHANGED <<logs, fixes, seen, child>>

\* BullMQ's check for stalled jobs, maxStalledCount 1.
Recovered(q, i) ==
  [q EXCEPT ![i] = [@ EXCEPT !.at = IF q[i].stalls = 0 THEN "waiting" ELSE "failed", !.stalls = 1]]

RecoverLog(i) ==
  /\ worker = "up" /\ At(logs, i, "stalled")
  /\ logs' = Recovered(logs, i)
  /\ UNCHANGED <<fixes, worker, seen, child, life>>

RecoverFix(r) ==
  /\ worker = "up" /\ At(fixes, r, "stalled")
  /\ fixes' = Recovered(fixes, r)
  /\ UNCHANGED <<logs, worker, seen, child, life>>

-----------------------------------------------------------------------------
Ingest(i) == TakeLog(i) \/ Look(i) \/ UpsertIncident(i) \/ QueueRemediation(i) \/ CompleteLog(i)
             \/ RecoverLog(i)
Remediate(r) == TakeFix(r) \/ Launch(r) \/ Close(r) \/ EndRun(r) \/ RunFails(r) \/ RecoverFix(r)
Job == 1..MaxEvents
Run == 1..(MaxEvents + MaxStops)  \* a job that stalled may queue a second one

Next ==
  \/ \E m \in Message, t \in 0..MaxTime : LogEvent(m, t)
  \/ \E i \in Job : Ingest(i)
  \/ \E r \in Run : Remediate(r)
  \/ \E p \in {"tool", "sub"} : Exit(p)
  \/ Timeout
  \/ Shutdown \/ Stop \/ Crash \/ Start

\* The worker works and is started again; the timer fires; a tool need not end.
Spec == Init /\ [][Next]_vars
FairSpec ==
  /\ Spec
  /\ WF_vars(\E i \in Job : Ingest(i)) /\ WF_vars(\E r \in Run : Remediate(r))
  /\ WF_vars(Timeout) /\ WF_vars(Stop) /\ WF_vars(Start)

-----------------------------------------------------------------------------
(* Properties.                                                             *)

\* One worker process queues the remediations of an error at least a
\* cooldown apart, though the lookup and the record are two awaits and the
\* events come in any order of their timestamps.
RemediationsSpaced ==
  \A r, s \in DOMAIN fixes :
    (r < s /\ fixes[r].error = fixes[s].error /\ fixes[r].life = fixes[s].life) =>
      fixes[s].ts >= fixes[r].ts + Cooldown

\* An incident that was recorded is remediated, or another of that error for
\* which it would be suppressed: the run comes to an end, crashes of the worker
\* notwithstanding, unless Redis refused the job, a job stalled twice, or a
\* tool ignores the signal.
Covers(i, job) == i \in DOMAIN logs /\ logs[i].ts < job.ts + Cooldown

Remediated(i) ==
  \/ \E r \in DOMAIN fixes : /\ fixes[r].at \in {"done", "failed"}
                             /\ Covers(i, fixes[r]) /\ fixes[r].error = logs[i].msg.error
  \/ \E j \in DOMAIN logs : /\ logs[j].at = "failed"
                            /\ Covers(i, logs[j]) /\ logs[j].msg.error = logs[i].msg.error
  \/ child.deaf

IncidentsRemediated == \A i \in Job : At(logs, i, "recorded") ~> Remediated(i)

=============================================================================
