--------------------------- MODULE IngestionProofs ---------------------------
(***************************************************************************)
(* The worker takes one log job at a time, so the lookup of an incident    *)
(* and its record, two awaits, are never interleaved with those of another *)
(* job: for any messages, clocks, cooldown and restarts, one process       *)
(* queues remediations of an error a cooldown apart.  At the end AutoFix,  *)
(* the other way from an error line to a repair: one fix of a service at a *)
(* time.                                                                   *)
(***************************************************************************)
EXTENDS Ingestion, AutoFix, Integers, SequenceTheorems, TLAPS

At0 == Busy \cup {"waiting", "done", "failed", "stalled"}
LogJob == [msg : Message, ts : 0 .. MaxTime, at : At0, stalls : 0 .. 1]
FixJob == [error : Error, ts : 0 .. MaxTime, life : Nat, at : At0, stalls : 0 .. 1]

TypeOK ==
  /\ logs \in Seq(LogJob) /\ fixes \in Seq(FixJob)
  /\ worker \in {"up", "closing", "down"}
  /\ seen \in [Error -> 0 .. Never]
  /\ life \in Nat

\* One job of the ingestion queue is under way, and none without a worker.
OneActive ==
  /\ \A i, j \in DOMAIN logs : logs[i].at \in Busy /\ logs[j].at \in Busy => i = j
  /\ worker = "down" => Resting

\* What the worker remembers is not older than what it has queued.
Remembered ==
  /\ \A r \in DOMAIN fixes : fixes[r].life <= life
  /\ worker # "down" =>
       \A r \in DOMAIN fixes :
         fixes[r].life = life => /\ seen[fixes[r].error] # Never
                                 /\ fixes[r].ts <= seen[fixes[r].error]

\* What the job under way has found out still holds.
Cleared ==
  \A i \in DOMAIN logs :
    LET e == logs[i].msg.error
    IN  /\ logs[i].at = "clear" => ~InCooldown(e, logs[i].ts)
        /\ logs[i].at = "recorded" =>
             /\ seen[e] = logs[i].ts
             /\ \A r \in DOMAIN fixes :
                  fixes[r].life = life /\ fixes[r].error = e => logs[i].ts >= fixes[r].ts + Cooldown

IInv == OneActive /\ Remembered /\ Cleared /\ RemediationsSpaced

-----------------------------------------------------------------------------
\* A step of a job of either queue changes what the job is at, and no more.
LEMMA MoveJob ==
  ASSUME NEW S, NEW q \in Seq(S), NEW i \in DOMAIN q, NEW at,
         [q[i] EXCEPT !.at = at] \in S
  PROVE  /\ Moved(q, i, at) \in Seq(S)
         /\ DOMAIN Moved(q, i, at) = DOMAIN q
         /\ \A j \in DOMAIN q : j # i => Moved(q, i, at)[j] = q[j]
         /\ Moved(q, i, at)[i] = [q[i] EXCEPT !.at = at]
  BY DEF Moved

\* Jobs stay jobs.
LEMMA LogJobs ==
  ASSUME NEW r \in LogJob, NEW at \in At0
  PROVE  [r EXCEPT !.at = at] \in LogJob /\ [r EXCEPT !.at = at, !.stalls = 1] \in LogJob
<1> DEFINE Once == 0 .. 1
<1>1. 1 \in Once
  OBVIOUS
<1> HIDE DEF Once
<1>2. [r EXCEPT !.at = at] \in LogJob
  BY DEF LogJob
<1>3. LogJob = [msg : Message, ts : 0 .. MaxTime, at : At0, stalls : Once]
  BY DEF LogJob, Once
<1> QED
  BY <1>1, <1>2, <1>3

LEMMA FixJobs ==
  ASSUME NEW r \in FixJob, NEW at \in At0
  PROVE  [r EXCEPT !.at = at] \in FixJob /\ [r EXCEPT !.at = at, !.stalls = 1] \in FixJob
<1> DEFINE Once == 0 .. 1
<1>1. 1 \in Once
  OBVIOUS
<1> HIDE DEF Once
<1>2. [r EXCEPT !.at = at] \in FixJob
  BY DEF FixJob
<1>3. FixJob = [error : Error, ts : 0 .. MaxTime, life : Nat, at : At0, stalls : Once]
  BY DEF FixJob, Once
<1> QED
  BY <1>1, <1>2, <1>3

\* And the stalling of all that were under way.
LEMMA StallJobs ==
  ASSUME NEW S, NEW q \in Seq(S),
         \A r \in S : [r EXCEPT !.at = "stalled"] \in S
  PROVE  /\ Stalled(q) \in Seq(S)
         /\ DOMAIN Stalled(q) = DOMAIN q
         /\ \A j \in DOMAIN q :
              Stalled(q)[j] = IF q[j].at \in Busy THEN [q[j] EXCEPT !.at = "stalled"] ELSE q[j]
  BY DEF Stalled

\* What is known of the jobs of both queues.
LEMMA JobTypes ==
  ASSUME TypeOK
  PROVE  /\ \A i \in DOMAIN logs :
              /\ logs[i] \in LogJob
              /\ logs[i].msg.error \in Error /\ logs[i].ts \in 0 .. MaxTime /\ logs[i].ts # Never
         /\ \A r \in DOMAIN fixes :
              /\ fixes[r] \in FixJob
              /\ fixes[r].error \in Error /\ fixes[r].ts \in 0 .. MaxTime
              /\ fixes[r].life \in Nat /\ seen[fixes[r].error] \in 0 .. Never
<1> USE IngestionAssumption
<1>1. ASSUME NEW i \in DOMAIN logs
      PROVE  /\ logs[i] \in LogJob
             /\ logs[i].msg.error \in Error /\ logs[i].ts \in 0 .. MaxTime /\ logs[i].ts # Never
  <2>1. logs[i] \in LogJob
    BY DEF TypeOK
  <2>2. logs[i].msg \in Message /\ logs[i].ts \in 0 .. MaxTime
    BY <2>1 DEF LogJob
  <2>3. logs[i].msg.error \in Error
    BY <2>2 DEF Error
  <2>4. logs[i].ts # Never
    BY <2>2 DEF Never
  <2> QED
    BY <2>1, <2>2, <2>3, <2>4
<1>2. ASSUME NEW r \in DOMAIN fixes
      PROVE  /\ fixes[r] \in FixJob
             /\ fixes[r].error \in Error /\ fixes[r].ts \in 0 .. MaxTime
             /\ fixes[r].life \in Nat /\ seen[fixes[r].error] \in 0 .. Never
  <2>1. fixes[r] \in FixJob
    BY DEF TypeOK
  <2>2. fixes[r].error \in Error /\ fixes[r].ts \in 0 .. MaxTime /\ fixes[r].life \in Nat
    BY <2>1 DEF FixJob
  <2> QED
    BY <2>1, <2>2 DEF TypeOK
<1> QED
  BY <1>1, <1>2

\* What a step of a log job keeps.
LEMMA LogMoves ==
  ASSUME TypeOK, NEW i \in DOMAIN logs, NEW at \in At0
  PROVE  /\ Moved(logs, i, at) \in Seq(LogJob)
         /\ DOMAIN Moved(logs, i, at) = DOMAIN logs
         /\ \A j \in DOMAIN logs : j # i => Moved(logs, i, at)[j] = logs[j]
         /\ Moved(logs, i, at)[i].at = at
         /\ Moved(logs, i, at)[i].msg = logs[i].msg
         /\ Moved(logs, i, at)[i].ts = logs[i].ts
<1>1. logs[i] \in LogJob /\ [logs[i] EXCEPT !.at = at] \in LogJob
  BY JobTypes, LogJobs
<1>2. logs \in Seq(LogJob)
  BY DEF TypeOK
<1> DEFINE new == [logs[i] EXCEPT !.at = at]
<1>3. new.at = at /\ new.msg = logs[i].msg /\ new.ts = logs[i].ts
  BY <1>1 DEF LogJob
<1>4. /\ Moved(logs, i, at) \in Seq(LogJob)
      /\ DOMAIN Moved(logs, i, at) = DOMAIN logs
      /\ \A j \in DOMAIN logs : j # i => Moved(logs, i, at)[j] = logs[j]
      /\ Moved(logs, i, at)[i] = new
  BY <1>1, <1>2, MoveJob
<1> HIDE DEF new
<1> QED
  BY <1>3, <1>4

\* What a step of a remediation keeps of all of them.
Kept(q) ==
  /\ DOMAIN q = DOMAIN fixes
  /\ \A r \in DOMAIN fixes : q[r].error = fixes[r].error /\ q[r].ts = fixes[r].ts /\ q[r].life = fixes[r].life

LEMMA FixMoves ==
  ASSUME TypeOK, NEW r \in DOMAIN fixes, NEW at \in At0
  PROVE  Moved(fixes, r, at) \in Seq(FixJob) /\ Kept(Moved(fixes, r, at))
<1>1. fixes[r] \in FixJob /\ [fixes[r] EXCEPT !.at = at] \in FixJob
  BY JobTypes, FixJobs
<1>2. fixes \in Seq(FixJob)
  BY DEF TypeOK
<1> DEFINE new == [fixes[r] EXCEPT !.at = at]
<1>3. new.error = fixes[r].error /\ new.ts = fixes[r].ts /\ new.life = fixes[r].life
  BY <1>1 DEF FixJob
<1>4. /\ Moved(fixes, r, at) \in Seq(FixJob)
      /\ DOMAIN Moved(fixes, r, at) = DOMAIN fixes
      /\ \A j \in DOMAIN fixes : j # r => Moved(fixes, r, at)[j] = fixes[j]
      /\ Moved(fixes, r, at)[r] = new
  BY <1>1, <1>2, MoveJob
<1> HIDE DEF new
<1> QED
  BY <1>3, <1>4 DEF Kept

\* The recovery of a job keeps what it is about, too.
LEMMA LogRecovers ==
  ASSUME TypeOK, NEW i \in DOMAIN logs
  PROVE  /\ Recovered(logs, i) \in Seq(LogJob)
         /\ DOMAIN Recovered(logs, i) = DOMAIN logs
         /\ \A j \in DOMAIN logs : j # i => Recovered(logs, i)[j] = logs[j]
         /\ Recovered(logs, i)[i].at \in {"waiting", "failed"}
<1> DEFINE w == [logs[i] EXCEPT !.at = "waiting", !.stalls = 1]
           f == [logs[i] EXCEPT !.at = "failed", !.stalls = 1]
<1>1. logs[i] \in LogJob /\ logs \in Seq(LogJob)
  BY JobTypes DEF TypeOK
<1>2. "waiting" \in At0 /\ "failed" \in At0
  BY DEF At0
<1>3. w \in LogJob /\ f \in LogJob
  BY <1>1, <1>2, LogJobs
<1>4. w.at = "waiting" /\ f.at = "failed"
  BY <1>1 DEF LogJob
<1>5. PICK new \in {w, f} : Recovered(logs, i) = [logs EXCEPT ![i] = new]
  BY DEF Recovered
<1> HIDE DEF w, f
<1>6. new \in LogJob /\ i \in 1 .. Len(logs) /\ DOMAIN logs = 1 .. Len(logs)
  BY <1>1, <1>3
<1>7. /\ Recovered(logs, i) \in Seq(LogJob)
      /\ DOMAIN Recovered(logs, i) = DOMAIN logs
      /\ \A j \in DOMAIN logs : Recovered(logs, i)[j] = IF j = i THEN new ELSE logs[j]
  BY <1>1, <1>5, <1>6, ExceptSeq
<1> QED
  BY <1>4, <1>7

LEMMA FixRecovers ==
  ASSUME TypeOK, NEW r \in DOMAIN fixes
  PROVE  Recovered(fixes, r) \in Seq(FixJob) /\ Kept(Recovered(fixes, r))
<1> DEFINE w == [fixes[r] EXCEPT !.at = "waiting", !.stalls = 1]
           f == [fixes[r] EXCEPT !.at = "failed", !.stalls = 1]
<1>1. fixes[r] \in FixJob /\ fixes \in Seq(FixJob)
  BY JobTypes DEF TypeOK
<1>2. "waiting" \in At0 /\ "failed" \in At0
  BY DEF At0
<1>3. w \in FixJob /\ f \in FixJob
  BY <1>1, <1>2, FixJobs
<1>4. \A new \in {w, f} : new.error = fixes[r].error /\ new.ts = fixes[r].ts /\ new.life = fixes[r].life
  BY <1>1 DEF FixJob
<1>5. PICK new \in {w, f} : Recovered(fixes, r) = [fixes EXCEPT ![r] = new]
  BY DEF Recovered
<1> HIDE DEF w, f
<1>6. new \in FixJob /\ r \in 1 .. Len(fixes) /\ DOMAIN fixes = 1 .. Len(fixes)
  BY <1>1, <1>3
<1>7. /\ Recovered(fixes, r) \in Seq(FixJob)
      /\ DOMAIN Recovered(fixes, r) = DOMAIN fixes
      /\ \A j \in DOMAIN fixes : Recovered(fixes, r)[j] = IF j = r THEN new ELSE fixes[j]
  BY <1>1, <1>5, <1>6, ExceptSeq
<1> QED
  BY <1>4, <1>7 DEF Kept

\* A crash leaves no job under way.
LEMMA CrashStalls ==
  ASSUME TypeOK
  PROVE  /\ Stalled(logs) \in Seq(LogJob) /\ DOMAIN Stalled(logs) = DOMAIN logs
         /\ \A i \in DOMAIN logs : Stalled(logs)[i].at \notin Busy
         /\ Stalled(fixes) \in Seq(FixJob) /\ Kept(Stalled(fixes))
<1>0. "stalled" \in At0 /\ "stalled" \notin Busy
  BY DEF At0, Busy
<1>1. \A r \in LogJob : [r EXCEPT !.at = "stalled"] \in LogJob
  BY <1>0, LogJobs
<1>2. \A r \in FixJob : [r EXCEPT !.at = "stalled"] \in FixJob
  BY <1>0, FixJobs
<1>3. logs \in Seq(LogJob) /\ fixes \in Seq(FixJob)
  BY DEF TypeOK
<1>4. \A r \in LogJob : [r EXCEPT !.at = "stalled"].at = "stalled"
  BY DEF LogJob
<1>5. \A r \in FixJob : LET new == [r EXCEPT !.at = "stalled"]
                        IN  new.error = r.error /\ new.ts = r.ts /\ new.life = r.life
  BY DEF FixJob
<1>6. /\ Stalled(logs) \in Seq(LogJob) /\ DOMAIN Stalled(logs) = DOMAIN logs
      /\ \A j \in DOMAIN logs :
           Stalled(logs)[j] = IF logs[j].at \in Busy THEN [logs[j] EXCEPT !.at = "stalled"] ELSE logs[j]
  BY <1>1, <1>3, StallJobs
<1>7. /\ Stalled(fixes) \in Seq(FixJob) /\ DOMAIN Stalled(fixes) = DOMAIN fixes
      /\ \A j \in DOMAIN fixes :
           Stalled(fixes)[j] = IF fixes[j].at \in Busy THEN [fixes[j] EXCEPT !.at = "stalled"] ELSE fixes[j]
  BY <1>2, <1>3, StallJobs
<1>8. \A i \in DOMAIN logs : logs[i] \in LogJob
  BY JobTypes
<1>9. \A r \in DOMAIN fixes : fixes[r] \in FixJob
  BY JobTypes
<1>10. \A i \in DOMAIN logs : Stalled(logs)[i].at \notin Busy
  BY <1>0, <1>4, <1>6, <1>8
<1>11. Kept(Stalled(fixes))
  BY <1>5, <1>7, <1>9 DEF Kept
<1> QED
  BY <1>6, <1>7, <1>10, <1>11

-----------------------------------------------------------------------------
\* Jobs, incidents and the worker keep their types.
THEOREM TypeCorrect == Spec => []TypeOK
<1> USE IngestionAssumption DEF Never
<1>1. Init => TypeOK
  BY DEF Init, TypeOK
<1>2. TypeOK /\ [Next]_vars => TypeOK'
  <2> SUFFICES ASSUME TypeOK, [Next]_vars PROVE TypeOK'
    OBVIOUS
  <2> USE DEF TypeOK
  <2>1. ASSUME NEW m \in Message, NEW t \in 0 .. MaxTime, LogEvent(m, t) PROVE TypeOK'
    <3> DEFINE new == [msg |-> m, ts |-> t, at |-> "waiting", stalls |-> 0]
    <3>1. new \in LogJob
      BY DEF LogJob, At0
    <3> QED
      BY <2>1, <3>1, AppendProperties DEF LogEvent
  <2>2. ASSUME NEW i, TakeLog(i) \/ Look(i) \/ CompleteLog(i) PROVE TypeOK'
    <3>1. PICK at \in At0 : i \in DOMAIN logs /\ logs' = Moved(logs, i, at)
      BY <2>2 DEF TakeLog, Look, CompleteLog, MayTake, IsNext, Waiting, At, At0, Busy
    <3>2. logs' \in Seq(LogJob)
      BY <3>1, LogMoves
    <3> QED
      BY <2>2, <3>2 DEF TakeLog, Look, CompleteLog
  <2>3. ASSUME NEW i, UpsertIncident(i) PROVE TypeOK'
    <3>1. i \in DOMAIN logs /\ logs' = Moved(logs, i, "recorded") /\ "recorded" \in At0
      BY <2>3 DEF UpsertIncident, At, At0, Busy
    <3>2. logs[i].msg.error \in Error /\ logs[i].ts \in 0 .. Never
      BY <3>1, JobTypes
    <3>3. logs' \in Seq(LogJob)
      BY <3>1, LogMoves
    <3> QED
      BY <2>3, <3>2, <3>3 DEF UpsertIncident
  <2>4. ASSUME NEW i, QueueRemediation(i) PROVE TypeOK'
    <3> DEFINE new == [error |-> logs[i].msg.error, ts |-> logs[i].ts, life |-> life,
                       at |-> "waiting", stalls |-> 0]
    <3>1. i \in DOMAIN logs /\ "queued" \in At0 /\ "failed" \in At0 /\ "waiting" \in At0 /\ 0 \in 0 .. 1
      BY <2>4 DEF QueueRemediation, At, At0, Busy
    <3>2. new \in FixJob
      BY <3>1, JobTypes DEF FixJob
    <3>3. logs' \in Seq(LogJob)
      BY <2>4, <3>1, LogMoves DEF QueueRemediation
    <3>4. Append(fixes, new) \in Seq(FixJob)
      BY <3>2, AppendProperties
    <3> QED
      BY <2>4, <3>3, <3>4 DEF QueueRemediation
  <2>5. ASSUME NEW r, TakeFix(r) \/ Launch(r) \/ Close(r) \/ EndRun(r) \/ RunFails(r) PROVE TypeOK'
    <3>1. PICK at \in At0 : r \in DOMAIN fixes /\ fixes' = Moved(fixes, r, at)
      BY <2>5 DEF TakeFix, Launch, Close, EndRun, RunFails, MayTake, IsNext, Waiting, At, At0, Busy
    <3>2. fixes' \in Seq(FixJob)
      BY <3>1, FixMoves
    <3> QED
      BY <2>5, <3>2 DEF TakeFix, Launch, Close, EndRun, RunFails
  <2>6. ASSUME NEW i, RecoverLog(i) PROVE TypeOK'
    BY <2>6, LogRecovers DEF RecoverLog, At
  <2>7. ASSUME NEW r, RecoverFix(r) PROVE TypeOK'
    BY <2>7, FixRecovers DEF RecoverFix, At
  <2>8. CASE Timeout \/ \E p \in {"tool", "sub"} : Exit(p)
    BY <2>8 DEF Timeout, Exit
  <2>9. CASE Shutdown \/ Stop \/ Start
    BY <2>9 DEF Shutdown, Stop, Gone, Start
  <2>10. CASE Crash
    BY <2>10, CrashStalls DEF Crash, Gone
  <2>11. CASE UNCHANGED vars
    BY <2>11 DEF vars
  <2> QED
    BY <2>1, <2>2, <2>3, <2>4, <2>5, <2>6, <2>7, <2>8, <2>9, <2>10, <2>11
    DEF Next, Ingest, Remediate
<1> QED
  BY <1>1, <1>2, PTL DEF Spec

-----------------------------------------------------------------------------
\* Whatever becomes of the remediations, their errors and times stay.
LEMMA FixesFrame ==
  ASSUME TypeOK, IInv, Kept(fixes'), UNCHANGED <<logs, seen, life>>,
         (worker = "down" <=> worker' = "down") \/ (worker' = "down" /\ Resting)
  PROVE  IInv'
<1> USE DEF Kept
<1>1. OneActive' /\ Resting' = Resting
  BY DEF IInv, OneActive, Resting
<1>2. Remembered'
  <2>1. \A r \in DOMAIN fixes' : fixes'[r].life <= life'
    BY DEF IInv, Remembered
  <2>2. ASSUME worker' # "down", NEW r \in DOMAIN fixes', fixes'[r].life = life'
        PROVE  seen'[fixes'[r].error] # Never /\ fixes'[r].ts <= seen'[fixes'[r].error]
    BY <2>2 DEF IInv, Remembered
  <2> QED
    BY <2>1, <2>2 DEF Remembered
<1>3. Cleared'
  BY DEF IInv, Cleared, InCooldown
<1>4. RemediationsSpaced'
  BY DEF IInv, RemediationsSpaced
<1> QED
  BY <1>1, <1>2, <1>3, <1>4 DEF IInv

\* Nor does a log job that has neither found out nor recorded anything matter.
LEMMA LogsFrame ==
  ASSUME TypeOK, IInv, NEW i \in DOMAIN logs, NEW at \in At0, logs' = Moved(logs, i, at),
         UNCHANGED <<fixes, worker, seen, life>>,
         at \in Busy => logs[i].at \in Busy \/ (worker # "down" /\ Resting),
         at = "clear" => ~InCooldown(logs[i].msg.error, logs[i].ts),
         at # "recorded"
  PROVE  IInv'
<1>1. /\ DOMAIN logs' = DOMAIN logs
      /\ \A j \in DOMAIN logs : j # i => logs'[j] = logs[j]
  BY LogMoves
<1>3. logs'[i].at = at /\ logs'[i].msg = logs[i].msg /\ logs'[i].ts = logs[i].ts
  BY LogMoves
<1> HIDE DEF Busy
<1>a. ASSUME NEW j \in DOMAIN logs, NEW k \in DOMAIN logs, logs'[j].at \in Busy, logs'[k].at \in Busy
      PROVE  j = k
  BY <1>a, <1>1, <1>3 DEF IInv, OneActive, Resting
<1>b. ASSUME worker = "down", NEW j \in DOMAIN logs
      PROVE  logs'[j].at \notin Busy
  BY <1>b, <1>1, <1>3 DEF IInv, OneActive, Resting
<1>4. OneActive'
  BY <1>1, <1>a, <1>b DEF OneActive, Resting
<1>5. Remembered' /\ RemediationsSpaced'
  BY DEF IInv, Remembered, RemediationsSpaced
<1>6. Cleared'
  <2> SUFFICES ASSUME NEW j \in DOMAIN logs
               PROVE  LET e == logs'[j].msg.error
                      IN  /\ logs'[j].at = "clear" => ~InCooldown(e, logs'[j].ts)
                          /\ logs'[j].at = "recorded" =>
                               /\ seen[e] = logs'[j].ts
                               /\ \A r \in DOMAIN fixes :
                                    fixes[r].life = life /\ fixes[r].error = e
                                      => logs'[j].ts >= fixes[r].ts + Cooldown
    BY <1>1 DEF Cleared, InCooldown
  <2>1. CASE j = i
    BY <1>3, <2>1
  <2>2. CASE j # i
    BY <1>1, <2>2 DEF IInv, Cleared
  <2> QED
    BY <2>1, <2>2
<1> QED
  BY <1>4, <1>5, <1>6 DEF IInv

\* One process queues the remediations of an error a cooldown apart, though the
\* lookup of the incident and its record are two awaits, and events come in any
\* order of their timestamps.
THEOREM Spaced == Spec => []RemediationsSpaced
<1> USE IngestionAssumption
<1>1. Init => IInv
  BY DEF Init, IInv, OneActive, Resting, Remembered, Cleared, RemediationsSpaced
<1>2. TypeOK /\ IInv /\ [Next]_vars => IInv'
  <2> SUFFICES ASSUME TypeOK, IInv, [Next]_vars PROVE IInv'
    OBVIOUS
  <2>1. ASSUME NEW m \in Message, NEW t \in 0 .. MaxTime, LogEvent(m, t) PROVE IInv'
    <3> DEFINE new == [msg |-> m, ts |-> t, at |-> "waiting", stalls |-> 0]
    <3>1. new \in LogJob
      BY DEF LogJob, At0
    <3>2. /\ DOMAIN logs' = DOMAIN logs \cup {Len(logs) + 1}
          /\ \A j \in DOMAIN logs : logs'[j] = logs[j]
          /\ logs'[Len(logs) + 1].at = "waiting"
      BY <2>1, <3>1, AppendProperties DEF LogEvent, TypeOK
    <3>3. UNCHANGED <<fixes, worker, seen, life>>
      BY <2>1 DEF LogEvent
    <3>4. "waiting" \notin Busy
      BY DEF Busy
    <3> HIDE DEF new
    <3>5. OneActive'
      BY <3>2, <3>3, <3>4 DEF IInv, OneActive, Resting
    <3>6. Cleared'
      BY <3>2, <3>3 DEF IInv, Cleared, InCooldown
    <3> QED
      BY <3>3, <3>5, <3>6 DEF IInv, Remembered, RemediationsSpaced
  <2>2. ASSUME NEW i, TakeLog(i) \/ Look(i) \/ CompleteLog(i) PROVE IInv'
    <3>1. PICK at \in At0 :
            /\ i \in DOMAIN logs /\ logs' = Moved(logs, i, at) /\ at # "recorded"
            /\ at \in Busy => logs[i].at \in Busy \/ (worker # "down" /\ Resting)
            /\ at = "clear" => ~InCooldown(logs[i].msg.error, logs[i].ts)
      BY <2>2 DEF TakeLog, Look, CompleteLog, MayTake, IsNext, Waiting, At, At0, Busy, Resting
    <3>2. UNCHANGED <<fixes, worker, seen, life>>
      BY <2>2 DEF TakeLog, Look, CompleteLog
    <3> QED
      BY <3>1, <3>2, LogsFrame
  <2>3. ASSUME NEW i, UpsertIncident(i) PROVE IInv'
    <3> DEFINE e == logs[i].msg.error
               t == logs[i].ts
    <3>1. /\ i \in DOMAIN logs /\ logs[i].at = "clear"
          /\ logs' = Moved(logs, i, "recorded")
          /\ seen' = [seen EXCEPT ![e] = t]
          /\ UNCHANGED <<fixes, worker, life>>
      BY <2>3 DEF UpsertIncident, At
    <3>2. /\ e \in Error /\ t \in 0 .. MaxTime
          /\ t # Never
      BY <3>1, JobTypes
    <3>3. \A f \in Error : seen'[f] = IF f = e THEN t ELSE seen[f]
      BY <3>1, <3>2 DEF TypeOK
    <3>4. /\ DOMAIN logs' = DOMAIN logs
          /\ \A j \in DOMAIN logs : j # i => logs'[j] = logs[j]
          /\ logs'[i].at = "recorded" /\ logs'[i].msg = logs[i].msg /\ logs'[i].ts = logs[i].ts
      <4>1. "recorded" \in At0
        BY DEF At0, Busy
      <4> QED
        BY <3>1, <4>1, LogMoves
    <3>6. worker # "down" /\ \A j \in DOMAIN logs : logs[j].at \in Busy => j = i
      BY <3>1 DEF IInv, OneActive, Resting, Busy
    <3>7. OneActive'
      BY <3>1, <3>4, <3>6 DEF OneActive
    <3>8. \A r \in DOMAIN fixes : /\ fixes[r].error \in Error /\ fixes[r].ts \in 0 .. MaxTime
                                  /\ seen[fixes[r].error] \in 0 .. Never
      BY JobTypes
    <3>9. ~InCooldown(e, t)
      BY <3>1 DEF IInv, Cleared
    <3>10. \A r \in DOMAIN fixes : fixes[r].life = life /\ fixes[r].error = e => t >= fixes[r].ts + Cooldown
      <4> SUFFICES ASSUME NEW r \in DOMAIN fixes, fixes[r].life = life, fixes[r].error = e
                   PROVE  t >= fixes[r].ts + Cooldown
        OBVIOUS
      <4>1. seen[e] # Never /\ fixes[r].ts <= seen[e]
        BY <3>6 DEF IInv, Remembered
      <4>2. t >= seen[e] + Cooldown
        BY <3>2, <3>8, <3>9, <4>1 DEF InCooldown, Never
      <4> HIDE DEF e, t
      <4> QED
        BY <3>2, <3>8, <4>1, <4>2 DEF Never
    <3> HIDE DEF e, t
    <3>11. Remembered'
      <4>1. ASSUME NEW r \in DOMAIN fixes, fixes[r].life = life
            PROVE  seen'[fixes[r].error] # Never /\ fixes[r].ts <= seen'[fixes[r].error]
        <5>1. CASE fixes[r].error = e
          BY <4>1, <5>1, <3>2, <3>3, <3>8, <3>10
        <5>2. CASE fixes[r].error # e
          BY <4>1, <5>2, <3>3, <3>6, <3>8 DEF IInv, Remembered
        <5> QED
          BY <5>1, <5>2
      <4> QED
        BY <3>1, <4>1 DEF IInv, Remembered, Never
    <3>12. Cleared'
      <4> SUFFICES ASSUME NEW j \in DOMAIN logs
                   PROVE  /\ logs'[j].at # "clear"
                          /\ logs'[j].at = "recorded" =>
                               /\ seen'[logs'[j].msg.error] = logs'[j].ts
                               /\ \A r \in DOMAIN fixes :
                                    fixes[r].life = life /\ fixes[r].error = logs'[j].msg.error
                                      => logs'[j].ts >= fixes[r].ts + Cooldown
        BY <3>1, <3>4 DEF Cleared
      <4>1. CASE j = i
        BY <4>1, <3>2, <3>3, <3>4, <3>10 DEF e, t
      <4>2. CASE j # i
        BY <4>2, <3>4, <3>6 DEF Busy
      <4> QED
        BY <4>1, <4>2
    <3> QED
      BY <3>1, <3>7, <3>11, <3>12 DEF IInv, RemediationsSpaced
  <2>4. ASSUME NEW i, QueueRemediation(i) PROVE IInv'
    <3> DEFINE e == logs[i].msg.error
               t == logs[i].ts
               new == [error |-> e, ts |-> t, life |-> life, at |-> "waiting", stalls |-> 0]
               n == Len(fixes) + 1
    <3>1. i \in DOMAIN logs /\ logs[i].at = "recorded" /\ UNCHANGED <<worker, seen, life>>
      BY <2>4 DEF QueueRemediation, At
    <3>2. e \in Error /\ t \in 0 .. MaxTime
      BY <3>1, JobTypes
    <3>3. new \in FixJob
      BY <3>2 DEF FixJob, At0, TypeOK
    <3>4. /\ seen[e] = t
          /\ \A r \in DOMAIN fixes : fixes[r].life = life /\ fixes[r].error = e => t >= fixes[r].ts + Cooldown
      BY <3>1 DEF IInv, Cleared
    <3>5. PICK at \in {"queued", "failed"} :
            /\ logs' = Moved(logs, i, at)
            /\ fixes' = Append(fixes, new) \/ fixes' = fixes
      BY <2>4 DEF QueueRemediation
    <3>6. /\ DOMAIN logs' = DOMAIN logs
          /\ \A j \in DOMAIN logs : j # i => logs'[j] = logs[j]
          /\ logs'[i].at = at
      <4>1. at \in At0
        BY DEF At0, Busy
      <4> QED
        BY <3>1, <3>5, <4>1, LogMoves
    <3>7. worker # "down" /\ \A j \in DOMAIN logs : logs[j].at \in Busy => j = i
      BY <3>1 DEF IInv, OneActive, Resting, Busy
    <3>8. OneActive'
      BY <3>1, <3>6, <3>7 DEF OneActive
    <3>9. Cleared'
      BY <3>1, <3>6, <3>7 DEF Cleared, Busy
    <3>10. CASE fixes' = fixes
      BY <3>1, <3>8, <3>9, <3>10 DEF IInv, Remembered, RemediationsSpaced
    <3>11. CASE fixes' = Append(fixes, new)
      <4>1. /\ DOMAIN fixes' = DOMAIN fixes \cup {n} /\ n \notin DOMAIN fixes
            /\ \A r \in DOMAIN fixes : r < n /\ fixes'[r] = fixes[r]
            /\ fixes'[n].error = e /\ fixes'[n].ts = t /\ fixes'[n].life = life
        BY <3>3, <3>11, AppendProperties DEF TypeOK
      <4>2. t # Never /\ t <= t /\ life <= life
        BY <3>2 DEF Never, TypeOK
      <4> HIDE DEF e, t, new
      <4>3. \A r, s \in DOMAIN fixes' : r < s => r \in DOMAIN fixes
        BY <4>1 DEF n, TypeOK
      <4> HIDE DEF n
      <4>4. Remembered'
        BY <3>1, <3>4, <3>7, <4>1, <4>2 DEF IInv, Remembered
      <4>5. RemediationsSpaced'
        BY <3>4, <4>1, <4>3 DEF IInv, RemediationsSpaced
      <4> QED
        BY <3>8, <3>9, <4>4, <4>5 DEF IInv
    <3> QED
      BY <3>5, <3>10, <3>11
  <2>5. ASSUME NEW r, TakeFix(r) \/ Launch(r) \/ Close(r) \/ EndRun(r) \/ RunFails(r) PROVE IInv'
    <3>1. PICK at \in At0 : r \in DOMAIN fixes /\ fixes' = Moved(fixes, r, at)
      BY <2>5 DEF TakeFix, Launch, Close, EndRun, RunFails, MayTake, IsNext, Waiting, At, At0, Busy
    <3>2. UNCHANGED <<logs, worker, seen, life>>
      BY <2>5 DEF TakeFix, Launch, Close, EndRun, RunFails
    <3>3. Kept(fixes')
      BY <3>1, FixMoves
    <3> QED
      BY <3>2, <3>3, FixesFrame
  <2>6. ASSUME NEW i, RecoverLog(i) PROVE IInv'
    <3>1. i \in DOMAIN logs
      BY <2>6 DEF RecoverLog, At
    <3>2. /\ DOMAIN logs' = DOMAIN logs
          /\ \A j \in DOMAIN logs : j # i => logs'[j] = logs[j]
          /\ logs'[i].at \in {"waiting", "failed"}
      BY <2>6, <3>1, LogRecovers DEF RecoverLog
    <3>4. UNCHANGED <<fixes, worker, seen, life>>
      BY <2>6 DEF RecoverLog
    <3>5. OneActive'
      BY <3>1, <3>2, <3>4 DEF IInv, OneActive, Resting, Busy
    <3>6. Cleared'
      BY <3>1, <3>2, <3>4 DEF IInv, Cleared, InCooldown
    <3> QED
      BY <3>4, <3>5, <3>6 DEF IInv, Remembered, RemediationsSpaced
  <2>7. ASSUME NEW r, RecoverFix(r) PROVE IInv'
    BY <2>7, FixRecovers, FixesFrame DEF RecoverFix, At
  <2>8. CASE Timeout \/ (\E p \in {"tool", "sub"} : Exit(p)) \/ Shutdown \/ UNCHANGED vars
    BY <2>8, FixesFrame DEF Timeout, Exit, Shutdown, vars, Kept
  <2>9. CASE Stop
    <3>1. UNCHANGED <<logs, fixes, life>> /\ worker' = "down" /\ Resting
      BY <2>9 DEF Stop, Rested, Gone
    <3>2. OneActive' /\ Cleared'
      BY <3>1 DEF OneActive, Resting, Cleared, Busy
    <3> QED
      BY <3>1, <3>2 DEF IInv, Remembered, RemediationsSpaced
  <2>10. CASE Crash
    <3>3. /\ DOMAIN logs' = DOMAIN logs
          /\ \A j \in DOMAIN logs : logs'[j].at \notin Busy
      BY <2>10, CrashStalls DEF Crash
    <3>4. Kept(fixes')
      BY <2>10, CrashStalls DEF Crash
    <3>5. OneActive' /\ Cleared'
      BY <3>3 DEF OneActive, Resting, Cleared, Busy
    <3>6. UNCHANGED life /\ worker' = "down"
      BY <2>10 DEF Crash, Gone
    <3>7. Remembered' /\ RemediationsSpaced'
      BY <3>4, <3>6 DEF IInv, Remembered, RemediationsSpaced, Kept
    <3> QED
      BY <3>5, <3>7 DEF IInv
  <2>11. CASE Start
    <3>1. UNCHANGED <<logs, fixes, seen>> /\ worker = "down" /\ worker' = "up" /\ life' = life + 1
      BY <2>11 DEF Start
    <3>2. \A r \in DOMAIN fixes : fixes[r].life <= life /\ fixes[r].life \in Nat /\ life \in Nat
      BY JobTypes DEF IInv, Remembered, TypeOK
    <3>3. \A r \in DOMAIN fixes : fixes[r].life <= life + 1 /\ fixes[r].life # life + 1
      BY <3>2
    <3>4. \A j \in DOMAIN logs : logs[j].at \notin Busy
      BY <3>1 DEF IInv, OneActive, Resting
    <3>5. OneActive'
      BY <3>1, <3>4 DEF OneActive
    <3>6. Cleared'
      BY <3>1, <3>4 DEF Cleared, Busy
    <3> QED
      BY <3>1, <3>3, <3>5, <3>6 DEF IInv, Remembered, RemediationsSpaced
  <2> QED
    BY <2>1, <2>2, <2>3, <2>4, <2>5, <2>6, <2>7, <2>8, <2>9, <2>10, <2>11
    DEF Next, Ingest, Remediate
<1> QED
  BY <1>1, <1>2, TypeCorrect, PTL DEF Spec, IInv

-----------------------------------------------------------------------------
(***************************************************************************)
(* AutoFix: the per-service lock of automatic fixes works for any number   *)
(* of error groups, labels, services, handlers at work and commands.       *)
(***************************************************************************)

\* The variables keep their types through every step of the handlers, of the
\* commands and through every fault.
THEOREM FixTypeCorrect == FixSpec => []FixTypeOK
<1> USE AutoFixAssumption
<1>1. FixInit => FixTypeOK
  BY DEF FixInit, FixTypeOK
<1>2. FixTypeOK /\ [FixNext]_autoFixVars => FixTypeOK'
  <2> SUFFICES ASSUME FixTypeOK, [FixNext]_autoFixVars
               PROVE  FixTypeOK'
    OBVIOUS
  <2> USE DEF FixTypeOK, Goto, SetStatus, Return, handlerVars, fixVars
  <2>1. ASSUME NEW h \in Handler, NEW g \in Group, ReportError(h, g)
        PROVE  FixTypeOK'
    BY <2>1 DEF ReportError, AfterUpsert
  <2>2. ASSUME NEW h \in Handler, NothingToDo(h) \/ RecordDispatch(h) \/ ReleaseDeclined(h)
        PROVE  FixTypeOK'
    BY <2>2 DEF NothingToDo, RecordDispatch, ReleaseDeclined
  <2>3. ASSUME NEW h \in Handler, TakeLock(h)
        PROVE  FixTypeOK'
    BY <2>3 DEF TakeLock, CanLock
  <2>4. ASSUME NEW h \in Handler, KeyMissing(h)
        PROVE  FixTypeOK'
    BY <2>4 DEF KeyMissing
  <2>5. ASSUME NEW h \in Handler, DispatchFix(h)
        PROVE  FixTypeOK'
    BY <2>5 DEF DispatchFix, Unused
  <2>6. ASSUME NEW c \in Command, Enqueue(c) \/ ReceiveAck(c) \/ ReceiveAckEarly(c)
        PROVE  FixTypeOK'
    BY <2>6 DEF Enqueue, ReceiveAck, ReceiveAckEarly
  <2>7. ASSUME NEW c \in Command, ReleaseLock(c) \/ ReleaseFails(c)
        PROVE  FixTypeOK'
    BY <2>7 DEF ReleaseLock, ReleaseFails, Conclude, Fault
  <2>8. ASSUME NEW c \in Command, CommandRefused(c)
        PROVE  FixTypeOK'
    BY <2>8 DEF CommandRefused, Fault
  <2>9. ASSUME NEW l \in Label, NEW s \in Service \cup {None}, Rename(l, s)
        PROVE  FixTypeOK'
    BY <2>9 DEF Rename, Fault
  <2>10. CASE RestartApi
    BY <2>10 DEF RestartApi, Fault
  <2>11. CASE UNCHANGED autoFixVars
    BY <2>11 DEF autoFixVars
  <2> QED
    BY <2>1, <2>2, <2>3, <2>4, <2>5, <2>6, <2>7, <2>8, <2>9, <2>10, <2>11
       DEF FixNext, HandlerStep, FixStep, Faults
<1>3. QED
  BY <1>1, <1>2, PTL DEF FixSpec

-----------------------------------------------------------------------------
\* A handler between taking the lock and handing its command to the queue, or
\* giving the lock back.
Holds(h) == pc[h] \in {"key", "declined"}

\* A handler that holds a lock finds it taken, ...
HolderIsLocked ==
  \A h \in Handler : Holds(h) => service[h] \in lock \cup disturbed

\* ... alone, ...
OneHolder ==
  \A h, k \in Handler :
    h # k /\ Holds(h) /\ Holds(k) /\ service[h] = service[k] => service[h] \in disturbed

\* ... and with no fix of that service under way.
HolderHasNoFix ==
  \A h \in Handler, c \in Command :
    Holds(h) /\ Running(c) /\ service[h] = fixedService[c] => service[h] \in disturbed

\* What a label names is the service whose lock was taken for it, unless the
\* label moved: then the service it names is a disturbed one, or none.
HolderIsNamed ==
  \A h \in Handler :
    Holds(h) => named[LabelOf(group[h])] \in {service[h], None} \cup disturbed

FixIsNamed ==
  \A c \in Command :
    Running(c) => named[LabelOf(fixedGroup[c])] \in {fixedService[c], None} \cup disturbed

LockInv == /\ HolderIsLocked /\ OneHolder /\ HolderHasNoFix /\ HolderIsNamed
        /\ FixIsNamed /\ FixingIsLocked /\ OneFixPerService

\* The lock has one owner at a time, a handler and then the command it sends,
\* and is given back for the service it was taken for.
LEMMA LockHasOneOwner == FixSpec => []LockInv
<1> USE AutoFixAssumption
<1> USE DEF LockInv, HolderIsLocked, OneHolder, HolderHasNoFix, HolderIsNamed, FixIsNamed,
            FixingIsLocked, OneFixPerService, Holds, Running
<1>1. FixInit => LockInv
  BY DEF FixInit
<1>2. FixTypeOK /\ LockInv /\ [FixNext]_autoFixVars => LockInv'
  <2> SUFFICES ASSUME FixTypeOK, LockInv, [FixNext]_autoFixVars
               PROVE  LockInv'
    OBVIOUS
  <2> USE DEF FixTypeOK, Goto, Return, handlerVars, fixVars
  <2>1. ASSUME NEW h \in Handler, NEW g \in Group, ReportError(h, g)
        PROVE  LockInv'
    <3>1. /\ UNCHANGED <<lock, named, service, command, fixVars, disturbed>>
          /\ \/ UNCHANGED <<pc, group>>
             \/ pc' = [pc EXCEPT ![h] = "lookup"] /\ group' = [group EXCEPT ![h] = g]
          /\ pc[h] = "idle"
      BY ONLY <2>1 DEF ReportError, Goto
    <3>2. \A k \in Handler : Holds(k)' => Holds(k) /\ group'[k] = group[k]
      BY <3>1
    <3>3. HolderIsLocked' /\ OneHolder' /\ HolderHasNoFix'
      BY <3>1, <3>2
    <3>4. HolderIsNamed' /\ FixIsNamed' /\ FixingIsLocked' /\ OneFixPerService'
      BY <3>1, <3>2
    <3> QED
      BY <3>3, <3>4
  <2>2. ASSUME NEW h \in Handler, NothingToDo(h) \/ RecordDispatch(h)
        PROVE  LockInv'
    <3>1. /\ UNCHANGED <<lock, named, fixVars, disturbed>>
          /\ pc' = [pc EXCEPT ![h] = "idle"]
          /\ group' = [group EXCEPT ![h] = None] /\ service' = [service EXCEPT ![h] = None]
      BY ONLY <2>2 DEF NothingToDo, RecordDispatch, Return, Goto
    <3>2. \A k \in Handler :
            Holds(k)' => Holds(k) /\ group'[k] = group[k] /\ service'[k] = service[k]
      BY <3>1
    <3> QED
      BY <3>1, <3>2
  <2>3. ASSUME NEW h \in Handler, TakeLock(h)
        PROVE  LockInv'
    <3>1. PICK s : /\ s \notin lock /\ s # None /\ lock' = lock \cup {s}
                   /\ s = named[LabelOf(group[h])] /\ service' = [service EXCEPT ![h] = s]
      BY ONLY <2>3 DEF TakeLock, CanLock
    <3>2. /\ pc' \in {[pc EXCEPT ![h] = "key"], [pc EXCEPT ![h] = "declined"]}
          /\ pc[h] = "lookup"
          /\ UNCHANGED <<named, group, command, fixVars, disturbed>>
      BY ONLY <2>3 DEF TakeLock, Goto
    <3>3. HolderIsLocked' /\ HolderIsNamed'
      BY <3>1, <3>2
    <3>4. OneHolder' /\ HolderHasNoFix'
      BY <3>1, <3>2
    <3>5. FixIsNamed' /\ FixingIsLocked' /\ OneFixPerService'
      BY <3>1, <3>2
    <3> QED
      BY <3>3, <3>4, <3>5
  <2>4. ASSUME NEW h \in Handler, KeyMissing(h)
        PROVE  LockInv'
    BY <2>4 DEF KeyMissing
  <2>5. ASSUME NEW h \in Handler, DispatchFix(h)
        PROVE  LockInv'
    BY <2>5 DEF DispatchFix, Unused
  <2>6. ASSUME NEW h \in Handler, ReleaseDeclined(h)
        PROVE  LockInv'
    BY <2>6 DEF ReleaseDeclined
  <2>7. ASSUME NEW c \in Command, Enqueue(c) \/ ReceiveAck(c) \/ ReceiveAckEarly(c)
        PROVE  LockInv'
    BY <2>7 DEF Enqueue, ReceiveAck, ReceiveAckEarly
  <2>8. ASSUME NEW c \in Command, ReleaseLock(c)
        PROVE  LockInv'
    BY <2>8 DEF ReleaseLock, Conclude
  <2>9. ASSUME NEW c \in Command, ReleaseFails(c)
        PROVE  LockInv'
    BY <2>9 DEF ReleaseFails, Conclude
  <2>10. ASSUME NEW c \in Command, CommandRefused(c)
         PROVE  LockInv'
    BY <2>10 DEF CommandRefused
  <2>11. ASSUME NEW l \in Label, NEW s \in Service \cup {None}, Rename(l, s)
         PROVE  LockInv'
    BY <2>11 DEF Rename
  <2>12. CASE RestartApi
    BY <2>12 DEF RestartApi
  <2>13. CASE UNCHANGED autoFixVars
    BY <2>13 DEF autoFixVars
  <2> QED
    BY <2>1, <2>2, <2>3, <2>4, <2>5, <2>6, <2>7, <2>8, <2>9, <2>10, <2>11, <2>12, <2>13
       DEF FixNext, HandlerStep, FixStep, Faults
<1>3. QED
  BY <1>1, <1>2, FixTypeCorrect, PTL DEF FixSpec

\* Two fixes of one service are never under way in one process: the lock is
\* taken in the turn it was found free, and held until the ack.
THEOREM OneFix == FixSpec => []OneFixPerService
<1>1. LockInv => OneFixPerService
  BY DEF LockInv
<1> QED
  BY <1>1, LockHasOneOwner, PTL

\* A fix under way holds the lock of its service: no release of another
\* command, of a declined dispatch or of a failed lookup opens it.
THEOREM FixesAreLocked == FixSpec => []FixingIsLocked
<1>1. LockInv => FixingIsLocked
  BY DEF LockInv
<1> QED
  BY <1>1, LockHasOneOwner, PTL

=============================================================================
