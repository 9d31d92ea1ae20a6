------------------------------ MODULE AutoFix ------------------------------
(***************************************************************************)
(* Automatic fixes: from an app_log_error frame to a run_fix_plan command  *)
(* and its acknowledgement.  The code is the /realtime message handler of  *)
(* apps/api/src/server.ts, dispatchAutoFix (autoFixDispatcher.ts) and      *)
(* ErrorGroupStore (errorGrouping.ts); all of its state is in the memory   *)
(* of the API process.  Frames are handled concurrently, cut at their      *)
(* awaits: the service lookup, the key material, the queue, the lookup     *)
(* that precedes the release of the lock.                                  *)
(*                                                                         *)
(* A frame names its service by a label, mostly the container's name; the  *)
(* store finds the service by id or else by name.                          *)
(***************************************************************************)
EXTENDS Naturals, FiniteSets

CONSTANTS Group,       \* errors that differ after normalisation
          Label,       \* what agents call services
          LabelOf(_),  \* the label the frames of a group carry
          Service,
          Handler,     \* app_log_error frames handled at the same time
          Command,     \* run_fix_plan commands, as many as a behaviour dispatches
          None,        \* no service, group or command
          MaxFaults    \* bound: renames, failures and restarts

ASSUME AutoFixAssumption ==
  /\ \A g \in Group : LabelOf(g) \in Label
  /\ None \notin Group \cup Service \cup Command
  /\ MaxFaults \in Nat

VARIABLES
  status,     \* ErrorGroupStore: the status of each group, "none" before the first error
  lock,       \* fixInFlightByService
  inFlight,   \* the keys of fixCommandToGroup
  named,      \* the service the store finds for each label, or None
  pc,         \* where each handler stands
  group,      \* the group it works for
  service,    \* the service it has found
  command,    \* the command it dispatches
  fix,        \* where each command stands
  fixedGroup, \* the group it is to fix
  \* --- history ---
  fixedService, \* the service whose lock was taken for it
  disturbed,    \* services that changed their label, or lost an ack or a lookup
  faults

autoFixVars == <<status, lock, inFlight, named, pc, group, service, command,
                 fix, fixedGroup, fixedService, disturbed, faults>>
handlerVars == <<pc, group, service, command>>
fixVars     == <<fix, fixedGroup, fixedService>>

FixInit ==
  /\ status = [g \in Group |-> "none"]
  /\ lock = {}
  /\ inFlight = {}
  /\ named \in [Label -> Service]
  /\ pc = [h \in Handler |-> "idle"]
  /\ group = [h \in Handler |-> None]
  /\ service = [h \in Handler |-> None]
  /\ command = [h \in Handler |-> None]
  /\ fix = [c \in Command |-> "unused"]
  /\ fixedGroup = [c \in Command |-> None]
  /\ fixedService = [c \in Command |-> None]
  /\ disturbed = {}
  /\ faults = 0

Goto(h, label) == pc' = [pc EXCEPT ![h] = label]

SetStatus(g, s) == status' = [status EXCEPT ![g] = s]

\* The handler returns.
Return(h) ==
  /\ Goto(h, "idle")
  /\ group' = [group EXCEPT ![h] = None]
  /\ service' = [service EXCEPT ![h] = None]
  /\ command' = [command EXCEPT ![h] = None]

BusyHandlers == {h \in Handler : pc[h] # "idle"}
Unused == {c \in Command : fix[c] = "unused"}

-----------------------------------------------------------------------------
(* app_log_error.                                                          *)

\* upsert's loop guard: a fixed group that comes back is paused, unless its fix
\* is older than the window, or the line older than the fix.
AfterUpsert(g) ==
  CASE status[g] = "none"  -> {"open"}
    [] status[g] = "fixed" -> {"fixed", "paused"}
    [] OTHER               -> {status[g]}

\* ErrorGroupStore.upsert; the handler goes on with a group that is new or
\* open.  It is that snapshot dispatchAutoFix gets, whose own tests for paused
\* and fixing then never succeed.
ReportError(h, g) ==
  /\ pc[h] = "idle"
  /\ Cardinality(Unused) > Cardinality(BusyHandlers)  \* bound: a command for every handler
  /\ \E s \in AfterUpsert(g) :
       /\ SetStatus(g, s)
       /\ IF s = "open"
          THEN Goto(h, "lookup") /\ group' = [group EXCEPT ![h] = g]
          ELSE UNCHANGED <<pc, group>>
  /\ UNCHANGED <<lock, inFlight, named, service, command, fixVars, disturbed, faults>>

\* getService or listServices answers.  Without a service there is nothing to
\* do; with a fix in flight for it, the error is skipped.
NothingToDo(h) ==
  /\ pc[h] = "lookup"
  /\ named[LabelOf(group[h])] \in lock \cup {None}
  /\ Return(h)
  /\ UNCHANGED <<status, lock, inFlight, named, fixVars, disturbed, faults>>

\* Mistake: the lock is not looked at.
FindUnlocked(h) == named[LabelOf(group[h])] # None

\* Mistake: an unknown service is locked like any other.
NotInFlight(h) == named[LabelOf(group[h])] \notin lock

\* The lock can be taken.
CanLock(h) == named[LabelOf(group[h])] \notin lock \cup {None}

\* It is, in the same turn; dispatchAutoFix then declines (no agent bound or
\* online, no repository, no key id) or asks for the key material.
TakeLock(h) ==
  LET s == named[LabelOf(group[h])] IN
  /\ pc[h] = "lookup"
  /\ CanLock(h)
  /\ lock' = lock \cup {s}
  /\ service' = [service EXCEPT ![h] = s]
  /\ \/ Goto(h, "key") /\ UNCHANGED status
     \/ Goto(h, "declined") /\ UNCHANGED status
     \/ Goto(h, "declined") /\ SetStatus(group[h], "missing_auth")
  /\ UNCHANGED <<inFlight, named, group, command, fixVars, disturbed, faults>>

\* getSshKeyMaterial finds nothing.
KeyMissing(h) ==
  /\ pc[h] = "key"
  /\ SetStatus(group[h], "missing_auth")
  /\ Goto(h, "declined")
  /\ UNCHANGED <<lock, inFlight, named, group, service, command, fixVars, disturbed, faults>>

\* It answers: the group is being fixed, and the command handed to the queue.
DispatchFix(h) ==
  /\ pc[h] = "key"
  /\ SetStatus(group[h], "fixing")
  /\ \E c \in Unused :
       /\ fix' = [fix EXCEPT ![c] = "enqueuing"]
       /\ command' = [command EXCEPT ![h] = c]
       /\ fixedGroup' = [fixedGroup EXCEPT ![c] = group[h]]
       /\ fixedService' = [fixedService EXCEPT ![c] = service[h]]
  /\ Goto(h, "enqueue")
  /\ UNCHANGED <<lock, inFlight, named, group, service, disturbed, faults>>

\* The queue has the job.
Enqueue(c) ==
  /\ fix[c] = "enqueuing"
  /\ fix' = [fix EXCEPT ![c] = "sent"]
  /\ UNCHANGED <<status, lock, inFlight, named, handlerVars, fixedGroup, fixedService,
                 disturbed, faults>>

\* Mistake: the lock is released whatever dispatchAutoFix returned.
RecordAndRelease(h) ==
  /\ pc[h] = "enqueue"
  /\ fix[command[h]] # "enqueuing"
  /\ inFlight' = inFlight \cup {command[h]}
  /\ lock' = lock \ {service[h]}
  /\ Return(h)
  /\ UNCHANGED <<status, named, fixVars, disturbed, faults>>

\* And has answered: the command is remembered, for its acknowledgement.
RecordDispatch(h) ==
  /\ pc[h] = "enqueue"
  /\ fix[command[h]] # "enqueuing"
  /\ inFlight' = inFlight \cup {command[h]}
  /\ Return(h)
  /\ UNCHANGED <<status, lock, named, fixVars, disturbed, faults>>

\* dispatchAutoFix has declined.
ReleaseDeclined(h) ==
  /\ pc[h] = "declined"
  /\ lock' = lock \ {service[h]}
  /\ Return(h)
  /\ UNCHANGED <<status, inFlight, named, fixVars, disturbed, faults>>

-----------------------------------------------------------------------------
(* command_ack.                                                            *)

\* The ack of a fix the map knows: it is forgotten, and the service looked up.
ReceiveAck(c) ==
  /\ fix[c] = "sent"
  /\ c \in inFlight
  /\ inFlight' = inFlight \ {c}
  /\ fix' = [fix EXCEPT ![c] = "acked"]
  /\ UNCHANGED <<status, lock, named, handlerVars, fixedGroup, fixedService, disturbed, faults>>

\* An ack that overtakes the queue's answer to the handler: nothing is done.
ReceiveAckEarly(c) ==
  /\ fix[c] = "sent"
  /\ \E h \in Handler : command[h] = c
  /\ fix' = [fix EXCEPT ![c] = "over"]
  /\ disturbed' = disturbed \cup {fixedService[c]}
  /\ UNCHANGED <<status, lock, inFlight, named, handlerVars, fixedGroup, fixedService, faults>>

\* Mistake: a fix that failed leaves the group as it is.
ConcludeCompleted(c) ==
  /\ fix[c] = "acked"
  /\ fix' = [fix EXCEPT ![c] = "over"]
  /\ \E s \in {"fixed", status[fixedGroup[c]]} : SetStatus(fixedGroup[c], s)
  /\ UNCHANGED <<inFlight, named, handlerVars, fixedGroup, fixedService>>

\* The group is fixed when the command completed, and open again when it failed.
Conclude(c) ==
  /\ fix[c] = "acked"
  /\ fix' = [fix EXCEPT ![c] = "over"]
  /\ \E s \in {"fixed", "open"} : SetStatus(fixedGroup[c], s)
  /\ UNCHANGED <<inFlight, named, handlerVars, fixedGroup, fixedService>>

\* Mistake: only a fix that completed releases the lock.
ReleaseOnSuccess(c) ==
  /\ Conclude(c)
  /\ lock' = IF status'[fixedGroup[c]] = "fixed"
             THEN lock \ {named[LabelOf(fixedGroup[c])]} ELSE lock
  /\ UNCHANGED <<disturbed, faults>>

\* The lookup answers: the lock of the service the label names NOW is released.
ReleaseLock(c) ==
  /\ Conclude(c)
  /\ lock' = lock \ {named[LabelOf(fixedGroup[c])]}
  /\ UNCHANGED <<disturbed, faults>>

-----------------------------------------------------------------------------
(* Faults.                                                                 *)

Fault == faults < MaxFaults /\ faults' = faults + 1

\* That lookup fails, which is caught.
ReleaseFails(c) ==
  /\ Fault
  /\ Conclude(c)
  /\ disturbed' = disturbed \cup {fixedService[c]}
  /\ UNCHANGED lock

\* The job is never delivered: the worker got 429 Backpressure, and there is no
\* retry.
CommandRefused(c) ==
  /\ Fault
  /\ fix[c] = "sent"
  /\ fix' = [fix EXCEPT ![c] = "over"]
  /\ disturbed' = disturbed \cup {fixedService[c]}
  /\ UNCHANGED <<status, lock, inFlight, named, handlerVars, fixedGroup, fixedService>>

\* A service is renamed, created or deleted.
Rename(l, s) ==
  /\ Fault
  /\ s # named[l]
  /\ named' = [named EXCEPT ![l] = s]
  /\ disturbed' = disturbed \cup ({named[l], s} \cap Service)
  /\ UNCHANGED <<status, lock, inFlight, handlerVars, fixVars>>

\* The API process restarts; a store or a queue that rejects in the handler of
\* app_log_error is caught by nobody and has the same effect.  Commands already
\* sent are none of the new process's fixes.
RestartApi ==
  /\ Fault
  /\ status' = [g \in Group |-> "none"]
  /\ lock' = {}
  /\ inFlight' = {}
  /\ pc' = [h \in Handler |-> "idle"]
  /\ group' = [h \in Handler |-> None]
  /\ service' = [h \in Handler |-> None]
  /\ command' = [h \in Handler |-> None]
  /\ fix' = [c \in Command |-> IF fix[c] = "unused" THEN "unused" ELSE "over"]
  /\ UNCHANGED <<named, fixedGroup, fixedService, disturbed>>

-----------------------------------------------------------------------------
HandlerStep(h) ==
  \/ NothingToDo(h) \/ TakeLock(h) \/ KeyMissing(h) \/ DispatchFix(h)
  \/ RecordDispatch(h) \/ ReleaseDeclined(h)

FixStep(c) == Enqueue(c) \/ ReceiveAck(c) \/ ReceiveAckEarly(c) \/ ReleaseLock(c)

Faults ==
  \/ \E c \in Command : ReleaseFails(c) \/ CommandRefused(c)
  \/ \E l \in Label, s \in Service \cup {None} : Rename(l, s)
  \/ RestartApi

FixNext ==
  \/ \E h \in Handler : HandlerStep(h) \/ \E g \in Group : ReportError(h, g)
  \/ \E c \in Command : FixStep(c)
  \/ Faults

FixSpec == FixInit /\ [][FixNext]_autoFixVars

\* The event loop runs, stores and queue answer, and the agent acknowledges the
\* fixes it was sent.
FixFairness ==
  /\ \A h \in Handler : WF_autoFixVars(HandlerStep(h))
  /\ \A c \in Command : WF_autoFixVars(FixStep(c))

FairFixSpec == FixSpec /\ FixFairness

-----------------------------------------------------------------------------
(* Properties.                                                             *)

\* Types of the variables; a handler past the lookup has a service.
FixTypeOK ==
  /\ status \in [Group -> {"none", "open", "fixing", "fixed", "paused", "missing_auth"}]
  /\ lock \subseteq Service
  /\ inFlight \subseteq Command
  /\ named \in [Label -> Service \cup {None}]
  /\ pc \in [Handler -> {"idle", "lookup", "key", "declined", "enqueue"}]
  /\ group \in [Handler -> Group \cup {None}]
  /\ service \in [Handler -> Service \cup {None}]
  /\ command \in [Handler -> Command \cup {None}]
  /\ \A h \in Handler :
       /\ pc[h] # "idle" => group[h] \in Group
       /\ pc[h] \in {"key", "declined", "enqueue"} => service[h] \in Service
       /\ pc[h] = "enqueue" <=> command[h] \in Command
  /\ fix \in [Command -> {"unused", "enqueuing", "sent", "acked", "over"}]
  /\ fixedGroup \in [Command -> Group \cup {None}]
  /\ fixedService \in [Command -> Service \cup {None}]
  /\ \A c \in Command :
       fix[c] # "unused" => fixedGroup[c] \in Group /\ fixedService[c] \in Service
  /\ disturbed \subseteq Service
  /\ faults \in Nat

Running(c) == fix[c] \in {"enqueuing", "sent", "acked"}

\* However many error lines of one incident arrive together, one process has
\* one fix per service under way: no two agents push to one branch.  A label
\* that moves to another service, or a lookup that fails, may break it.
OneFixPerService ==
  \A c, d \in Command :
    /\ c # d /\ Running(c) /\ Running(d) /\ fixedService[c] = fixedService[d]
    => fixedService[c] \in disturbed

\* A group that is being fixed has its service locked, from the turn its status
\* is set to the turn the ack sets another one: the gate never opens early.
FixingIsLocked ==
  \A c \in Command :
    Running(c) => fixedService[c] \in lock \cup disturbed

\* The lock of a service is released in the end, also when nothing was sent or
\* the fix failed, unless the service was disturbed.
LockReleased == \A s \in Service : s \in lock ~> s \notin lock \/ s \in disturbed

\* A group does not stay `fixing`: the ack of its fix reaches it.
FixEnds ==
  \A g \in Group :
    status[g] = "fixing" ~>
      status[g] # "fixing" \/ \E c \in Command : fixedGroup[c] = g /\ fixedService[c] \in disturbed

=============================================================================
