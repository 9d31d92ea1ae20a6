--------------------------- MODULE CommandChannel ---------------------------
(***************************************************************************)
(* The command channel between the API process and ONE agent:              *)
(*                                                                         *)
(*   - RealtimeManager (apps/api/src/realtimeManager.ts): the session map  *)
(*     and the Redis list of pending commands; sendCommand, registerAgent, *)
(*     acknowledgeCommand, unregisterAgent and disconnectAgent;            *)
(*   - the /realtime WebSocket handler of apps/api/src/server.ts;          *)
(*   - the agent's transport (apps/agent/internal/transport/client.go):    *)
(*     dial, heartbeat, read loop, dispatch of commands, acknowledgement.  *)
(*                                                                         *)
(* Agents share nothing here (sessions and lists are keyed by agent id),   *)
(* so one agent is the general case.  Each handler is cut at its awaits:   *)
(* an action is what runs between two of them, together with the Redis     *)
(* command whose answer starts it.                                         *)
(***************************************************************************)
EXTENDS Naturals, SequencesExt

CONSTANTS Command,      \* command ids
          Connection,   \* WebSocket connections the agent may dial
          Sender,       \* concurrent HTTP requests that call sendCommand
          Heartbeat,    \* the agent's heartbeat frame
          None,         \* no connection, no command
          MaxPending,   \* maxPendingPerAgent
          MaxSends,     \* bound: calls of sendCommand
          MaxRestarts   \* bound: restarts of the agent process

ASSUME ConstantsAssumption ==
  /\ None \notin Command \cup Connection
  /\ Heartbeat \notin Command
  /\ MaxPending \in Nat \ {0}
  /\ MaxSends \in Nat
  /\ MaxRestarts \in Nat

\* One process serves finitely many requests at a time.
ASSUME SenderAssumption == IsFiniteSet(Sender)

VARIABLES
  \* --- the API process, and Redis ---
  pending,    \* the Redis list sm:pending:agent:<id>:commands
  session,    \* RealtimeManager.sessions.get(agentId), or None
  link,       \* the server's side of each connection
  pc, arg,    \* where each sendCommand stands, and its command
  removing,   \* LREMs issued by acknowledgeCommand and not yet run
  \* --- the network ---
  down,       \* frames (commands) on their way to the agent, per connection
  up,         \* frames to the server: a heartbeat, or a command's ack
  \* --- the agent process ---
  conn,       \* Client.activeConn, or None
  seen,       \* Client.seenCmds
  running,    \* commands whose executeAndAck goroutine is in the handler
  \* --- history, read by no action but for the bounds ---
  accepted,   \* commands ever pushed to the list
  starts,     \* how often the handler was started on each command
  finished,   \* commands a run of which has ended
  sends, restarts

apiVars     == <<session, pc, arg, removing>>
agentVars   == <<conn, seen, running>>
historyVars == <<accepted, starts, finished, sends, restarts>>
vars == <<pending, session, link, pc, arg, removing, down, up,
          conn, seen, running, accepted, starts, finished, sends, restarts>>

LinkState == {"unused",      \* not dialled yet
              "accepting",   \* upgraded; the handler awaits token and settings
              "open",        \* listening, no frame has named the agent yet
              "registering", \* in the session map, the replay is being read
              "registered",  \* replayed
              "closing",     \* socket.close() called by disconnectAgent
              "down"}        \* the close event was handled

\* The server's registeredAgentId is set on connection k.
Identified(k) == link[k] \in {"registering", "registered", "closing"}

\* The server's message listener is attached to connection k.
Listening(k) == link[k] = "open" \/ Identified(k)

\* Bound: connections only fail while another one is left to dial.
CanFail == \E k \in Connection : link[k] = "unused"

\* socket.send(c) on the server's side of k: the frame is lost when that
\* side is closing or the agent has left the connection.
Transmit(k, cs) ==
  IF link[k] \in {"closing", "down"} \/ conn # k
  THEN down
  ELSE [down EXCEPT ![k] = @ \o cs]

Init ==
  /\ pending = <<>>
  /\ session = None
  /\ link = [k \in Connection |-> "unused"]
  /\ pc = [s \in Sender |-> "idle"]
  /\ arg = [s \in Sender |-> None]
  /\ removing = [c \in Command |-> 0]
  /\ down = [k \in Connection |-> <<>>]
  /\ up = [k \in Connection |-> <<>>]
  /\ conn = None
  /\ seen = {}
  /\ running = {}
  /\ accepted = {}
  /\ starts = [c \in Command |-> 0]
  /\ finished = {}
  /\ sends = 0
  /\ restarts = 0

-----------------------------------------------------------------------------
(* The decisions of the handlers, each after the mistake a run must notice. *)

\* sendCommand refuses: the list is full.
AtLimit == Len(pending) >= MaxPending

\* Mistake: the list is deleted, as in the fallback for a client without LREM,
\* and the other entries are not pushed again.
WithoutAll(c) == <<>>

\* Mistake: LPOP, as dequeuePendingAgentCommand does.
WithoutHead(c) == IF pending = <<>> THEN pending ELSE Tail(pending)

\* LREM key 1 c.
WithoutEntry(c) == RemoveFirst(pending, c)

\* Mistake: an ack counts only on the connection that holds the session.
AckAppliesToSession(k, c) == session = k /\ c \in Range(pending)

\* An ack is ignored unless the connection is identified, and does nothing
\* when LRANGE shows no entry to remove.
AckApplies(k, c) == Identified(k) /\ c \in Range(pending)

\* Mistake: the close handler does not unregister the agent.
SessionKept(k) == session

\* The close handler unregisters the agent, by its id: whatever session it has.
SessionAfterClose(k) == IF Identified(k) THEN None ELSE session

\* Mistake: the ids seen are forgotten.
NeverSeen(c) == FALSE

\* handleIncoming's duplicate check.
IsDuplicate(c) == c \in seen

-----------------------------------------------------------------------------
(* sendCommand: LRANGE, then LLEN, then RPUSH, then the session map.       *)
(* The same command id may be sent again: the worker's queue re-runs a job *)
(* whose worker died after posting it.                                     *)

\* sendCommand(c) is called and LRANGE answers: skip the queue if c is in it.
SendCommand(s, c) ==
  /\ pc[s] = "idle"
  /\ sends < MaxSends
  /\ sends' = sends + 1
  /\ arg' = [arg EXCEPT ![s] = c]
  /\ pc' = [pc EXCEPT ![s] = IF c \in Range(pending) THEN "deliver" ELSE "count"]
  /\ UNCHANGED <<pending, session, link, removing, down, up, agentVars,
                 accepted, starts, finished, restarts>>

\* LLEN answers: at the limit the call is refused (429 Backpressure).
CheckBackpressure(s) ==
  /\ pc[s] = "count"
  /\ IF AtLimit
     THEN /\ pc' = [pc EXCEPT ![s] = "idle"]
          /\ arg' = [arg EXCEPT ![s] = None]
     ELSE /\ pc' = [pc EXCEPT ![s] = "push"]
          /\ UNCHANGED arg
  /\ UNCHANGED <<pending, session, link, removing, down, up, agentVars, historyVars>>

\* RPUSH.
PushPending(s) ==
  /\ pc[s] = "push"
  /\ pending' = Append(pending, arg[s])
  /\ accepted' = accepted \cup {arg[s]}
  /\ pc' = [pc EXCEPT ![s] = "deliver"]
  /\ UNCHANGED <<session, link, arg, removing, down, up, agentVars,
                 starts, finished, sends, restarts>>

\* The session map is read, and the frame sent if the agent is in it.
DeliverDirect(s) ==
  /\ pc[s] = "deliver"
  /\ down' = IF session = None THEN down ELSE Transmit(session, <<arg[s]>>)
  /\ pc' = [pc EXCEPT ![s] = "idle"]
  /\ arg' = [arg EXCEPT ![s] = None]
  /\ UNCHANGED <<pending, session, link, removing, up, agentVars, historyVars>>

-----------------------------------------------------------------------------
(* The server's side of a connection.                                      *)

\* The handler has validated the token and read the tenant's settings: it
\* attaches its listeners.
ServerListen(k) ==
  /\ link[k] = "accepting"
  /\ link' = [link EXCEPT ![k] = "open"]
  /\ UNCHANGED <<pending, apiVars, down, up, agentVars, historyVars>>

\* A frame that arrives before the listeners are attached is emitted to nobody.
FrameBeforeListen(k) ==
  /\ link[k] = "accepting"
  /\ up[k] # <<>>
  /\ up' = [up EXCEPT ![k] = Tail(@)]
  /\ UNCHANGED <<pending, apiVars, link, down, agentVars, historyVars>>

\* heartbeat: the first one on a connection registers the agent.
ReceiveHeartbeat(k) ==
  /\ Listening(k)
  /\ up[k] # <<>> /\ Head(up[k]) = Heartbeat
  /\ up' = [up EXCEPT ![k] = Tail(@)]
  /\ IF Identified(k)
     THEN UNCHANGED <<link, session>>
     ELSE /\ link' = [link EXCEPT ![k] = "registering"]
          /\ session' = k
  /\ UNCHANGED <<pending, pc, arg, removing, down, agentVars, historyVars>>

\* command_ack: ignored unless the connection is identified; LRANGE finds the
\* entry to remove.
ReceiveAck(k) ==
  /\ Listening(k)
  /\ up[k] # <<>> /\ Head(up[k]) # Heartbeat
  /\ up' = [up EXCEPT ![k] = Tail(@)]
  /\ LET c == Head(up[k]) IN
       removing' = IF AckApplies(k, c)
                   THEN [removing EXCEPT ![c] = @ + 1]
                   ELSE removing
  /\ UNCHANGED <<pending, session, link, pc, arg, down, agentVars, historyVars>>

\* The LREM that acknowledgeCommand issued runs.
RemovePending(c) ==
  /\ removing[c] > 0
  /\ removing' = [removing EXCEPT ![c] = @ - 1]
  /\ pending' = WithoutEntry(c)
  /\ UNCHANGED <<session, link, pc, arg, down, up, agentVars, historyVars>>

\* registerAgent's LRANGE answers: every pending command is sent, in order.
Replay(k) ==
  /\ link[k] = "registering"
  /\ link' = [link EXCEPT ![k] = "registered"]
  /\ down' = Transmit(k, pending)
  /\ UNCHANGED <<pending, apiVars, up, agentVars, historyVars>>

\* The close event: unregisterAgent drops whatever session the agent has.
\* It comes after the agent left, or (a fault) before the agent notices.
ServerClose(k) ==
  /\ link[k] \notin {"unused", "down"}
  /\ conn # k \/ CanFail
  /\ link' = [link EXCEPT ![k] = "down"]
  /\ session' = SessionAfterClose(k)
  /\ up' = [up EXCEPT ![k] = <<>>]
  /\ UNCHANGED <<pending, pc, arg, removing, down, agentVars, historyVars>>

\* disconnectAgent, from DELETE /api/v1/agents/:id.
DisconnectAgent ==
  /\ session # None
  /\ CanFail
  /\ link' = [link EXCEPT ![session] = "closing"]
  /\ session' = None
  /\ UNCHANGED <<pending, pc, arg, removing, down, up, agentVars, historyVars>>

\* The API process dies and comes back: Redis keeps the list, nothing else
\* survives.
RestartApi ==
  /\ CanFail
  /\ session' = None
  /\ link' = [k \in Connection |-> IF link[k] = "unused" THEN "unused" ELSE "down"]
  /\ pc' = [s \in Sender |-> "idle"]
  /\ arg' = [s \in Sender |-> None]
  /\ removing' = [c \in Command |-> 0]
  /\ up' = [k \in Connection |-> <<>>]
  /\ UNCHANGED <<pending, down, agentVars, historyVars>>

-----------------------------------------------------------------------------
(* The agent.                                                              *)

\* RunContext dials and runSession sends the first heartbeat.
Dial(k) ==
  /\ conn = None
  /\ link[k] = "unused"
  /\ conn' = k
  /\ link' = [link EXCEPT ![k] = "accepting"]
  /\ up' = [up EXCEPT ![k] = <<Heartbeat>>]
  /\ UNCHANGED <<pending, apiVars, down, seen, running, historyVars>>

\* Mistake: the only heartbeat is the one sent on dialling.
NoTicker(k) == FALSE

\* The ticker's heartbeat.  Once the connection is identified it changes
\* nothing here, so only earlier ones are modelled, one in flight at a time.
SendHeartbeat(k) ==
  /\ conn = k
  /\ link[k] \in {"accepting", "open"}
  /\ Heartbeat \notin Range(up[k])
  /\ up' = [up EXCEPT ![k] = Append(@, Heartbeat)]
  /\ UNCHANGED <<pending, apiVars, link, down, agentVars, historyVars>>

\* handleIncoming on a command: ignored when its id was seen before.
ReceiveCommand(k) ==
  /\ conn = k
  /\ down[k] # <<>>
  /\ down' = [down EXCEPT ![k] = Tail(@)]
  /\ LET c == Head(down[k]) IN
       IF IsDuplicate(c)
       THEN UNCHANGED <<seen, running, starts>>
       ELSE /\ seen' = seen \cup {c}
            /\ running' = running \cup {c}
            /\ starts' = [starts EXCEPT ![c] = @ + 1]
  /\ UNCHANGED <<pending, apiVars, link, up, conn,
                 accepted, finished, sends, restarts>>

\* executeAndAck: the handler returns (it ran through, failed, or was cancelled
\* with the session it came on); the ack goes to the connection active now, if
\* any, and is dropped without one.
FinishCommand(c) ==
  /\ c \in running
  /\ running' = running \ {c}
  /\ finished' = finished \cup {c}
  /\ up' = IF conn = None \/ link[conn] = "down"
           THEN up
           ELSE [up EXCEPT ![conn] = Append(@, c)]
  /\ UNCHANGED <<pending, apiVars, link, down, conn, seen,
                 accepted, starts, sends, restarts>>

\* runSession returns: a read or write error, a server that closed, or
\* CloseActiveForReconnect.  readCtx is cancelled, which the commands of this
\* session may end on; their goroutines live on.
CloseSession(k) ==
  /\ conn = k
  /\ link[k] \in {"closing", "down"} \/ CanFail
  /\ conn' = None
  /\ down' = [down EXCEPT ![k] = <<>>]
  /\ UNCHANGED <<pending, apiVars, link, up, seen, running, historyVars>>

\* The agent process restarts: the commands it ran are gone, and so is the
\* memory of the ids it has seen.
RestartAgent ==
  /\ restarts < MaxRestarts
  /\ CanFail
  /\ restarts' = restarts + 1
  /\ conn' = None
  /\ down' = [k \in Connection |-> <<>>]
  /\ seen' = {}
  /\ running' = {}
  /\ UNCHANGED <<pending, apiVars, link, up, accepted, starts, finished, sends>>

-----------------------------------------------------------------------------
SenderStep(s) == CheckBackpressure(s) \/ PushPending(s) \/ DeliverDirect(s)

ServerStep(k) ==
  \/ ServerListen(k)
  \/ FrameBeforeListen(k)
  \/ ReceiveHeartbeat(k)
  \/ ReceiveAck(k)
  \/ Replay(k)
  \/ ServerClose(k)

AgentStep(k) == Dial(k) \/ SendHeartbeat(k) \/ ReceiveCommand(k) \/ CloseSession(k)

Next ==
  \/ \E s \in Sender, c \in Command : SendCommand(s, c)
  \/ \E s \in Sender : SenderStep(s)
  \/ \E k \in Connection : ServerStep(k) \/ AgentStep(k)
  \/ \E c \in Command : RemovePending(c) \/ FinishCommand(c)
  \/ DisconnectAgent
  \/ RestartApi
  \/ RestartAgent

Spec == Init /\ [][Next]_vars

\* Event loops and goroutines keep running, TCP delivers or reports a failure,
\* the agent redials and its ticker ticks, command handlers return.  A close
\* the other side has made is noticed.  Failures and callers owe nothing.
Fairness ==
  /\ \A s \in Sender : WF_vars(SenderStep(s))
  /\ \A c \in Command : WF_vars(RemovePending(c)) /\ WF_vars(FinishCommand(c))
  /\ WF_vars(\E k \in Connection : Dial(k))
  /\ \A k \in Connection :
       /\ WF_vars(ServerListen(k))
       /\ WF_vars(ReceiveHeartbeat(k) \/ ReceiveAck(k))
       /\ WF_vars(Replay(k))
       /\ WF_vars(conn # k /\ ServerClose(k))
       /\ WF_vars(SendHeartbeat(k))
       /\ WF_vars(ReceiveCommand(k))
       /\ WF_vars(link[k] \in {"closing", "down"} /\ CloseSession(k))

FairSpec == Spec /\ Fairness

-----------------------------------------------------------------------------
(* Properties.                                                             *)

Frame == Command \cup {Heartbeat}

\* Types of the variables; a call of sendCommand in progress has a command.
TypeOK ==
  /\ pending \in Seq(Command)
  /\ session \in Connection \cup {None}
  /\ link \in [Connection -> LinkState]
  /\ pc \in [Sender -> {"idle", "count", "push", "deliver"}]
  /\ arg \in [Sender -> Command \cup {None}]
  /\ \A s \in Sender : pc[s] # "idle" => arg[s] \in Command
  /\ removing \in [Command -> Nat]
  /\ down \in [Connection -> Seq(Command)]
  /\ up \in [Connection -> Seq(Frame)]
  /\ conn \in Connection \cup {None}
  /\ seen \subseteq Command
  /\ running \subseteq Command
  /\ accepted \subseteq Command
  /\ starts \in [Command -> Nat]
  /\ finished \subseteq Command
  /\ sends \in Nat
  /\ restarts \in Nat

\* However frames are duplicated by replay, direct sends and reconnections, one
\* agent process starts a command at most once: seenCmds works across sessions.
AtMostOncePerProcess == \A c \in Command : starts[c] <= restarts + 1

\* A command the API has queued stays in the Redis list until the agent has
\* ended a run of it, through lost connections and restarts of either side:
\* only the acknowledgement of that command removes it.
AcceptedNotLost == accepted \subseteq Range(pending) \cup finished

\* sendCommand never writes to a socket whose close event was handled: closing
\* a connection always takes it out of the session map.
SessionUsable == session # None => link[session] \in {"registering", "registered"}

\* The length check and the push are separate Redis commands: the limit can be
\* overshot, but by no more than the other calls in flight.
BackpressureBound == Len(pending) <= MaxPending + Cardinality(Sender) - 1

\* The channel implements at-least-once delivery.
Delivery == INSTANCE CommandDelivery
              WITH outstanding <- Range(pending), executed <- finished
ImplementsDelivery == Delivery!Spec

\* Commands are alike: what becomes of one becomes of any.
Some == CHOOSE c \in Command : TRUE

\* A command that is queued when the agent's last reconnection comes is
\* replayed on it and reaches the handler, whatever happened before: early
\* heartbeats lost, the previous connection's close event still to come.
QueuedIsReplayed ==
  (/\ ~CanFail /\ conn # None /\ link[conn] # "registered"
   /\ Some \in Range(pending)) ~> Some \in seen \cup finished

\* It is in the list once, and no call of sendCommand can push it again: two
\* calls at once for one command may both find it missing, and push it twice.
QueuedOnce(c) ==
  /\ c \in Range(pending) /\ c \notin Range(WithoutEntry(c))
  /\ \A s \in Sender : arg[s] # c

\* A command that runs while its agent's connection is registered and stays so
\* leaves the Redis list: its ack is sent, identified and applied.
ResultSettles ==
  (/\ ~CanFail /\ conn # None /\ link[conn] = "registered"
   /\ Some \in running /\ QueuedOnce(Some)) ~> Some \notin Range(pending)

=============================================================================
