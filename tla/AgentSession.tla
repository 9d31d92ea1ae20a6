---------------------------- MODULE AgentSession ----------------------------
(***************************************************************************)
(* The goroutines of one agent's transport (apps/agent/internal/transport/ *)
(* client.go): RunContext's dial loop with runSession inside it, the read  *)
(* loop runSession starts and waits for, and the executeAndAck goroutines  *)
(* the read loop starts.  They meet in errCh, a channel with room for one  *)
(* error, and in readCtx.  CommandChannel treats the end of a session as   *)
(* one step; this module looks inside it.                                  *)
(*                                                                         *)
(* Each executeAndAck goroutine posts to the errCh of the session that     *)
(* started it; once that session is over nobody reads it, so only the      *)
(* goroutines of the present session are kept.                             *)
(***************************************************************************)
EXTENDS Naturals

CONSTANT MaxCommands  \* bound: commands of one session sent and not yet executed

ASSUME MaxCommandsAssumption == MaxCommands \in Nat

VARIABLES
  main,       \* where RunContext stands
  result,     \* the error runSession is returning
  reader,     \* where the read loop of the present session stands
  errCh,      \* what the session's error channel holds: Empty, or an error
  executing,  \* executeAndAck goroutines of the session
  server,     \* the connection, as the /realtime handler left it
  commands    \* command frames on their way to the agent

sessionVars == <<main, result, reader, errCh, executing, server, commands>>
connection == <<server, commands>>

Empty == "empty"
Error == {"closed", "permanent", "write", "ack"}

\* A session writes a heartbeat, host stats and app stats when it starts, and
\* again at every tick.
Writing == {"heartbeat", "hostStats", "appStats"}

NextWrite == [heartbeat |-> "hostStats", hostStats |-> "appStats", appStats |-> "select"]

ServerState == {"none",       \* not dialled
                "deciding",   \* the handler awaits the validation of the token
                "accepted",
                "rejecting",  \* an apiError was sent and the socket closed
                "rejected",   \* and the agent has read it
                "gone"}       \* closed by either side, or by the network

\* No frame follows those on their way.
Ended == server \notin {"deciding", "accepted"}

\* readCtx is cancelled.
Cancelled == main \in {"wait", "sleep", "dial", "exited"}

SessionInit ==
  /\ main = "dial"
  /\ result = Empty
  /\ reader = "done"
  /\ errCh = Empty
  /\ executing = 0
  /\ server = "none"
  /\ commands = 0

-----------------------------------------------------------------------------
(* RunContext and runSession.                                              *)

DialFails ==
  /\ main = "dial"
  /\ main' = "sleep"
  /\ UNCHANGED <<result, reader, errCh, executing, connection>>

\* The dial succeeds, and runSession starts the read loop.
StartSession ==
  /\ main = "dial"
  /\ main' = "heartbeat"
  /\ result' = Empty
  /\ reader' = "check"
  /\ errCh' = Empty
  /\ executing' = 0
  /\ server' = "deciding"
  /\ commands' = 0

\* One of the three writes succeeds; on a dead connection it still may, into a
\* buffer.
Write ==
  /\ main \in Writing
  /\ main' = NextWrite[main]
  /\ UNCHANGED <<result, reader, errCh, executing, connection>>

WriteFails ==
  /\ main \in Writing
  /\ Ended
  /\ main' = "cleanup"
  /\ result' = "write"
  /\ UNCHANGED <<reader, errCh, executing, connection>>

\* The select loop: the ticker fires, or an error is received.
Tick ==
  /\ main = "select"
  /\ main' = "heartbeat"
  /\ UNCHANGED <<result, reader, errCh, executing, connection>>

ReceiveError ==
  /\ main = "select"
  /\ errCh # Empty
  /\ result' = errCh
  /\ errCh' = Empty
  /\ main' = "cleanup"
  /\ UNCHANGED <<reader, executing, connection>>

\* runSession's deferred function up to wg.Wait: cancelRead, activeConn = nil,
\* conn.Close.
Cleanup ==
  /\ main = "cleanup"
  /\ main' = "wait"
  /\ server' = IF Ended THEN server ELSE "gone"
  /\ UNCHANGED <<result, reader, errCh, executing, commands>>

\* Mistake: any error ends the process.
GivesUpOnAnyError == TRUE

\* errors.Is(err, ErrPermanentRejection)
GivesUp == result = "permanent"

\* Mistake: the read loop is not waited for.
LeaveUnwaited ==
  /\ main = "wait"
  /\ main' = IF GivesUp THEN "exited" ELSE "sleep"
  /\ UNCHANGED <<result, reader, errCh, executing, connection>>

\* wg.Wait returns; RunContext gives up, or sleeps before it dials again.
Leave ==
  /\ main = "wait"
  /\ reader = "done"
  /\ main' = IF GivesUp THEN "exited" ELSE "sleep"
  /\ UNCHANGED <<result, reader, errCh, executing, connection>>

\* sleepBackoff returns.
WakeUp ==
  /\ main = "sleep"
  /\ main' = "dial"
  /\ UNCHANGED <<result, reader, errCh, executing, connection>>

-----------------------------------------------------------------------------
(* readLoop, handleIncoming and executeAndAck.                             *)

\* A select with a default: the error is lost when the channel is full.
PostOrDrop(e) == errCh' = IF errCh = Empty THEN e ELSE errCh

\* The top of the loop.
CheckContext ==
  /\ reader = "check"
  /\ reader' = IF Cancelled THEN "done" ELSE "read"
  /\ UNCHANGED <<main, result, errCh, executing, connection>>

\* ReadMessage returns a command, and executeAndAck is started on it.
ReadCommand ==
  /\ reader = "read"
  /\ commands > 0
  /\ commands' = commands - 1
  /\ executing' = executing + 1
  /\ reader' = "check"
  /\ UNCHANGED <<main, result, errCh, server>>

\* ReadMessage returns the server's rejection of the token.
ReadRejection ==
  /\ reader = "read"
  /\ server = "rejecting"
  /\ server' = "rejected"
  /\ PostOrDrop("permanent")
  /\ reader' = "check"
  /\ UNCHANGED <<main, result, executing, commands>>

\* ReadMessage returns an error: nothing more comes, or the agent has closed
\* the connection over frames it had not read.
ReadFails ==
  /\ reader = "read"
  /\ \/ Ended /\ server # "rejecting" /\ commands = 0
     \/ main = "wait"
  /\ reader' = "post"
  /\ UNCHANGED <<main, result, errCh, executing, connection>>

\* Mistake: the read loop goes on after an error.
PostAndReadOn ==
  /\ reader = "post"
  /\ errCh = Empty
  /\ errCh' = "closed"
  /\ reader' = "check"
  /\ UNCHANGED <<main, result, executing, connection>>

\* errCh <- err: a plain send, which blocks while the channel is full.
PostReadError ==
  /\ reader = "post"
  /\ errCh = Empty
  /\ errCh' = "closed"
  /\ reader' = "done"
  /\ UNCHANGED <<main, result, executing, connection>>

\* executeAndAck ends.  The ack is written if the session is still active;
\* when that fails, the error is posted.
FinishExecution ==
  /\ executing > 0
  /\ executing' = executing - 1
  /\ \/ UNCHANGED errCh
     \/ /\ Ended /\ main \in Writing \cup {"select", "cleanup"}
        /\ PostOrDrop("ack")
  /\ UNCHANGED <<main, result, reader, connection>>

-----------------------------------------------------------------------------
(* The server and the network.                                             *)

\* validateEnrollmentToken accepts the token.
AcceptAgent ==
  /\ server = "deciding"
  /\ server' = "accepted"
  /\ UNCHANGED <<main, result, reader, errCh, executing, commands>>

\* It does not: the server sends an apiError and closes.
Reject ==
  /\ server = "deciding"
  /\ server' = "rejecting"
  /\ UNCHANGED <<main, result, reader, errCh, executing, commands>>

DeliverCommand ==
  /\ server = "accepted"
  /\ executing + commands < MaxCommands
  /\ commands' = commands + 1
  /\ UNCHANGED <<main, result, reader, errCh, executing, server>>

\* The peer closes, the network fails, or CloseActiveForReconnect is called.
EndConnection ==
  /\ ~Ended
  /\ server' = "gone"
  /\ UNCHANGED <<main, result, reader, errCh, executing, commands>>

-----------------------------------------------------------------------------
Main   == DialFails \/ StartSession \/ Write \/ WriteFails \/ Tick \/ ReceiveError
          \/ Cleanup \/ Leave \/ WakeUp
Reader == CheckContext \/ ReadCommand \/ ReadRejection \/ ReadFails \/ PostReadError
Server == AcceptAgent \/ Reject \/ DeliverCommand \/ EndConnection

SessionNext == Main \/ Reader \/ FinishExecution \/ Server

SessionSpec == SessionInit /\ [][SessionNext]_sessionVars

\* Goroutines run; a select whose channel and ticker are both ready picks each
\* of them now and then; writes to a dead connection fail in the end, dials
\* succeed in the end.
SessionFairness ==
  /\ WF_sessionVars(Main)
  /\ SF_sessionVars(ReceiveError)
  /\ SF_sessionVars(WriteFails)
  /\ SF_sessionVars(StartSession)
  /\ WF_sessionVars(Reader)
  /\ WF_sessionVars(FinishExecution)
  /\ WF_sessionVars(AcceptAgent \/ Reject)

FairSessionSpec == SessionSpec /\ SessionFairness

-----------------------------------------------------------------------------
(* Properties.                                                             *)

\* Types of the variables.
SessionTypeOK ==
  /\ main \in Writing \cup {"dial", "select", "cleanup", "wait", "sleep", "exited"}
  /\ result \in Error \cup {Empty}
  /\ reader \in {"check", "read", "post", "done"}
  /\ errCh \in Error \cup {Empty}
  /\ executing \in Nat
  /\ server \in ServerState
  /\ commands \in Nat

\* No read loop outlives its session: between sessions none is left that could
\* dispatch a command or hold the old connection.
NoReaderLeft == main \in {"dial", "sleep", "exited"} => reader = "done"

\* The process gives up only when the server has refused its token for good,
\* never over an error of the network, however the errors of the read loop, of
\* the writes and of the acks overtake each other.
ExitsOnRejectionOnly == main = "exited" => server = "rejected"

\* The read loop and runSession alone cannot block each other: when the read
\* loop cannot hand over its error while runSession waits for it, what fills
\* the channel is a rejection or the error of an ack.
BlockedBySecondError ==
  main = "wait" /\ reader = "post" => errCh \in {Empty, "permanent", "ack"}

\* A session that ends is followed by another dial or by the end of the
\* process, unless two sources of errors meet in its channel.
SessionEndIsFollowedUp ==
  Ended /\ ~Cancelled ~> main \in {"dial", "exited"} \/ errCh \in {"permanent", "ack"}

=============================================================================
