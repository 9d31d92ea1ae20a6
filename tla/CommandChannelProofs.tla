------------------------ MODULE CommandChannelProofs ------------------------
(***************************************************************************)
(* The commands' way to an agent: what CommandChannel guarantees for any   *)
(* sets of commands, connections and senders, and any bounds; and, at the  *)
(* end, AgentSession, the goroutines of one of its connections.            *)
(***************************************************************************)
EXTENDS CommandChannel, AgentSession, Integers, SequenceTheorems, FiniteSetTheorems, WellFoundedInduction, TLAPS

(* The Redis list, and the frames on a socket.                             *)

\* Min returns the least element of a non-empty set of naturals, so SelectInSeq,
\* which picks the entry an LREM removes, returns the first matching index.
LEMMA LeastIndex ==
  ASSUME NEW I, I \subseteq Nat, I # {}
  PROVE  /\ Min(I) \in I
         /\ \A j \in I : Min(I) <= j
<1>1. \E i \in I : \A j \in I : ~(<<j, i>> \in OpToRel(<, Nat))
  BY NatLessThanWellFounded, WFMin
<1>2. \A i, j \in Nat : (<<j, i>> \in OpToRel(<, Nat)) <=> j < i
  BY Zenon DEF OpToRel
<1>3. \E i \in I : \A j \in I : ~(j < i)
  BY <1>1, <1>2
<1>4. \E i \in I : \A j \in I : i <= j
  BY <1>3
<1> QED
  BY <1>4 DEF Min

\* Removing the first occurrence of e, as LREM key 1 e does, keeps every other
\* entry, adds none and never lengthens the list.
LEMMA RemoveFirstProperties ==
  ASSUME NEW S, NEW q \in Seq(S), NEW e
  PROVE  /\ RemoveFirst(q, e) \in Seq(S)
         /\ Range(RemoveFirst(q, e)) \subseteq Range(q)
         /\ Range(q) \ {e} \subseteq Range(RemoveFirst(q, e))
         /\ Len(RemoveFirst(q, e)) <= Len(q)
<1>1. CASE ~ \E i \in 1 .. Len(q) : q[i] = e
  BY <1>1 DEF RemoveFirst
<1>2. CASE \E i \in 1 .. Len(q) : q[i] = e
  <2> DEFINE I == {i \in 1 .. Len(q) : q[i] = e}
             m == Min(I)
  <2>1. m \in 1 .. Len(q) /\ q[m] = e
    <3>1. I \subseteq Nat /\ I # {}
      BY <1>2
    <3>2. m \in I
      BY <3>1, LeastIndex
    <3> QED
      BY <3>2
  <2>2. RemoveFirst(q, e) = RemoveAt(q, m)
    BY <1>2 DEF RemoveFirst, SelectInSeq
  <2> HIDE DEF m
  <2> DEFINE r == RemoveAt(q, m)
  <2>3. /\ r \in Seq(S)
        /\ Len(r) = Len(q) - 1
        /\ \A j \in 1 .. Len(q) - 1 : r[j] = IF j < m THEN q[j] ELSE q[j+1]
    <3> DEFINE a == SubSeq(q, 1, m-1)
               b == SubSeq(q, m+1, Len(q))
    <3>1. /\ a \in Seq(S) /\ Len(a) = m - 1
          /\ \A j \in 1 .. m-1 : a[j] = q[j]
      BY <2>1
    <3>2. /\ b \in Seq(S) /\ Len(b) = Len(q) - m
          /\ \A j \in 1 .. Len(q)-m : b[j] = q[m+j]
      BY <2>1
    <3>3. r = a \o b
      BY DEF RemoveAt
    <3> HIDE DEF a, b, r
    <3>4. /\ r \in Seq(S)
          /\ Len(r) = Len(a) + Len(b)
          /\ \A j \in 1 .. Len(a) + Len(b) : r[j] = IF j <= Len(a) THEN a[j] ELSE b[j - Len(a)]
      BY <3>1, <3>2, <3>3, ConcatProperties
    <3>5. ASSUME NEW j \in 1 .. Len(q) - 1
          PROVE  r[j] = IF j < m THEN q[j] ELSE q[j+1]
      <4>1. r[j] = IF j <= m - 1 THEN a[j] ELSE b[j - (m - 1)]
        <5>1. Len(a) + Len(b) = Len(q) - 1
          BY <2>1, <3>1, <3>2
        <5>2. r[j] = IF j <= Len(a) THEN a[j] ELSE b[j - Len(a)]
          BY <3>4, <5>1
        <5> QED
          BY <3>1, <5>2
      <4>2. CASE j < m
        BY <2>1, <3>1, <4>1, <4>2
      <4>3. CASE ~(j < m)
        <5>1. j - (m - 1) \in 1 .. Len(q) - m /\ m + (j - (m - 1)) = j + 1
          BY <2>1, <4>3
        <5>2. b[j - (m - 1)] = q[m + (j - (m - 1))]
          BY <5>1, <3>2
        <5> QED
          BY <2>1, <4>1, <4>3, <5>1, <5>2
      <4> QED
        BY <4>2, <4>3
    <3> QED
      BY <2>1, <3>1, <3>2, <3>4, <3>5
  <2> HIDE DEF r
  <2>4. Range(r) \subseteq Range(q)
    BY <2>1, <2>3 DEF Range
  <2>5. ASSUME NEW x \in Range(q), x # e
        PROVE  x \in Range(r)
    <3>1. PICK i \in 1 .. Len(q) : q[i] = x
      BY <2>5 DEF Range
    <3>2. CASE i < m
      BY <3>1, <3>2, <2>1, <2>3 DEF Range
    <3>3. CASE i > m
      <4>1. i - 1 \in 1 .. Len(q) - 1 /\ r[i - 1] = q[i]
        BY <3>1, <3>3, <2>1, <2>3
      <4> QED
        BY <4>1, <3>1, <2>3 DEF Range
    <3> QED
      BY <3>1, <3>2, <3>3, <2>1, <2>5
  <2> QED
    BY <2>2, <2>3, <2>4, <2>5 DEF r
<1> QED
  BY <1>1, <1>2

\* Taking the first element of a queue leaves only elements that were in it.
LEMMA TailRange ==
  ASSUME NEW S, NEW q \in Seq(S), q # <<>>
  PROVE  /\ Range(Tail(q)) \subseteq Range(q)
         /\ Head(q) \in Range(q)
<1>1. Head(q) = q[1] /\ 1 \in DOMAIN q
  OBVIOUS
<1>2. /\ Tail(q) \in Seq(S)
      /\ Len(Tail(q)) = Len(q) - 1
      /\ \A i \in 1 .. Len(Tail(q)) : Tail(q)[i] = q[i+1]
  OBVIOUS
<1>3. \A i \in DOMAIN Tail(q) : i + 1 \in DOMAIN q /\ Tail(q)[i] = q[i+1]
  BY <1>2
<1> QED
  BY <1>1, <1>3 DEF Range

\* RPUSH, or a frame written to a socket, adds its element and nothing else.
LEMMA AppendRange ==
  ASSUME NEW S, NEW q \in Seq(S), NEW x \in S
  PROVE  Range(Append(q, x)) = Range(q) \cup {x}
<1> DEFINE r == Append(q, x)
<1>1. /\ r \in Seq(S)
      /\ DOMAIN r = 1 .. Len(q) + 1
      /\ \A i \in 1 .. Len(q) : r[i] = q[i]
      /\ r[Len(q) + 1] = x
  OBVIOUS
<1> HIDE DEF r
<1>2. Range(r) \subseteq Range(q) \cup {x}
  <2> SUFFICES ASSUME NEW i \in 1 .. Len(q) + 1
               PROVE  r[i] \in Range(q) \cup {x}
    BY <1>1 DEF Range
  <2> QED
    BY <1>1 DEF Range
<1>3. Range(q) \cup {x} \subseteq Range(r)
  BY <1>1 DEF Range
<1> QED
  BY <1>2, <1>3 DEF r

-----------------------------------------------------------------------------
\* The variables of the channel keep their types through every handler of the
\* API process and of the agent's transport.
THEOREM TypeCorrect == Spec => []TypeOK
<1> USE ConstantsAssumption DEF Frame, LinkState, WithoutEntry, IsDuplicate
<1>1. Init => TypeOK
  BY DEF Init, TypeOK
<1>2. TypeOK /\ [Next]_vars => TypeOK'
  <2> SUFFICES ASSUME TypeOK, [Next]_vars
               PROVE  TypeOK'
    OBVIOUS
  <2> USE DEF TypeOK
  <2>1. ASSUME NEW s \in Sender, NEW c \in Command, SendCommand(s, c)
        PROVE  TypeOK'
    BY <2>1 DEF SendCommand, agentVars, apiVars, historyVars
  <2>2. ASSUME NEW s \in Sender, CheckBackpressure(s)
        PROVE  TypeOK'
    BY <2>2 DEF CheckBackpressure, agentVars, apiVars, historyVars
  <2>3. ASSUME NEW s \in Sender, PushPending(s)
        PROVE  TypeOK'
    BY <2>3 DEF PushPending, agentVars, apiVars, historyVars
  <2>4. ASSUME NEW s \in Sender, DeliverDirect(s)
        PROVE  TypeOK'
    <3>1. arg[s] \in Command
      BY <2>4 DEF DeliverDirect
    <3>2. <<arg[s]>> \in Seq(Command)
      BY <3>1
    <3>3. down' \in [Connection -> Seq(Command)]
      BY <2>4, <3>2 DEF DeliverDirect, Transmit
    <3> QED
      BY <2>4, <3>3 DEF DeliverDirect, agentVars, apiVars, historyVars
  <2>5. ASSUME NEW k \in Connection, ServerListen(k)
        PROVE  TypeOK'
    BY <2>5 DEF ServerListen, agentVars, apiVars, historyVars
  <2>6. ASSUME NEW k \in Connection, FrameBeforeListen(k)
        PROVE  TypeOK'
    BY <2>6 DEF FrameBeforeListen, agentVars, apiVars, historyVars
  <2>7. ASSUME NEW k \in Connection, ReceiveHeartbeat(k)
        PROVE  TypeOK'
    <3>1. up' \in [Connection -> Seq(Frame)]
      BY <2>7 DEF ReceiveHeartbeat
    <3>2. link' \in [Connection -> LinkState] /\ session' \in Connection \cup {None}
      BY <2>7 DEF ReceiveHeartbeat
    <3> QED
      BY <2>7, <3>1, <3>2 DEF ReceiveHeartbeat, agentVars, apiVars, historyVars
  <2>8. ASSUME NEW k \in Connection, ReceiveAck(k)
        PROVE  TypeOK'
    <3>1. up' \in [Connection -> Seq(Frame)]
      BY <2>8 DEF ReceiveAck
    <3>2. Head(up[k]) \in Command
      BY <2>8 DEF ReceiveAck
    <3>3. removing' \in [Command -> Nat]
      <4>1. removing \in [Command -> Nat]
        OBVIOUS
      <4> QED
        BY ONLY <2>8, <3>2, <4>1 DEF ReceiveAck
    <3> QED
      BY <2>8, <3>1, <3>3 DEF ReceiveAck, agentVars, apiVars, historyVars
  <2>9. ASSUME NEW k \in Connection, Replay(k)
        PROVE  TypeOK'
    BY <2>9 DEF Replay, Transmit, agentVars, apiVars, historyVars
  <2>10. ASSUME NEW k \in Connection, ServerClose(k)
        PROVE  TypeOK'
    BY <2>10 DEF ServerClose, SessionAfterClose, agentVars, apiVars, historyVars
  <2>11. ASSUME NEW k \in Connection, Dial(k)
        PROVE  TypeOK'
    BY <2>11 DEF Dial, agentVars, apiVars, historyVars
  <2>12. ASSUME NEW k \in Connection, SendHeartbeat(k)
        PROVE  TypeOK'
    BY <2>12 DEF SendHeartbeat, agentVars, apiVars, historyVars
  <2>13. ASSUME NEW k \in Connection, ReceiveCommand(k)
         PROVE  TypeOK'
    <3>1. Head(down[k]) \in Command /\ down' \in [Connection -> Seq(Command)]
      BY <2>13 DEF ReceiveCommand
    <3>2. seen' \subseteq Command /\ running' \subseteq Command /\ starts' \in [Command -> Nat]
      BY <2>13, <3>1 DEF ReceiveCommand
    <3> QED
      BY <2>13, <3>1, <3>2 DEF ReceiveCommand, apiVars
  <2>14. ASSUME NEW k \in Connection, CloseSession(k)
        PROVE  TypeOK'
    BY <2>14 DEF CloseSession, agentVars, apiVars, historyVars
  <2>15. ASSUME NEW c \in Command, RemovePending(c)
        PROVE  TypeOK'
    BY <2>15, RemoveFirstProperties DEF RemovePending, WithoutEntry, agentVars, apiVars, historyVars
  <2>16. ASSUME NEW c \in Command, FinishCommand(c)
        PROVE  TypeOK'
    BY <2>16 DEF FinishCommand, agentVars, apiVars, historyVars
  <2>17. CASE DisconnectAgent
    BY <2>17 DEF DisconnectAgent, agentVars, apiVars, historyVars
  <2>18. CASE RestartApi
    BY <2>18 DEF RestartApi, agentVars, apiVars, historyVars
  <2>19. CASE RestartAgent
    BY <2>19 DEF RestartAgent, agentVars, apiVars, historyVars
  <2>20. CASE UNCHANGED vars
    BY <2>20 DEF vars
  <2> QED
    BY <2>1, <2>2, <2>3, <2>4, <2>5, <2>6, <2>7, <2>8, <2>9, <2>10, <2>11, <2>12,
       <2>13, <2>14, <2>15, <2>16, <2>17, <2>18, <2>19, <2>20
       DEF Next, SenderStep, ServerStep, AgentStep
<1>3. QED
  BY <1>1, <1>2, PTL DEF Spec

-----------------------------------------------------------------------------
\* An ack on its way, or being applied, is for a command whose run has ended.
AckJustified ==
  /\ \A k \in Connection : Range(up[k]) \subseteq finished \cup {Heartbeat}
  /\ \A c \in Command : removing[c] > 0 => c \in finished

\* The server only ever removes a command whose run has ended: an ack says so
\* when it is written, and nothing takes that back.
LEMMA AcksJustified == Spec => [](AckJustified /\ AcceptedNotLost)
<1> DEFINE Inv == AckJustified /\ AcceptedNotLost
<1>1. Init => Inv
  BY ConstantsAssumption DEF Init, AckJustified, AcceptedNotLost, Range
<1>2. TypeOK /\ Inv /\ [Next]_vars => Inv'
  <2> SUFFICES ASSUME TypeOK, AckJustified, AcceptedNotLost, [Next]_vars
               PROVE  AckJustified' /\ AcceptedNotLost'
    OBVIOUS
  <2> USE ConstantsAssumption
  <2>1. CASE UNCHANGED <<pending, removing, up, accepted, finished>>
    BY <2>1 DEF AckJustified, AcceptedNotLost
  <2>2. ASSUME NEW s \in Sender, PushPending(s)
        PROVE  AckJustified' /\ AcceptedNotLost'
    <3>1. AckJustified'
      BY <2>2 DEF PushPending, AckJustified, agentVars
    <3>2. Range(pending') = Range(pending) \cup {arg[s]}
      <4>1. pending \in Seq(Command) /\ arg[s] \in Command
        BY <2>2 DEF PushPending, TypeOK
      <4>2. Range(Append(pending, arg[s])) = Range(pending) \cup {arg[s]}
        BY <4>1, AppendRange
      <4> QED
        BY <2>2, <4>2 DEF PushPending
    <3>3. AcceptedNotLost'
      BY <2>2, <3>2 DEF PushPending, AcceptedNotLost
    <3> QED
      BY <3>1, <3>3
  <2>3. ASSUME NEW k \in Connection,
               up[k] # <<>>, up' = [up EXCEPT ![k] = Tail(@)]
        PROVE  \A l \in Connection : Range(up'[l]) \subseteq finished \cup {Heartbeat}
    BY <2>3, TailRange DEF AckJustified, TypeOK
  <2>4. ASSUME NEW k \in Connection, FrameBeforeListen(k) \/ ReceiveHeartbeat(k)
        PROVE  AckJustified' /\ AcceptedNotLost'
    BY <2>3, <2>4 DEF FrameBeforeListen, ReceiveHeartbeat, AckJustified, AcceptedNotLost,
                      apiVars, historyVars
  <2>5. ASSUME NEW k \in Connection, ReceiveAck(k)
        PROVE  AckJustified' /\ AcceptedNotLost'
    <3>1. Head(up[k]) \in finished
      BY <2>5, TailRange DEF ReceiveAck, AckApplies, AckJustified, TypeOK
    <3>2. \A c \in Command : removing'[c] > 0 => c \in finished
      BY <2>5, <3>1 DEF ReceiveAck, AckApplies, AckJustified, TypeOK
    <3> QED
      BY <2>3, <2>5, <3>2 DEF ReceiveAck, AckApplies, AckJustified, AcceptedNotLost, historyVars
  <2>6. ASSUME NEW c \in Command, RemovePending(c)
        PROVE  AckJustified' /\ AcceptedNotLost'
    <3>1. c \in finished
      BY <2>6 DEF RemovePending, WithoutEntry, AckJustified
    <3>2. Range(pending) \ {c} \subseteq Range(pending')
      BY <2>6, RemoveFirstProperties DEF RemovePending, WithoutEntry, TypeOK
    <3>3. AcceptedNotLost'
      BY <2>6, <3>1, <3>2 DEF RemovePending, WithoutEntry, AcceptedNotLost, historyVars
    <3>4. AckJustified'
      BY <2>6 DEF RemovePending, WithoutEntry, AckJustified, historyVars, TypeOK
    <3> QED
      BY <3>3, <3>4
  <2>7. ASSUME NEW k \in Connection, ServerClose(k)
        PROVE  AckJustified' /\ AcceptedNotLost'
    BY <2>7 DEF ServerClose, AckJustified, AcceptedNotLost, historyVars, Range, TypeOK
  <2>8. CASE RestartApi
    BY <2>8 DEF RestartApi, AckJustified, AcceptedNotLost, historyVars, Range
  <2>9. ASSUME NEW k \in Connection, Dial(k)
        PROVE  AckJustified' /\ AcceptedNotLost'
    BY <2>9 DEF Dial, AckJustified, AcceptedNotLost, apiVars, historyVars, Range, TypeOK
  <2>10. ASSUME NEW k \in Connection, SendHeartbeat(k)
         PROVE  AckJustified' /\ AcceptedNotLost'
    <3>1. Range(up'[k]) = Range(up[k]) \cup {Heartbeat}
      <4>1. up[k] \in Seq(Frame) /\ Heartbeat \in Frame
        BY DEF TypeOK, Frame
      <4>2. Range(Append(up[k], Heartbeat)) = Range(up[k]) \cup {Heartbeat}
        BY <4>1, AppendRange
      <4> QED
        BY <2>10, <4>2 DEF SendHeartbeat, TypeOK
    <3> QED
      BY <2>10, <3>1 DEF SendHeartbeat, AckJustified, AcceptedNotLost, apiVars, historyVars,
                         TypeOK
  <2>11. ASSUME NEW c \in Command, FinishCommand(c)
         PROVE  AckJustified' /\ AcceptedNotLost'
    <3>1. \A k \in Connection : Range(up'[k]) \subseteq Range(up[k]) \cup {c}
      <4>1. ASSUME NEW k \in Connection
            PROVE  Range(Append(up[k], c)) = Range(up[k]) \cup {c}
        <5>1. up[k] \in Seq(Frame) /\ c \in Frame
          BY DEF TypeOK, Frame
        <5> QED
          BY <5>1, AppendRange
      <4> QED
        BY <2>11, <4>1 DEF FinishCommand, TypeOK
    <3> QED
      BY <2>11, <3>1 DEF FinishCommand, AckJustified, AcceptedNotLost, apiVars
  <2>12. \/ UNCHANGED <<pending, removing, up, accepted, finished>>
         \/ \E s \in Sender : PushPending(s)
         \/ \E k \in Connection :
              \/ FrameBeforeListen(k) \/ ReceiveHeartbeat(k) \/ ReceiveAck(k)
              \/ ServerClose(k) \/ Dial(k) \/ SendHeartbeat(k)
         \/ \E c \in Command : RemovePending(c) \/ FinishCommand(c)
         \/ RestartApi
    BY DEF Next, SenderStep, ServerStep, AgentStep, vars, apiVars, agentVars, historyVars,
           SendCommand, CheckBackpressure, DeliverDirect, ServerListen, Replay,
           ReceiveCommand, CloseSession, DisconnectAgent, RestartAgent
  <2> QED
    BY <2>1, <2>2, <2>4, <2>5, <2>6, <2>7, <2>8, <2>9, <2>10, <2>11, <2>12
<1>3. QED
  BY <1>1, <1>2, TypeCorrect, PTL DEF Spec

\* Every command sendCommand has pushed is in the Redis list until a run of it
\* has ended on the agent, whichever connections and processes die.
THEOREM NoCommandLost == Spec => []AcceptedNotLost
BY AcksJustified, PTL

-----------------------------------------------------------------------------
\* What counting the starts of a command needs: a command unseen by this
\* process was started by earlier ones only.
StartsCounted ==
  \A c \in Command : starts[c] <= restarts + (IF c \in seen THEN 1 ELSE 0)

\* handleIncoming starts a command at most once in the life of an agent process.
THEOREM OncePerProcess == Spec => []AtMostOncePerProcess
<1>1. Init => StartsCounted
  BY DEF Init, StartsCounted
<1>2. TypeOK /\ StartsCounted /\ [Next]_vars => StartsCounted'
  <2> SUFFICES ASSUME TypeOK, StartsCounted, [Next]_vars
               PROVE  StartsCounted'
    OBVIOUS
  <2>1. CASE UNCHANGED <<starts, restarts, seen>>
    BY <2>1 DEF StartsCounted
  <2>2. ASSUME NEW k \in Connection, ReceiveCommand(k)
        PROVE  StartsCounted'
    <3>1. Head(down[k]) \in Command
      BY <2>2 DEF ReceiveCommand, TypeOK
    <3>2. UNCHANGED restarts
      BY <2>2 DEF ReceiveCommand
    <3>3. CASE UNCHANGED <<seen, starts>>
      BY <3>2, <3>3 DEF StartsCounted
    <3>4. CASE ~IsDuplicate(Head(down[k])) /\ seen' = seen \cup {Head(down[k])}
               /\ starts' = [starts EXCEPT ![Head(down[k])] = @ + 1]
      BY <3>1, <3>2, <3>4 DEF IsDuplicate, StartsCounted, TypeOK
    <3> QED
      BY ONLY <2>2, <3>3, <3>4 DEF ReceiveCommand
  <2>3. CASE RestartAgent
    BY <2>3 DEF RestartAgent, StartsCounted, TypeOK
  <2>4. \/ UNCHANGED <<starts, restarts, seen>>
        \/ \E k \in Connection : ReceiveCommand(k)
        \/ RestartAgent
    BY DEF Next, SenderStep, ServerStep, AgentStep, vars, agentVars, historyVars,
           SendCommand, CheckBackpressure, PushPending, DeliverDirect, ServerListen,
           FrameBeforeListen, ReceiveHeartbeat, ReceiveAck, Replay, ServerClose, Dial,
           SendHeartbeat, CloseSession, RemovePending, FinishCommand, DisconnectAgent,
           RestartApi
  <2> QED
    BY <2>1, <2>2, <2>3, <2>4
<1>3. TypeOK /\ StartsCounted => AtMostOncePerProcess
  BY DEF TypeOK, StartsCounted, AtMostOncePerProcess
<1>4. QED
  BY <1>1, <1>2, <1>3, TypeCorrect, PTL DEF Spec

-----------------------------------------------------------------------------
\* The session map never holds a connection whose close event was handled.
THEOREM SessionsAreOpen == Spec => []SessionUsable
<1> USE ConstantsAssumption
<1>1. Init => SessionUsable
  BY DEF Init, SessionUsable
<1>2. TypeOK /\ SessionUsable /\ [Next]_vars => SessionUsable'
  <2> SUFFICES ASSUME TypeOK, SessionUsable, [Next]_vars
               PROVE  SessionUsable'
    OBVIOUS
  <2> USE DEF SessionUsable, TypeOK
  <2>1. CASE UNCHANGED <<session, link>>
    BY <2>1
  <2>2. ASSUME NEW k \in Connection, ServerListen(k) \/ Replay(k)
        PROVE  SessionUsable'
    BY <2>2 DEF ServerListen, Replay, apiVars
  <2>3. ASSUME NEW k \in Connection, ReceiveHeartbeat(k)
        PROVE  SessionUsable'
    BY <2>3 DEF ReceiveHeartbeat
  <2>4. ASSUME NEW k \in Connection, ServerClose(k)
        PROVE  SessionUsable'
    BY <2>4 DEF ServerClose, SessionAfterClose, Identified
  <2>5. ASSUME NEW k \in Connection, Dial(k)
        PROVE  SessionUsable'
    BY <2>5 DEF Dial, apiVars
  <2>6. CASE DisconnectAgent \/ RestartApi
    BY <2>6 DEF DisconnectAgent, RestartApi
  <2>7. \/ UNCHANGED <<session, link>>
        \/ \E k \in Connection : \/ ServerListen(k) \/ Replay(k) \/ ReceiveHeartbeat(k)
                                 \/ ServerClose(k) \/ Dial(k)
        \/ DisconnectAgent \/ RestartApi
    BY DEF Next, SenderStep, ServerStep, AgentStep, vars, apiVars, agentVars, historyVars,
           SendCommand, CheckBackpressure, PushPending, DeliverDirect, FrameBeforeListen,
           ReceiveAck, SendHeartbeat, ReceiveCommand, CloseSession, RemovePending,
           FinishCommand, RestartAgent
  <2> QED
    BY <2>1, <2>2, <2>3, <2>4, <2>5, <2>6, <2>7
<1>3. QED
  BY <1>1, <1>2, TypeCorrect, PTL DEF Spec

-----------------------------------------------------------------------------
\* Whatever travels in the channel was pushed to the Redis list before.
CarriesAccepted ==
  /\ Range(pending) \subseteq accepted
  /\ \A s \in Sender : pc[s] = "deliver" => arg[s] \in accepted
  /\ \A k \in Connection : Range(down[k]) \subseteq accepted
  /\ running \subseteq accepted

\* A send on a socket adds at most the frames sent, to that connection alone.
LEMMA TransmitRange ==
  ASSUME TypeOK, NEW k \in Connection, NEW cs \in Seq(Command)
  PROVE  /\ Transmit(k, cs) \in [Connection -> Seq(Command)]
         /\ \A l \in Connection : Range(Transmit(k, cs)[l]) \subseteq Range(down[l]) \cup Range(cs)
<1>1. down[k] \in Seq(Command)
  BY DEF TypeOK
<1>2. down[k] \o cs \in Seq(Command) /\ Range(down[k] \o cs) = Range(down[k]) \cup Range(cs)
  BY <1>1, RangeConcatenation
<1> QED
  BY <1>2 DEF Transmit, TypeOK

\* No frame and no running command was not first made durable by RPUSH.
LEMMA ChannelCarriesAccepted == Spec => []CarriesAccepted
<1> USE ConstantsAssumption
<1>1. Init => CarriesAccepted
  BY DEF Init, CarriesAccepted, Range
<1>2. TypeOK /\ CarriesAccepted /\ [Next]_vars => CarriesAccepted'
  <2> SUFFICES ASSUME TypeOK, CarriesAccepted, [Next]_vars
               PROVE  CarriesAccepted'
    OBVIOUS
  <2>1. CASE UNCHANGED <<pending, accepted, pc, arg, down, running>>
    BY <2>1 DEF CarriesAccepted
  <2>2. ASSUME NEW s \in Sender, NEW c \in Command, SendCommand(s, c)
        PROVE  CarriesAccepted'
    BY <2>2 DEF SendCommand, CarriesAccepted, TypeOK, agentVars
  <2>3. ASSUME NEW s \in Sender, CheckBackpressure(s)
        PROVE  CarriesAccepted'
    BY <2>3 DEF CheckBackpressure, CarriesAccepted, TypeOK, agentVars, historyVars
  <2>4. ASSUME NEW s \in Sender, PushPending(s)
        PROVE  CarriesAccepted'
    <3>1. pending \in Seq(Command) /\ arg[s] \in Command
      BY <2>4 DEF PushPending, TypeOK
    <3>2. Range(pending') = Range(pending) \cup {arg[s]}
      BY <2>4, <3>1, AppendRange DEF PushPending
    <3> QED
      BY <2>4, <3>2 DEF PushPending, CarriesAccepted, TypeOK, agentVars
  <2>5. ASSUME NEW s \in Sender, DeliverDirect(s)
        PROVE  CarriesAccepted'
    <3>1. arg[s] \in Command \cap accepted
      BY <2>5 DEF DeliverDirect, CarriesAccepted, TypeOK
    <3>2. <<arg[s]>> \in Seq(Command) /\ Range(<<arg[s]>>) \subseteq accepted
      BY <3>1 DEF Range
    <3>3. \A l \in Connection : Range(down'[l]) \subseteq accepted
      BY <2>5, <3>2, TransmitRange DEF DeliverDirect, CarriesAccepted, TypeOK
    <3> QED
      BY <2>5, <3>3 DEF DeliverDirect, CarriesAccepted, TypeOK, agentVars, historyVars
  <2>6. ASSUME NEW k \in Connection, Replay(k)
        PROVE  CarriesAccepted'
    <3>1. \A l \in Connection : Range(down'[l]) \subseteq accepted
      BY <2>6, TransmitRange DEF Replay, CarriesAccepted, TypeOK
    <3> QED
      BY <2>6, <3>1 DEF Replay, CarriesAccepted, apiVars, agentVars, historyVars
  <2>7. ASSUME NEW c \in Command, RemovePending(c)
        PROVE  CarriesAccepted'
    <3>1. Range(pending') \subseteq Range(pending)
      BY <2>7, RemoveFirstProperties DEF RemovePending, WithoutEntry, TypeOK
    <3> QED
      BY <2>7, <3>1 DEF RemovePending, WithoutEntry, CarriesAccepted, agentVars, historyVars
  <2>8. ASSUME NEW k \in Connection, ReceiveCommand(k)
        PROVE  CarriesAccepted'
    <3>1. Head(down[k]) \in accepted /\ Range(Tail(down[k])) \subseteq accepted
      BY <2>8, TailRange DEF ReceiveCommand, CarriesAccepted, TypeOK
    <3> QED
      BY <2>8, <3>1 DEF ReceiveCommand, CarriesAccepted, TypeOK, apiVars
  <2>9. ASSUME NEW c \in Command, FinishCommand(c)
        PROVE  CarriesAccepted'
    BY <2>9 DEF FinishCommand, CarriesAccepted, apiVars
  <2>10. ASSUME NEW k \in Connection, CloseSession(k)
         PROVE  CarriesAccepted'
    BY <2>10 DEF CloseSession, CarriesAccepted, TypeOK, Range, apiVars, historyVars
  <2>11. CASE RestartApi
    BY <2>11 DEF RestartApi, CarriesAccepted, agentVars, historyVars
  <2>12. CASE RestartAgent
    BY <2>12 DEF RestartAgent, CarriesAccepted, Range, apiVars
  <2>13. \/ UNCHANGED <<pending, accepted, pc, arg, down, running>>
         \/ \E s \in Sender, c \in Command : SendCommand(s, c)
         \/ \E s \in Sender : CheckBackpressure(s) \/ PushPending(s) \/ DeliverDirect(s)
         \/ \E k \in Connection : Replay(k) \/ ReceiveCommand(k) \/ CloseSession(k)
         \/ \E c \in Command : RemovePending(c) \/ FinishCommand(c)
         \/ RestartApi \/ RestartAgent
    BY DEF Next, SenderStep, ServerStep, AgentStep, vars, apiVars, agentVars, historyVars,
           ServerListen, FrameBeforeListen, ReceiveHeartbeat, ReceiveAck, ServerClose, Dial,
           SendHeartbeat, DisconnectAgent
  <2> QED
    BY <2>1, <2>2, <2>3, <2>4, <2>5, <2>6, <2>7, <2>8, <2>9, <2>10, <2>11, <2>12, <2>13
<1>3. QED
  BY <1>1, <1>2, TypeCorrect, PTL DEF Spec

-----------------------------------------------------------------------------
\* RealtimeManager, the /realtime handler and the agent's transport together
\* implement at-least-once delivery: every step of theirs accepts, executes or
\* settles a command as CommandDelivery allows, or changes none of this.
THEOREM ChannelImplementsDelivery == Spec => ImplementsDelivery
<1>1. Init => Delivery!Init
  BY DEF Init, Delivery!Init, Range
<1>2. /\ TypeOK /\ AckJustified /\ CarriesAccepted /\ [Next]_vars
      => [Delivery!Next]_(Delivery!vars)
  <2> SUFFICES ASSUME TypeOK, AckJustified, CarriesAccepted, [Next]_vars
               PROVE  Delivery!Next \/ UNCHANGED Delivery!vars
    OBVIOUS
  <2>1. CASE UNCHANGED <<pending, accepted, finished>>
    BY <2>1 DEF Delivery!vars
  <2>2. ASSUME NEW s \in Sender, PushPending(s)
        PROVE  Delivery!Next
    <3>1. pending \in Seq(Command) /\ arg[s] \in Command
      BY <2>2 DEF PushPending, TypeOK
    <3>2. Range(pending') = Range(pending) \cup {arg[s]}
      BY <2>2, <3>1, AppendRange DEF PushPending
    <3>3. Delivery!Accept(arg[s])
      BY <2>2, <3>2 DEF PushPending, Delivery!Accept
    <3> QED
      BY <3>1, <3>3 DEF Delivery!Next
  <2>3. ASSUME NEW c \in Command, FinishCommand(c)
        PROVE  Delivery!Next
    <3>1. Delivery!Execute(c)
      BY <2>3 DEF FinishCommand, CarriesAccepted, Delivery!Execute
    <3> QED
      BY <3>1 DEF Delivery!Next
  <2>4. ASSUME NEW c \in Command, RemovePending(c)
        PROVE  Delivery!Next \/ UNCHANGED Delivery!vars
    <3>1. c \in finished /\ UNCHANGED <<accepted, finished>>
      BY <2>4 DEF RemovePending, WithoutEntry, AckJustified, historyVars
    <3>2. /\ Range(pending') \subseteq Range(pending)
          /\ Range(pending) \ {c} \subseteq Range(pending')
      BY <2>4, RemoveFirstProperties DEF RemovePending, WithoutEntry, TypeOK
    <3>3. CASE Range(pending') = Range(pending)
      BY <3>1, <3>3 DEF Delivery!vars
    <3>4. CASE Range(pending') # Range(pending)
      <4>1. c \in Range(pending) /\ Range(pending') = Range(pending) \ {c}
        BY <3>2, <3>4
      <4>2. Delivery!Settle(c)
        BY <3>1, <4>1 DEF Delivery!Settle
      <4> QED
        BY <4>2 DEF Delivery!Next
    <3> QED
      BY <3>3, <3>4
  <2>5. \/ UNCHANGED <<pending, accepted, finished>>
        \/ \E s \in Sender : PushPending(s)
        \/ \E c \in Command : RemovePending(c) \/ FinishCommand(c)
    BY DEF Next, SenderStep, ServerStep, AgentStep, vars, apiVars, agentVars, historyVars,
           SendCommand, CheckBackpressure, DeliverDirect, ServerListen, FrameBeforeListen,
           ReceiveHeartbeat, ReceiveAck, Replay, ServerClose, Dial, SendHeartbeat,
           ReceiveCommand, CloseSession, DisconnectAgent, RestartApi, RestartAgent
  <2> QED
    BY <2>1, <2>2, <2>3, <2>4, <2>5
<1>3. QED
  BY <1>1, <1>2, TypeCorrect, AcksJustified, ChannelCarriesAccepted, PTL
     DEF Spec, ImplementsDelivery, Delivery!Spec

-----------------------------------------------------------------------------
\* The calls that have seen room in the list and not yet pushed.
Pushing == {s \in Sender : pc[s] = "push"}

\* Each of them holds a place that LLEN granted: the list and they together stay
\* below what the last one of them may bring it to.
RoomTaken == Len(pending) + Cardinality(Pushing) + 1 <= MaxPending + Cardinality(Sender)

\* There are only so many calls at a time.
LEMMA PushingFinite ==
  /\ IsFiniteSet(Pushing) /\ Cardinality(Pushing) \in Nat
  /\ Cardinality(Sender) \in Nat
  /\ Cardinality(Pushing) <= Cardinality(Sender)
<1>1. Pushing \subseteq Sender
  BY DEF Pushing
<1> QED
  BY <1>1, SenderAssumption, FS_Subset, FS_CardinalityType

\* sendCommand reads the length with one Redis command and pushes with another:
\* concurrent calls can pass the limit together, but the list is never longer
\* than the limit and the calls beside the one that fills it.
THEOREM BacklogBounded == Spec => []BackpressureBound
<1> USE ConstantsAssumption
<1>1. Init => RoomTaken
  <2> SUFFICES ASSUME Init
               PROVE  RoomTaken
    OBVIOUS
  <2>1. Pushing = {} /\ Len(pending) = 0
    BY DEF Init, Pushing
  <2>2. Cardinality(Pushing) = 0
    BY <2>1, FS_EmptySet
  <2> QED
    BY <2>1, <2>2, PushingFinite DEF RoomTaken
<1>2. TypeOK /\ RoomTaken /\ [Next]_vars => RoomTaken'
  <2> SUFFICES ASSUME TypeOK, RoomTaken, [Next]_vars
               PROVE  RoomTaken'
    OBVIOUS
  <2>1. Len(pending) \in Nat /\ pc \in [Sender -> {"idle", "count", "push", "deliver"}]
    BY DEF TypeOK
  <2>2. ASSUME Pushing' \subseteq Pushing, Len(pending') \in Nat, Len(pending') <= Len(pending)
        PROVE  RoomTaken'
    <3>1. Cardinality(Pushing') \in Nat /\ Cardinality(Pushing') <= Cardinality(Pushing)
      BY <2>2, PushingFinite, FS_Subset, FS_CardinalityType
    <3> QED
      BY <2>1, <2>2, <3>1, PushingFinite DEF RoomTaken
  <2>3. ASSUME NEW s \in Sender, CheckBackpressure(s)
        PROVE  RoomTaken'
    <3>1. CASE AtLimit
      BY <2>1, <2>2, <2>3, <3>1 DEF CheckBackpressure, Pushing
    <3>2. CASE ~AtLimit
      <4>1. UNCHANGED pending /\ Len(pending) < MaxPending
        BY <2>1, <2>3, <3>2 DEF CheckBackpressure, AtLimit
      <4>2. Pushing' \subseteq Sender
        BY DEF Pushing
      <4>3. Cardinality(Pushing') \in Nat /\ Cardinality(Pushing') <= Cardinality(Sender)
        BY <4>2, SenderAssumption, FS_Subset, FS_CardinalityType
      <4> QED
        BY <2>1, <4>1, <4>3, PushingFinite DEF RoomTaken
    <3> QED
      BY <3>1, <3>2
  <2>4. ASSUME NEW s \in Sender, PushPending(s)
        PROVE  RoomTaken'
    <3>1. s \in Pushing /\ Pushing' = Pushing \ {s}
      BY <2>1, <2>4 DEF PushPending, Pushing
    <3>2. Cardinality(Pushing') = Cardinality(Pushing) - 1
      BY <3>1, PushingFinite, FS_RemoveElement
    <3>3. Len(pending') = Len(pending) + 1
      BY <2>4 DEF PushPending, TypeOK
    <3> QED
      BY <2>1, <3>2, <3>3, PushingFinite DEF RoomTaken
  <2>5. ASSUME NEW c \in Command, RemovePending(c)
        PROVE  RoomTaken'
    <3>1. Len(pending') \in Nat /\ Len(pending') <= Len(pending)
      BY <2>5, RemoveFirstProperties DEF RemovePending, WithoutEntry, TypeOK
    <3>2. Pushing' = Pushing
      BY <2>5 DEF RemovePending, Pushing
    <3> QED
      BY <2>2, <3>1, <3>2
  <2>6. CASE /\ UNCHANGED pending
             /\ \A s \in Sender : pc'[s] = "push" => pc[s] = "push"
    BY <2>1, <2>2, <2>6 DEF Pushing
  <2>7. \/ \E s \in Sender : CheckBackpressure(s) \/ PushPending(s)
        \/ \E c \in Command : RemovePending(c)
        \/ UNCHANGED <<pending, pc>>
        \/ \E s \in Sender : DeliverDirect(s) \/ \E c \in Command : SendCommand(s, c)
        \/ RestartApi
    BY DEF Next, SenderStep, ServerStep, AgentStep, vars, apiVars, agentVars, historyVars,
           ServerListen, FrameBeforeListen, ReceiveHeartbeat, ReceiveAck, Replay, ServerClose,
           Dial, SendHeartbeat, ReceiveCommand, CloseSession, FinishCommand, DisconnectAgent,
           RestartAgent
  <2>8. ASSUME NEW s \in Sender, DeliverDirect(s) \/ \E c \in Command : SendCommand(s, c)
        PROVE  RoomTaken'
    BY <2>1, <2>6, <2>8 DEF DeliverDirect, SendCommand
  <2>9. CASE RestartApi
    BY <2>1, <2>6, <2>9 DEF RestartApi
  <2>10. CASE UNCHANGED <<pending, pc>>
    BY <2>6, <2>10
  <2> QED
    BY <2>3, <2>4, <2>5, <2>7, <2>8, <2>9, <2>10
<1>3. TypeOK /\ RoomTaken => BackpressureBound
  <2> SUFFICES ASSUME TypeOK, RoomTaken
               PROVE  BackpressureBound
    OBVIOUS
  <2>1. Len(pending) \in Nat
    BY DEF TypeOK
  <2> QED
    BY <2>1, PushingFinite DEF RoomTaken, BackpressureBound
<1>4. QED
  BY <1>1, <1>2, <1>3, TypeCorrect, PTL DEF Spec

-----------------------------------------------------------------------------
(***************************************************************************)
(* AgentSession: how far a session's goroutines can get in each other's    *)
(* way, however many commands are being executed.                          *)
(***************************************************************************)

\* The variables keep their types through every step of RunContext, of the
\* read loop, of the ack goroutines and of the server.
THEOREM SessionTypeCorrect == SessionSpec => []SessionTypeOK
<1> USE DEF SessionTypeOK, Writing, Error, Empty, ServerState
<1>1. SessionInit => SessionTypeOK
  BY DEF SessionInit
<1>2. SessionTypeOK /\ [SessionNext]_sessionVars => SessionTypeOK'
  <2> SUFFICES ASSUME SessionTypeOK, [SessionNext]_sessionVars
               PROVE  SessionTypeOK'
    OBVIOUS
  <2>1. CASE Main
    BY <2>1 DEF Main, DialFails, StartSession, Write, NextWrite, WriteFails, Tick,
                ReceiveError, Cleanup, Leave, WakeUp, connection
  <2>2. CASE Reader
    BY <2>2 DEF Reader, CheckContext, ReadCommand, ReadRejection, ReadFails,
                PostReadError, PostOrDrop, connection
  <2>3. CASE FinishExecution
    BY <2>3 DEF FinishExecution, PostOrDrop, connection
  <2>4. CASE Server
    BY <2>4 DEF Server, AcceptAgent, Reject, DeliverCommand, EndConnection
  <2>5. CASE UNCHANGED sessionVars
    BY <2>5 DEF sessionVars
  <2> QED
    BY <2>1, <2>2, <2>3, <2>4, <2>5 DEF SessionNext
<1>3. QED
  BY <1>1, <1>2, PTL DEF SessionSpec

-----------------------------------------------------------------------------
\* Which error can be where: the read loop's own error is in the channel only
\* once the loop is over, a rejection only once one has been read, and the
\* error of a write of runSession never.
ErrorOrigins ==
  /\ errCh = "closed" => reader = "done"
  /\ errCh = "permanent" => server = "rejected"
  /\ errCh # "write"
  /\ result = "permanent" => server = "rejected"
  /\ main = "exited" => server = "rejected"

IInv == NoReaderLeft /\ ErrorOrigins

\* The invariant holds at the start and through every step.
LEMMA Inductive == SessionSpec => []IInv
<1> USE DEF IInv, NoReaderLeft, ErrorOrigins, Empty
<1>1. SessionInit => IInv
  BY DEF SessionInit
<1>2. SessionTypeOK /\ IInv /\ [SessionNext]_sessionVars => IInv'
  <2> SUFFICES ASSUME SessionTypeOK, IInv, [SessionNext]_sessionVars
               PROVE  IInv'
    OBVIOUS
  <2> USE DEF connection
  <2>1. CASE DialFails \/ StartSession
    BY <2>1 DEF DialFails, StartSession
  <2>2. CASE Write \/ WriteFails \/ Tick \/ ReceiveError
    BY <2>2 DEF Write, Writing, NextWrite, WriteFails, Tick, ReceiveError
  <2>3. CASE Cleanup
    BY <2>3 DEF Cleanup, Ended
  <2>4. CASE Leave \/ WakeUp
    BY <2>4 DEF Leave, GivesUp, WakeUp
  <2>5. CASE Reader
    BY <2>5 DEF Reader, CheckContext, Cancelled, ReadCommand, ReadRejection, ReadFails,
                PostReadError, PostOrDrop
  <2>6. CASE FinishExecution
    BY <2>6 DEF FinishExecution, PostOrDrop
  <2>7. CASE Server
    BY <2>7 DEF Server, AcceptAgent, Reject, DeliverCommand, EndConnection, Ended
  <2>8. CASE UNCHANGED sessionVars
    BY <2>8 DEF sessionVars
  <2> QED
    BY <2>1, <2>2, <2>3, <2>4, <2>5, <2>6, <2>7, <2>8 DEF SessionNext, Main
<1>3. QED
  BY <1>1, <1>2, SessionTypeCorrect, PTL DEF SessionSpec

\* RunContext dials again, or returns, only when the read loop of the session
\* it leaves is over.
THEOREM ReaderEndsWithSession == SessionSpec => []NoReaderLeft
<1>1. IInv => NoReaderLeft
  BY DEF IInv
<1> QED
  BY <1>1, Inductive, PTL

\* RunContext returns an error only after the server refused the token.
THEOREM GivesUpOnRejection == SessionSpec => []ExitsOnRejectionOnly
<1>1. IInv => ExitsOnRejectionOnly
  BY DEF IInv, ErrorOrigins, ExitsOnRejectionOnly
<1> QED
  BY <1>1, Inductive, PTL

\* When runSession waits for a read loop that waits for room in the channel,
\* the error of an ack or a rejection is what fills it.
THEOREM OnlySecondErrorBlocks == SessionSpec => []BlockedBySecondError
<1>1. SessionTypeOK /\ IInv => BlockedBySecondError
  BY DEF SessionTypeOK, IInv, ErrorOrigins, BlockedBySecondError, Error
<1> QED
  BY <1>1, SessionTypeCorrect, Inductive, PTL

=============================================================================
