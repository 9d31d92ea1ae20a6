SPECIFICATION FairSpec
CONSTANTS
  Command = {c1, c2}
  Connection = {k1, k2}
  Sender = {s1, s2}
  Heartbeat = Heartbeat
  None = None
  MaxPending = 1
  MaxSends = 2
  MaxRestarts = 1
INVARIANTS
  AtMostOncePerProcess
  AcceptedNotLost
  SessionUsable
PROPERTIES
  ImplementsDelivery
  QueuedIsReplayed
  ResultSettles
CHECK_DEADLOCK FALSE
