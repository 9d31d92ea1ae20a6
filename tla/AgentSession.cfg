SPECIFICATION FairSessionSpec
CONSTANT MaxCommands = 2
INVARIANTS
  NoReaderLeft
  ExitsOnRejectionOnly
  BlockedBySecondError
PROPERTY SessionEndIsFollowedUp
CHECK_DEADLOCK FALSE
