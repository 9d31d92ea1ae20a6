SPECIFICATION FairSpec
CONSTANTS
  Repository = {"agent", "site"}
  Forced = {"agent"}
  Admin = {"a1"}
  Reader = {"e1"}
  Job <- Jobs
  TTL = 2
  MaxRestarts = 1
PROPERTIES
  ServedOnRecentRight
  PermittedGetThrough
CHECK_DEADLOCK FALSE
