SPECIFICATION FairSpec
CONSTANTS
  Tenant = {1, 2}
  Founded = {1, 2}
  Protected = {}
  Session = {"s1", "s2"}
  Enrollment = {"e1"}
  Credential = {"c1"}
  Request = {"r1", "r2"}
  MaxAsks = 2
  Mine = "s1"
INVARIANT ShownIsChosen
PROPERTIES
  SessionsKept
  DeadPassStaysOut
  SwitchesEnd
CHECK_DEADLOCK FALSE
