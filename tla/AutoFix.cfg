SPECIFICATION FairFixSpec
CONSTANTS
  wrapper = wrapper
  cause = cause
  other = other
  web = web
  db = db
  Group = {wrapper, cause, other}
  Label = {web, db}
  LabelOf <- IncidentLabel
  Service = {s1, s2}
  Handler = {h1, h2}
  Command = {c1, c2}
  None = None
  MaxFaults = 1
INVARIANTS
  FixTypeOK
  OneFixPerService
  FixingIsLocked
PROPERTIES
  LockReleased
  FixEnds
CHECK_DEADLOCK FALSE
