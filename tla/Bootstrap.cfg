SPECIFICATION FairBootSpec
CONSTANTS
  Database = {db1, db2}
  Handler = {h1, h2}
  Used = {"settings", "credentials", "registry"}
  MaxFaults = 1
INVARIANTS
  ConfiguredIsSeeded
  StoresAgree
PROPERTY BootPublishes
CHECK_DEADLOCK FALSE
