SPECIFICATION Spec
CONSTANTS
  base = base
  site = site
  Service = {base, site}
  Deployable <- SiteAndFirst
  Worker = {w1, w2}
  Poller = {p1}
  MaxCommits <- Two
  DependsAt <- SiteAddsBase
  MaxManual = 0
  MaxFaults = 1
SYMMETRY Symmetry
INVARIANTS
  TypeOK
  DependentsFresh
  DeployedIsNewest
  ClaimedOnce
CHECK_DEADLOCK FALSE
