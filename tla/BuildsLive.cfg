SPECIFICATION FairSpec
CONSTANTS
  base = base
  site = site
  Service = {base, site}
  Deployable <- SiteAndFirst
  Worker = {w1}
  Poller = {p1}
  MaxCommits <- SiteCommitsTwice
  DependsAt <- SiteDependsOnBase
  MaxManual = 1
  MaxFaults = 1
PROPERTIES
  BuildsEnd
  PushesArePolled
CHECK_DEADLOCK FALSE
