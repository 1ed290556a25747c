SPECIFICATION FairContainerSpec
CONSTANTS
  Conns = {c1, c2}
  MaxAttempts = 2
  ForceAfter = 3
  Grace = 1
  MaxFaults = 2
INVARIANTS
  PoolOutlivesClients
  SuccessIsClean
  ContainerTypeOK
  MetaIsTrue
  LaunchedComplete
PROPERTIES
  NeverResurrected
  StopsEventually
  ConnectsOrGivesUp
  LaunchesUnlessWedged
