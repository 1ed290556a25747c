SPECIFICATION ContainerSpec
CONSTANTS
  Conns = {c1}
  MaxAttempts = 2
  ForceAfter = 3
  Grace = 1
  MaxFaults = 1
INVARIANTS
  SkippedMeansApplied
