SPECIFICATION Spec
CONSTANTS
  Conns = {c1}
  MaxAttempts = 2
  ForceAfter = 5
PROPERTIES
  NoAcceptWhileStopping
