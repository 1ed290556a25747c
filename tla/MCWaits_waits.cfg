SPECIFICATION FairSpec
CONSTANTS
  t1 = t1
  t2 = t2
  p1 = p1
  Procs = {p1, p2, p3}
  Technicians = {t1, t2}
  Crews <- Crews1
  PoolMax = 2
INVARIANTS
  TypeOK
  CircleNeedsReplacement
  PoolMoves
  NoOrphans
PROPERTIES
  EveryCallAnswered
