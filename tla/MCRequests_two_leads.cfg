SPECIFICATION IsolatedSpec
CONSTANTS
  Procs = {p1, p2}
  Requests = {r1}
  Equipment = {e1}
  Technicians = {t1, t2}
  Null = Null
  Admin = Admin
  Unknown = Unknown
  MaxCrew = 1
  e1 = e1
  SeededRows <- NoSeeds
INVARIANTS
  AtMostOneLead
