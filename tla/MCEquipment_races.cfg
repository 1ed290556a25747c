SPECIFICATION Spec
CONSTANTS
  Procs = {p1, p2}
  Equipment = {e1, e2}
  Serials = {s1, s2}
  Values = {v1, v2}
  Null = Null
SYMMETRY SymAll
INVARIANTS
  TypeOK
  UniqueSerial
PROPERTIES
  NoLostUpdate
