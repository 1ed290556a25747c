SPECIFICATION IsolatedSpec
CONSTANTS
  Procs = {p1, p2}
  Users = {u1}
  Browsers = {b1}
  Tokens = {k1, k2, k3}
  MaxExpired = 1
  Null = Null
SYMMETRY SymAll
INVARIANTS
  OneSuccessor
