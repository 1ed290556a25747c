SPECIFICATION Spec
CONSTANTS
  r1 = r1
  r2 = r2
  r3 = r3
  e1 = e1
  e2 = e2
  t1 = t1
  t2 = t2
  s1 = s1
  Null = Null
  Requests = {r1, r2, r3}
  Equipment = {e1, e2}
  Technicians = {t1, t2}
  Sites = {s1}
  SiteOf <- SiteOf1
  LabelOf <- SharedLabels
  Hours <- Hours1
  InitialRows <- InitialRows2
  Scrapes = {p1, p2}
  Crews <- Crews1
  Interval = 1
  MttrLimit = 1
  MaxChanges = 1
  MaxFaults = 1
  MaxReaders = 2
PROPERTY
  EveryLoadShown
