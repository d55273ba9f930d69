SPECIFICATION FairSpec
CONSTANTS
  c1 = c1  c2 = c2  c3 = c3
  p1 = p1  p2 = p2
  v1 = v1  v2 = v2
  None = none
  Clients = {c1, c2, c3}
  Procs = {p1, p2}
  Vms = {v1, v2}
  ProcOf <- ProcOf112
  To <- To121
  Bulk = {c2}
  MaxTry = 3
INVARIANTS TypeOK
PROPERTIES RefinesRpc CutForGood CallsEnd
