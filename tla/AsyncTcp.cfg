SPECIFICATION FairSpec
CONSTANTS
  c1 = c1  c3 = c3
  v1 = v1
  None = none
  Clients = {c1, c3}
  Vms = {v1}
  To <- To13
  Bulk = {c3}
  MaxTry = 3
  Size = 2
INVARIANTS TypeOK OnlyErrorsRepeat
PROPERTIES RefinesRpc CallsEnd
