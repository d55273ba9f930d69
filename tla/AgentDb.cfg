SPECIFICATION Spec
CONSTANTS
  e1 = e1  e2 = e2  e3 = e3
  lport = lport  chassis = chassis
  NoVal = none
  Entries = {e1, e2, e3}
  Vals = {1, 2}
  MaxKeys = 3
  Tables = {lport, chassis}
  TableOf <- TableOf21
INVARIANTS TypeOK CopiesAgree
PROPERTIES RefinesStore
