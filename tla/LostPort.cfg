SPECIFICATION Spec
CONSTANTS
  p1 = p1
  p2 = p2
  p3 = p3
  v1 = v1
  v2 = v2
  none = none
  t1 = t1
  t2 = t2
  t3 = t3
  Ports = {p1, p2}
  Vms = {v1}
  NoVm = none
  Threads = {t1, t2}
  Kinds = {"create"}
  Faulty = FALSE
  MaxReq = 2
INVARIANTS
  AllPortsPlugged
