SPECIFICATION PerVmSpec
CONSTANTS
  p1 = p1
  p2 = p2
  p3 = p3
  v1 = v1
  v2 = v2
  none = none
  t1 = t1
  t2 = t2
  t3 = t3
  Ports = {p1, p2, p3}
  Vms = {v1, v2}
  NoVm = none
  Threads = {t1, t2}
  Kinds = {"create", "update", "touch", "delete"}
  Faulty = FALSE
  MaxReq = 4
INVARIANTS
  AllPortsPlugged
SYMMETRY ThreadSymmetry
