SPECIFICATION SerialSpec
CONSTANTS
  p1 = p1  p2 = p2  p3 = p3
  n1 = n1  n2 = n2  n3 = n3
  v1 = v1  v2 = v2  v3 = v3
  g1 = g1  w1 = w1  w2 = w2
  Ports = {p1, p2, p3}
  Nets = {n1, n2, n3}
  Vms = {v1, v2, v3}
  Groups = {}
  NetOf <- NetOf111
  VmOf <- VmOf123
  GroupsOf <- GroupsOf0
  Kinds = {"bind_port", "attach", "detach"}
  InitPorts = {p1, p2, p3}
  Warm = FALSE
  MaxReq = 7
  Workers = {w1}
  Named = {v1, v2, v3}
  Distributed = TRUE
  L2Pop = FALSE
  MaxCut = 0
  Crashes = FALSE
INVARIANTS Complete Isolated
