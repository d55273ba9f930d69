SPECIFICATION Spec
CONSTANTS
  p1 = p1  p2 = p2  p3 = p3
  n1 = n1  n2 = n2  n3 = n3
  v1 = v1  v2 = v2  v3 = v3
  g1 = g1  w1 = w1  w2 = w2
  Ports = {p1, p2}
  Nets = {n1, n2}
  Vms = {v1, v2}
  Groups = {g1}
  NetOf <- NetOf11
  VmOf <- VmOf12
  GroupsOf <- GroupsOf12
  Kinds = {"update_sg"}
  InitPorts = {p1, p2}
  Warm = TRUE
  MaxReq = 1
  Workers = {w1}
  Named = {v1, v2}
  Distributed = TRUE
  L2Pop = FALSE
  MaxCut = 0
  Crashes = FALSE
INVARIANTS SecurityGroupsCurrent
