SPECIFICATION SerialSpec
CONSTANTS
  p1 = p1  p2 = p2  p3 = p3
  n1 = n1  n2 = n2  n3 = n3
  v1 = v1  v2 = v2  v3 = v3
  g1 = g1  w1 = w1  w2 = w2
  Ports = {p1, p2, p3}
  Nets = {n1, n2}
  Vms = {v1, v2, v3}
  Groups = {g1}
  NetOf <- NetOf21
  VmOf <- VmOf123
  GroupsOf <- GroupsOf123
  Kinds = {"create_port", "bind_port", "unbind_port", "delete_port", "attach", "detach", "update_sg", "update_router"}
  InitPorts = {p1, p3}
  Warm = TRUE
  MaxReq = 5
  Workers = {w1}
  Named = {v1, v2, v3}
  Distributed = TRUE
  L2Pop = TRUE
  MaxCut = 0
  Crashes = FALSE
INVARIANTS Complete SecurityGroupsCurrent
