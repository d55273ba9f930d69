----------------------------- MODULE MCLogAgent -----------------------------
(* Small instances of the log agent for TLC.                               *)
EXTENDS LogAgentProperties, TLC

CONSTANTS p1, p2, p3, n1, n2, n3, v1, v2, v3, g1, w1, w2

(* Two networks: two ports on the first, one on the second, a VM each.     *)
NetOf21 == (p1 :> n1) @@ (p2 :> n1) @@ (p3 :> n2)

(* Three networks with a port each.                                        *)
NetOf111 == (p1 :> n1) @@ (p2 :> n2) @@ (p3 :> n3)

NetOf11 == (p1 :> n1) @@ (p2 :> n2)

VmOf123 == (p1 :> v1) @@ (p2 :> v2) @@ (p3 :> v3)

VmOf12 == (p1 :> v1) @@ (p2 :> v2)

(* One VM with a port on each of two networks.                             *)
VmOf11 == (p1 :> v1) @@ (p2 :> v1)

(* The first two ports are in the security group.                          *)
GroupsOf123 == (p1 :> {g1}) @@ (p2 :> {g1}) @@ (p3 :> {})

GroupsOf12 == (p1 :> {g1}) @@ (p2 :> {})

(* No security groups.                                                     *)
GroupsOf0 == [p \in Ports |-> {}]

WorkerSymmetry == Permutations(Workers)
=============================================================================
