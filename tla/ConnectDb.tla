------------------------------ MODULE ConnectDb ------------------------------
(***************************************************************************)
(* The "connect db": the tables a bambuk VM keeps about the ports, switches,*)
(* chassis, router and security groups it may talk to, the entries the      *)
(* server builds for them (common/port_infos.py), and what the agent does   *)
(* with the entries it receives (agent/df).                                 *)
(*                                                                         *)
(* The value of an entry is abstracted to a version: how many committed     *)
(* changes of the Neutron object it reflects.  A message and a database     *)
(* have the same shape, so a message is a Db that holds only its entries.   *)
(***************************************************************************)
EXTENDS Naturals, FiniteSets

CONSTANTS Ports,      \* Neutron compute ports
          Nets,       \* networks, each with one subnet
          Vms,        \* VMs; one management address, host and chassis each
          Groups,     \* security groups
          NetOf,      \* the network of a port
          VmOf,       \* the VM a port is plugged in once it is bound
          GroupsOf    \* the security groups of a port

ASSUME TopologyAssumption ==
  /\ NetOf \in [Ports -> Nets]
  /\ VmOf \in [Ports -> Vms]
  /\ GroupsOf \in [Ports -> SUBSET Groups]

(* A port as Neutron, a snapshot or a VM holds it.  "bound" says that its   *)
(* binding:profile holds provider_ip and provider_mgnt_ip.                  *)
Lport == {r \in [ver : Nat, bound : BOOLEAN] : r.bound => r.ver > 0}

Absent == [ver |-> 0, bound |-> FALSE]

Table == [Ports -> Lport]

NoPorts == [p \in Ports |-> Absent]

Present(t) == {p \in Ports : t[p].ver > 0}

Bound(t) == {p \in Ports : t[p].bound}

NoRules == [g \in Groups |-> 0]

(* lrouter holds at most one element, the networks of the router's ports.  *)
Db == [lport    : Table,
       lswitch  : SUBSET Nets,
       chassis  : SUBSET Vms,
       lrouter  : SUBSET (SUBSET Nets),
       secgroup : [Groups -> Nat]]

EmptyDb == [lport |-> NoPorts, lswitch |-> {}, chassis |-> {},
            lrouter |-> {}, secgroup |-> NoRules]
-----------------------------------------------------------------------------
(* What the server reads and sends.                                        *)

(* The ports of table t that are on network n.                             *)
NetworkPorts(t, n) == {p \in Present(t) : NetOf[p] = n}

(* The VMs that hold the bound ports of a snapshot.                        *)
VmsOf(snap, exclude) == {VmOf[p] : p \in Bound(snap) \ exclude}

(* The tunnels of the bound ports of a snapshot, one chassis per VM.       *)
Chassis(snap) == {VmOf[p] : p \in Bound(snap)}

(* The chassis that the endpoints of a snapshot list more than once.       *)
ChassisTwice(snap) ==
  {v \in Vms : \E p, q \in Bound(snap) : p # q /\ VmOf[p] = v /\ VmOf[q] = v}

(* BambukPortInfo(None, ports, endpoints, router, router_ports).to_db()    *)
ToDb(snap, topo, router) ==
  [lport    |-> snap,
   lswitch  |-> topo,
   chassis  |-> Chassis(snap),
   lrouter  |-> IF router THEN {topo} ELSE {},
   secgroup |-> NoRules]

(* Mutant of PortToDb: the security groups are forgotten.                  *)
PortToDbNoGroups(p, snap, topo, router, rules) ==
  [ToDb(snap, topo, router) EXCEPT !.lswitch = topo \cup {NetOf[p]}]

(* BambukPortInfo(port, ...).to_db(): also the port's switch and the rules *)
(* its security groups have when the info is built.                        *)
PortToDb(p, snap, topo, router, rules) ==
  [ToDb(snap, topo, router) EXCEPT
     !.lswitch  = topo \cup {NetOf[p]},
     !.secgroup = [g \in Groups |-> IF g \in GroupsOf[p] THEN rules[g] ELSE 0]]

(* Mutant of PortDb: the chassis entry has the port's id for its key.      *)
PortDbByPort(p, snap) ==
  [EmptyDb EXCEPT !.lport   = [NoPorts EXCEPT ![p] = snap[p]],
                  !.chassis = {p}]

(* port_db() followed by chassis_db(db, [lport['chassis']]).               *)
PortDb(p, snap) ==
  [EmptyDb EXCEPT
     !.lport   = [NoPorts EXCEPT ![p] = snap[p]],
     !.chassis = Chassis(snap) \cap {VmOf[p]}]

(* The single secgroup entry of a security group update.                   *)
SecGroupDb(g, ver) == [EmptyDb EXCEPT !.secgroup = [NoRules EXCEPT ![g] = ver]]
-----------------------------------------------------------------------------
(* What the agent does with a message.                                     *)

(* apply: clear_all, then create every entry.                              *)
ApplyDb(db, m) == m

(* update: set every entry of the message.                                 *)
UpdateDb(db, m) ==
  [lport    |-> [p \in Ports |->
                   IF p \in Present(m.lport) THEN m.lport[p] ELSE db.lport[p]],
   lswitch  |-> db.lswitch \cup m.lswitch,
   chassis  |-> db.chassis \cup m.chassis,
   lrouter  |-> IF m.lrouter = {} THEN db.lrouter ELSE m.lrouter,
   secgroup |-> [g \in Groups |->
                   IF m.secgroup[g] > 0 THEN m.secgroup[g] ELSE db.secgroup[g]]]

(* A database without some of its entries.                                 *)
Remove(db, ports, switches, chassis, router) ==
  [lport    |-> [p \in Ports |-> IF p \in ports THEN Absent ELSE db.lport[p]],
   lswitch  |-> db.lswitch \ switches,
   chassis  |-> db.chassis \ chassis,
   lrouter  |-> IF router THEN {} ELSE db.lrouter,
   secgroup |-> db.secgroup]

(* Mutant of DeleteDb: the chassis entries go first.                       *)
DeleteDbChassisFirst(db, m) ==
  {Remove(db, P, {}, m.chassis, FALSE) :
     P \in SUBSET (Present(m.lport) \cap Present(db.lport))}

(* delete, with the BSD driver: the entries go in the order of to_db, and  *)
(* the first key the table does not hold raises: the entries after it stay *)
(* and nothing is undone.  The order inside a table is the order of the    *)
(* server's queries, so what was removed before the missing key is any     *)
(* subset of the table's entries.  The outcomes, as a set of databases.    *)
DeleteDb(db, m) ==
  LET ports    == Present(m.lport)
      held     == ports \cap Present(db.lport)
      switches == m.lswitch \cap db.lswitch
      chassis  == m.chassis \cap db.chassis
      twice    == ChassisTwice(m.lport)
      known    == m.chassis \subseteq db.chassis
  IN  IF held # ports
      THEN {Remove(db, P, {}, {}, FALSE) : P \in SUBSET held}
      ELSE IF switches # m.lswitch
      THEN {Remove(db, ports, S, {}, FALSE) : S \in SUBSET switches}
      ELSE IF ~known \/ twice # {}
      THEN {Remove(db, ports, switches, C, FALSE) :
              C \in {D \in SUBSET chassis : ~known \/ D \cap twice # {}}}
      ELSE {Remove(db, ports, switches, chassis, m.lrouter # {})}
=============================================================================
