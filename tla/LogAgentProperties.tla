------------------------- MODULE LogAgentProperties -------------------------
(* What the distribution of Neutron's tables to the VMs has to guarantee.  *)
EXTENDS LogAgent

(* The deployment most properties are about: a VM holds one port.          *)
OnePortPerVm == \A p, q \in Ports : VmOf[p] = VmOf[q] => p = q

(* Every bound port a VM holds comes with the tunnel to reach it, at every  *)
(* moment: whatever other workers, requests, lost sends and aborted deletes *)
(* do in between.  It is why to_db lists ports before chassis (a delete that*)
(* stops half way keeps the tunnel longer than the port) and why            *)
(* PortUpdateAction sends the chassis together with the port.               *)
TunnelKnown ==
  \A v \in Vms : \A q \in Bound(vm[v].lport) : VmOf[q] \in vm[v].chassis

(* Once a VM is announced as a tunnel endpoint (the last step of            *)
(* PortUpdateAction), its own port and its own network's switch never leave *)
(* its database: no update, apply or interface detach running anywhere      *)
(* removes them.                                                            *)
OwnPortKept ==
  \A p \in Ports : VmOf[p] \in endpoints =>
    p \in Present(vm[VmOf[p]].lport) /\ NetOf[p] \in vm[VmOf[p]].lswitch

(* With one worker that does not die, no VM ever goes back to an older      *)
(* version of a port or of a security group, although a handler sends what  *)
(* it read many steps ago and a message may be executed long after its      *)
(* sender gave up: the socket that timed out accepts nothing newer.         *)
VersionsMonotone ==
  [][\A v \in Vms :
       /\ \A q \in Present(vm'[v].lport) :
            vm'[v].lport[q].ver >= vm[v].lport[q].ver
       /\ \A g \in Groups :
            vm'[v].secgroup[g] = 0 \/ vm'[v].secgroup[g] >= vm[v].secgroup[g]
    ]_vars

Routed(p, q) == Distributed /\ up /\ {NetOf[p], NetOf[q]} \subseteq legs

(* When all is handled, the VM of a bound port holds the committed state of *)
(* every bound port it can reach, the tunnel, the switch and, across        *)
(* networks, a router with both interfaces: what all the handlers together  *)
(* are for.                                                                 *)
Complete ==
  Quiet => \A p, q \in Bound(port) :
    NetOf[p] = NetOf[q] \/ Routed(p, q) =>
      LET db == vm[VmOf[p]]
      IN  /\ db.lport[q] = port[q]
          /\ VmOf[q] \in db.chassis
          /\ NetOf[q] \in db.lswitch
          /\ NetOf[p] # NetOf[q] =>
               \E r \in db.lrouter : {NetOf[p], NetOf[q]} \subseteq r

(* When all is handled, the VM of a bound port holds the current rules of   *)
(* the port's security groups, whether SecurityGroupUpdateAction or the     *)
(* apply of PortUpdateAction brought them.                                  *)
SecurityGroupsCurrent ==
  Quiet => \A p \in Bound(port) : \A g \in GroupsOf[p] :
    vm[VmOf[p]].secgroup[g] = rules[g]

(* When all is handled, a VM holds no port of a network that is not routed  *)
(* to its own: the read access the VM is meant to have, and what a detach   *)
(* is to restore.                                                           *)
Isolated ==
  Quiet => \A p \in Bound(port) : \A q \in Present(vm[VmOf[p]].lport) :
    NetOf[p] = NetOf[q] \/ {NetOf[p], NetOf[q]} \subseteq legs

(* Every cast is taken by some worker and its handler ends, also when sends *)
(* time out and sockets refuse to send.                                     *)
LogsDrain ==
  \A i \in 1..MaxReq :
    (\E t \in logs : t.id = i) ~>
      /\ \A t \in logs : t.id # i
      /\ \A w \in Workers : job[w].log.id # i
=============================================================================
