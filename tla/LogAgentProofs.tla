--------------------------- MODULE LogAgentProofs ---------------------------
(* Proofs about the log agent, for any topology and any number of workers.  *)
EXTENDS LogAgentProperties, TLAPS
-----------------------------------------------------------------------------
(* Types of the operators on databases and messages.                       *)

LEMMA EmptyType == Absent \in Lport /\ NoPorts \in Table /\ EmptyDb \in Db
  <1>1. Absent \in Lport
    BY DEF Absent, Lport
  <1>2. NoPorts \in Table
    BY <1>1 DEF NoPorts, Table
  <1>3. NoRules \in [Groups -> Nat]
    BY DEF NoRules
  <1> QED  BY <1>1, <1>2, <1>3 DEF EmptyDb, Db

LEMMA VmsOfType == ASSUME NEW s, NEW ex PROVE VmsOf(s, ex) \subseteq Vms
  BY TopologyAssumption DEF VmsOf, Bound

LEMMA ChassisType == ASSUME NEW s PROVE Chassis(s) \subseteq Vms
  BY TopologyAssumption DEF Chassis, Bound

LEMMA ToDbType ==
  ASSUME NEW s \in Table, NEW topo \in SUBSET Nets, NEW r \in BOOLEAN
  PROVE  ToDb(s, topo, r) \in Db
  <1>1. NoRules \in [Groups -> Nat]
    BY DEF NoRules
  <1>2. (IF r THEN {topo} ELSE {}) \in SUBSET (SUBSET Nets)
    OBVIOUS
  <1> QED  BY <1>1, <1>2, ChassisType DEF ToDb, Db

LEMMA PortToDbType ==
  ASSUME NEW p \in Ports, NEW s \in Table, NEW topo \in SUBSET Nets,
         NEW r \in BOOLEAN, NEW rul \in [Groups -> Nat]
  PROVE  PortToDb(p, s, topo, r, rul) \in Db
  <1>1. ToDb(s, topo, r) \in Db
    BY ToDbType
  <1>2. topo \cup {NetOf[p]} \subseteq Nets
    BY TopologyAssumption
  <1>3. [g \in Groups |-> IF g \in GroupsOf[p] THEN rul[g] ELSE 0]
           \in [Groups -> Nat]
    OBVIOUS
  <1> QED  BY <1>1, <1>2, <1>3 DEF PortToDb, Db

LEMMA PortDbType ==
  ASSUME NEW p \in Ports, NEW s \in Table
  PROVE  PortDb(p, s) \in Db
  <1>1. [NoPorts EXCEPT ![p] = s[p]] \in Table
    BY EmptyType DEF Table
  <1> QED  BY <1>1, EmptyType, ChassisType DEF PortDb, Db

LEMMA SecGroupDbType ==
  ASSUME NEW g \in Groups, NEW n \in Nat
  PROVE  SecGroupDb(g, n) \in Db
  <1>1. [NoRules EXCEPT ![g] = n] \in [Groups -> Nat]
    BY DEF NoRules
  <1> QED  BY <1>1, EmptyType DEF SecGroupDb, Db

LEMMA UpdateDbType ==
  ASSUME NEW db \in Db, NEW m \in Db
  PROVE  UpdateDb(db, m) \in Db
  <1>1. [p \in Ports |-> IF p \in Present(m.lport) THEN m.lport[p]
                                                   ELSE db.lport[p]] \in Table
    BY DEF Db, Table
  <1>2. [g \in Groups |-> IF m.secgroup[g] > 0 THEN m.secgroup[g]
                                               ELSE db.secgroup[g]]
           \in [Groups -> Nat]
    BY DEF Db
  <1> QED  BY <1>1, <1>2 DEF UpdateDb, Db

LEMMA RemoveFields ==
  ASSUME NEW db \in Db, NEW P, NEW S, NEW C, NEW r \in BOOLEAN
  PROVE  /\ Remove(db, P, S, C, r) \in Db
         /\ \A p \in Ports : Remove(db, P, S, C, r).lport[p]
                               = IF p \in P THEN Absent ELSE db.lport[p]
         /\ Remove(db, P, S, C, r).lswitch = db.lswitch \ S
         /\ Remove(db, P, S, C, r).chassis = db.chassis \ C
         /\ Remove(db, P, S, C, r).secgroup = db.secgroup
  <1> DEFINE t == [p \in Ports |-> IF p \in P THEN Absent ELSE db.lport[p]]
             l == IF r THEN {} ELSE db.lrouter
  <1>1. t \in Table
    BY EmptyType DEF Db, Table
  <1>2. l \in SUBSET (SUBSET Nets)
    BY DEF Db
  <1>3. \A p \in Ports : t[p] = IF p \in P THEN Absent ELSE db.lport[p]
    OBVIOUS
  <1>4. Remove(db, P, S, C, r)
          = [lport |-> t, lswitch |-> db.lswitch \ S, chassis |-> db.chassis \ C,
             lrouter |-> l, secgroup |-> db.secgroup]
    BY DEF Remove
  <1> HIDE DEF t, l
  <1> QED  BY <1>1, <1>2, <1>3, <1>4 DEF Db

(* What a delete leaves is the database without some ports of the message,  *)
(* some switches of the message and, only once all its ports are gone, some *)
(* chassis of the message: the order of to_db.                              *)
LEMMA DeleteDbShape ==
  ASSUME NEW db \in Db, NEW m \in Db, NEW d \in DeleteDb(db, m)
  PROVE  /\ d \in Db
         /\ \A p \in Ports : \/ d.lport[p] = db.lport[p]
                             \/ (d.lport[p] = Absent /\ p \in Present(m.lport))
         /\ d.lswitch \subseteq db.lswitch
         /\ db.lswitch \ m.lswitch \subseteq d.lswitch
         /\ d.chassis \subseteq db.chassis
         /\ \/ d.chassis = db.chassis
            \/ /\ db.chassis \ m.chassis \subseteq d.chassis
               /\ \A p \in Present(m.lport) : d.lport[p] = Absent
         /\ d.secgroup = db.secgroup
  <1> DEFINE ports == Present(m.lport)
  <1>1. \E P \in SUBSET ports, S \in SUBSET m.lswitch, C \in SUBSET m.chassis,
           r \in BOOLEAN :
          d = Remove(db, P, S, C, r) /\ (C = {} \/ P = ports)
    <2> DEFINE held     == ports \cap Present(db.lport)
               switches == m.lswitch \cap db.lswitch
               chassis  == m.chassis \cap db.chassis
    <2>1. CASE \E P \in SUBSET held : d = Remove(db, P, {}, {}, FALSE)
      BY <2>1
    <2>2. CASE \E S \in SUBSET switches : d = Remove(db, ports, S, {}, FALSE)
      BY <2>2
    <2>3. CASE \E C \in SUBSET chassis : d = Remove(db, ports, switches, C, FALSE)
      BY <2>3
    <2>4. CASE d = Remove(db, ports, switches, chassis, m.lrouter # {})
      BY <2>4
    <2> QED  BY <2>1, <2>2, <2>3, <2>4 DEF DeleteDb
  <1>2. PICK P \in SUBSET ports, S \in SUBSET m.lswitch, C \in SUBSET m.chassis,
             r \in BOOLEAN :
          d = Remove(db, P, S, C, r) /\ (C = {} \/ P = ports)
    BY <1>1
  <1>3. /\ d \in Db
        /\ \A p \in Ports : d.lport[p] = IF p \in P THEN Absent ELSE db.lport[p]
        /\ d.lswitch = db.lswitch \ S
        /\ d.chassis = db.chassis \ C
        /\ d.secgroup = db.secgroup
    BY <1>2, RemoveFields
  <1>4. ports \subseteq Ports
    BY DEF Present
  <1>5. C = {} => d.chassis = db.chassis
    BY <1>3
  <1> QED  BY <1>2, <1>3, <1>4, <1>5
-----------------------------------------------------------------------------
(* Type correctness.                                                       *)

(* A handler is at a step of the class of its log, so that the object of    *)
(* the log is what the step takes it for.                                   *)
JobOK(j) ==
  /\ j.pc \in PortSteps => j.log.kind \in PortKinds
  /\ j.pc \in DetachSteps => j.log.kind = "detach"
  /\ j.pc = "sg" => j.log.kind = "update_sg"
  /\ j.pc = "router_update" => j.log.kind = "update_router"
  /\ j.pc = "attach" => j.log.kind \in {"attach", "update_router"}

TypeInv == TypeOK /\ \A w \in Workers : JobOK(job[w])

LEMMA LogObject ==
  ASSUME NEW t \in Request \cup {NoLog}
  PROVE  /\ t.kind \in PortKinds => t.obj \in Ports
         /\ t.kind \in LegKinds => t.obj \in Nets
         /\ t.kind = "update_sg" => t.obj \in Groups
  BY DEF Request, NoLog, ObjectsOf, PortKinds, LegKinds, AllKinds

LEMMA IdleType == IdleJob \in Job /\ JobOK(IdleJob)
  <1>1. IdleJob \in Job
    BY EmptyType DEF IdleJob, Job, Steps
  <1>2. JobOK(IdleJob)
    BY DEF JobOK, IdleJob, PortSteps, DetachSteps
  <1> QED  BY <1>1, <1>2

LEMMA GotoType ==
  ASSUME TypeInv, NEW w \in Workers, NEW j \in Job, JobOK(j), Goto(w, j)
  PROVE  job' \in [Workers -> Job] /\ \A x \in Workers : JobOK(job'[x])
  <1>1. job \in [Workers -> Job]
    BY DEF TypeInv, TypeOK
  <1>2. job' \in [Workers -> Job] /\ \A x \in Workers : job'[x] = IF x = w THEN j ELSE job[x]
    BY <1>1 DEF Goto
  <1>3. \A x \in Workers : JobOK(job[x])
    BY DEF TypeInv
  <1> QED  BY <1>2, <1>3, Zenon

LEMMA LocalType ==
  ASSUME TypeInv, NEW w \in Workers, NEW j \in Job, JobOK(j), Goto(w, j), Local
  PROVE  TypeInv'
  <1>1. job' \in [Workers -> Job] /\ \A x \in Workers : JobOK(job'[x])
    BY GotoType
  <1> QED  BY <1>1 DEF TypeInv, TypeOK, ApiTypeOK, Local

(* What a send that raises leaves behind.                                  *)
LEMMA GivesUpType ==
  ASSUME TypeInv, NEW w \in Workers, NEW v \in Vms, NEW sent \in SUBSET Msg,
         GivesUp(w, v, sent)
  PROVE  late' \subseteq Msg /\ cut' \subseteq Workers \X Vms
  BY DEF TypeInv, TypeOK, GivesUp

LEMMA MessageType ==
  ASSUME TypeInv, NEW w \in Workers, NEW v \in Vms,
         NEW op \in {"apply", "update", "delete"}, NEW db \in Db
  PROVE  Message(w, v, op, db) \in Msg
  <1>1. job[w].log \in Request \cup {NoLog}
    BY DEF TypeInv, TypeOK, Job
  <1>2. job[w].log.id \in Nat
    BY <1>1 DEF Request, NoLog
  <1> QED  BY <1>2 DEF Message, Msg

LEMMA ExecutedType ==
  ASSUME NEW db \in Db, NEW m \in Msg, NEW d \in Executed(db, m)
  PROVE  d \in Db
  <1>1. m.db \in Db /\ m.op \in {"apply", "update", "delete"}
    BY DEF Msg
  <1>2. CASE m.op = "apply"
    BY <1>1, <1>2 DEF Executed, ApplyDb
  <1>3. CASE m.op = "update"
    BY <1>1, <1>3, UpdateDbType DEF Executed
  <1>4. CASE m.op = "delete"
    <2>1. d \in DeleteDb(db, m.db)
      BY <1>4 DEF Executed
    <2> QED  BY <1>1, <2>1, DeleteDbShape
  <1> QED  BY <1>1, <1>2, <1>3, <1>4

LEMMA HandleType ==
  ASSUME TypeInv, NEW w \in Workers, Handle(w)
  PROVE  TypeInv'
  <1> DEFINE j == job[w]
  <1>0. /\ j \in Job /\ JobOK(j)
        /\ port \in Table /\ legs \subseteq Nets /\ rules \in [Groups -> Nat]
        /\ vm \in [Vms -> Db] /\ agents \subseteq Vms /\ endpoints \subseteq Vms
    BY DEF TypeInv, TypeOK, ApiTypeOK
  <1>a. /\ j.log.kind \in PortKinds => Obj(w) \in Ports /\ NetOf[Obj(w)] \in Nets
                                        /\ VmOf[Obj(w)] \in Vms
        /\ j.log.kind \in LegKinds => Obj(w) \in Nets
        /\ j.log.kind = "update_sg" => Obj(w) \in Groups
    <2>1. j.log \in Request \cup {NoLog}
      BY <1>0 DEF Job
    <2> QED  BY <2>1, LogObject, TopologyAssumption DEF Obj
  <1>1. CASE GetPort(w)
    <2>1. [j EXCEPT !.pc = "routers"] \in Job /\ JobOK([j EXCEPT !.pc = "routers"])
      BY <1>0, <1>1 DEF Job, JobOK, Steps, PortSteps, DetachSteps, GetPort, At
    <2> QED  BY <1>1, <2>1, IdleType, LocalType DEF GetPort, Finish
  <1>2. CASE GetRoutersForNet(w)
    <2> DEFINE a == [j EXCEPT !.router = TRUE, !.pc = "router_ports"]
               b == [j EXCEPT !.todo = {NetOf[Obj(w)]}, !.pc = "network_ports"]
    <2>1. a \in Job /\ JobOK(a)
      BY <1>0, <1>2 DEF Job, JobOK, Steps, PortSteps, DetachSteps, GetRoutersForNet, At
    <2>2. NetOf[Obj(w)] \in Nets
      BY <1>0, <1>2, <1>a DEF GetRoutersForNet, At, JobOK, PortSteps
    <2>3. b \in Job /\ JobOK(b)
      BY <1>0, <1>2, <2>2 DEF Job, JobOK, Steps, PortSteps, DetachSteps, GetRoutersForNet, At
    <2> QED  BY <1>2, <2>1, <2>3, LocalType DEF GetRoutersForNet
  <1>3. CASE GetPortsFromRouter(w)
    <2> DEFINE found == IF Distributed THEN legs ELSE {}
               topo  == IF j.log.kind = "detach" THEN found \ {Obj(w)} ELSE found
               own   == IF j.log.kind \in PortKinds THEN {NetOf[Obj(w)]} ELSE {}
               a == [j EXCEPT !.topo = topo, !.todo = topo \cup own,
                              !.pc = "network_ports"]
    <2>1. topo \subseteq Nets /\ own \subseteq Nets
      BY <1>0, <1>a
    <2>2. Goto(w, a) /\ Local
      BY <1>3 DEF GetPortsFromRouter
    <2>3. a \in Job /\ JobOK(a)
      <3> HIDE DEF topo, own
      <3> QED  BY <1>0, <2>1 DEF Job, JobOK, Steps, PortSteps, DetachSteps
    <2> QED  BY <2>2, <2>3, LocalType
  <1>4. CASE GetNetworkPorts(w)
    <2> DEFINE s(n) == [p \in Ports |-> IF p \in NetworkPorts(port, n)
                                        THEN port[p] ELSE j.snap[p]]
               a(n) == [j EXCEPT !.todo = @ \ {n}, !.snap = s(n)]
    <2>1. PICK n \in j.todo : Goto(w, a(n))
      BY <1>4 DEF GetNetworkPorts
    <2>2. s(n) \in Table
      BY <1>0 DEF Job, Table
    <2>3. a(n) \in Job /\ JobOK(a(n))
      <3> HIDE DEF s
      <3> QED  BY <1>0, <1>4, <2>2 DEF Job, JobOK, Steps, PortSteps, DetachSteps, GetNetworkPorts, At
    <2> QED  BY <1>4, <2>1, <2>3, LocalType DEF GetNetworkPorts
  <1>5. CASE PortInfo(w)
    <2> DEFINE out  == PortDb(Obj(w), j.snap)
               dest == VmsOf(j.snap, {Obj(w)})
               info == PortToDb(Obj(w), j.snap, j.topo, j.router, rules)
               a == [j EXCEPT !.out = out, !.dest = dest, !.info = info,
                              !.pc = "update"]
    <2>1. Obj(w) \in Ports
      BY <1>5, <1>a DEF PortInfo
    <2>2. out \in Db /\ info \in Db /\ dest \subseteq Vms
      BY <1>0, <2>1, PortDbType, PortToDbType, VmsOfType DEF Job
    <2>3. a \in Job /\ JobOK(a)
      <3> HIDE DEF out, dest, info
      <3> QED  BY <1>0, <2>2 DEF Job, JobOK, Steps, PortSteps, DetachSteps
    <2> QED  BY <1>5, <2>3, IdleType, LocalType DEF PortInfo, Finish
  <1>6. CASE State(w)
    <2> DEFINE pc == IF L2Pop THEN "agent" ELSE "apply"
               a == [j EXCEPT !.pc = pc]
    <2>1. a \in Job /\ JobOK(a)
      BY <1>0, <1>6 DEF Job, JobOK, Steps, PortSteps, DetachSteps, State, At
    <2> QED  BY <1>6, <2>1, LocalType DEF State
  <1>7. CASE RegisterAgent(w)
    <2> DEFINE a == [j EXCEPT !.pc = "apply"]
    <2>1. a \in Job /\ JobOK(a)
      BY <1>0, <1>7 DEF Job, JobOK, Steps, PortSteps, DetachSteps, RegisterAgent, At
    <2>2. VmOf[Obj(w)] \in Vms
      BY <1>0, <1>7, <1>a DEF RegisterAgent, At, JobOK, PortSteps
    <2>3. agents' \subseteq Vms
      BY <1>0, <1>7, <2>2 DEF RegisterAgent
    <2>4. job' \in [Workers -> Job] /\ \A x \in Workers : JobOK(job'[x])
      BY <1>7, <2>1, IdleType, GotoType DEF RegisterAgent, Finish
    <2> QED  BY <1>7, <2>3, <2>4 DEF RegisterAgent, TypeInv, TypeOK, ApiTypeOK
  <1>8. CASE Apply(w)
    <2> DEFINE a == [j EXCEPT !.pc = "tunnel"]
    <2>1. a \in Job /\ JobOK(a)
      BY <1>0, <1>8 DEF Job, JobOK, Steps, PortSteps, DetachSteps, Apply, At
    <2>2. vm' \in [Vms -> Db]
      BY <1>0, <1>8 DEF Apply, ApplyDb, Job
    <2>3. job' \in [Workers -> Job] /\ \A x \in Workers : JobOK(job'[x])
      BY <1>8, <2>1, GotoType DEF Apply
    <2> QED  BY <1>8, <2>2, <2>3 DEF Apply, TypeInv, TypeOK, ApiTypeOK
  <1>9. CASE CallFails(w)
    <2> DEFINE v == VmOf[Obj(w)]
               sent == IF At(w, "apply") THEN {Message(w, v, "apply", j.info)} ELSE {}
    <2>1. v \in Vms
      BY <1>0, <1>9, <1>a DEF CallFails, At, JobOK, PortSteps
    <2>2. sent \in SUBSET Msg
      BY <1>0, <2>1, MessageType DEF Job
    <2>3. GivesUp(w, v, sent)
      BY <1>9 DEF CallFails
    <2>4. late' \subseteq Msg /\ cut' \subseteq Workers \X Vms
      <3> HIDE DEF v, sent
      <3> QED  BY <2>1, <2>2, <2>3, GivesUpType
    <2>5. job' \in [Workers -> Job] /\ \A x \in Workers : JobOK(job'[x])
      BY <1>9, IdleType, GotoType DEF CallFails, Finish
    <2> QED  BY <1>9, <2>4, <2>5 DEF CallFails, TypeInv, TypeOK, ApiTypeOK
  <1>10. CASE AddEndpoint(w)
    <2>1. VmOf[Obj(w)] \in Vms
      BY <1>0, <1>10, <1>a DEF AddEndpoint, At, JobOK, PortSteps
    <2>2. job' \in [Workers -> Job] /\ \A x \in Workers : JobOK(job'[x])
      BY <1>10, IdleType, GotoType DEF AddEndpoint, Finish
    <2> QED  BY <1>0, <1>10, <2>1, <2>2
             DEF AddEndpoint, TypeInv, TypeOK, ApiTypeOK
  <1>11. CASE BulkUpdate(w)
    <2> DEFINE a(v) == [j EXCEPT !.dest = @ \ {v}]
    <2>1. PICK v \in j.dest : /\ vm' = [vm EXCEPT ![v] = UpdateDb(@, j.out)]
                              /\ Goto(w, a(v))
      BY <1>11 DEF BulkUpdate
    <2>2. a(v) \in Job /\ JobOK(a(v))
      BY <1>0 DEF Job, JobOK, Steps, PortSteps, DetachSteps
    <2>3. v \in Vms /\ UpdateDb(vm[v], j.out) \in Db
      BY <1>0, UpdateDbType DEF Job
    <2>4. vm' \in [Vms -> Db]
      BY <1>0, <2>1, <2>3
    <2>5. job' \in [Workers -> Job] /\ \A x \in Workers : JobOK(job'[x])
      BY <2>1, <2>2, GotoType
    <2> QED  BY <1>11, <2>4, <2>5 DEF BulkUpdate, TypeInv, TypeOK, ApiTypeOK
  <1>12. CASE BulkDelete(w)
    <2> DEFINE a(v) == [j EXCEPT !.dest = @ \ {v}]
    <2>1. PICK v \in j.dest : /\ \E d \in DeleteDb(vm[v], j.out) :
                                   vm' = [vm EXCEPT ![v] = d]
                              /\ Goto(w, a(v))
      BY <1>12 DEF BulkDelete
    <2>2. a(v) \in Job /\ JobOK(a(v))
      BY <1>0 DEF Job, JobOK, Steps, PortSteps, DetachSteps
    <2>3. PICK d \in DeleteDb(vm[v], j.out) : vm' = [vm EXCEPT ![v] = d]
      BY <2>1
    <2>4. v \in Vms /\ vm[v] \in Db /\ j.out \in Db
      BY <1>0 DEF Job
    <2>5. d \in Db
      BY <2>4, DeleteDbShape
    <2>6. vm' \in [Vms -> Db]
      BY <1>0, <2>3, <2>4, <2>5
    <2>7. job' \in [Workers -> Job] /\ \A x \in Workers : JobOK(job'[x])
      BY <2>1, <2>2, GotoType
    <2> QED  BY <1>12, <2>6, <2>7 DEF BulkDelete, TypeInv, TypeOK, ApiTypeOK
  <1>13. CASE BulkLost(w)
    <2> DEFINE a(v) == [j EXCEPT !.dest = @ \ {v}]
               op == IF At(w, "update") THEN "update" ELSE "delete"
               sent(v) == {Message(w, v, op, j.out)}
    <2>1. PICK v \in j.dest : GivesUp(w, v, sent(v)) /\ Goto(w, a(v))
      BY <1>13 DEF BulkLost
    <2>2. a(v) \in Job /\ JobOK(a(v))
      BY <1>0 DEF Job, JobOK, Steps, PortSteps, DetachSteps
    <2>3. v \in Vms /\ j.out \in Db /\ op \in {"apply", "update", "delete"}
      BY <1>0 DEF Job
    <2>4. sent(v) \in SUBSET Msg
      <3> HIDE DEF op
      <3> QED  BY <2>3, MessageType
    <2>5. late' \subseteq Msg /\ cut' \subseteq Workers \X Vms
      <3> HIDE DEF sent
      <3> QED  BY <2>1, <2>3, <2>4, GivesUpType
    <2>6. job' \in [Workers -> Job] /\ \A x \in Workers : JobOK(job'[x])
      BY <2>1, <2>2, GotoType
    <2> QED  BY <1>13, <2>5, <2>6 DEF BulkLost, TypeInv, TypeOK, ApiTypeOK
  <1>14. CASE BulkDone(w)
    <2> DEFINE a == [j EXCEPT !.pc = "state", !.out = EmptyDb]
    <2>1. ASSUME j.log.kind \in PortKinds PROVE a \in Job /\ JobOK(a)
      BY <1>0, <2>1, EmptyType DEF Job, JobOK, Steps, PortSteps, DetachSteps
    <2> QED  BY <1>14, <2>1, IdleType, LocalType DEF BulkDone, Finish
  <1>15. CASE SecurityGroupUpdate(w)
    <2> DEFINE out  == SecGroupDb(Obj(w), rules[Obj(w)])
               dest == {VmOf[p] : p \in {q \in Bound(port) : Obj(w) \in GroupsOf[q]}}
               a == [j EXCEPT !.out = out, !.dest = dest, !.pc = "update"]
    <2>1. Obj(w) \in Groups
      BY <1>0, <1>15, <1>a DEF SecurityGroupUpdate, At, JobOK
    <2>2. out \in Db
      BY <1>0, <2>1, SecGroupDbType
    <2>3. dest \subseteq Vms
      BY TopologyAssumption DEF Bound
    <2>4. a \in Job /\ JobOK(a)
      <3> HIDE DEF out, dest
      <3> QED  BY <1>0, <2>2, <2>3 DEF Job, JobOK, Steps, PortSteps, DetachSteps
    <2> QED  BY <1>15, <2>4, LocalType DEF SecurityGroupUpdate
  <1>16. CASE RouterUpdate(w)
    <2>1. [j EXCEPT !.pc = "attach"] \in Job /\ JobOK([j EXCEPT !.pc = "attach"])
      BY <1>0, <1>16 DEF Job, JobOK, Steps, PortSteps, DetachSteps, RouterUpdate, At
    <2> QED  BY <1>16, <2>1, IdleType, LocalType DEF RouterUpdate, Finish
  <1>17. CASE RouterIfaceAttach(w)
    <2>1. [j EXCEPT !.router = TRUE, !.pc = "router_ports"] \in Job /\ JobOK([j EXCEPT !.router = TRUE, !.pc = "router_ports"])
      BY <1>0, <1>17 DEF Job, JobOK, Steps, PortSteps, DetachSteps, RouterIfaceAttach, At
    <2> QED  BY <1>17, <2>1, IdleType, LocalType DEF RouterIfaceAttach, Finish
  <1>18. CASE AttachInfo(w)
    <2> DEFINE out  == ToDb(j.snap, j.topo, TRUE)
               dest == VmsOf(j.snap, {})
               a == [j EXCEPT !.out = out, !.dest = dest, !.pc = "update"]
    <2>1. out \in Db /\ dest \subseteq Vms
      BY <1>0, ToDbType, VmsOfType DEF Job
    <2>2. a \in Job /\ JobOK(a)
      <3> HIDE DEF out, dest
      <3> QED  BY <1>0, <1>18, <2>1 DEF Job, JobOK, Steps, PortSteps, DetachSteps, AttachInfo, At
    <2> QED  BY <1>18, <2>2, LocalType DEF AttachInfo
  <1>19. CASE RouterIfaceDetach(w)
    <2>1. [j EXCEPT !.router = TRUE, !.pc = "gone_ports"] \in Job /\ JobOK([j EXCEPT !.router = TRUE, !.pc = "gone_ports"])
      BY <1>0, <1>19 DEF Job, JobOK, Steps, PortSteps, DetachSteps, RouterIfaceDetach, At
    <2> QED  BY <1>19, <2>1, IdleType, LocalType DEF RouterIfaceDetach, Finish
  <1>20. CASE GetDetachedPorts(w)
    <2> DEFINE g == [p \in Ports |-> IF p \in NetworkPorts(port, Obj(w))
                                     THEN port[p] ELSE Absent]
               a == [j EXCEPT !.gone = g, !.pc = "router_ports"]
    <2>1. g \in Table
      BY <1>0, EmptyType DEF Table
    <2>2. a \in Job /\ JobOK(a)
      <3> HIDE DEF g
      <3> QED  BY <1>0, <2>1 DEF Job, JobOK, Steps, PortSteps, DetachSteps
    <2> QED  BY <1>20, <2>2, LocalType DEF GetDetachedPorts
  <1>21. CASE Disconnect1(w)
    <2> DEFINE out  == ToDb(j.gone, {}, FALSE)
               dest == VmsOf(j.snap, {})
               a == [j EXCEPT !.out = out, !.dest = dest, !.pc = "delete1"]
    <2>1. out \in Db /\ dest \subseteq Vms
      BY <1>0, ToDbType, VmsOfType DEF Job
    <2>2. a \in Job /\ JobOK(a)
      <3> HIDE DEF out, dest
      <3> QED  BY <1>0, <1>21, <2>1 DEF Job, JobOK, Steps, PortSteps, DetachSteps, Disconnect1, At
    <2> QED  BY <1>21, <2>2, LocalType DEF Disconnect1
  <1>22. CASE Disconnect2(w)
    <2> DEFINE out  == ToDb(j.snap, j.topo, TRUE)
               dest == VmsOf(j.gone, {})
               a == [j EXCEPT !.out = out, !.dest = dest, !.pc = "delete2"]
    <2>1. out \in Db /\ dest \subseteq Vms
      BY <1>0, ToDbType, VmsOfType DEF Job
    <2>2. a \in Job /\ JobOK(a)
      <3> HIDE DEF out, dest
      <3> QED  BY <1>0, <1>22, <2>1 DEF Job, JobOK, Steps, PortSteps, DetachSteps, Disconnect2, At
    <2> QED  BY <1>22, <2>2, LocalType DEF Disconnect2
  <1> QED  BY <1>1, <1>2, <1>3, <1>4, <1>5, <1>6, <1>7, <1>8, <1>9, <1>10, <1>11, <1>12, <1>13, <1>14, <1>15, <1>16, <1>17, <1>18, <1>19, <1>20, <1>21, <1>22
           DEF Handle

LEMMA BeginType ==
  ASSUME TypeInv, Begin
  PROVE  ApiTypeOK'
  <1>1. PICK kind \in Kinds : \E obj \in ObjectsOf(kind) : BeginRequest(kind, obj)
    BY DEF Begin
  <1>2. PICK obj \in ObjectsOf(kind) : BeginRequest(kind, obj)
    BY <1>1
  <1> DEFINE t == [id |-> reqs + 1, kind |-> kind, obj |-> obj]
  <1>3. reqs \in Nat /\ kind \in AllKinds
    BY ApiAssumption DEF TypeInv, TypeOK, ApiTypeOK
  <1>4. obj \in Ports \cup Nets \cup Groups \cup {Router}
    BY <1>3 DEF ObjectsOf, AllKinds
  <1>5. t \in Request
    BY <1>3, <1>4 DEF Request
  <1>6. tx' = tx \cup {t} /\ logs' = logs \cup {t} /\ reqs' = reqs + 1
    BY <1>2 DEF BeginRequest, CreateUpdateLog
  <1>7. UNCHANGED <<port, legs, up, rules, rows>>
    BY <1>2 DEF BeginRequest
  <1> HIDE DEF t
  <1> QED  BY <1>3, <1>5, <1>6, <1>7 DEF TypeInv, TypeOK, ApiTypeOK

LEMMA CommitType ==
  ASSUME TypeInv, NEW t \in tx, Commit(t)
  PROVE  ApiTypeOK'
  <1>0. /\ t \in Request /\ port \in Table /\ legs \subseteq Nets /\ up \in BOOLEAN
        /\ rules \in [Groups -> Nat] /\ rows \subseteq Request
    BY DEF TypeInv, TypeOK, ApiTypeOK
  <1>1. /\ t.kind \in PortKinds => t.obj \in Ports
        /\ t.kind \in LegKinds => t.obj \in Nets
        /\ t.kind = "update_sg" => t.obj \in Groups
    BY <1>0, LogObject
  <1>2. t.kind \in PortKinds => WrittenPort(t) \in Lport
    <2>1. t.kind \in PortKinds => port[t.obj] \in Lport
      BY <1>0, <1>1 DEF Table
    <2> QED  BY <2>1, EmptyType DEF WrittenPort, PortKinds, Lport
  <1>3. port' \in Table
    BY <1>0, <1>1, <1>2 DEF Commit, Table
  <1>4. legs' \subseteq Nets
    BY <1>0, <1>1 DEF Commit, LegKinds
  <1>5. rules' \in [Groups -> Nat]
    <2>1. CASE t.kind = "update_sg"
      BY <1>0, <1>1, <2>1 DEF Commit
    <2>2. CASE t.kind # "update_sg"
      BY <1>0, <2>2 DEF Commit
    <2> QED  BY <2>1, <2>2
  <1>6. up' \in BOOLEAN
    BY <1>0 DEF Commit
  <1>7. rows' \subseteq Request /\ tx' \subseteq tx /\ UNCHANGED <<logs, reqs>>
    BY <1>0 DEF Commit
  <1> QED  BY <1>3, <1>4, <1>5, <1>6, <1>7 DEF TypeInv, TypeOK, ApiTypeOK

LEMMA WorkerType ==
  ASSUME TypeInv, NEW w \in Workers, WorkerNext(w)
  PROVE  TypeInv'
  <1>1. CASE ProcessLog(w)
    <2>1. PICK t \in logs :
            /\ logs' = logs \ {t}
            /\ IF ACTIONS_CLASS[t.kind] = "idle"
               THEN UNCHANGED job
               ELSE Goto(w, [IdleJob EXCEPT !.pc = ACTIONS_CLASS[t.kind], !.log = t])
      BY <1>1 DEF ProcessLog
    <2>2. t \in Request
      BY DEF TypeInv, TypeOK, ApiTypeOK
    <2> DEFINE pc == ACTIONS_CLASS[t.kind]
               a == [IdleJob EXCEPT !.pc = pc, !.log = t]
    <2>3. t.kind \in AllKinds
      BY <2>2 DEF Request
    <2>4. /\ pc \in Steps
          /\ pc \in PortSteps => t.kind \in PortKinds
          /\ pc \in DetachSteps => t.kind = "detach"
          /\ pc = "sg" => t.kind = "update_sg"
          /\ pc = "router_update" => t.kind = "update_router"
          /\ pc = "attach" => t.kind = "attach"
      BY <2>3 DEF ACTIONS_CLASS, AllKinds, PortKinds, LegKinds, Steps, PortSteps,
                  DetachSteps
    <2>5. a \in Job /\ JobOK(a)
      <3> HIDE DEF pc
      <3> QED  BY <2>2, <2>4, IdleType DEF Job, JobOK
    <2>6. job' \in [Workers -> Job] /\ \A x \in Workers : JobOK(job'[x])
      BY <2>1, <2>5, GotoType DEF TypeInv, TypeOK
    <2> QED  BY <1>1, <2>1, <2>6 DEF ProcessLog, TypeInv, TypeOK, ApiTypeOK
  <1>2. CASE Handle(w)
    BY <1>2, HandleType
  <1>3. CASE WorkerDies(w)
    <2>1. job' \in [Workers -> Job] /\ \A x \in Workers : JobOK(job'[x])
      BY <1>3, IdleType, GotoType DEF WorkerDies, Finish
    <2>2. cut' \subseteq cut
      BY <1>3 DEF WorkerDies
    <2> QED  BY <1>3, <2>1, <2>2 DEF WorkerDies, TypeInv, TypeOK, ApiTypeOK
  <1> QED  BY <1>1, <1>2, <1>3 DEF WorkerNext

LEMMA TypeInit == Init => TypeInv
  <1> SUFFICES ASSUME Init PROVE TypeInv
    OBVIOUS
  <1>1. port \in Table
    BY ApiAssumption, EmptyType DEF Init, ApiInit, Table, Lport
  <1>2. ApiTypeOK
    BY <1>1 DEF Init, ApiInit, ApiTypeOK
  <1>3. WarmVms \subseteq Vms
    BY TopologyAssumption, ApiAssumption DEF WarmVms
  <1>4. ASSUME NEW v \in Vms PROVE WarmDb(v) \in Db
    <2> DEFINE sg == [g \in Groups |->
                 IF \E p \in InitPorts : VmOf[p] = v /\ g \in GroupsOf[p] THEN 1 ELSE 0]
    <2>1. ToDb(port, Nets, TRUE) \in Db
      BY <1>1, ToDbType
    <2>2. sg \in [Groups -> Nat]
      OBVIOUS
    <2>3. WarmDb(v) = [ToDb(port, Nets, TRUE) EXCEPT !.secgroup = sg]
      BY DEF WarmDb
    <2> HIDE DEF sg
    <2> QED  BY <2>1, <2>2, <2>3 DEF Db
  <1>5. vm \in [Vms -> Db]
    BY <1>4, EmptyType DEF Init
  <1>6. job \in [Workers -> Job] /\ \A w \in Workers : JobOK(job[w])
    BY IdleType DEF Init
  <1> QED  BY <1>2, <1>3, <1>5, <1>6 DEF Init, TypeInv, TypeOK

LEMMA TypeStep == TypeInv /\ [Next]_vars => TypeInv'
  <1> SUFFICES ASSUME TypeInv, [Next]_vars PROVE TypeInv'
    OBVIOUS
  <1>1. CASE ApiNext /\ UNCHANGED agentVars
    <2>1. ApiTypeOK'
      <3>1. CASE Begin
        BY <3>1, BeginType
      <3>2. ASSUME NEW t \in tx, Commit(t) PROVE ApiTypeOK'
        BY <3>2, CommitType
      <3>3. ASSUME NEW t \in tx, Rollback(t) PROVE ApiTypeOK'
        BY <3>3 DEF Rollback, TypeInv, TypeOK, ApiTypeOK
      <3> QED  BY <1>1, <3>1, <3>2, <3>3 DEF ApiNext
    <2> QED  BY <1>1, <2>1 DEF agentVars, TypeInv, TypeOK
  <1>2. ASSUME NEW w \in Workers, WorkerNext(w) PROVE TypeInv'
    BY <1>2, WorkerType
  <1>3. CASE LateDelivery
    <2>1. PICK m \in late : /\ \E d \in Executed(vm[m.to], m) :
                                 vm' = [vm EXCEPT ![m.to] = d]
                            /\ late' = late \ {m}
      BY <1>3 DEF LateDelivery
    <2>2. PICK d \in Executed(vm[m.to], m) : vm' = [vm EXCEPT ![m.to] = d]
      BY <2>1
    <2>3. m \in Msg /\ m.to \in Vms /\ vm \in [Vms -> Db] /\ late' \subseteq Msg
      BY <2>1 DEF TypeInv, TypeOK, Msg
    <2>4. d \in Db
      BY <2>3, ExecutedType
    <2>5. vm' \in [Vms -> Db]
      BY <2>2, <2>3, <2>4
    <2> QED  BY <1>3, <2>3, <2>5 DEF LateDelivery, TypeInv, TypeOK, ApiTypeOK
  <1>4. CASE UNCHANGED vars
    BY <1>4 DEF vars, TypeInv, TypeOK, ApiTypeOK
  <1> QED  BY <1>1, <1>2, <1>3, <1>4 DEF Next, Rest

LEMMA TypeInvariant == Spec => []TypeInv
  <1> QED  BY TypeInit, TypeStep, PTL DEF Spec

(* Every variable keeps its type in every reachable state; in particular no *)
(* handler takes the object of its log for something it is not.             *)
THEOREM TypeCorrect == Spec => []TypeOK
  <1>1. TypeInv => TypeOK
    BY DEF TypeInv
  <1> QED  BY <1>1, TypeInvariant, PTL
-----------------------------------------------------------------------------
(* What a VM always holds, in any topology in which a VM holds one port,    *)
(* with any number of workers, any interleaving with requests, late         *)
(* executions, useless sockets and dying workers.  First, the tunnel of     *)
(* every bound port.                                                        *)

(* A message lists exactly the chassis of the bound ports it lists.        *)
Matched(m) == m.chassis = Chassis(m.lport)

Tunnelled(db) == \A q \in Bound(db.lport) : VmOf[q] \in db.chassis

(* TunnelKnown is not inductive alone: the messages that handlers hold, and *)
(* those still on their way, must be matched too.                           *)
TunnelInv ==
  /\ \A v \in Vms : Tunnelled(vm[v])
  /\ \A w \in Workers : Matched(job[w].out) /\ Matched(job[w].info)
  /\ \A m \in late : Matched(m.db)

LEMMA MatchedEmpty == Matched(EmptyDb) /\ Tunnelled(EmptyDb)
  BY DEF Matched, Tunnelled, EmptyDb, Chassis, Bound, NoPorts, Absent

LEMMA MatchedToDb ==
  ASSUME NEW s, NEW topo, NEW r
  PROVE  Matched(ToDb(s, topo, r))
  BY DEF Matched, ToDb

LEMMA MatchedPortToDb ==
  ASSUME NEW p, NEW s, NEW topo, NEW r, NEW rul
  PROVE  Matched(PortToDb(p, s, topo, r, rul))
  <1>1. /\ PortToDb(p, s, topo, r, rul).lport = s
        /\ PortToDb(p, s, topo, r, rul).chassis = Chassis(s)
    BY DEF PortToDb, ToDb
  <1> QED  BY <1>1 DEF Matched

LEMMA MatchedPortDb ==
  ASSUME OnePortPerVm, NEW p \in Ports, NEW s \in Table
  PROVE  Matched(PortDb(p, s))
  <1> DEFINE t == [NoPorts EXCEPT ![p] = s[p]]
  <1>1. PortDb(p, s).lport = t /\ PortDb(p, s).chassis = Chassis(s) \cap {VmOf[p]}
    BY DEF PortDb, EmptyDb
  <1>2. \A q \in Ports : t[q].bound <=> q = p /\ s[p].bound
    BY DEF NoPorts, Absent, Table, Lport
  <1>3. Chassis(t) = Chassis(s) \cap {VmOf[p]}
    BY <1>2 DEF Chassis, Bound, OnePortPerVm
  <1> QED  BY <1>1, <1>3 DEF Matched

LEMMA MatchedSecGroupDb ==
  ASSUME NEW g, NEW n
  PROVE  Matched(SecGroupDb(g, n))
  <1>1. /\ SecGroupDb(g, n).lport = EmptyDb.lport
        /\ SecGroupDb(g, n).chassis = EmptyDb.chassis
    BY DEF SecGroupDb, EmptyDb
  <1> QED  BY <1>1, MatchedEmpty DEF Matched

LEMMA TunnelledUpdate ==
  ASSUME NEW db \in Db, NEW m \in Db, Tunnelled(db), Matched(m)
  PROVE  Tunnelled(UpdateDb(db, m))
  <1>1. SUFFICES ASSUME NEW q \in Ports, UpdateDb(db, m).lport[q].bound
                 PROVE  VmOf[q] \in db.chassis \cup m.chassis
    BY DEF Tunnelled, UpdateDb, Bound
  <1>2. CASE q \in Present(m.lport)
    <2>1. q \in Bound(m.lport)
      BY <1>1, <1>2 DEF UpdateDb, Bound
    <2> QED  BY <2>1 DEF Matched, Chassis
  <1>3. CASE q \notin Present(m.lport)
    <2>1. q \in Bound(db.lport)
      BY <1>1, <1>3 DEF UpdateDb, Bound
    <2> QED  BY <2>1 DEF Tunnelled
  <1> QED  BY <1>2, <1>3

(* A delete that stops half way: ports go before chassis.                  *)
LEMMA TunnelledDelete ==
  ASSUME OnePortPerVm, NEW db \in Db, NEW m \in Db, Tunnelled(db), Matched(m),
         NEW d \in DeleteDb(db, m)
  PROVE  Tunnelled(d)
  <1>1. SUFFICES ASSUME NEW q \in Ports, d.lport[q].bound
                 PROVE  VmOf[q] \in d.chassis
    BY DEF Tunnelled, Bound
  <1>2. d.lport[q] # Absent
    BY <1>1 DEF Absent
  <1>3. d.lport[q] = db.lport[q]
    BY <1>2, DeleteDbShape
  <1>4. VmOf[q] \in db.chassis
    BY <1>1, <1>3 DEF Tunnelled, Bound
  <1>5. CASE d.chassis = db.chassis
    BY <1>4, <1>5
  <1>6. CASE /\ db.chassis \ m.chassis \subseteq d.chassis
             /\ \A p \in Present(m.lport) : d.lport[p] = Absent
    <2>1. q \notin Present(m.lport)
      BY <1>2, <1>6
    <2>2. q \notin Bound(m.lport)
      BY <2>1 DEF Present, Bound, Db, Table, Lport
    <2>3. VmOf[q] \notin m.chassis
      BY <2>2 DEF Matched, Chassis, OnePortPerVm, Bound
    <2> QED  BY <1>4, <1>6, <2>3
  <1> QED  BY <1>5, <1>6, DeleteDbShape

LEMMA TunnelledExecuted ==
  ASSUME OnePortPerVm, NEW db \in Db, NEW m \in Msg, Tunnelled(db), Matched(m.db),
         NEW d \in Executed(db, m)
  PROVE  Tunnelled(d)
  <1>1. m.db \in Db /\ m.op \in {"apply", "update", "delete"}
    BY DEF Msg
  <1>2. CASE m.op = "apply"
    <2>1. d = m.db
      BY <1>2 DEF Executed, ApplyDb
    <2> QED  BY <2>1 DEF Matched, Tunnelled, Chassis
  <1>3. CASE m.op = "update"
    <2>1. d = UpdateDb(db, m.db)
      BY <1>3 DEF Executed
    <2> QED  BY <1>1, <2>1, TunnelledUpdate
  <1>4. CASE m.op = "delete"
    <2>1. d \in DeleteDb(db, m.db)
      BY <1>4 DEF Executed
    <2> QED  BY <1>1, <2>1, TunnelledDelete
  <1> QED  BY <1>1, <1>2, <1>3, <1>4

(* The messages of the handler that moves to j are matched.                *)
LEMMA GotoMatched ==
  ASSUME TypeInv, TunnelInv, NEW w \in Workers, NEW j, Goto(w, j),
         Matched(j.out), Matched(j.info)
  PROVE  \A x \in Workers : Matched(job'[x].out) /\ Matched(job'[x].info)
  <1>1. job \in [Workers -> Job]
    BY DEF TypeInv, TypeOK
  <1>2. \A x \in Workers : job'[x] = IF x = w THEN j ELSE job[x]
    BY <1>1 DEF Goto
  <1>3. \A x \in Workers : Matched(job[x].out) /\ Matched(job[x].info)
    BY DEF TunnelInv
  <1> QED  BY <1>2, <1>3

LEMMA IdleMatched == Matched(IdleJob.out) /\ Matched(IdleJob.info)
  BY MatchedEmpty DEF IdleJob

(* What a send that raises leaves behind.                                  *)
LEMMA GivesUpLate ==
  ASSUME NEW w, NEW v, NEW sent, GivesUp(w, v, sent)
  PROVE  late' \subseteq late \cup sent
  BY DEF GivesUp

LEMMA TunnelHandle ==
  ASSUME OnePortPerVm, TypeInv, TunnelInv, NEW w \in Workers, Handle(w)
  PROVE  TunnelInv'
  <1> DEFINE j == job[w]
             Kept(a) == a.out = j.out /\ a.info = j.info
  <1>0. /\ j \in Job /\ JobOK(j) /\ Matched(j.out) /\ Matched(j.info)
        /\ vm \in [Vms -> Db] /\ \A v \in Vms : Tunnelled(vm[v])
    BY DEF TypeInv, TypeOK, TunnelInv
  <1>a. ASSUME UNCHANGED <<vm, late>>, NEW a, Goto(w, a),
               Matched(a.out), Matched(a.info)
        PROVE  TunnelInv'
    <2>1. \A x \in Workers : Matched(job'[x].out) /\ Matched(job'[x].info)
      BY <1>a, GotoMatched
    <2> QED  BY <1>0, <1>a, <2>1 DEF TunnelInv
  <1>b. ASSUME UNCHANGED <<vm, late>>, NEW a, Goto(w, a), Kept(a) PROVE TunnelInv'
    BY <1>0, <1>a, <1>b
  <1>c. ASSUME UNCHANGED <<vm, late>>, Finish(w) PROVE TunnelInv'
    BY <1>a, <1>c, IdleMatched DEF Finish
  <1>d. ASSUME NEW v \in Vms, NEW d \in Db, Tunnelled(d), vm' = [vm EXCEPT ![v] = d],
               UNCHANGED late, NEW a, Goto(w, a), Matched(a.out), Matched(a.info)
        PROVE  TunnelInv'
    <2>1. \A x \in Workers : Matched(job'[x].out) /\ Matched(job'[x].info)
      BY <1>d, GotoMatched
    <2>2. \A u \in Vms : vm'[u] = IF u = v THEN d ELSE vm[u]
      BY <1>0, <1>d
    <2>3. \A u \in Vms : Tunnelled(vm'[u])
      BY <1>0, <1>d, <2>2
    <2> QED  BY <1>d, <2>1, <2>3 DEF TunnelInv
  <1>e. ASSUME UNCHANGED vm, NEW v, NEW sent, GivesUp(w, v, sent),
               \A m \in sent : Matched(m.db),
               NEW a, Goto(w, a), Matched(a.out), Matched(a.info)
        PROVE  TunnelInv'
    <2>1. \A x \in Workers : Matched(job'[x].out) /\ Matched(job'[x].info)
      BY <1>e, GotoMatched
    <2>2. \A m \in late' : Matched(m.db)
      BY <1>e, GivesUpLate DEF TunnelInv
    <2> QED  BY <1>0, <1>e, <2>1, <2>2 DEF TunnelInv
  <1>1. CASE GetPort(w)
    <2>1. Kept([j EXCEPT !.pc = "routers"])
      BY <1>0 DEF Job
    <2> QED  BY <1>1, <2>1, <1>b, <1>c DEF GetPort, Local
  <1>2. CASE RouterUpdate(w)
    <2>1. Kept([j EXCEPT !.pc = "attach"])
      BY <1>0 DEF Job
    <2> QED  BY <1>2, <2>1, <1>b, <1>c DEF RouterUpdate, Local
  <1>3. CASE RouterIfaceAttach(w)
    <2>1. Kept([j EXCEPT !.router = TRUE, !.pc = "router_ports"])
      BY <1>0 DEF Job
    <2> QED  BY <1>3, <2>1, <1>b, <1>c DEF RouterIfaceAttach, Local
  <1>4. CASE RouterIfaceDetach(w)
    <2>1. Kept([j EXCEPT !.router = TRUE, !.pc = "gone_ports"])
      BY <1>0 DEF Job
    <2> QED  BY <1>4, <2>1, <1>b, <1>c DEF RouterIfaceDetach, Local
  <1>5. CASE GetRoutersForNet(w)
    <2> DEFINE a == [j EXCEPT !.router = TRUE, !.pc = "router_ports"]
               b == [j EXCEPT !.todo = {NetOf[Obj(w)]}, !.pc = "network_ports"]
    <2>1. Kept(a) /\ Kept(b)
      BY <1>0 DEF Job
    <2> QED  BY <1>5, <2>1, <1>b DEF GetRoutersForNet, Local
  <1>6. CASE GetPortsFromRouter(w)
    <2>1. PICK topo, todo : Goto(w, [j EXCEPT !.topo = topo, !.todo = todo,
                                             !.pc = "network_ports"])
      BY <1>6 DEF GetPortsFromRouter
    <2>2. Kept([j EXCEPT !.topo = topo, !.todo = todo, !.pc = "network_ports"])
      BY <1>0 DEF Job
    <2> QED  BY <1>6, <2>1, <2>2, <1>b DEF GetPortsFromRouter, Local
  <1>7. CASE GetNetworkPorts(w)
    <2>1. PICK todo, snap : Goto(w, [j EXCEPT !.todo = todo, !.snap = snap])
      BY <1>7 DEF GetNetworkPorts
    <2>2. Kept([j EXCEPT !.todo = todo, !.snap = snap])
      BY <1>0 DEF Job
    <2> QED  BY <1>7, <2>1, <2>2, <1>b DEF GetNetworkPorts, Local
  <1>8. CASE GetDetachedPorts(w)
    <2>1. PICK gone : Goto(w, [j EXCEPT !.gone = gone, !.pc = "router_ports"])
      BY <1>8 DEF GetDetachedPorts
    <2>2. Kept([j EXCEPT !.gone = gone, !.pc = "router_ports"])
      BY <1>0 DEF Job
    <2> QED  BY <1>8, <2>1, <2>2, <1>b DEF GetDetachedPorts, Local
  <1>9. CASE PortInfo(w)
    <2> DEFINE o == PortDb(Obj(w), j.snap)
               i == PortToDb(Obj(w), j.snap, j.topo, j.router, rules)
               a == [j EXCEPT !.out = o, !.dest = VmsOf(j.snap, {Obj(w)}),
                              !.info = i, !.pc = "update"]
    <2>1. Obj(w) \in Ports /\ j.snap \in Table
      BY <1>0, <1>9, LogObject DEF PortInfo, Job, Obj
    <2>2. Matched(o) /\ Matched(i)
      BY <2>1, MatchedPortDb, MatchedPortToDb
    <2>3. a.out = o /\ a.info = i
      BY <1>0 DEF Job
    <2>4. Matched(a.out) /\ Matched(a.info)
      BY <2>2, <2>3, Zenon
    <2> HIDE DEF o, i
    <2> QED  BY <1>9, <2>4, <1>a, <1>c DEF PortInfo, Local, o, i
  <1>10. CASE State(w)
    <2>1. PICK pc : Goto(w, [j EXCEPT !.pc = pc])
      BY <1>10 DEF State
    <2>2. Kept([j EXCEPT !.pc = pc])
      BY <1>0 DEF Job
    <2> QED  BY <1>10, <2>1, <2>2, <1>b DEF State, Local
  <1>11. CASE RegisterAgent(w)
    <2>1. Kept([j EXCEPT !.pc = "apply"])
      BY <1>0 DEF Job
    <2> QED  BY <1>11, <2>1, <1>b, <1>c DEF RegisterAgent
  <1>12. CASE Apply(w)
    <2> DEFINE a == [j EXCEPT !.pc = "tunnel"]
    <2>1. Matched(a.out) /\ Matched(a.info)
      BY <1>0 DEF Job
    <2>2. VmOf[Obj(w)] \in Vms
      <3>1. j.log.kind \in PortKinds
        BY <1>0, <1>12 DEF Apply, At, JobOK, PortSteps
      <3> QED  BY <1>0, <3>1, LogObject, TopologyAssumption DEF Job, Obj
    <2>3. j.info \in Db /\ Tunnelled(j.info)
      BY <1>0 DEF Job, Matched, Tunnelled, Chassis
    <2>4. vm' = [vm EXCEPT ![VmOf[Obj(w)]] = j.info]
      BY <1>12 DEF Apply, ApplyDb
    <2>5. Goto(w, a) /\ UNCHANGED late
      BY <1>12 DEF Apply
    <2> QED  BY <2>1, <2>2, <2>3, <2>4, <2>5, <1>d
  <1>13. CASE CallFails(w)
    <2> DEFINE v == VmOf[Obj(w)]
               sent == IF At(w, "apply") THEN {Message(w, v, "apply", j.info)} ELSE {}
    <2>1. GivesUp(w, v, sent) /\ Goto(w, IdleJob) /\ UNCHANGED vm
      BY <1>13 DEF CallFails, Finish
    <2>2. \A m \in sent : Matched(m.db)
      <3>1. Message(w, v, "apply", j.info).db = j.info
        BY DEF Message
      <3> QED  BY <1>0, <3>1
    <2> HIDE DEF v, sent
    <2> QED  BY <2>1, <2>2, <1>e, IdleMatched
  <1>14. CASE AddEndpoint(w)
    BY <1>14, <1>c DEF AddEndpoint
  <1>15. CASE BulkUpdate(w)
    <2> DEFINE a(v) == [j EXCEPT !.dest = @ \ {v}]
    <2>1. PICK v \in j.dest : /\ vm' = [vm EXCEPT ![v] = UpdateDb(@, j.out)]
                              /\ Goto(w, a(v))
      BY <1>15 DEF BulkUpdate
    <2>2. v \in Vms /\ vm[v] \in Db /\ j.out \in Db
      BY <1>0 DEF Job
    <2>3. UpdateDb(vm[v], j.out) \in Db /\ Tunnelled(UpdateDb(vm[v], j.out))
      BY <1>0, <2>2, UpdateDbType, TunnelledUpdate
    <2>4. Matched(a(v).out) /\ Matched(a(v).info)
      BY <1>0 DEF Job
    <2>5. vm' = [vm EXCEPT ![v] = UpdateDb(vm[v], j.out)] /\ UNCHANGED late
      BY <1>15, <2>1 DEF BulkUpdate
    <2> QED  BY <2>1, <2>2, <2>3, <2>4, <2>5, <1>d
  <1>16. CASE BulkDelete(w)
    <2> DEFINE a(v) == [j EXCEPT !.dest = @ \ {v}]
    <2>1. PICK v \in j.dest : /\ \E d \in DeleteDb(vm[v], j.out) :
                                   vm' = [vm EXCEPT ![v] = d]
                              /\ Goto(w, a(v))
      BY <1>16 DEF BulkDelete
    <2>2. PICK d \in DeleteDb(vm[v], j.out) : vm' = [vm EXCEPT ![v] = d]
      BY <2>1
    <2>3. v \in Vms /\ vm[v] \in Db /\ j.out \in Db
      BY <1>0 DEF Job
    <2>4. d \in Db /\ Tunnelled(d)
      BY <1>0, <2>3, DeleteDbShape, TunnelledDelete
    <2>5. Matched(a(v).out) /\ Matched(a(v).info)
      BY <1>0 DEF Job
    <2>6. UNCHANGED late
      BY <1>16 DEF BulkDelete
    <2> QED  BY <2>1, <2>2, <2>3, <2>4, <2>5, <2>6, <1>d
  <1>17. CASE BulkLost(w)
    <2> DEFINE a(v) == [j EXCEPT !.dest = @ \ {v}]
               op == IF At(w, "update") THEN "update" ELSE "delete"
               sent(v) == {Message(w, v, op, j.out)}
    <2>1. PICK v \in j.dest : GivesUp(w, v, sent(v)) /\ Goto(w, a(v))
      BY <1>17 DEF BulkLost
    <2>2. Matched(a(v).out) /\ Matched(a(v).info)
      BY <1>0 DEF Job
    <2>3. \A m \in sent(v) : Matched(m.db)
      <3>1. Message(w, v, op, j.out).db = j.out
        BY DEF Message
      <3> QED  BY <1>0, <3>1
    <2>4. UNCHANGED vm
      BY <1>17 DEF BulkLost
    <2> HIDE DEF sent
    <2> QED  BY <2>1, <2>2, <2>3, <2>4, <1>e
  <1>18. CASE BulkDone(w)
    <2> DEFINE a == [j EXCEPT !.pc = "state", !.out = EmptyDb]
    <2>1. a.out = EmptyDb /\ a.info = j.info
      BY <1>0 DEF Job
    <2>2. Matched(a.out) /\ Matched(a.info)
      BY <1>0, <2>1, MatchedEmpty
    <2> QED  BY <1>18, <2>2, <1>a, <1>c DEF BulkDone, Local
  <1>19. CASE SecurityGroupUpdate(w)
    <2>1. PICK dest, pc : Goto(w, [j EXCEPT !.out = SecGroupDb(Obj(w), rules[Obj(w)]),
                                           !.dest = dest, !.pc = pc])
      BY <1>19 DEF SecurityGroupUpdate
    <2> DEFINE o == SecGroupDb(Obj(w), rules[Obj(w)])
               a == [j EXCEPT !.out = o, !.dest = dest, !.pc = pc]
    <2>2. Matched(o)
      BY MatchedSecGroupDb
    <2>3. a.out = o /\ a.info = j.info
      BY <1>0 DEF Job
    <2>4. Matched(a.out) /\ Matched(a.info)
      BY <1>0, <2>2, <2>3, Zenon
    <2> QED  BY <1>19, <2>1, <2>4, <1>a DEF SecurityGroupUpdate, Local
  <1>20. CASE AttachInfo(w)
    <2>1. PICK dest, pc : Goto(w, [j EXCEPT !.out = ToDb(j.snap, j.topo, TRUE),
                                           !.dest = dest, !.pc = pc])
      BY <1>20 DEF AttachInfo
    <2> DEFINE o == ToDb(j.snap, j.topo, TRUE)
               a == [j EXCEPT !.out = o, !.dest = dest, !.pc = pc]
    <2>2. Matched(o)
      BY MatchedToDb
    <2>3. a.out = o /\ a.info = j.info
      BY <1>0 DEF Job
    <2>4. Matched(a.out) /\ Matched(a.info)
      BY <1>0, <2>2, <2>3, Zenon
    <2> QED  BY <1>20, <2>1, <2>4, <1>a DEF AttachInfo, Local
  <1>21. CASE Disconnect1(w)
    <2>1. PICK dest, pc : Goto(w, [j EXCEPT !.out = ToDb(j.gone, {}, FALSE),
                                           !.dest = dest, !.pc = pc])
      BY <1>21 DEF Disconnect1
    <2> DEFINE o == ToDb(j.gone, {}, FALSE)
               a == [j EXCEPT !.out = o, !.dest = dest, !.pc = pc]
    <2>2. Matched(o)
      BY MatchedToDb
    <2>3. a.out = o /\ a.info = j.info
      BY <1>0 DEF Job
    <2>4. Matched(a.out) /\ Matched(a.info)
      BY <1>0, <2>2, <2>3, Zenon
    <2> QED  BY <1>21, <2>1, <2>4, <1>a DEF Disconnect1, Local
  <1>22. CASE Disconnect2(w)
    <2>1. PICK dest, pc : Goto(w, [j EXCEPT !.out = ToDb(j.snap, j.topo, TRUE),
                                           !.dest = dest, !.pc = pc])
      BY <1>22 DEF Disconnect2
    <2> DEFINE o == ToDb(j.snap, j.topo, TRUE)
               a == [j EXCEPT !.out = o, !.dest = dest, !.pc = pc]
    <2>2. Matched(o)
      BY MatchedToDb
    <2>3. a.out = o /\ a.info = j.info
      BY <1>0 DEF Job
    <2>4. Matched(a.out) /\ Matched(a.info)
      BY <1>0, <2>2, <2>3, Zenon
    <2> QED  BY <1>22, <2>1, <2>4, <1>a DEF Disconnect2, Local
  <1> QED  BY <1>1, <1>2, <1>3, <1>4, <1>5, <1>6, <1>7, <1>8, <1>9, <1>10,
           <1>11, <1>12, <1>13, <1>14, <1>15, <1>16, <1>17, <1>18,
           <1>19, <1>20, <1>21, <1>22
           DEF Handle

LEMMA TunnelInit == Init => TunnelInv
  <1> SUFFICES ASSUME Init PROVE TunnelInv
    OBVIOUS
  <1>1. ASSUME NEW v \in Vms PROVE Tunnelled(WarmDb(v))
    <2>1. WarmDb(v).lport = port /\ WarmDb(v).chassis = Chassis(port)
      BY DEF WarmDb, ToDb
    <2> QED  BY <2>1 DEF Tunnelled, Chassis
  <1>2. \A v \in Vms : Tunnelled(vm[v])
    BY <1>1, MatchedEmpty DEF Init
  <1>3. \A w \in Workers : Matched(job[w].out) /\ Matched(job[w].info)
    BY IdleMatched DEF Init
  <1>4. late = {}
    BY DEF Init
  <1> QED  BY <1>2, <1>3, <1>4 DEF TunnelInv

LEMMA TunnelStep ==
  ASSUME OnePortPerVm
  PROVE  TypeInv /\ TunnelInv /\ [Next]_vars => TunnelInv'
  <1> SUFFICES ASSUME TypeInv, TunnelInv, [Next]_vars PROVE TunnelInv'
    OBVIOUS
  <1>1. CASE UNCHANGED agentVars
    BY <1>1 DEF agentVars, TunnelInv
  <1>2. ASSUME NEW w \in Workers, ProcessLog(w) PROVE TunnelInv'
    <2>1. PICK t \in logs : \/ UNCHANGED job
                            \/ Goto(w, [IdleJob EXCEPT !.pc = ACTIONS_CLASS[t.kind],
                                                       !.log = t])
      BY <1>2 DEF ProcessLog
    <2> DEFINE a == [IdleJob EXCEPT !.pc = ACTIONS_CLASS[t.kind], !.log = t]
    <2>2. a.out = IdleJob.out /\ a.info = IdleJob.info
      BY DEF IdleJob
    <2>3. Matched(a.out) /\ Matched(a.info)
      BY <2>2, IdleMatched
    <2>4. \A x \in Workers : Matched(job'[x].out) /\ Matched(job'[x].info)
      BY <2>1, <2>3, GotoMatched DEF TunnelInv
    <2> QED  BY <1>2, <2>4 DEF ProcessLog, TunnelInv
  <1>3. ASSUME NEW w \in Workers, Handle(w) PROVE TunnelInv'
    BY <1>3, TunnelHandle
  <1>4. ASSUME NEW w \in Workers, WorkerDies(w) PROVE TunnelInv'
    <2>1. \A x \in Workers : Matched(job'[x].out) /\ Matched(job'[x].info)
      BY <1>4, IdleMatched, GotoMatched DEF WorkerDies, Finish
    <2> QED  BY <1>4, <2>1 DEF WorkerDies, TunnelInv
  <1>5. CASE LateDelivery
    <2>1. PICK m \in late : /\ \E d \in Executed(vm[m.to], m) :
                                 vm' = [vm EXCEPT ![m.to] = d]
                            /\ late' = late \ {m}
      BY <1>5 DEF LateDelivery
    <2>2. PICK d \in Executed(vm[m.to], m) : vm' = [vm EXCEPT ![m.to] = d]
      BY <2>1
    <2>3. m \in Msg /\ m.to \in Vms /\ vm \in [Vms -> Db] /\ Matched(m.db)
      BY <2>1 DEF TypeInv, TypeOK, Msg, TunnelInv
    <2>4. Tunnelled(vm[m.to])
      BY <2>3 DEF TunnelInv
    <2>5. Tunnelled(d)
      BY <2>2, <2>3, <2>4, TunnelledExecuted
    <2>6. \A u \in Vms : vm'[u] = IF u = m.to THEN d ELSE vm[u]
      BY <2>2, <2>3
    <2>7. \A u \in Vms : Tunnelled(vm'[u])
      BY <2>5, <2>6 DEF TunnelInv
    <2> QED  BY <1>5, <2>1, <2>7 DEF LateDelivery, TunnelInv
  <1> QED  BY <1>1, <1>2, <1>3, <1>4, <1>5 DEF Next, Rest, WorkerNext, vars, agentVars

(* In every reachable state of every deployment with one port per VM, a VM  *)
(* knows the tunnel of every bound port it holds.                           *)
THEOREM TunnelsAlwaysKnown ==
  ASSUME OnePortPerVm
  PROVE  Spec => []TunnelKnown
  <1>1. TypeInv /\ TunnelInv => TunnelKnown
    BY DEF TunnelInv, TunnelKnown, Tunnelled
  <1>2. TypeInv /\ TunnelInv /\ [Next]_vars => TunnelInv'
    BY TunnelStep
  <1> QED  BY <1>1, <1>2, TunnelInit, TypeInvariant, PTL DEF Spec
-----------------------------------------------------------------------------
(* A VM's own port.                                                        *)

OwnHeld(p, db) == p \in Present(db.lport) /\ NetOf[p] \in db.lswitch

(* No VM a delete has still to reach holds a port or is on a network the    *)
(* delete lists.                                                            *)
Spares(j) ==
  \A p \in Ports : VmOf[p] \in j.dest =>
    p \notin Present(j.out.lport) /\ NetOf[p] \notin j.out.lswitch

(* What a handler of a detach has read: the detached network's ports in     *)
(* gone, none of them in snap, although the network may still be attached.  *)
Apart(j) ==
  /\ j.log.obj \notin j.topo \cup j.todo
  /\ \A q \in Present(j.snap) : NetOf[q] # j.log.obj
  /\ \A q \in Present(j.gone) : NetOf[q] = j.log.obj

OwnJob(j) ==
  /\ j.log.kind \in PortKinds /\ j.pc \in {"update", "state", "agent", "apply"}
       => OwnHeld(j.log.obj, j.info)
  /\ j.log.kind = "detach" => Apart(j)
  /\ j.pc \in {"delete1", "delete2"} => Spares(j)

(* A message still on its way: an apply brings the VM's own port, a delete  *)
(* spares it.                                                               *)
OwnLate(m) ==
  \A p \in Ports : VmOf[p] = m.to =>
    /\ m.op = "apply" => OwnHeld(p, m.db)
    /\ m.op = "delete" => p \notin Present(m.db.lport) /\ NetOf[p] \notin m.db.lswitch

(* OwnPortKept with what it rests on: between apply and the announcement the*)
(* VM already holds its port, the entries to apply hold it, and no delete   *)
(* under way touches it, in time or late.                                   *)
OwnInv ==
  /\ OwnPortKept
  /\ \A w \in Workers :
       /\ OwnJob(job[w])
       /\ job[w].pc = "tunnel" =>
            OwnHeld(job[w].log.obj, vm[VmOf[job[w].log.obj]])
  /\ \A m \in late : OwnLate(m)

LEMMA OwnIdle == OwnJob(IdleJob) /\ IdleJob.pc = "idle"
  BY DEF OwnJob, IdleJob, NoLog, PortKinds

LEMMA OwnUpdate ==
  ASSUME NEW db \in Db, NEW m \in Db, NEW p \in Ports, OwnHeld(p, db)
  PROVE  OwnHeld(p, UpdateDb(db, m))
  BY DEF OwnHeld, UpdateDb, Present

LEMMA OwnDelete ==
  ASSUME NEW db \in Db, NEW m \in Db, NEW d \in DeleteDb(db, m),
         NEW p \in Ports, OwnHeld(p, db),
         p \notin Present(m.lport), NetOf[p] \notin m.lswitch
  PROVE  OwnHeld(p, d)
  <1>1. d.lport[p] = db.lport[p]
    BY DeleteDbShape
  <1>2. NetOf[p] \in d.lswitch
    BY DeleteDbShape DEF OwnHeld
  <1> QED  BY <1>1, <1>2 DEF OwnHeld, Present

(* A step of worker w that changes at most its job, where every VM that     *)
(* held its own port still does.                                            *)
LEMMA OwnFrame ==
  ASSUME TypeInv, OwnInv, NEW w \in Workers, NEW a \in Job, Goto(w, a), OwnJob(a),
         \A p \in Ports : OwnHeld(p, vm[VmOf[p]]) => OwnHeld(p, vm'[VmOf[p]]),
         a.pc = "tunnel" => OwnHeld(a.log.obj, vm'[VmOf[a.log.obj]]),
         \A p \in Ports : VmOf[p] \in endpoints' =>
           VmOf[p] \in endpoints \/ OwnHeld(p, vm'[VmOf[p]]),
         \A m \in late' : m \in late \/ OwnLate(m)
  PROVE  OwnInv'
  <1>0. job \in [Workers -> Job] /\ \A x \in Workers : JobOK(job[x])
    BY DEF TypeInv, TypeOK
  <1>1. \A x \in Workers : job'[x] = IF x = w THEN a ELSE job[x]
    BY <1>0 DEF Goto
  <1>2. OwnPortKept'
    BY DEF OwnInv, OwnPortKept, OwnHeld
  <1>3. ASSUME NEW x \in Workers
        PROVE  /\ OwnJob(job'[x])
               /\ job'[x].pc = "tunnel" =>
                    OwnHeld(job'[x].log.obj, vm'[VmOf[job'[x].log.obj]])
    <2>1. CASE x = w
      BY <1>1, <2>1
    <2>2. CASE x # w
      <3>1. job'[x] = job[x]
        BY <1>1, <2>2
      <3>2. OwnJob(job[x])
        BY DEF OwnInv
      <3>3. ASSUME job[x].pc = "tunnel"
            PROVE  OwnHeld(job[x].log.obj, vm'[VmOf[job[x].log.obj]])
        <4>1. job[x].log.obj \in Ports
          BY <1>0, <3>3, LogObject DEF Job, JobOK, PortSteps
        <4>2. OwnHeld(job[x].log.obj, vm[VmOf[job[x].log.obj]])
          BY <3>3 DEF OwnInv
        <4> QED  BY <4>1, <4>2
      <3> QED  BY <3>1, <3>2, <3>3
    <2> QED  BY <2>1, <2>2
  <1>4. \A m \in late' : OwnLate(m)
    BY DEF OwnInv
  <1> QED  BY <1>2, <1>3, <1>4 DEF OwnInv

(* The common case: only the job changes, and not to the last step.        *)
LEMMA OwnLocal ==
  ASSUME TypeInv, OwnInv, NEW w \in Workers, NEW a \in Job, Goto(w, a), OwnJob(a),
         a.pc # "tunnel", UNCHANGED <<vm, endpoints, late>>
  PROVE  OwnInv'
  BY OwnFrame

LEMMA OwnHandle ==
  ASSUME OnePortPerVm, TypeInv, OwnInv, NEW w \in Workers, Handle(w)
  PROVE  OwnInv'
  <1> DEFINE j == job[w]
  <1>0. /\ j \in Job /\ JobOK(j) /\ OwnJob(j)
        /\ port \in Table /\ legs \subseteq Nets /\ rules \in [Groups -> Nat]
        /\ vm \in [Vms -> Db] /\ endpoints \subseteq Vms
    BY DEF TypeInv, TypeOK, ApiTypeOK, OwnInv
  <1>t. job' \in [Workers -> Job]
    <2>1. TypeInv'
      BY HandleType
    <2> QED  BY <2>1 DEF TypeInv, TypeOK
  <1>s. ASSUME NEW a, Goto(w, a) PROVE a \in Job
    <2>1. job'[w] = a
      BY <1>s DEF Goto, TypeInv, TypeOK
    <2> QED  BY <1>t, <2>1
  <1>c. ASSUME UNCHANGED <<vm, endpoints, late>>, Finish(w) PROVE OwnInv'
    BY <1>c, OwnIdle, OwnLocal, IdleType DEF Finish
  <1>l. ASSUME UNCHANGED <<vm, endpoints, late>>, NEW a, Goto(w, a), OwnJob(a),
               a.pc # "tunnel"
        PROVE  OwnInv'
    BY <1>l, <1>s, OwnLocal
  <1>1. CASE GetPort(w)
    <2> DEFINE a == [j EXCEPT !.pc = "routers"]
    <2>1. OwnJob(a) /\ a.pc # "tunnel"
      BY <1>0, <1>1 DEF OwnJob, Apart, Spares, Job, JobOK, PortSteps, DetachSteps, PortKinds, GetPort, At
    <2> QED  BY <1>1, <2>1, <1>l, <1>c DEF GetPort, Local
  <1>2. CASE RouterUpdate(w)
    <2> DEFINE a == [j EXCEPT !.pc = "attach"]
    <2>1. OwnJob(a) /\ a.pc # "tunnel"
      BY <1>0, <1>2 DEF OwnJob, Apart, Spares, Job, JobOK, PortSteps, DetachSteps, PortKinds, RouterUpdate, At
    <2> QED  BY <1>2, <2>1, <1>l, <1>c DEF RouterUpdate, Local
  <1>3. CASE RouterIfaceAttach(w)
    <2> DEFINE a == [j EXCEPT !.router = TRUE, !.pc = "router_ports"]
    <2>1. OwnJob(a) /\ a.pc # "tunnel"
      BY <1>0, <1>3 DEF OwnJob, Apart, Spares, Job, JobOK, PortSteps, DetachSteps, PortKinds, RouterIfaceAttach, At
    <2> QED  BY <1>3, <2>1, <1>l, <1>c DEF RouterIfaceAttach, Local
  <1>4. CASE RouterIfaceDetach(w)
    <2> DEFINE a == [j EXCEPT !.router = TRUE, !.pc = "gone_ports"]
    <2>1. OwnJob(a) /\ a.pc # "tunnel"
      BY <1>0, <1>4 DEF OwnJob, Apart, Spares, Job, JobOK, PortSteps, DetachSteps, PortKinds, RouterIfaceDetach, At
    <2> QED  BY <1>4, <2>1, <1>l, <1>c DEF RouterIfaceDetach, Local
  <1>5. CASE GetRoutersForNet(w)
    <2> DEFINE a == [j EXCEPT !.router = TRUE, !.pc = "router_ports"]
               b == [j EXCEPT !.todo = {NetOf[Obj(w)]}, !.pc = "network_ports"]
    <2>1. OwnJob(a) /\ a.pc # "tunnel" /\ OwnJob(b) /\ b.pc # "tunnel"
      BY <1>0, <1>5 DEF OwnJob, Apart, Spares, Job, JobOK, PortSteps, DetachSteps, PortKinds, GetRoutersForNet, At
    <2> QED  BY <1>5, <2>1, <1>l DEF GetRoutersForNet, Local
  <1>6. CASE GetPortsFromRouter(w)
    <2> DEFINE found == IF Distributed THEN legs ELSE {}
               topo  == IF j.log.kind = "detach" THEN found \ {Obj(w)} ELSE found
               own   == IF j.log.kind \in PortKinds THEN {NetOf[Obj(w)]} ELSE {}
               todo  == topo \cup own
               a == [j EXCEPT !.topo = topo, !.todo = todo, !.pc = "network_ports"]
    <2>1. Goto(w, a) /\ Local
      BY <1>6 DEF GetPortsFromRouter
    <2>2. j.log.kind = "detach" => j.log.obj \notin topo \cup todo
      BY DEF PortKinds, Obj
    <2> HIDE DEF topo, todo
    <2>3. OwnJob(a) /\ a.pc # "tunnel"
      BY <1>0, <2>2 DEF OwnJob, Apart, Spares, Job, JobOK, PortSteps, DetachSteps, PortKinds
    <2> QED  BY <2>1, <2>3, <1>l DEF Local
  <1>7. CASE GetNetworkPorts(w)
    <2> DEFINE s(n) == [p \in Ports |-> IF p \in NetworkPorts(port, n)
                                        THEN port[p] ELSE j.snap[p]]
               a(n) == [j EXCEPT !.todo = j.todo \ {n}, !.snap = s(n)]
    <2>1. PICK n \in j.todo : Goto(w, a(n))
      BY <1>7 DEF GetNetworkPorts
    <2>2. \A q \in Present(s(n)) : NetOf[q] = n \/ q \in Present(j.snap)
      BY DEF Present, NetworkPorts
    <2> HIDE DEF s
    <2>3. OwnJob(a(n)) /\ a(n).pc # "tunnel"
      BY <1>0, <1>7, <2>2 DEF OwnJob, Apart, Spares, Job, JobOK, PortSteps, DetachSteps, PortKinds, GetNetworkPorts, At
    <2> QED  BY <1>7, <2>1, <2>3, <1>l DEF GetNetworkPorts, Local
  <1>8. CASE GetDetachedPorts(w)
    <2> DEFINE g == [p \in Ports |-> IF p \in NetworkPorts(port, Obj(w))
                                     THEN port[p] ELSE Absent]
               a == [j EXCEPT !.gone = g, !.pc = "router_ports"]
    <2>1. \A q \in Present(g) : NetOf[q] = j.log.obj
      BY DEF Present, NetworkPorts, Absent, Obj
    <2>2. Goto(w, a) /\ Local
      BY <1>8 DEF GetDetachedPorts
    <2> HIDE DEF g
    <2>3. OwnJob(a) /\ a.pc # "tunnel"
      BY <1>0, <1>8, <2>1 DEF OwnJob, Apart, Spares, Job, JobOK, PortSteps, DetachSteps, PortKinds, GetDetachedPorts, At
    <2> QED  BY <2>2, <2>3, <1>l DEF Local
  <1>9. CASE PortInfo(w)
    <2> DEFINE o == PortDb(Obj(w), j.snap)
               i == PortToDb(Obj(w), j.snap, j.topo, j.router, rules)
               dest == VmsOf(j.snap, {Obj(w)})
               a == [j EXCEPT !.out = o, !.dest = dest, !.info = i,
                              !.pc = "update"]
    <2>1. ASSUME Obj(w) \in Present(j.snap) PROVE OwnHeld(j.log.obj, i)
      BY <2>1 DEF OwnHeld, PortToDb, ToDb, Obj
    <2>2. \/ Obj(w) \in Present(j.snap) /\ Goto(w, a)
          \/ Finish(w)
      BY <1>9 DEF PortInfo
    <2>3. j.log.kind \in PortKinds
      BY <1>9 DEF PortInfo
    <2> HIDE DEF o, i, dest
    <2>4. ASSUME Obj(w) \in Present(j.snap) PROVE OwnJob(a) /\ a.pc # "tunnel"
      BY <1>0, <2>1, <2>3, <2>4 DEF OwnJob, Apart, Spares, Job, JobOK, PortSteps, DetachSteps, PortKinds
    <2>5. UNCHANGED <<vm, endpoints, late>>
      BY <1>9 DEF PortInfo, Local
    <2> QED  BY <2>2, <2>4, <2>5, <1>l, <1>c
  <1>10. CASE State(w)
    <2> DEFINE pc == IF L2Pop THEN "agent" ELSE "apply"
               a == [j EXCEPT !.pc = pc]
    <2>1. OwnJob(a) /\ a.pc # "tunnel"
      BY <1>0, <1>10 DEF OwnJob, Apart, Spares, Job, JobOK, PortSteps, DetachSteps, PortKinds, State, At
    <2> QED  BY <1>10, <2>1, <1>l DEF State, Local
  <1>11. CASE RegisterAgent(w)
    <2> DEFINE a == [j EXCEPT !.pc = "apply"]
    <2>1. OwnJob(a) /\ a.pc # "tunnel"
      BY <1>0, <1>11 DEF OwnJob, Apart, Spares, Job, JobOK, PortSteps, DetachSteps, PortKinds, RegisterAgent, At
    <2> QED  BY <1>11, <2>1, <1>l, <1>c DEF RegisterAgent, Local
  <1>12. CASE Apply(w)
    <2> DEFINE a == [j EXCEPT !.pc = "tunnel"]
    <2>1. OwnJob(a) /\ a.log = j.log
      BY <1>0, <1>12 DEF OwnJob, Apart, Spares, Job, JobOK, PortSteps, DetachSteps, PortKinds, Apply, At
    <2>2. j.log.kind \in PortKinds /\ OwnHeld(Obj(w), j.info)
      BY <1>0, <1>12 DEF Apply, At, JobOK, PortSteps, OwnJob, Obj
    <2>3. Obj(w) \in Ports /\ VmOf[Obj(w)] \in Vms
      BY <1>0, <2>2, LogObject, TopologyAssumption DEF Job, Obj
    <2>4. \A v \in Vms : vm'[v] = IF v = VmOf[Obj(w)] THEN j.info ELSE vm[v]
      BY <1>0, <1>12, <2>3 DEF Apply, ApplyDb
    <2>5. \A p \in Ports : OwnHeld(p, vm[VmOf[p]]) => OwnHeld(p, vm'[VmOf[p]])
      BY <2>2, <2>3, <2>4, TopologyAssumption DEF OnePortPerVm
    <2>6. OwnHeld(Obj(w), vm'[VmOf[Obj(w)]])
      BY <2>2, <2>3, <2>4
    <2>7. Goto(w, a) /\ endpoints' = endpoints /\ late' = late
      BY <1>12 DEF Apply
    <2> QED  BY <1>s, <2>1, <2>5, <2>6, <2>7, OwnFrame DEF Obj
  <1>13. CASE CallFails(w)
    <2> DEFINE v == VmOf[Obj(w)]
               m == Message(w, v, "apply", j.info)
               sent == IF At(w, "apply") THEN {m} ELSE {}
    <2>1. GivesUp(w, v, sent) /\ Goto(w, IdleJob) /\ vm' = vm /\ endpoints' = endpoints
      BY <1>13 DEF CallFails, Finish
    <2>2. ASSUME At(w, "apply") PROVE OwnLate(m)
      <3>1. j.log.kind \in PortKinds /\ OwnHeld(Obj(w), j.info)
        BY <1>0, <2>2 DEF At, JobOK, PortSteps, OwnJob, Obj
      <3>2. Obj(w) \in Ports
        BY <1>0, <3>1, LogObject DEF Job, Obj
      <3>3. m.to = v /\ m.op = "apply" /\ m.db = j.info
        BY DEF Message
      <3>4. \A p \in Ports : VmOf[p] = v => p = Obj(w)
        BY <3>2 DEF OnePortPerVm
      <3> HIDE DEF m, v
      <3> QED  BY <3>1, <3>3, <3>4 DEF OwnLate
    <2>3. \A x \in sent : OwnLate(x)
      <3> HIDE DEF m
      <3> QED  BY <2>2
    <2>4. \A x \in late' : x \in late \/ OwnLate(x)
      <3> HIDE DEF sent, v
      <3> QED  BY <2>1, <2>3, GivesUpLate
    <2> HIDE DEF sent, v
    <2> QED  BY <2>1, <2>4, OwnIdle, IdleType, OwnFrame
  <1>14. CASE AddEndpoint(w)
    <2>1. OwnHeld(Obj(w), vm[VmOf[Obj(w)]])
      BY <1>14 DEF AddEndpoint, At, OwnInv, Obj
    <2>2. Obj(w) \in Ports
      BY <1>0, <1>14, LogObject DEF AddEndpoint, At, JobOK, PortSteps, Job, Obj
    <2>3. /\ vm' = vm /\ endpoints' = endpoints \cup {VmOf[Obj(w)]}
          /\ Goto(w, IdleJob) /\ late' = late
      BY <1>14 DEF AddEndpoint, Finish
    <2>4. \A p \in Ports : VmOf[p] \in endpoints' =>
            VmOf[p] \in endpoints \/ OwnHeld(p, vm'[VmOf[p]])
      BY <2>1, <2>2, <2>3 DEF OnePortPerVm
    <2> QED  BY <2>3, <2>4, OwnIdle, IdleType, OwnFrame
  <1>15. CASE BulkUpdate(w)
    <2> DEFINE a(v) == [j EXCEPT !.dest = j.dest \ {v}]
    <2>1. PICK v \in j.dest : /\ vm' = [vm EXCEPT ![v] = UpdateDb(@, j.out)]
                              /\ Goto(w, a(v))
      BY <1>15 DEF BulkUpdate
    <2>2. v \in Vms /\ vm[v] \in Db /\ j.out \in Db
      BY <1>0 DEF Job
    <2>3. \A u \in Vms : vm'[u] = IF u = v THEN UpdateDb(vm[v], j.out) ELSE vm[u]
      BY <1>0, <2>1, <2>2
    <2>4. \A p \in Ports : OwnHeld(p, vm[VmOf[p]]) => OwnHeld(p, vm'[VmOf[p]])
      BY <2>2, <2>3, OwnUpdate, TopologyAssumption
    <2>5. OwnJob(a(v)) /\ a(v).pc # "tunnel"
      BY <1>0, <1>15 DEF OwnJob, Apart, Spares, Job, JobOK, PortSteps, DetachSteps, PortKinds, BulkUpdate, At
    <2>6. endpoints' = endpoints /\ late' = late
      BY <1>15 DEF BulkUpdate
    <2> QED  BY <1>s, <2>1, <2>4, <2>5, <2>6, OwnFrame
  <1>16. CASE BulkDelete(w)
    <2> DEFINE a(v) == [j EXCEPT !.dest = j.dest \ {v}]
    <2>1. PICK v \in j.dest : /\ \E d \in DeleteDb(vm[v], j.out) :
                                   vm' = [vm EXCEPT ![v] = d]
                              /\ Goto(w, a(v))
      BY <1>16 DEF BulkDelete
    <2>2. PICK d \in DeleteDb(vm[v], j.out) : vm' = [vm EXCEPT ![v] = d]
      BY <2>1
    <2>3. v \in Vms /\ vm[v] \in Db /\ j.out \in Db
      BY <1>0 DEF Job
    <2>4. \A u \in Vms : vm'[u] = IF u = v THEN d ELSE vm[u]
      BY <1>0, <2>2, <2>3
    <2>5. Spares(j)
      BY <1>0, <1>16 DEF BulkDelete, At, OwnJob
    <2>6. \A p \in Ports : OwnHeld(p, vm[VmOf[p]]) => OwnHeld(p, vm'[VmOf[p]])
      <3> SUFFICES ASSUME NEW p \in Ports, OwnHeld(p, vm[VmOf[p]])
                   PROVE  OwnHeld(p, vm'[VmOf[p]])
        OBVIOUS
      <3>1. CASE VmOf[p] = v
        <4>1. p \notin Present(j.out.lport) /\ NetOf[p] \notin j.out.lswitch
          BY <2>5, <3>1 DEF Spares
        <4>2. OwnHeld(p, d)
          BY <2>3, <3>1, <4>1, OwnDelete
        <4> QED  BY <2>3, <2>4, <3>1, <4>2
      <3>2. CASE VmOf[p] # v
        BY <2>4, <3>2, TopologyAssumption
      <3> QED  BY <3>1, <3>2
    <2>7. OwnJob(a(v)) /\ a(v).pc # "tunnel"
      BY <1>0, <1>16 DEF OwnJob, Apart, Spares, Job, JobOK, PortSteps, DetachSteps, PortKinds, BulkDelete, At
    <2>8. endpoints' = endpoints /\ late' = late
      BY <1>16 DEF BulkDelete
    <2> QED  BY <1>s, <2>1, <2>6, <2>7, <2>8, OwnFrame
  <1>17. CASE BulkLost(w)
    <2> DEFINE a(v) == [j EXCEPT !.dest = j.dest \ {v}]
               op == IF At(w, "update") THEN "update" ELSE "delete"
               m(v) == Message(w, v, op, j.out)
    <2>1. PICK v \in j.dest : GivesUp(w, v, {m(v)}) /\ Goto(w, a(v))
      BY <1>17 DEF BulkLost
    <2>2. OwnJob(a(v)) /\ a(v).log = j.log /\ a(v).pc = j.pc
      BY <1>0 DEF OwnJob, Apart, Spares, Job, JobOK, PortSteps, DetachSteps, PortKinds
    <2>3. \A p \in Ports : OwnHeld(p, vm[VmOf[p]]) => OwnHeld(p, vm'[VmOf[p]])
      BY <1>17 DEF BulkLost
    <2>4. j.pc = "tunnel" => OwnHeld(j.log.obj, vm[VmOf[j.log.obj]])
      BY DEF OwnInv
    <2>5. vm' = vm /\ endpoints' = endpoints
      BY <1>17 DEF BulkLost
    <2>6. op = "delete" => Spares(j)
      BY <1>0, <1>17 DEF BulkLost, At, OwnJob
    <2>7. m(v).to = v /\ m(v).op = op /\ m(v).db = j.out
      BY DEF Message
    <2>8. OwnLate(m(v))
      <3> HIDE DEF m
      <3> QED  BY <2>1, <2>6, <2>7 DEF OwnLate, Spares
    <2>9. \A x \in late' : x \in late \/ OwnLate(x)
      <3> HIDE DEF m
      <3> QED  BY <2>1, <2>8, GivesUpLate
    <2> HIDE DEF m
    <2> QED  BY <1>s, <2>1, <2>2, <2>3, <2>4, <2>5, <2>9, OwnFrame
  <1>18. CASE BulkDone(w)
    <2> DEFINE a == [j EXCEPT !.pc = "state", !.out = EmptyDb]
    <2>1. ASSUME j.log.kind \in PortKinds PROVE OwnJob(a) /\ a.pc # "tunnel"
      <3>1. j.pc = "update"
        BY <1>0, <1>18, <2>1 DEF BulkDone, At, JobOK, DetachSteps, PortKinds
      <3> QED  BY <1>0, <2>1, <3>1 DEF OwnJob, Apart, Spares, Job, JobOK, PortSteps, DetachSteps, PortKinds
    <2> QED  BY <1>18, <2>1, <1>l, <1>c DEF BulkDone, Local
  <1>19. CASE SecurityGroupUpdate(w)
    <2>1. PICK o, dest : Goto(w, [j EXCEPT !.out = o, !.dest = dest,
                                          !.pc = "update"])
      BY <1>19 DEF SecurityGroupUpdate
    <2>2. j.log.kind = "update_sg"
      BY <1>0, <1>19 DEF SecurityGroupUpdate, At, JobOK
    <2> DEFINE a == [j EXCEPT !.out = o, !.dest = dest, !.pc = "update"]
    <2>3. OwnJob(a) /\ a.pc # "tunnel"
      BY <1>0, <2>2 DEF OwnJob, Apart, Spares, Job, JobOK, PortSteps, DetachSteps, PortKinds
    <2> QED  BY <1>19, <2>1, <2>3, <1>l DEF SecurityGroupUpdate, Local
  <1>20. CASE AttachInfo(w)
    <2>1. PICK o, dest : Goto(w, [j EXCEPT !.out = o, !.dest = dest,
                                          !.pc = "update"])
      BY <1>20 DEF AttachInfo
    <2>2. j.log.kind \notin PortKinds
      BY <1>20 DEF AttachInfo, PortKinds
    <2> DEFINE a == [j EXCEPT !.out = o, !.dest = dest, !.pc = "update"]
    <2>3. OwnJob(a) /\ a.pc # "tunnel"
      BY <1>0, <2>2 DEF OwnJob, Apart, Spares, Job, JobOK, PortSteps, DetachSteps, PortKinds
    <2> QED  BY <1>20, <2>1, <2>3, <1>l DEF AttachInfo, Local
  <1>21. CASE Disconnect1(w)
    <2> DEFINE o    == ToDb(j.gone, {}, FALSE)
               dest == VmsOf(j.snap, {})
               a == [j EXCEPT !.out = o, !.dest = dest, !.pc = "delete1"]
    <2>1. j.log.kind = "detach" /\ Apart(j)
      BY <1>0, <1>21 DEF Disconnect1, At, JobOK, DetachSteps, OwnJob
    <2>2. j.snap \in Table /\ j.gone \in Table
      BY <1>0 DEF Job
    <2>3. ASSUME NEW p \in Ports, VmOf[p] \in dest
          PROVE  p \notin Present(o.lport) /\ NetOf[p] \notin o.lswitch
      <3>1. p \in Bound(j.snap)
        BY <2>3 DEF VmsOf, OnePortPerVm, Bound
      <3>2. p \in Present(j.snap)
        BY <2>2, <3>1 DEF Bound, Present, Table, Lport
      <3>3. o.lport = j.gone /\ o.lswitch = {}
        BY DEF ToDb
      <3> QED  BY <2>1, <3>2, <3>3 DEF Apart
    <2>4. Goto(w, a) /\ Local
      BY <1>21 DEF Disconnect1
    <2> HIDE DEF o, dest
    <2>5. Spares(a)
      BY <1>0, <2>3 DEF Spares, Job
    <2>6. OwnJob(a) /\ a.pc # "tunnel"
      BY <1>0, <2>1, <2>5 DEF OwnJob, Apart, Job, PortKinds
    <2> QED  BY <2>4, <2>6, <1>l DEF Local
  <1>22. CASE Disconnect2(w)
    <2> DEFINE o    == ToDb(j.snap, j.topo, TRUE)
               dest == VmsOf(j.gone, {})
               a == [j EXCEPT !.out = o, !.dest = dest, !.pc = "delete2"]
    <2>1. j.log.kind = "detach" /\ Apart(j)
      BY <1>0, <1>22 DEF Disconnect2, At, JobOK, DetachSteps, OwnJob
    <2>2. j.snap \in Table /\ j.gone \in Table
      BY <1>0 DEF Job
    <2>3. ASSUME NEW p \in Ports, VmOf[p] \in dest
          PROVE  p \notin Present(o.lport) /\ NetOf[p] \notin o.lswitch
      <3>1. p \in Bound(j.gone)
        BY <2>3 DEF VmsOf, OnePortPerVm, Bound
      <3>2. p \in Present(j.gone)
        BY <2>2, <3>1 DEF Bound, Present, Table, Lport
      <3>3. o.lport = j.snap /\ o.lswitch = j.topo
        BY DEF ToDb
      <3> QED  BY <2>1, <3>2, <3>3 DEF Apart
    <2>4. Goto(w, a) /\ Local
      BY <1>22 DEF Disconnect2
    <2> HIDE DEF o, dest
    <2>5. Spares(a)
      BY <1>0, <2>3 DEF Spares, Job
    <2>6. OwnJob(a) /\ a.pc # "tunnel"
      BY <1>0, <2>1, <2>5 DEF OwnJob, Apart, Job, PortKinds
    <2> QED  BY <2>4, <2>6, <1>l DEF Local
  <1> QED  BY <1>1, <1>2, <1>3, <1>4, <1>5, <1>6, <1>7, <1>8, <1>9, <1>10,
           <1>11, <1>12, <1>13, <1>14, <1>15, <1>16, <1>17, <1>18,
           <1>19, <1>20, <1>21, <1>22
           DEF Handle

LEMMA OwnExecuted ==
  ASSUME NEW db \in Db, NEW m \in Msg, OwnLate(m), NEW d \in Executed(db, m),
         NEW p \in Ports, VmOf[p] = m.to, OwnHeld(p, db)
  PROVE  OwnHeld(p, d)
  <1>1. m.db \in Db /\ m.op \in {"apply", "update", "delete"}
    BY DEF Msg
  <1>2. CASE m.op = "apply"
    <2>1. d = m.db
      BY <1>2 DEF Executed, ApplyDb
    <2> QED  BY <1>2, <2>1 DEF OwnLate
  <1>3. CASE m.op = "update"
    <2>1. d = UpdateDb(db, m.db)
      BY <1>3 DEF Executed
    <2> QED  BY <1>1, <2>1, OwnUpdate
  <1>4. CASE m.op = "delete"
    <2>1. d \in DeleteDb(db, m.db)
      BY <1>4 DEF Executed
    <2>2. p \notin Present(m.db.lport) /\ NetOf[p] \notin m.db.lswitch
      BY <1>4 DEF OwnLate
    <2> QED  BY <1>1, <2>1, <2>2, OwnDelete
  <1> QED  BY <1>1, <1>2, <1>3, <1>4

(* A message executed after its sender gave up.                            *)
LEMMA OwnLateDelivery ==
  ASSUME TypeInv, OwnInv, LateDelivery
  PROVE  OwnInv'
  <1>1. PICK m \in late : /\ \E d \in Executed(vm[m.to], m) :
                               vm' = [vm EXCEPT ![m.to] = d]
                          /\ late' = late \ {m}
    BY DEF LateDelivery
  <1>2. PICK d \in Executed(vm[m.to], m) : vm' = [vm EXCEPT ![m.to] = d]
    BY <1>1
  <1>3. m \in Msg /\ m.to \in Vms /\ vm \in [Vms -> Db] /\ OwnLate(m)
    BY <1>1 DEF TypeInv, TypeOK, Msg, OwnInv
  <1>4. \A u \in Vms : vm'[u] = IF u = m.to THEN d ELSE vm[u]
    BY <1>2, <1>3
  <1>5. ASSUME NEW p \in Ports, OwnHeld(p, vm[VmOf[p]])
        PROVE  OwnHeld(p, vm'[VmOf[p]])
    <2>0. VmOf[p] \in Vms
      BY TopologyAssumption
    <2>1. CASE VmOf[p] = m.to
      <3>1. vm[m.to] \in Db /\ OwnHeld(p, vm[m.to])
        BY <1>3, <1>5, <2>1
      <3>2. OwnHeld(p, d)
        BY <1>2, <1>3, <2>1, <3>1, OwnExecuted
      <3> QED  BY <1>4, <2>0, <2>1, <3>2
    <2>2. CASE VmOf[p] # m.to
      BY <1>4, <1>5, <2>0, <2>2
    <2> QED  BY <2>1, <2>2
  <1>6. job' = job /\ endpoints' = endpoints
    BY DEF LateDelivery
  <1>7. OwnPortKept'
    BY <1>5, <1>6 DEF OwnInv, OwnPortKept, OwnHeld
  <1>8. ASSUME NEW w \in Workers, job[w].pc = "tunnel"
        PROVE  OwnHeld(job[w].log.obj, vm'[VmOf[job[w].log.obj]])
    <2>1. job[w] \in Job /\ JobOK(job[w])
      BY DEF TypeInv, TypeOK
    <2>2. job[w].log.obj \in Ports
      BY <1>8, <2>1, LogObject DEF Job, JobOK, PortSteps
    <2> QED  BY <1>5, <1>8, <2>2 DEF OwnInv
  <1>9. \A x \in late' : OwnLate(x)
    BY <1>1 DEF OwnInv
  <1> QED  BY <1>6, <1>7, <1>8, <1>9 DEF OwnInv

LEMMA OwnInit ==
  ASSUME OnePortPerVm
  PROVE  Init => OwnInv
  <1> SUFFICES ASSUME Init PROVE OwnInv
    OBVIOUS
  <1>1. ASSUME NEW p \in Ports, VmOf[p] \in endpoints
        PROVE  OwnHeld(p, vm[VmOf[p]])
    <2>1. VmOf[p] \in WarmVms /\ VmOf[p] \in Vms
      BY <1>1, TopologyAssumption DEF Init
    <2>2. p \in InitPorts
      BY <2>1, ApiAssumption DEF WarmVms, OnePortPerVm
    <2>3. vm[VmOf[p]] = WarmDb(VmOf[p])
      BY <2>1 DEF Init
    <2>4. WarmDb(VmOf[p]).lport = port /\ WarmDb(VmOf[p]).lswitch = Nets
      BY DEF WarmDb, ToDb
    <2>5. p \in Present(port)
      BY <2>2 DEF Init, ApiInit, Present
    <2> QED  BY <2>3, <2>4, <2>5, TopologyAssumption DEF OwnHeld
  <1>2. OwnPortKept
    BY <1>1 DEF OwnPortKept, OwnHeld
  <1>3. \A w \in Workers : job[w] = IdleJob
    BY DEF Init
  <1>4. late = {}
    BY DEF Init
  <1> QED  BY <1>2, <1>3, <1>4, OwnIdle DEF OwnInv

LEMMA OwnStep ==
  ASSUME OnePortPerVm
  PROVE  TypeInv /\ OwnInv /\ [Next]_vars => OwnInv'
  <1> SUFFICES ASSUME TypeInv, OwnInv, [Next]_vars PROVE OwnInv'
    OBVIOUS
  <1>1. CASE UNCHANGED agentVars
    BY <1>1 DEF agentVars, OwnInv, OwnPortKept
  <1>2. ASSUME NEW w \in Workers, ProcessLog(w) PROVE OwnInv'
    <2>1. PICK t \in logs :
            \/ UNCHANGED job
            \/ Goto(w, [IdleJob EXCEPT !.pc = ACTIONS_CLASS[t.kind], !.log = t])
      BY <1>2 DEF ProcessLog
    <2>2. UNCHANGED <<vm, agents, endpoints, late, cut>>
      BY <1>2 DEF ProcessLog
    <2>3. CASE UNCHANGED job
      BY <1>1, <2>2, <2>3 DEF agentVars
    <2> DEFINE pc == ACTIONS_CLASS[t.kind]
               a == [IdleJob EXCEPT !.pc = pc, !.log = t]
    <2>4. CASE Goto(w, a)
      <3>1. t \in Request /\ t.kind \in AllKinds
        BY DEF TypeInv, TypeOK, ApiTypeOK, Request
      <3>2. pc \in {"get_port", "sg", "router_update", "attach", "detach", "idle"}
        BY <3>1 DEF ACTIONS_CLASS, AllKinds, PortKinds, LegKinds
      <3>3. a \in Job
        <4> HIDE DEF pc
        <4> QED  BY <3>1, <3>2, IdleType DEF Job, Steps, PortSteps, DetachSteps
      <3>4. Present(NoPorts) = {}
        BY DEF Present, NoPorts, Absent
      <3>5. OwnJob(a) /\ a.pc # "tunnel"
        <4> HIDE DEF pc
        <4> QED  BY <3>2, <3>4 DEF OwnJob, Apart, IdleJob
      <3> QED  BY <2>2, <2>4, <3>3, <3>5, OwnLocal
    <2> QED  BY <2>1, <2>3, <2>4
  <1>3. ASSUME NEW w \in Workers, Handle(w) PROVE OwnInv'
    BY <1>3, OwnHandle
  <1>4. ASSUME NEW w \in Workers, WorkerDies(w) PROVE OwnInv'
    BY <1>4, OwnIdle, IdleType, OwnLocal DEF WorkerDies, Finish
  <1>5. CASE LateDelivery
    BY <1>5, OwnLateDelivery
  <1> QED  BY <1>1, <1>2, <1>3, <1>4, <1>5 DEF Next, Rest, WorkerNext, vars, agentVars

(* In every reachable state of every deployment with one port per VM, a VM  *)
(* announced as an endpoint holds its own port and its own switch: no       *)
(* detach, however it races with the commit it was cast from, deletes them. *)
THEOREM OwnPortAlwaysKept ==
  ASSUME OnePortPerVm
  PROVE  Spec => []OwnPortKept
  <1>1. OwnInv => OwnPortKept
    BY DEF OwnInv
  <1>2. TypeInv /\ OwnInv /\ [Next]_vars => OwnInv'
    BY OwnStep
  <1>3. Init => OwnInv
    BY OwnInit
  <1> QED  BY <1>1, <1>2, <1>3, TypeInvariant, PTL DEF Spec
=============================================================================
