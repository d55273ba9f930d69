------------------------------ MODULE LogAgent ------------------------------
(***************************************************************************)
(* The log agent (cmd/log_agent.py) and its handlers                        *)
(* (common/update_actions.py).  Several workers take casts off the queue;   *)
(* each handler reads Neutron's tables with one query after the other,      *)
(* builds the entries from what it read, and sends them to the VMs.  Any    *)
(* request and any other worker can run between two queries and between two *)
(* sends: the lock around process_log is commented out.                     *)
(***************************************************************************)
EXTENDS NeutronApi

CONSTANTS Workers,      \* rpc_workers processes times their greenthreads
          Named,        \* VMs whose agent reports the host of its port's binding
          Distributed,  \* the router is distributed
          L2Pop,        \* the option bambuk.l2_population
          MaxCut,       \* most sockets that are useless at a time; 0: no send fails
          Crashes       \* worker processes may die

ASSUME AgentAssumption ==
  /\ Named \subseteq Vms
  /\ Distributed \in BOOLEAN
  /\ L2Pop \in BOOLEAN
  /\ MaxCut \in Nat
  /\ Crashes \in BOOLEAN
  /\ Warm => Distributed

VARIABLES job,        \* job[w]: the handler worker w runs and its locals
          vm,         \* vm[v]: the connect db of VM v
          agents,     \* VMs whose host is in Neutron's agents table
          endpoints,  \* VMs registered as VXLAN tunnel endpoints
          late,       \* messages whose sender has given up, not executed yet
          cut         \* <<w, v>>: the socket of worker w to VM v is useless

agentVars == <<job, vm, agents, endpoints, late, cut>>

vars == <<port, legs, up, rules, tx, logs, rows, reqs,
          job, vm, agents, endpoints, late, cut>>

PortSteps == {"get_port", "routers", "state", "agent", "apply", "tunnel"}

DetachSteps == {"detach", "gone_ports", "delete1", "delete2"}

Steps == PortSteps \cup DetachSteps \cup
         {"idle", "sg", "router_update", "attach",
          "router_ports", "network_ports", "update"}

(* A message on the wire: the log it was made for, its VM, what the VM is   *)
(* to do and the entries.                                                   *)
Msg == [id : Nat, to : Vms, op : {"apply", "update", "delete"}, db : Db]

NoLog == [id |-> 0, kind |-> "none", obj |-> Router]

(* The locals of a handler: the log; whether a router was found, the        *)
(* networks of its ports, the networks still to be read, the ports read so  *)
(* far, the ports of the detached network; the entries of the current bulk  *)
(* send and the VMs it has still to reach; the entries to apply.            *)
Job == [pc : Steps, log : Request \cup {NoLog}, router : BOOLEAN,
        topo : SUBSET Nets, todo : SUBSET Nets, snap : Table, gone : Table,
        out : Db, dest : SUBSET Vms, info : Db]

IdleJob == [pc |-> "idle", log |-> NoLog, router |-> FALSE,
            topo |-> {}, todo |-> {}, snap |-> NoPorts, gone |-> NoPorts,
            out |-> EmptyDb, dest |-> {}, info |-> EmptyDb]

TypeOK ==
  /\ ApiTypeOK
  /\ job \in [Workers -> Job]
  /\ vm \in [Vms -> Db]
  /\ agents \subseteq Vms
  /\ endpoints \subseteq Vms
  /\ late \subseteq Msg
  /\ cut \subseteq Workers \X Vms

(* A VM of a system that has run for a while holds all the ports there are, *)
(* and its own security groups; a new VM holds nothing.                     *)
WarmDb(v) ==
  [ToDb(port, Nets, TRUE) EXCEPT
     !.secgroup = [g \in Groups |->
        IF \E p \in InitPorts : VmOf[p] = v /\ g \in GroupsOf[p] THEN 1 ELSE 0]]

WarmVms == IF Warm THEN {VmOf[p] : p \in InitPorts} ELSE {}

Init ==
  /\ ApiInit
  /\ job = [w \in Workers |-> IdleJob]
  /\ vm = [v \in Vms |-> IF v \in WarmVms THEN WarmDb(v) ELSE EmptyDb]
  /\ agents = IF L2Pop THEN WarmVms \cap Named ELSE {}
  /\ endpoints = WarmVms
  /\ late = {} /\ cut = {}
-----------------------------------------------------------------------------
At(w, pc) == job[w].pc = pc

Goto(w, j) == job' = [job EXCEPT ![w] = j]

(* The handler returns, or raises out of process_log.                      *)
Finish(w) == Goto(w, IdleJob)

Obj(w) == job[w].log.obj

(* ACTIONS_CLASS: the first step of the handler of a log.  A deleted port   *)
(* has none.                                                                *)
ACTIONS_CLASS ==
  [k \in AllKinds |->
     CASE k \in PortKinds \ {"delete_port"} -> "get_port"
       [] k = "update_sg"                   -> "sg"
       [] k = "update_router"               -> "router_update"
       [] k = "attach"                      -> "attach"
       [] k = "detach"                      -> "detach"
       [] k = "delete_port"                 -> "idle"]

ProcessLog(w) ==
  /\ At(w, "idle")
  /\ \E t \in logs :
       /\ logs' = logs \ {t}
       /\ IF ACTIONS_CLASS[t.kind] = "idle"
          THEN UNCHANGED job
          ELSE Goto(w, [IdleJob EXCEPT !.pc = ACTIONS_CLASS[t.kind], !.log = t])
  /\ UNCHANGED <<port, legs, up, rules, tx, rows, reqs, vm, agents, endpoints,
                 late, cut>>

(* Every later step of a handler only reads Neutron's tables.              *)
Local == UNCHANGED <<port, legs, up, rules, tx, logs, rows, reqs,
                     vm, agents, endpoints, late, cut>>

(* A REQ socket that has timed out refuses every later send, for as long as *)
(* its process lives (CutForGood of module ZmqRpc).                         *)
Connected(w, v) == <<w, v>> \notin cut

(* Mutant of GivesUp: a new socket is made for the next send.              *)
GivesUpAnew(w, v, sent) ==
  /\ MaxCut > 0
  /\ late' = late \cup sent
  /\ UNCHANGED cut

(* A send to VM v raises: at once on a useless socket; else when no answer  *)
(* came in time, and then the VM may yet execute the messages in sent.      *)
GivesUp(w, v, sent) ==
  IF Connected(w, v)
  THEN /\ Cardinality(cut) < MaxCut
       /\ cut' = cut \cup {<<w, v>>}
       /\ late' = late \cup sent
  ELSE UNCHANGED <<late, cut>>

Message(w, v, op, db) ==
  [id |-> job[w].log.id, to |-> v, op |-> op, db |-> db]
-----------------------------------------------------------------------------
(* PortUpdateAction.                                                       *)

(* get_port, then _get_provider_port: a port that is gone or not bound ends *)
(* the handler.                                                             *)
GetPort(w) ==
  /\ At(w, "get_port")
  /\ IF Obj(w) \in Bound(port)
     THEN Goto(w, [job[w] EXCEPT !.pc = "routers"])
     ELSE Finish(w)
  /\ Local

(* Mutant of GetRoutersForNet: the router, whatever network it serves.     *)
GetRoutersForNetAny(w) ==
  /\ At(w, "routers")
  /\ Goto(w, [job[w] EXCEPT !.router = TRUE, !.pc = "router_ports"])
  /\ Local

(* Is there a router interface on the port's network?  Only interfaces of   *)
(* distributed routers are looked for (ROUTER_INTERFACE_OWNERS); the        *)
(* router's admin_state_up is not looked at.                                *)
GetRoutersForNet(w) ==
  /\ At(w, "routers")
  /\ IF Distributed /\ NetOf[Obj(w)] \in legs
     THEN Goto(w, [job[w] EXCEPT !.router = TRUE, !.pc = "router_ports"])
     ELSE Goto(w, [job[w] EXCEPT !.todo = {NetOf[Obj(w)]},
                                 !.pc = "network_ports"])
  /\ Local

(* Mutant of GetPortsFromRouter: the detached network is not left out.     *)
GetPortsFromRouterAll(w) ==
  /\ At(w, "router_ports")
  /\ LET own == IF job[w].log.kind \in PortKinds THEN {NetOf[Obj(w)]} ELSE {}
     IN  Goto(w, [job[w] EXCEPT !.topo = legs, !.todo = legs \cup own,
                                !.pc = "network_ports"])
  /\ Local

(* The router's ports, with a query of its own: the networks to read.  A   *)
(* detach leaves out the detached network, a port adds its own.            *)
GetPortsFromRouter(w) ==
  /\ At(w, "router_ports")
  /\ LET found == IF Distributed THEN legs ELSE {}
         topo  == IF job[w].log.kind = "detach" THEN found \ {Obj(w)} ELSE found
         own   == IF job[w].log.kind \in PortKinds THEN {NetOf[Obj(w)]} ELSE {}
     IN  Goto(w, [job[w] EXCEPT !.topo = topo, !.todo = topo \cup own,
                                !.pc = "network_ports"])
  /\ Local

(* One query per network, in the order of a set.                           *)
GetNetworkPorts(w) ==
  /\ At(w, "network_ports")
  /\ \E n \in job[w].todo :
       Goto(w, [job[w] EXCEPT
                  !.todo = @ \ {n},
                  !.snap = [p \in Ports |-> IF p \in NetworkPorts(port, n)
                                            THEN port[p] ELSE job[w].snap[p]]])
  /\ Local

AllRead(w) == At(w, "network_ports") /\ job[w].todo = {}

(* _get_endpoints, BambukPortInfo and _get_vms.  A port deleted since       *)
(* get_port is not among the ports read: port_info.lport is None and        *)
(* subscripting it raises.                                                  *)
PortInfo(w) ==
  /\ AllRead(w)
  /\ job[w].log.kind \in PortKinds
  /\ LET p == Obj(w)
         j == job[w]
     IN  IF p \in Present(j.snap)
         THEN Goto(w, [j EXCEPT
                !.out  = PortDb(p, j.snap),
                !.dest = VmsOf(j.snap, {p}),
                !.info = PortToDb(p, j.snap, j.topo, j.router, rules),
                !.pc   = "update"])
         ELSE Finish(w)
  /\ Local

(* agent_state = bambuk_client.state(...)                                  *)
State(w) ==
  /\ At(w, "state")
  /\ Connected(w, VmOf[Obj(w)])
  /\ Goto(w, [job[w] EXCEPT !.pc = IF L2Pop THEN "agent" ELSE "apply"])
  /\ Local

(* create_or_update_agent registers the host the agent reported; the        *)
(* handler goes on only if the host of the binding is registered.           *)
RegisterAgent(w) ==
  /\ At(w, "agent")
  /\ agents' = agents \cup ({VmOf[Obj(w)]} \cap Named)
  /\ IF VmOf[Obj(w)] \in agents'
     THEN Goto(w, [job[w] EXCEPT !.pc = "apply"])
     ELSE Finish(w)
  /\ UNCHANGED <<port, legs, up, rules, tx, logs, rows, reqs, vm, endpoints,
                 late, cut>>

(* bambuk_client.apply to the port's own VM, answered in time.             *)
Apply(w) ==
  /\ At(w, "apply")
  /\ Connected(w, VmOf[Obj(w)])
  /\ vm' = [vm EXCEPT ![VmOf[Obj(w)]] = ApplyDb(@, job[w].info)]
  /\ Goto(w, [job[w] EXCEPT !.pc = "tunnel"])
  /\ UNCHANGED <<port, legs, up, rules, tx, logs, rows, reqs, agents, endpoints,
                 late, cut>>

(* The call raises in the end: the retries after the first timeout are      *)
(* refused by the socket.                                                   *)
CallFails(w) ==
  /\ At(w, "state") \/ At(w, "apply")
  /\ LET v == VmOf[Obj(w)]
     IN  GivesUp(w, v, IF At(w, "apply")
                       THEN {Message(w, v, "apply", job[w].info)} ELSE {})
  /\ Finish(w)
  /\ UNCHANGED <<port, legs, up, rules, tx, logs, rows, reqs,
                 vm, agents, endpoints>>

(* driver.obj.add_endpoint for the agent's only tunnel type.               *)
AddEndpoint(w) ==
  /\ At(w, "tunnel")
  /\ endpoints' = endpoints \cup {VmOf[Obj(w)]}
  /\ Finish(w)
  /\ UNCHANGED <<port, legs, up, rules, tx, logs, rows, reqs, vm, agents,
                 late, cut>>
-----------------------------------------------------------------------------
(* BambukAgentClient.update and .delete: one send per VM, in any order, no  *)
(* retry; the handler waits until each has ended one way or the other.      *)
BulkUpdate(w) ==
  /\ At(w, "update")
  /\ \E v \in job[w].dest :
       /\ Connected(w, v)
       /\ vm' = [vm EXCEPT ![v] = UpdateDb(@, job[w].out)]
       /\ Goto(w, [job[w] EXCEPT !.dest = @ \ {v}])
  /\ UNCHANGED <<port, legs, up, rules, tx, logs, rows, reqs, agents, endpoints,
                 late, cut>>

BulkDelete(w) ==
  /\ At(w, "delete1") \/ At(w, "delete2")
  /\ \E v \in job[w].dest :
       /\ Connected(w, v)
       /\ \E db \in DeleteDb(vm[v], job[w].out) : vm' = [vm EXCEPT ![v] = db]
       /\ Goto(w, [job[w] EXCEPT !.dest = @ \ {v}])
  /\ UNCHANGED <<port, legs, up, rules, tx, logs, rows, reqs, agents, endpoints,
                 late, cut>>

(* A send of the bulk raises: its greenthread ends with an exception that   *)
(* nobody sees.                                                             *)
BulkLost(w) ==
  /\ At(w, "update") \/ At(w, "delete1") \/ At(w, "delete2")
  /\ \E v \in job[w].dest :
       /\ GivesUp(w, v, {Message(w, v, IF At(w, "update") THEN "update" ELSE "delete",
                                 job[w].out)})
       /\ Goto(w, [job[w] EXCEPT !.dest = @ \ {v}])
  /\ UNCHANGED <<port, legs, up, rules, tx, logs, rows, reqs,
                 vm, agents, endpoints>>

(* What VM v may hold once its agent has executed a message.               *)
Executed(db, m) ==
  CASE m.op = "apply"  -> {ApplyDb(db, m.db)}
    [] m.op = "update" -> {UpdateDb(db, m.db)}
    [] m.op = "delete" -> DeleteDb(db, m.db)

(* The agent executes a message its sender has given up on: it was on its   *)
(* way, or the agent was slow.  It may also never come to that.             *)
LateDelivery ==
  /\ \E m \in late :
       /\ \E db \in Executed(vm[m.to], m) : vm' = [vm EXCEPT ![m.to] = db]
       /\ late' = late \ {m}
  /\ UNCHANGED <<port, legs, up, rules, tx, logs, rows, reqs,
                 job, agents, endpoints, cut>>

(* Mutant of BulkDone: nobody waits for the end of the second delete.      *)
BulkDoneUpdates(w) ==
  /\ At(w, "update")
  /\ job[w].dest = {}
  /\ IF job[w].log.kind \in PortKinds
     THEN Goto(w, [job[w] EXCEPT !.pc = "state", !.out = EmptyDb])
     ELSE Finish(w)
  /\ Local

(* pool.waitall() returns.                                                 *)
BulkDone(w) ==
  /\ At(w, "update") \/ At(w, "delete2")
  /\ job[w].dest = {}
  /\ IF job[w].log.kind \in PortKinds
     THEN Goto(w, [job[w] EXCEPT !.pc = "state", !.out = EmptyDb])
     ELSE Finish(w)
  /\ Local
-----------------------------------------------------------------------------
(* SecurityGroupUpdateAction: the group and its ports are read in one      *)
(* transaction.                                                            *)
SecurityGroupUpdate(w) ==
  /\ At(w, "sg")
  /\ LET members == {p \in Bound(port) : Obj(w) \in GroupsOf[p]}
     IN  Goto(w, [job[w] EXCEPT
                    !.out  = SecGroupDb(Obj(w), rules[Obj(w)]),
                    !.dest = {VmOf[p] : p \in members},
                    !.pc   = "update"])
  /\ Local

(* Mutant of RouterUpdate: enabling a router tells nobody.                 *)
RouterUpdateSilent(w) ==
  /\ At(w, "router_update")
  /\ Finish(w)
  /\ Local

(* RouterUpdateAction: an enabled router is handled as an attach.  For a   *)
(* disabled one the call of _get_endpoints lacks its context argument and  *)
(* raises before the first delete is sent.                                 *)
RouterUpdate(w) ==
  /\ At(w, "router_update")
  /\ IF Distributed /\ up
     THEN Goto(w, [job[w] EXCEPT !.pc = "attach"])
     ELSE Finish(w)
  /\ Local

(* RouterIfaceAttachAction.                                                *)
RouterIfaceAttach(w) ==
  /\ At(w, "attach")
  /\ IF Distributed /\ up
     THEN Goto(w, [job[w] EXCEPT !.router = TRUE, !.pc = "router_ports"])
     ELSE Finish(w)
  /\ Local

(* Mutant of AttachInfo: the VMs of the attached network are left out.     *)
AttachInfoOneWay(w) ==
  /\ AllRead(w)
  /\ job[w].log.kind \in {"attach", "update_router"}
  /\ LET own == {p \in Ports : NetOf[p] = Obj(w)}
     IN  Goto(w, [job[w] EXCEPT
                    !.out  = ToDb(job[w].snap, job[w].topo, TRUE),
                    !.dest = VmsOf(job[w].snap, own),
                    !.pc   = "update"])
  /\ Local

(* BambukPortInfo(None, ports, ...): all there is on the router's networks, *)
(* to all the VMs there.                                                    *)
AttachInfo(w) ==
  /\ AllRead(w)
  /\ job[w].log.kind \in {"attach", "update_router"}
  /\ Goto(w, [job[w] EXCEPT
                !.out  = ToDb(job[w].snap, job[w].topo, TRUE),
                !.dest = VmsOf(job[w].snap, {}),
                !.pc   = "update"])
  /\ Local

(* RouterIfaceDetachAction.                                                *)
RouterIfaceDetach(w) ==
  /\ At(w, "detach")
  /\ IF Distributed /\ up
     THEN Goto(w, [job[w] EXCEPT !.router = TRUE, !.pc = "gone_ports"])
     ELSE Finish(w)
  /\ Local

GetDetachedPorts(w) ==
  /\ At(w, "gone_ports")
  /\ Goto(w, [job[w] EXCEPT
                !.gone = [p \in Ports |-> IF p \in NetworkPorts(port, Obj(w))
                                          THEN port[p] ELSE Absent],
                !.pc   = "router_ports"])
  /\ Local

(* "Disconnect 1": the VMs of the other networks forget the detached ports.*)
(* With no other network there is nobody to send to, which is what the      *)
(* test on connected_ports comes to.                                        *)
Disconnect1(w) ==
  /\ AllRead(w)
  /\ job[w].log.kind = "detach"
  /\ Goto(w, [job[w] EXCEPT
                !.out  = ToDb(job[w].gone, {}, FALSE),
                !.dest = VmsOf(job[w].snap, {}),
                !.pc   = "delete1"])
  /\ Local

(* Mutant of Disconnect2: the detached VMs are not told.                   *)
Disconnect2Silent(w) ==
  /\ At(w, "delete1")
  /\ job[w].dest = {}
  /\ Goto(w, [job[w] EXCEPT !.pc = "delete2"])
  /\ Local

(* "Disconnect 2": the VMs of the detached network forget the others.      *)
Disconnect2(w) ==
  /\ At(w, "delete1")
  /\ job[w].dest = {}
  /\ Goto(w, [job[w] EXCEPT
                !.out  = ToDb(job[w].snap, job[w].topo, TRUE),
                !.dest = VmsOf(job[w].gone, {}),
                !.pc   = "delete2"])
  /\ Local

(* A worker process dies and is started again, with new sockets; its log    *)
(* was taken off the queue when it was received, and no one reads the row   *)
(* again.                                                                   *)
WorkerDies(w) ==
  /\ Crashes
  /\ Finish(w)
  /\ cut' = {c \in cut : c[1] # w}
  /\ UNCHANGED <<port, legs, up, rules, tx, logs, rows, reqs,
                 vm, agents, endpoints, late>>
-----------------------------------------------------------------------------
Handle(w) ==
  \/ GetPort(w) \/ GetRoutersForNet(w) \/ GetPortsFromRouter(w)
  \/ GetNetworkPorts(w) \/ PortInfo(w) \/ State(w) \/ RegisterAgent(w)
  \/ Apply(w) \/ CallFails(w) \/ AddEndpoint(w)
  \/ BulkUpdate(w) \/ BulkDelete(w) \/ BulkLost(w) \/ BulkDone(w)
  \/ SecurityGroupUpdate(w) \/ RouterUpdate(w)
  \/ RouterIfaceAttach(w) \/ AttachInfo(w)
  \/ RouterIfaceDetach(w) \/ GetDetachedPorts(w)
  \/ Disconnect1(w) \/ Disconnect2(w)

WorkerNext(w) == ProcessLog(w) \/ Handle(w) \/ WorkerDies(w)

AllIdle == \A w \in Workers : At(w, "idle")

Quiet == tx = {} /\ logs = {} /\ AllIdle

(* The environment has made its last request and all is handled.           *)
Rest == Quiet /\ reqs = MaxReq /\ UNCHANGED vars

Next ==
  \/ ApiNext /\ UNCHANGED agentVars
  \/ \E w \in Workers : WorkerNext(w)
  \/ LateDelivery
  \/ Rest

Spec == Init /\ [][Next]_vars

(* The same system under an operator who makes one request at a time and   *)
(* waits until it is committed and handled.                                *)
SerialNext ==
  \/ Quiet /\ Begin /\ UNCHANGED agentVars
  \/ AllIdle /\ (\E t \in tx : Commit(t)) /\ UNCHANGED agentVars
  \/ tx = {} /\ \E w \in Workers : WorkerNext(w)
  \/ LateDelivery
  \/ Rest

SerialSpec == Init /\ [][SerialNext]_vars

(* A transaction ends, a worker that is free takes a log, and a handler    *)
(* does its next step: each call it makes has a time limit.                *)
Fairness ==
  /\ WF_vars((\E t \in tx : Commit(t) \/ Rollback(t)) /\ UNCHANGED agentVars)
  /\ \A w \in Workers : WF_vars(ProcessLog(w) \/ Handle(w))

FairSpec == Spec /\ Fairness
=============================================================================
