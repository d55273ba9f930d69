-------------------------- MODULE LogAgentHistory --------------------------
(* What a VM may come to hold, given what Neutron's tables have held: ports *)
(* of which networks, and which versions of them, for any topology (several *)
(* ports on a VM included) and any interleaving.                            *)
EXTENDS LogAgentProofs, LogAgentRoutes
-----------------------------------------------------------------------------
(* Ports of which networks; any number of workers.                          *)

(* A VM with a port on network n may hold ports of network m.               *)
Joined(n, m) == n = m \/ Together(n, m) \/ {n, m} \in mixed

AllJoined(N) == \A n, m \in N : Joined(n, m)

(* A table VM v may hold.                                                   *)
RoutedFor(t, v) ==
  \A q \in Present(t) : \E p \in Ports : VmOf[p] = v /\ Joined(NetOf[p], NetOf[q])

NetsIn(t) == {NetOf[q] : q \in Present(t)}

(* The networks a handler has read or is going to read.                     *)
Area(j) == j.topo \cup j.todo \cup NetsIn(j.snap)

OwnNet(j) == IF j.log.kind \in PortKinds THEN {NetOf[j.log.obj]} ELSE {}

(* The steps of a handler up to its query of the router's ports.            *)
Early == {"get_port", "routers", "router_update", "attach", "detach",
          "gone_ports", "router_ports"}

(* A handler looks at networks that were all on the router at one moment,   *)
(* or at one network.  A port's network has been found there before its     *)
(* handler asks for the others: it is there still or it is torn.            *)
RouteJob(j) ==
  /\ AllJoined(Area(j))
  /\ j.pc \in Early => Area(j) = {}
  /\ j.pc = "router_ports" => OwnNet(j) \subseteq legs \cup torn
  /\ j.log.kind \in PortKinds => RoutedFor(j.info.lport, VmOf[j.log.obj])
  /\ j.pc = "update" => \A v \in j.dest : RoutedFor(j.out.lport, v)

RouteLate(m) == m.op # "delete" => RoutedFor(m.db.lport, m.to)

(* OnlyRoutedNeighbours with what it rests on: the queries of the handlers  *)
(* and the messages they hold or have given up on.                          *)
RouteInv ==
  /\ legs \in met /\ Mixed \subseteq mixed
  /\ \A v \in Vms : RoutedFor(vm[v].lport, v)
  /\ \A w \in Workers : RouteJob(job[w])
  /\ \A m \in late : RouteLate(m)
-----------------------------------------------------------------------------
(* Tables.                                                                  *)

LEMMA RoutedEmpty == ASSUME NEW v PROVE RoutedFor(NoPorts, v)
  BY DEF RoutedFor, Present, NoPorts, Absent

(* A table of networks that are joined may go to the VM of any port in it.  *)
LEMMA RoutedRead ==
  ASSUME NEW s, AllJoined(NetsIn(s)), NEW p \in Present(s)
  PROVE  RoutedFor(s, VmOf[p])
  <1> SUFFICES ASSUME NEW q \in Present(s)
               PROVE  Joined(NetOf[p], NetOf[q])
    BY DEF RoutedFor, Present
  <1>1. NetOf[p] \in NetsIn(s) /\ NetOf[q] \in NetsIn(s)
    BY DEF NetsIn
  <1> QED  BY <1>1 DEF AllJoined

(* The history only grows, and networks that were joined stay so.           *)
LEMMA JoinedGrows ==
  ASSUME Recorded
  PROVE  /\ \A n, m : Joined(n, m) => Joined(n, m)'
         /\ \A t, v : RoutedFor(t, v) => RoutedFor(t, v)'
  <1>1. met \subseteq met' /\ mixed \subseteq mixed'
    BY DEF Recorded
  <1>2. \A n, m : Joined(n, m) => Joined(n, m)'
    BY <1>1 DEF Joined, Together
  <1>3. \A t, v : RoutedFor(t, v) => RoutedFor(t, v)'
    BY <1>2 DEF RoutedFor, Present
  <1> QED  BY <1>2, <1>3

(* So may a part of such a table.                                           *)
LEMMA RoutedPart ==
  ASSUME NEW s, NEW t, NEW v, RoutedFor(s, v), Present(t) \subseteq Present(s)
  PROVE  RoutedFor(t, v)
  BY DEF RoutedFor

LEMMA RoutedUpdate ==
  ASSUME NEW db \in Db, NEW m \in Db, NEW v,
         RoutedFor(db.lport, v), RoutedFor(m.lport, v)
  PROVE  RoutedFor(UpdateDb(db, m).lport, v)
  <1>1. Present(UpdateDb(db, m).lport) \subseteq Present(db.lport) \cup Present(m.lport)
    BY DEF UpdateDb, Present
  <1> QED  BY <1>1 DEF RoutedFor

LEMMA RoutedDelete ==
  ASSUME NEW db \in Db, NEW m \in Db, NEW d \in DeleteDb(db, m), NEW v,
         RoutedFor(db.lport, v)
  PROVE  RoutedFor(d.lport, v)
  <1>1. \A p \in Ports : d.lport[p] = db.lport[p] \/ d.lport[p] = Absent
    BY DeleteDbShape
  <1>2. Present(d.lport) \subseteq Present(db.lport)
    BY <1>1 DEF Present, Absent
  <1> QED  BY <1>2, RoutedPart

LEMMA RoutedExecuted ==
  ASSUME NEW db \in Db, NEW m \in Msg, NEW d \in Executed(db, m),
         RoutedFor(db.lport, m.to), RouteLate(m)
  PROVE  RoutedFor(d.lport, m.to)
  <1>1. m.db \in Db /\ m.op \in {"apply", "update", "delete"}
    BY DEF Msg
  <1>2. CASE m.op = "apply"
    <2>1. d = m.db
      BY <1>2 DEF Executed, ApplyDb
    <2> QED  BY <1>2, <2>1 DEF RouteLate
  <1>3. CASE m.op = "update"
    <2>1. d = UpdateDb(db, m.db) /\ RoutedFor(m.db.lport, m.to)
      BY <1>3 DEF Executed, RouteLate
    <2> QED  BY <1>1, <2>1, RoutedUpdate
  <1>4. CASE m.op = "delete"
    <2>1. d \in DeleteDb(db, m.db)
      BY <1>4 DEF Executed
    <2> QED  BY <1>1, <2>1, RoutedDelete
  <1> QED  BY <1>1, <1>2, <1>3, <1>4
-----------------------------------------------------------------------------
(* Steps of a worker.                                                       *)

(* A handler that stays where it is, and at its query of the router's ports *)
(* if it is there: its network may have been torn meanwhile.                *)
LEMMA RouteWaits ==
  ASSUME Recorded, NEW x \in Workers, RouteJob(job[x]), job'[x] = job[x]
  PROVE  RouteJob(job[x])'
  <1> DEFINE j == job[x]
  <1>1. AllJoined(Area(j))'
    BY JoinedGrows DEF RouteJob, AllJoined, Area, NetsIn, Present
  <1>2. j.pc = "router_ports" => OwnNet(j) \subseteq legs' \cup torn'
    <2> SUFFICES ASSUME j.pc = "router_ports", NEW n \in OwnNet(j)
                 PROVE  n \in legs' \cup torn'
      OBVIOUS
    <2>1. n \in legs \cup torn /\ j.log.kind \in PortKinds /\ n = NetOf[j.log.obj]
      BY DEF RouteJob, OwnNet
    <2>2. Asking(n)'
      BY <2>1 DEF Asking, At, Obj
    <2> QED  BY <2>1, <2>2 DEF Recorded
  <1>3. /\ j.log.kind \in PortKinds => RoutedFor(j.info.lport, VmOf[j.log.obj])'
        /\ j.pc = "update" => \A v \in j.dest : RoutedFor(j.out.lport, v)'
    BY JoinedGrows DEF RouteJob
  <1>4. Area(j)' = Area(j) /\ OwnNet(j)' = OwnNet(j)
    BY DEF Area, OwnNet, NetsIn, Present
  <1> QED  BY <1>1, <1>2, <1>3, <1>4 DEF RouteJob

(* A handler moves to a, while the router stays as it is.                   *)
LEMMA RouteMoves ==
  ASSUME Recorded, UNCHANGED legs, NEW x \in Workers, NEW a, RouteJob(a), job'[x] = a
  PROVE  RouteJob(job[x])'
  <1>1. AllJoined(Area(a)) /\ AllJoined(Area(a))'
    BY JoinedGrows DEF RouteJob, AllJoined
  <1>2. a.pc = "router_ports" => OwnNet(a) \subseteq legs' \cup torn'
    <2> SUFFICES ASSUME a.pc = "router_ports", NEW n \in OwnNet(a)
                 PROVE  n \in legs' \cup torn'
      OBVIOUS
    <2>1. n \in legs \cup torn /\ a.log.kind \in PortKinds /\ n = NetOf[a.log.obj]
      BY DEF RouteJob, OwnNet
    <2>2. Asking(n)'
      BY <2>1 DEF Asking, At, Obj
    <2> QED  BY <2>1, <2>2 DEF Recorded
  <1>3. /\ a.log.kind \in PortKinds => RoutedFor(a.info.lport, VmOf[a.log.obj])'
        /\ a.pc = "update" => \A v \in a.dest : RoutedFor(a.out.lport, v)'
    BY JoinedGrows DEF RouteJob
  <1> QED  BY <1>1, <1>2, <1>3 DEF RouteJob, Area, OwnNet, NetsIn, Present

(* Worker w moves to a; the tables and messages of the new state are ones   *)
(* that may be.                                                             *)
LEMMA RouteFrame ==
  ASSUME TypeInv, RouteInv, Recorded, NEW w \in Workers, NEW a, Goto(w, a), RouteJob(a),
         UNCHANGED legs,
         \A v \in Vms : RoutedFor(vm'[v].lport, v),
         \A m \in late' : RouteLate(m)
  PROVE  RouteInv'
  <1>1. job \in [Workers -> Job]
    BY DEF TypeInv, TypeOK
  <1>2. \A x \in Workers : job'[x] = IF x = w THEN a ELSE job[x]
    BY <1>1 DEF Goto
  <1>3. \A x \in Workers : RouteJob(job[x])'
    BY <1>2, RouteWaits, RouteMoves DEF RouteInv
  <1>4. legs' \in met' /\ (Mixed \subseteq mixed)'
    BY DEF Recorded
  <1>5. \A v \in Vms : RoutedFor(vm[v].lport, v)'
    BY JoinedGrows
  <1>6. \A m \in late' : RouteLate(m)'
    BY JoinedGrows DEF RouteLate
  <1> QED  BY <1>3, <1>4, <1>5, <1>6 DEF RouteInv

(* No handler moves.                                                        *)
LEMMA RouteStill ==
  ASSUME RouteInv, Recorded, UNCHANGED job,
         \A v \in Vms : RoutedFor(vm'[v].lport, v),
         \A m \in late' : RouteLate(m)
  PROVE  RouteInv'
  <1>1. \A x \in Workers : RouteJob(job[x])'
    BY RouteWaits DEF RouteInv
  <1>2. legs' \in met' /\ (Mixed \subseteq mixed)'
    BY DEF Recorded
  <1>3. \A v \in Vms : RoutedFor(vm[v].lport, v)'
    BY JoinedGrows
  <1>4. \A m \in late' : RouteLate(m)'
    BY JoinedGrows DEF RouteLate
  <1> QED  BY <1>1, <1>2, <1>3, <1>4 DEF RouteInv

(* A step that only changes the handler's locals.                           *)
LEMMA RouteLocal ==
  ASSUME TypeInv, RouteInv, Recorded, NEW w \in Workers, NEW a, Goto(w, a), RouteJob(a),
         UNCHANGED <<legs, vm, late>>
  PROVE  RouteInv'
  <1>1. /\ \A v \in Vms : RoutedFor(vm'[v].lport, v)
        /\ \A m \in late' : RouteLate(m)
    BY DEF RouteInv
  <1> QED  BY <1>1, RouteFrame

(* A step that changes VM v.                                                *)
LEMMA RouteVm ==
  ASSUME TypeInv, RouteInv, Recorded, NEW w \in Workers, NEW a, Goto(w, a), RouteJob(a),
         UNCHANGED <<legs, late>>,
         NEW v \in Vms, NEW d, RoutedFor(d.lport, v), vm' = [vm EXCEPT ![v] = d]
  PROVE  RouteInv'
  <1>1. vm \in [Vms -> Db]
    BY DEF TypeInv, TypeOK
  <1>2. \A u \in Vms : vm'[u] = IF u = v THEN d ELSE vm[u]
    BY <1>1
  <1>3. \A u \in Vms : RoutedFor(vm[u].lport, u)
    BY DEF RouteInv
  <1>4. \A u \in Vms : RoutedFor(vm'[u].lport, u)
    BY <1>2, <1>3
  <1>5. \A m \in late' : RouteLate(m)
    BY DEF RouteInv
  <1> QED  BY <1>4, <1>5, RouteFrame

(* A send that raises.                                                      *)
LEMMA RouteGivesUp ==
  ASSUME TypeInv, RouteInv, Recorded, NEW w \in Workers, NEW a, Goto(w, a), RouteJob(a),
         UNCHANGED <<legs, vm>>,
         NEW v, NEW sent, GivesUp(w, v, sent), \A m \in sent : RouteLate(m)
  PROVE  RouteInv'
  <1>1. \A m \in late' : RouteLate(m)
    BY GivesUpLate DEF RouteInv
  <1>2. \A u \in Vms : RoutedFor(vm'[u].lport, u)
    BY DEF RouteInv
  <1> QED  BY <1>1, <1>2, RouteFrame

LEMMA RouteIdle ==
  /\ RouteJob(IdleJob)
  /\ \A pc, t : pc \notin {"router_ports", "update"} =>
       RouteJob([IdleJob EXCEPT !.pc = pc, !.log = t])
  <1>1. Area(IdleJob) = {} /\ IdleJob.info.lport = NoPorts
    <2>1. NetsIn(NoPorts) = {}
      BY DEF NetsIn, Present, NoPorts, Absent
    <2> QED  BY <2>1 DEF Area, IdleJob, EmptyDb
  <1>0. AllJoined({})
    BY DEF AllJoined
  <1>2. ASSUME NEW pc, NEW t, pc \notin {"router_ports", "update"}
        PROVE  RouteJob([IdleJob EXCEPT !.pc = pc, !.log = t])
    <2> DEFINE a == [IdleJob EXCEPT !.pc = pc, !.log = t]
    <2>1. a.pc = pc /\ Area(a) = Area(IdleJob) /\ a.info = IdleJob.info
      BY DEF IdleJob, Area
    <2> HIDE DEF a
    <2>2. RouteJob(a)
      BY <1>0, <1>1, <1>2, <2>1, RoutedEmpty DEF RouteJob
    <2> QED  BY <2>2 DEF a
  <1>3. RouteJob(IdleJob)
    <2>1. IdleJob.pc = "idle"
      BY DEF IdleJob
    <2> QED  BY <1>0, <1>1, <2>1, RoutedEmpty DEF RouteJob
  <1> QED  BY <1>2, <1>3

(* A handler that keeps what it has read and built and goes on to a step    *)
(* that asks no more of it.                                                 *)
LEMMA RouteKept ==
  ASSUME NEW j, NEW a, RouteJob(j), Area(a) \subseteq Area(j), a.log = j.log,
         a.info = j.info, a.pc # "update",
         a.pc \in Early => Area(j) = {},
         a.pc = "router_ports" => OwnNet(j) \subseteq legs \cup torn
  PROVE  RouteJob(a)
  <1>1. OwnNet(a) = OwnNet(j)
    BY DEF OwnNet
  <1>2. AllJoined(Area(a))
    BY DEF RouteJob, AllJoined
  <1> QED  BY <1>1, <1>2 DEF RouteJob

(* A handler that goes on to send o to the VMs of dest.                     *)
LEMMA RouteSend ==
  ASSUME NEW j, NEW a, RouteJob(j), Area(a) = Area(j), a.log = j.log,
         a.pc = "update",
         j.log.kind \in PortKinds => RoutedFor(a.info.lport, VmOf[j.log.obj]),
         \A v \in a.dest : RoutedFor(a.out.lport, v)
  PROVE  RouteJob(a)
  BY DEF RouteJob, OwnNet, Early

(* The table a handler has read may go to the VMs of the ports in it.       *)
LEMMA RoutedSnap ==
  ASSUME NEW j, RouteJob(j), NEW p \in Present(j.snap)
  PROVE  RoutedFor(j.snap, VmOf[p])
  <1>1. AllJoined(NetsIn(j.snap))
    BY DEF RouteJob, Area, AllJoined
  <1> QED  BY <1>1, RoutedRead

LEMMA RoutedDest ==
  ASSUME NEW j \in Job, RouteJob(j), NEW ex
  PROVE  \A v \in VmsOf(j.snap, ex) : RoutedFor(j.snap, v)
  <1>1. Bound(j.snap) \subseteq Present(j.snap)
    BY DEF Bound, Present, Job, Table, Lport
  <1> QED  BY <1>1, RoutedSnap DEF VmsOf

LEMMA RouteHandle ==
  ASSUME TypeInv, RouteInv, Recorded, NEW w \in Workers, Handle(w)
  PROVE  RouteInv'
  <1> DEFINE j == job[w]
  <1>0. /\ j \in Job /\ JobOK(j) /\ RouteJob(j) /\ vm \in [Vms -> Db]
        /\ legs \in met /\ Mixed \subseteq mixed
        /\ \A v \in Vms : RoutedFor(vm[v].lport, v)
    BY DEF TypeInv, TypeOK, RouteInv
  <1>a. ASSUME NEW a, Goto(w, a), UNCHANGED <<legs, vm, late>>, RouteJob(a)
        PROVE  RouteInv'
    BY <1>a, RouteLocal
  <1>b. ASSUME Finish(w), UNCHANGED <<legs, vm, late>> PROVE RouteInv'
    BY <1>b, RouteLocal, RouteIdle DEF Finish
  <1>1. CASE GetPort(w)
    <2> DEFINE a == [j EXCEPT !.pc = "routers"]
    <2>1. /\ Area(a) = Area(j) /\ a.log = j.log /\ a.info = j.info /\ a.pc = "routers"
          /\ OwnNet(a) = OwnNet(j)
      BY <1>0 DEF Job, Area, OwnNet
    <2>2. Area(j) = {}
      BY <1>0, <1>1 DEF GetPort, At, RouteJob, Early
    <2>3. RouteJob(a)
      BY <1>0, <2>1, <2>2 DEF RouteJob
    <2> QED  BY <1>1, <2>3, <1>a, <1>b DEF GetPort, Local
  <1>2. CASE RouterUpdate(w)
    <2> DEFINE a == [j EXCEPT !.pc = "attach"]
    <2>1. Area(a) = Area(j) /\ a.log = j.log /\ a.info = j.info /\ a.pc = "attach"
      BY <1>0 DEF Job, Area
    <2>2. Area(j) = {}
      BY <1>0, <1>2 DEF RouterUpdate, At, RouteJob, Early
    <2>3. RouteJob(a)
      BY <1>0, <2>1, <2>2, RouteKept
    <2> QED  BY <1>2, <2>3, <1>a, <1>b DEF RouterUpdate, Local
  <1>3. CASE RouterIfaceAttach(w)
    <2> DEFINE a == [j EXCEPT !.router = TRUE, !.pc = "router_ports"]
    <2>1. Area(a) = Area(j) /\ a.log = j.log /\ a.info = j.info /\ a.pc = "router_ports"
      BY <1>0 DEF Job, Area
    <2>2. OwnNet(j) = {}
      BY <1>0, <1>3 DEF RouterIfaceAttach, At, JobOK, OwnNet, PortKinds
    <2>3. Area(j) = {}
      BY <1>0, <1>3 DEF RouterIfaceAttach, At, RouteJob, Early
    <2> HIDE DEF a
    <2>4. RouteJob(a)
      BY <1>0, <2>1, <2>2, <2>3, RouteKept
    <2> USE DEF a
    <2> QED  BY <1>3, <2>4, <1>a, <1>b DEF RouterIfaceAttach, Local
  <1>4. CASE RouterIfaceDetach(w)
    <2> DEFINE a == [j EXCEPT !.router = TRUE, !.pc = "gone_ports"]
    <2>1. Area(a) = Area(j) /\ a.log = j.log /\ a.info = j.info /\ a.pc = "gone_ports"
      BY <1>0 DEF Job, Area
    <2>2. Area(j) = {}
      BY <1>0, <1>4 DEF RouterIfaceDetach, At, RouteJob, Early
    <2>3. RouteJob(a)
      BY <1>0, <2>1, <2>2, RouteKept
    <2> QED  BY <1>4, <2>3, <1>a, <1>b DEF RouterIfaceDetach, Local
  <1>5. CASE GetRoutersForNet(w)
    <2> DEFINE a == [j EXCEPT !.router = TRUE, !.pc = "router_ports"]
               b == [j EXCEPT !.todo = {NetOf[Obj(w)]}, !.pc = "network_ports"]
    <2>1. /\ Area(j) = {} /\ j.log.kind \in PortKinds /\ OwnNet(j) = {NetOf[Obj(w)]}
      BY <1>0, <1>5 DEF GetRoutersForNet, At, RouteJob, Early, JobOK, PortSteps, OwnNet, Obj
    <2>2. CASE Distributed /\ NetOf[Obj(w)] \in legs
      <3>1. Area(a) = Area(j) /\ a.log = j.log /\ a.info = j.info /\ a.pc = "router_ports"
        BY <1>0 DEF Job, Area
      <3>2. OwnNet(j) \subseteq legs /\ Area(a) \subseteq Area(j)
        BY <1>0, <2>1, <2>2, <3>1
      <3> HIDE DEF a
      <3>3. RouteJob(a)
        BY <1>0, <2>1, <3>1, <3>2, RouteKept
      <3> USE DEF a
      <3> QED  BY <1>5, <2>2, <3>3, <1>a DEF GetRoutersForNet, Local
    <2>3. CASE ~(Distributed /\ NetOf[Obj(w)] \in legs)
      <3>1. /\ b.topo = j.topo /\ b.snap = j.snap /\ b.todo = {NetOf[Obj(w)]}
            /\ b.log = j.log /\ b.info = j.info /\ b.pc = "network_ports"
        BY <1>0 DEF Job
      <3>2. Area(b) \subseteq OwnNet(j) /\ OwnNet(b) = OwnNet(j)
        BY <2>1, <3>1 DEF Area, OwnNet
      <3> HIDE DEF b
      <3>3. AllJoined(Area(b))
        BY <2>1, <3>2 DEF AllJoined, Joined
      <3>4. RouteJob(b)
        BY <1>0, <3>1, <3>2, <3>3 DEF RouteJob, Early
      <3> USE DEF b
      <3> QED  BY <1>5, <2>3, <3>4, <1>a DEF GetRoutersForNet, Local
    <2> QED  BY <2>2, <2>3
  <1>6. CASE GetPortsFromRouter(w)
    <2> DEFINE found == IF Distributed THEN legs ELSE {}
               topo  == IF j.log.kind = "detach" THEN found \ {Obj(w)} ELSE found
               own   == IF j.log.kind \in PortKinds THEN {NetOf[Obj(w)]} ELSE {}
               a == [j EXCEPT !.topo = topo, !.todo = topo \cup own,
                              !.pc = "network_ports"]
    <2>1. Goto(w, a) /\ Local /\ At(w, "router_ports")
      BY <1>6 DEF GetPortsFromRouter
    <2>2. OwnNet(j) \subseteq legs \cup torn /\ own = OwnNet(j)
      BY <1>0, <2>1 DEF RouteJob, At, OwnNet, Obj
    <2>3. topo \subseteq legs
      OBVIOUS
    <2> HIDE DEF topo, own
    <2>4. /\ a.topo = topo /\ a.todo = topo \cup own /\ a.snap = j.snap
          /\ a.log = j.log /\ a.info = j.info /\ a.pc = "network_ports"
      BY <1>0 DEF Job
    <2> HIDE DEF a
    <2>5. NetsIn(j.snap) = {}
      BY <1>0, <2>1 DEF RouteJob, At, Area, Early
    <2>6. Area(a) = topo \cup own /\ AllJoined(Area(a))
      <3>1. Area(a) = topo \cup own
        BY <2>4, <2>5 DEF Area
      <3>2. \A n, m \in legs : Together(n, m)
        BY <1>0 DEF Together
      <3>3. ASSUME NEW n \in topo \cup own, NEW m \in topo \cup own
            PROVE  Joined(n, m)
        <4>1. n \in legs \cup torn /\ m \in legs \cup torn
          BY <2>2, <2>3
        <4>2. n = m \/ n \in legs \/ m \in legs
          BY <2>2, <2>3 DEF OwnNet
        <4>3. {n, m} = {m, n}
          OBVIOUS
        <4>4. n = m \/ {n, m} \subseteq legs \/ {n, m} \in mixed
          BY <1>0, <4>1, <4>2, <4>3 DEF Mixed
        <4> QED  BY <3>2, <4>4 DEF Joined
      <3> QED  BY <3>1, <3>3 DEF AllJoined
    <2>7. RouteJob(a)
      BY <1>0, <2>4, <2>6 DEF RouteJob, Early
    <2> QED  BY <2>1, <2>7, <1>a DEF Local
  <1>7. CASE GetNetworkPorts(w)
    <2> DEFINE snap(n) == [p \in Ports |-> IF p \in NetworkPorts(port, n)
                                           THEN port[p] ELSE j.snap[p]]
               a(n) == [j EXCEPT !.todo = @ \ {n}, !.snap = snap(n)]
    <2>1. PICK n \in j.todo : Goto(w, a(n))
      BY <1>7 DEF GetNetworkPorts
    <2>2. Local /\ j.pc = "network_ports"
      BY <1>7 DEF GetNetworkPorts, At
    <2>3. NetsIn(snap(n)) \subseteq NetsIn(j.snap) \cup {n}
      BY DEF NetsIn, Present, NetworkPorts
    <2> HIDE DEF snap
    <2>4. /\ a(n).todo = j.todo \ {n} /\ a(n).snap = snap(n) /\ a(n).topo = j.topo
          /\ a(n).log = j.log /\ a(n).info = j.info /\ a(n).pc = j.pc
      BY <1>0 DEF Job
    <2> HIDE DEF a
    <2>5. Area(a(n)) \subseteq Area(j)
      BY <2>3, <2>4 DEF Area
    <2>6. RouteJob(a(n))
      BY <1>0, <2>2, <2>4, <2>5, RouteKept DEF Early
    <2> QED  BY <2>1, <2>2, <2>6, <1>a DEF Local
  <1>8. CASE GetDetachedPorts(w)
    <2>1. PICK gone : Goto(w, [j EXCEPT !.gone = gone, !.pc = "router_ports"])
      BY <1>8 DEF GetDetachedPorts
    <2> DEFINE a == [j EXCEPT !.gone = gone, !.pc = "router_ports"]
    <2>2. Area(a) = Area(j) /\ a.log = j.log /\ a.info = j.info /\ a.pc = "router_ports"
      BY <1>0 DEF Job, Area
    <2>3. OwnNet(j) = {}
      BY <1>0, <1>8 DEF GetDetachedPorts, At, JobOK, DetachSteps, OwnNet, PortKinds
    <2>4. Area(j) = {}
      BY <1>0, <1>8 DEF GetDetachedPorts, At, RouteJob, Early
    <2> HIDE DEF a
    <2>5. RouteJob(a)
      BY <1>0, <2>2, <2>3, <2>4, RouteKept
    <2> USE DEF a
    <2> QED  BY <1>8, <2>1, <2>5, <1>a DEF GetDetachedPorts, Local
  <1>9. CASE PortInfo(w)
    <2> DEFINE p == Obj(w)
               o == PortDb(p, j.snap)
               i == PortToDb(p, j.snap, j.topo, j.router, rules)
               a == [j EXCEPT !.out = o, !.dest = VmsOf(j.snap, {p}),
                              !.info = i, !.pc = "update"]
    <2>1. (p \in Present(j.snap) /\ Goto(w, a)) \/ Finish(w)
      BY <1>9 DEF PortInfo
    <2>2. Local /\ p = j.log.obj
      BY <1>9 DEF PortInfo, Obj
    <2>3. CASE p \in Present(j.snap) /\ Goto(w, a)
      <3>1. i.lport = j.snap
        BY DEF PortToDb, ToDb
      <3>2. Present(o.lport) \subseteq Present(j.snap)
        <4>1. o.lport = [NoPorts EXCEPT ![p] = j.snap[p]]
          BY DEF PortDb, EmptyDb
        <4> HIDE DEF o
        <4> QED  BY <2>3, <4>1 DEF Present, NoPorts, Absent
      <3>3. RoutedFor(i.lport, VmOf[p])
        BY <1>0, <2>3, <3>1, RoutedSnap
      <3>4. \A v \in VmsOf(j.snap, {p}) : RoutedFor(o.lport, v)
        BY <1>0, <3>2, RoutedDest, RoutedPart
      <3> HIDE DEF o, i, p
      <3>5. /\ Area(a) = Area(j) /\ a.log = j.log /\ a.pc = "update" /\ a.out = o
            /\ a.dest = VmsOf(j.snap, {p}) /\ a.info = i
        BY <1>0 DEF Job, Area
      <3> HIDE DEF a
      <3>6. RouteJob(a)
        BY <1>0, <2>2, <3>3, <3>4, <3>5, RouteSend
      <3> QED  BY <2>2, <2>3, <3>6, <1>a DEF Local
    <2> QED  BY <2>1, <2>2, <2>3, <1>b DEF Local
  <1>10. CASE State(w)
    <2>1. PICK pc \in {"agent", "apply"} : Goto(w, [j EXCEPT !.pc = pc])
      BY <1>10 DEF State
    <2> DEFINE a == [j EXCEPT !.pc = pc]
    <2>2. Area(a) = Area(j) /\ a.log = j.log /\ a.info = j.info /\ a.pc = pc
      BY <1>0 DEF Job, Area
    <2>3. RouteJob(a)
      BY ZenonT(30), <1>0, <2>2, RouteKept DEF Early
    <2> QED  BY <1>10, <2>1, <2>3, <1>a DEF State, Local
  <1>11. CASE RegisterAgent(w)
    <2> DEFINE a == [j EXCEPT !.pc = "apply"]
    <2>1. Area(a) = Area(j) /\ a.log = j.log /\ a.info = j.info /\ a.pc = "apply"
      BY <1>0 DEF Job, Area
    <2>2. RouteJob(a)
      BY <1>0, <2>1, RouteKept DEF Early
    <2> QED  BY <1>11, <2>2, <1>a, <1>b DEF RegisterAgent
  <1>12. CASE Apply(w)
    <2> DEFINE a == [j EXCEPT !.pc = "tunnel"]
    <2>1. Area(a) = Area(j) /\ a.log = j.log /\ a.info = j.info /\ a.pc = "tunnel"
      BY <1>0 DEF Job, Area
    <2>2. RouteJob(a)
      BY <1>0, <2>1, RouteKept DEF Early
    <2>3. j.log.kind \in PortKinds
      BY <1>0, <1>12 DEF Apply, At, JobOK, PortSteps
    <2>4. VmOf[Obj(w)] \in Vms /\ RoutedFor(j.info.lport, VmOf[Obj(w)])
      BY <1>0, <2>3, LogObject, TopologyAssumption DEF Job, Obj, RouteJob
    <2>5. vm' = [vm EXCEPT ![VmOf[Obj(w)]] = j.info] /\ Goto(w, a)
      BY <1>12 DEF Apply, ApplyDb
    <2>6. UNCHANGED <<legs, late>>
      BY <1>12 DEF Apply
    <2> HIDE DEF a
    <2> QED  BY <2>2, <2>4, <2>5, <2>6, RouteVm
  <1>13. CASE CallFails(w)
    <2> DEFINE v == VmOf[Obj(w)]
               sent == IF At(w, "apply") THEN {Message(w, v, "apply", j.info)} ELSE {}
    <2>1. GivesUp(w, v, sent) /\ Goto(w, IdleJob) /\ UNCHANGED <<legs, vm>>
      BY <1>13 DEF CallFails, Finish
    <2>2. \A m \in sent : RouteLate(m)
      <3>1. j.log.kind \in PortKinds
        BY <1>0, <1>13 DEF CallFails, At, JobOK, PortSteps
      <3>2. RoutedFor(j.info.lport, v)
        BY <1>0, <3>1 DEF RouteJob, Obj
      <3>3. Message(w, v, "apply", j.info).db = j.info /\ Message(w, v, "apply", j.info).to = v
        BY DEF Message
      <3> QED  BY <3>2, <3>3 DEF RouteLate
    <2> HIDE DEF v, sent
    <2> QED  BY <2>1, <2>2, RouteGivesUp, RouteIdle
  <1>14. CASE AddEndpoint(w)
    BY <1>14, <1>b DEF AddEndpoint
  <1>c. ASSUME NEW v PROVE RouteJob([j EXCEPT !.dest = @ \ {v}])
    <2> DEFINE a == [j EXCEPT !.dest = @ \ {v}]
    <2>1. /\ Area(a) = Area(j) /\ a.log = j.log /\ a.info = j.info /\ a.pc = j.pc
          /\ OwnNet(a) = OwnNet(j) /\ a.dest = j.dest \ {v} /\ a.out = j.out
      BY <1>0 DEF Job, Area, OwnNet
    <2> HIDE DEF a
    <2>2. RouteJob(a)
      BY <1>0, <2>1 DEF RouteJob
    <2> QED  BY <2>2 DEF a
  <1>15. CASE BulkUpdate(w)
    <2>1. PICK v \in j.dest : /\ vm' = [vm EXCEPT ![v] = UpdateDb(@, j.out)]
                              /\ Goto(w, [j EXCEPT !.dest = @ \ {v}])
      BY <1>15 DEF BulkUpdate
    <2>2. v \in Vms /\ vm[v] \in Db /\ j.out \in Db
      BY <1>0 DEF Job
    <2>3. RoutedFor(vm[v].lport, v) /\ RoutedFor(j.out.lport, v)
      BY <1>0, <1>15, <2>1, <2>2 DEF BulkUpdate, At, RouteJob
    <2>4. RoutedFor(UpdateDb(vm[v], j.out).lport, v)
      BY <2>2, <2>3, RoutedUpdate
    <2>5. vm' = [vm EXCEPT ![v] = UpdateDb(vm[v], j.out)]
      BY <2>1
    <2>6. UNCHANGED <<legs, late>>
      BY <1>15 DEF BulkUpdate
    <2> QED  BY <2>1, <2>2, <2>4, <2>5, <2>6, <1>c, RouteVm
  <1>16. CASE BulkDelete(w)
    <2>1. PICK v \in j.dest : /\ \E d \in DeleteDb(vm[v], j.out) :
                                   vm' = [vm EXCEPT ![v] = d]
                              /\ Goto(w, [j EXCEPT !.dest = @ \ {v}])
      BY <1>16 DEF BulkDelete
    <2>2. PICK d \in DeleteDb(vm[v], j.out) : vm' = [vm EXCEPT ![v] = d]
      BY <2>1
    <2>3. v \in Vms /\ vm[v] \in Db /\ j.out \in Db
      BY <1>0 DEF Job
    <2>4. RoutedFor(d.lport, v)
      BY <1>0, <2>3, RoutedDelete
    <2>5. UNCHANGED <<legs, late>>
      BY <1>16 DEF BulkDelete
    <2> QED  BY <2>1, <2>2, <2>3, <2>4, <2>5, <1>c, RouteVm
  <1>17. CASE BulkLost(w)
    <2> DEFINE op == IF At(w, "update") THEN "update" ELSE "delete"
               sent(v) == {Message(w, v, op, j.out)}
    <2>1. PICK v \in j.dest : /\ GivesUp(w, v, sent(v))
                              /\ Goto(w, [j EXCEPT !.dest = @ \ {v}])
      BY <1>17 DEF BulkLost
    <2>2. \A m \in sent(v) : RouteLate(m)
      <3>1. /\ Message(w, v, op, j.out).db = j.out /\ Message(w, v, op, j.out).to = v
            /\ Message(w, v, op, j.out).op = op
        BY DEF Message
      <3>2. op # "delete" => RoutedFor(j.out.lport, v)
        BY <1>0, <2>1 DEF RouteJob, At
      <3> QED  BY <3>1, <3>2 DEF RouteLate
    <2>3. UNCHANGED <<legs, vm>>
      BY <1>17 DEF BulkLost
    <2> HIDE DEF sent
    <2> QED  BY <2>1, <2>2, <2>3, <1>c, RouteGivesUp
  <1>18. CASE BulkDone(w)
    <2> DEFINE a == [j EXCEPT !.pc = "state", !.out = EmptyDb]
    <2>1. Area(a) = Area(j) /\ a.log = j.log /\ a.info = j.info /\ a.pc = "state"
      BY <1>0 DEF Job, Area
    <2>2. RouteJob(a)
      BY <1>0, <2>1, RouteKept DEF Early
    <2> QED  BY <1>18, <2>2, <1>a, <1>b DEF BulkDone, Local
  <1>19. CASE SecurityGroupUpdate(w)
    <2> DEFINE o == SecGroupDb(Obj(w), rules[Obj(w)])
    <2>1. PICK dest : Goto(w, [j EXCEPT !.out = o, !.dest = dest, !.pc = "update"])
      BY <1>19 DEF SecurityGroupUpdate
    <2>2. o.lport = NoPorts
      BY DEF SecGroupDb, EmptyDb
    <2> HIDE DEF o
    <2> DEFINE a == [j EXCEPT !.out = o, !.dest = dest, !.pc = "update"]
    <2>3. /\ Area(a) = Area(j) /\ a.log = j.log /\ a.info = j.info /\ a.pc = "update"
          /\ a.out = o
      BY <1>0 DEF Job, Area
    <2>4. j.log.kind \in PortKinds => RoutedFor(j.info.lport, VmOf[j.log.obj])
      BY <1>0 DEF RouteJob
    <2>5. RouteJob(a)
      BY <1>0, <2>2, <2>3, <2>4, RoutedEmpty, RouteSend
    <2> QED  BY <1>19, <2>1, <2>5, <1>a DEF SecurityGroupUpdate, Local
  <1>20. CASE AttachInfo(w)
    <2> DEFINE o == ToDb(j.snap, j.topo, TRUE)
               a == [j EXCEPT !.out = o, !.dest = VmsOf(j.snap, {}), !.pc = "update"]
    <2>1. Goto(w, a) /\ Local
      BY <1>20 DEF AttachInfo
    <2>2. o.lport = j.snap
      BY DEF ToDb
    <2> HIDE DEF o
    <2>3. /\ Area(a) = Area(j) /\ a.log = j.log /\ a.info = j.info /\ a.pc = "update"
          /\ a.out = o /\ a.dest = VmsOf(j.snap, {})
      BY <1>0 DEF Job, Area
    <2> HIDE DEF a
    <2>4. \A v \in a.dest : RoutedFor(a.out.lport, v)
      BY <1>0, <2>2, <2>3, RoutedDest
    <2>5. j.log.kind \in PortKinds => RoutedFor(j.info.lport, VmOf[j.log.obj])
      BY <1>0 DEF RouteJob
    <2>6. RouteJob(a)
      BY <1>0, <2>3, <2>4, <2>5, RouteSend
    <2> QED  BY <2>1, <2>6, <1>a DEF Local
  <1>d. ASSUME NEW o, NEW dest, NEW pc \in {"delete1", "delete2"}
        PROVE  RouteJob([j EXCEPT !.out = o, !.dest = dest, !.pc = pc])
    <2> DEFINE a == [j EXCEPT !.out = o, !.dest = dest, !.pc = pc]
    <2>1. Area(a) = Area(j) /\ a.log = j.log /\ a.info = j.info /\ a.pc = pc
      BY <1>0 DEF Job, Area
    <2> HIDE DEF a
    <2>2. RouteJob(a)
      BY <1>0, <2>1, RouteKept DEF Early
    <2> QED  BY <2>2 DEF a
  <1>21. CASE Disconnect1(w)
    BY <1>21, <1>a, <1>d DEF Disconnect1, Local
  <1>22. CASE Disconnect2(w)
    BY <1>22, <1>a, <1>d DEF Disconnect2, Local
  <1> QED  BY <1>1, <1>2, <1>3, <1>4, <1>5, <1>6, <1>7, <1>8, <1>9, <1>10,
           <1>11, <1>12, <1>13, <1>14, <1>15, <1>16, <1>17, <1>18,
           <1>19, <1>20, <1>21, <1>22
           DEF Handle
-----------------------------------------------------------------------------
LEMMA RouteInit == RoutesInit => RouteInv
  <1> SUFFICES ASSUME RoutesInit PROVE RouteInv
    OBVIOUS
  <1>1. legs \in met /\ Mixed \subseteq mixed /\ Init
    BY DEF RoutesInit, Mixed
  <1>2. ASSUME NEW v \in WarmVms PROVE RoutedFor(WarmDb(v).lport, v)
    <2>1. WarmDb(v).lport = port /\ Warm
      BY <1>2 DEF WarmDb, ToDb, WarmVms
    <2>2. PICK p \in InitPorts : VmOf[p] = v
      BY <1>2, <2>1 DEF WarmVms
    <2>3. legs = Nets
      BY <1>1, <2>1 DEF Init, ApiInit
    <2>4. p \in Ports
      BY ApiAssumption
    <2>5. \A q \in Ports : Together(NetOf[p], NetOf[q])
      BY <1>1, <2>3, <2>4, TopologyAssumption DEF Together
    <2> QED  BY <2>1, <2>2, <2>4, <2>5 DEF RoutedFor, Joined, Present
  <1>3. ASSUME NEW v \in Vms PROVE RoutedFor(vm[v].lport, v)
    <2>1. vm[v] = IF v \in WarmVms THEN WarmDb(v) ELSE EmptyDb
      BY <1>1 DEF Init
    <2>2. EmptyDb.lport = NoPorts
      BY DEF EmptyDb
    <2> QED  BY <1>2, <2>1, <2>2, RoutedEmpty
  <1>4. \A w \in Workers : RouteJob(job[w])
    BY <1>1, RouteIdle DEF Init
  <1>5. late = {}
    BY <1>1 DEF Init
  <1> QED  BY <1>1, <1>3, <1>4, <1>5 DEF RouteInv

(* A request: what was joined stays so, and a detach tears the network of a *)
(* handler that is about to ask for the router's ports.                     *)
LEMMA RouteApi ==
  ASSUME RouteInv, Recorded, UNCHANGED agentVars
  PROVE  RouteInv'
  <1>1. UNCHANGED <<vm, job, late>>
    BY DEF agentVars
  <1>2. /\ \A v \in Vms : RoutedFor(vm'[v].lport, v)
        /\ \A m \in late' : RouteLate(m)
    BY <1>1 DEF RouteInv
  <1> QED  BY <1>1, <1>2, RouteStill

LEMMA RouteStep == TypeInv /\ RouteInv /\ [RoutesNext]_routeVars => RouteInv'
  <1>u. ASSUME RouteInv, UNCHANGED routeVars PROVE RouteInv'
    <2>1. UNCHANGED <<legs, job, vm, late, met, torn, mixed>>
      BY <1>u DEF routeVars, vars
    <2>2. Mixed' = Mixed
      BY <2>1 DEF Mixed
    <2>3. \A n, m : Joined(n, m)' <=> Joined(n, m)
      BY <2>1 DEF Joined, Together
    <2>4. \A t, v : RoutedFor(t, v) => RoutedFor(t, v)'
      BY <2>3 DEF RoutedFor, Present
    <2>5. \A N : AllJoined(N) => AllJoined(N)'
      BY <2>3 DEF AllJoined
    <2>6. \A j : Area(j)' = Area(j) /\ OwnNet(j)' = OwnNet(j)
      BY DEF Area, OwnNet, NetsIn, Present
    <2>7. \A j : RouteJob(j) => RouteJob(j)'
      BY <2>1, <2>4, <2>5, <2>6 DEF RouteJob
    <2>8. \A m : RouteLate(m) => RouteLate(m)'
      BY <2>4 DEF RouteLate
    <2> QED  BY <1>u, <2>1, <2>2, <2>4, <2>7, <2>8 DEF RouteInv
  <1> SUFFICES ASSUME TypeInv, RouteInv, Next, Recorded PROVE RouteInv'
    BY <1>u DEF RoutesNext
  <1>0. ASSUME UNCHANGED <<vm, late>>
        PROVE  /\ \A v \in Vms : RoutedFor(vm'[v].lport, v)
               /\ \A m \in late' : RouteLate(m)
    BY <1>0 DEF RouteInv
  <1>1. CASE UNCHANGED vars
    <2>1. UNCHANGED <<job, vm, late>>
      BY <1>1 DEF vars
    <2> QED  BY <1>0, <2>1, RouteStill
  <1>2. ASSUME NEW w \in Workers, ProcessLog(w) PROVE RouteInv'
    <2>1. PICK t \in logs :
            \/ UNCHANGED job
            \/ Goto(w, [IdleJob EXCEPT !.pc = ACTIONS_CLASS[t.kind], !.log = t])
      BY <1>2 DEF ProcessLog
    <2>2. UNCHANGED <<legs, vm, late>>
      BY <1>2 DEF ProcessLog
    <2>3. CASE UNCHANGED job
      BY <1>0, <2>2, <2>3, RouteStill
    <2>4. ACTIONS_CLASS[t.kind] \notin {"router_ports", "update"}
      <3>1. t.kind \in AllKinds
        BY DEF TypeInv, TypeOK, ApiTypeOK, Request
      <3> QED  BY <3>1 DEF ACTIONS_CLASS, AllKinds, PortKinds, LegKinds
    <2>5. RouteJob([IdleJob EXCEPT !.pc = ACTIONS_CLASS[t.kind], !.log = t])
      BY <2>4, RouteIdle
    <2> QED  BY <2>1, <2>2, <2>3, <2>5, RouteLocal
  <1>3. ASSUME NEW w \in Workers, Handle(w) PROVE RouteInv'
    BY <1>3, RouteHandle
  <1>4. ASSUME NEW w \in Workers, WorkerDies(w) PROVE RouteInv'
    BY <1>4, RouteIdle, RouteLocal DEF WorkerDies, Finish
  <1>5. CASE LateDelivery
    <2>1. PICK m \in late : /\ \E d \in Executed(vm[m.to], m) :
                                 vm' = [vm EXCEPT ![m.to] = d]
                            /\ late' = late \ {m}
      BY <1>5 DEF LateDelivery
    <2>2. PICK d \in Executed(vm[m.to], m) : vm' = [vm EXCEPT ![m.to] = d]
      BY <2>1
    <2>3. m \in Msg /\ m.to \in Vms /\ vm \in [Vms -> Db] /\ RouteLate(m)
      BY <2>1 DEF TypeInv, TypeOK, Msg, RouteInv
    <2>4. RoutedFor(vm[m.to].lport, m.to)
      BY <2>3 DEF RouteInv
    <2>5. RoutedFor(d.lport, m.to)
      BY <2>2, <2>3, <2>4, RoutedExecuted
    <2>6. \A u \in Vms : vm'[u] = IF u = m.to THEN d ELSE vm[u]
      BY <2>2, <2>3
    <2>7. \A u \in Vms : RoutedFor(vm'[u].lport, u)
      BY <2>5, <2>6 DEF RouteInv
    <2>8. UNCHANGED <<legs, job>> /\ late' \subseteq late
      BY <1>5, <2>1 DEF LateDelivery
    <2>9. \A x \in late' : RouteLate(x)
      BY <2>8 DEF RouteInv
    <2> QED  BY <2>7, <2>8, <2>9, RouteStill
  <1>6. CASE ApiNext /\ UNCHANGED agentVars
    BY <1>6, RouteApi
  <1> QED  BY <1>1, <1>2, <1>3, <1>4, <1>5, <1>6 DEF Next, Rest, WorkerNext

(* In every reachable state of every deployment, a VM holds a port of       *)
(* another network only if the two were on the router together at some      *)
(* moment, or one of them left it between get_routers_for_net and           *)
(* get_ports_from_router of a handler of one of its ports, and the other    *)
(* was there before that handler went on.  No other interleaving of         *)
(* queries, requests and sends, and no late message, brings together what   *)
(* never was.                                                               *)
THEOREM OnlyRoutesThatWere == RoutesSpec => []OnlyRoutedNeighbours
  <1>1. RouteInv => OnlyRoutedNeighbours
    BY DEF RouteInv, RoutedFor, Joined, OnlyRoutedNeighbours
  <1>2. RoutesInit => Init
    BY DEF RoutesInit
  <1>3. [RoutesNext]_routeVars => [Next]_vars
    BY DEF RoutesNext, routeVars
  <1>4. RoutesSpec => Spec
    BY <1>2, <1>3, PTL DEF RoutesSpec, Spec
  <1> QED  BY <1>1, <1>4, RouteInit, RouteStep, TypeInvariant, PTL DEF RoutesSpec
-----
(* Which versions; at most one worker, which does not die.                  *)
OneWorker == \A w, x \in Workers : w = x

(* The ports there have been.                                               *)
Ever == InitPorts \cup {r.obj : r \in {s \in rows : s.kind = "create_port"}}

(* At most one open transaction is about a port.  A port is created once,   *)
(* and is there as long as a transaction changes its binding.               *)
TxInv ==
  /\ \A t, u \in tx : {t.kind, u.kind} \subseteq PortKinds /\ t.obj = u.obj => t = u
  /\ \A t \in tx :
       /\ t.kind = "create_port" => t.obj \notin Ever
       /\ t.kind \in {"bind_port", "unbind_port"} => t.obj \in Present(port)
  /\ Present(port) \subseteq Ever

(* Ports, or rules, that do not take VM v back when it gets them.           *)
NotBack(t, v) == \A q \in Present(t) : t[q].ver >= vm[v].lport[q].ver

RulesNotBack(s, v) == \A g \in Groups : s[g] = 0 \/ s[g] >= vm[v].secgroup[g]

Committed(s) == \A g \in Groups : s[g] <= rules[g]

(* What a VM holds that can be sent to is not newer than Neutron's tables.  *)
Behind(v) ==
  /\ NotBack(port, v) /\ Present(vm[v].lport) \subseteq Ever
  /\ Committed(vm[v].secgroup)

(* A handler has read what is committed, and nothing that is older than     *)
(* what a VM it can send to holds; it sends what it has read.               *)
Read(j, s) == \A q \in Present(s) : s[q] = j.snap[q]

FreshJob(w, j) ==
  /\ Present(j.snap) \subseteq Ever
  /\ \A q \in Present(port) : j.snap[q].ver <= port[q].ver
  /\ \A v \in Vms : Connected(w, v) => NotBack(j.snap, v)
  /\ j.pc = "update" =>
       /\ Read(j, j.out.lport) /\ Committed(j.out.secgroup)
       /\ \A v \in Vms : Connected(w, v) => RulesNotBack(j.out.secgroup, v)
       /\ j.log.kind \in PortKinds => \A g \in Groups : j.out.secgroup[g] = 0
  /\ j.log.kind \in PortKinds /\ j.pc \in {"update", "state", "agent", "apply"} =>
       /\ Read(j, j.info.lport) /\ Committed(j.info.secgroup)
       /\ \A v \in Vms : Connected(w, v) => RulesNotBack(j.info.secgroup, v)

(* A VM has at most one late message, is then no more sent to, and is not   *)
(* taken back by it.                                                        *)
LateInv ==
  /\ \A m \in late : \A w \in Workers : ~Connected(w, m.to)
  /\ \A m, n \in late : m.to = n.to => m = n
  /\ \A m \in late : m.op # "delete" =>
       NotBack(m.db.lport, m.to) /\ RulesNotBack(m.db.secgroup, m.to)

VersionInv ==
  /\ TxInv /\ LateInv
  /\ \A w \in Workers : \A v \in Vms : Connected(w, v) => Behind(v)
  /\ \A w \in Workers : FreshJob(w, job[w])

(* No VM goes back to an older version in this step.                        *)
Advance ==
  \A v \in Vms : NotBack(vm'[v].lport, v) /\ RulesNotBack(vm'[v].secgroup, v)

LEMMA Numbers ==
  ASSUME TypeInv
  PROVE  /\ vm \in [Vms -> Db]
         /\ \A v \in Vms : \A q \in Ports : vm[v].lport[q].ver \in Nat
         /\ \A v \in Vms : \A g \in Groups : vm[v].secgroup[g] \in Nat
         /\ \A q \in Ports : port[q].ver \in Nat
         /\ \A g \in Groups : rules[g] \in Nat
         /\ \A w \in Workers :
              /\ job[w] \in Job
              /\ \A q \in Ports : job[w].snap[q].ver \in Nat
  BY DEF TypeInv, TypeOK, ApiTypeOK, Job, Db, Table, Lport

LEMMA NotBackPart ==
  ASSUME NEW s, NEW t, NEW v, NotBack(s, v), \A q \in Present(t) : t[q] = s[q]
  PROVE  NotBack(t, v)
  BY DEF NotBack, Present

LEMMA NotBackUpdate ==
  ASSUME TypeInv, NEW v \in Vms, NEW m \in Db,
         NotBack(m.lport, v), RulesNotBack(m.secgroup, v)
  PROVE  /\ NotBack(UpdateDb(vm[v], m).lport, v)
         /\ RulesNotBack(UpdateDb(vm[v], m).secgroup, v)
  <1>1. /\ \A q \in Ports : UpdateDb(vm[v], m).lport[q] =
                              IF q \in Present(m.lport) THEN m.lport[q] ELSE vm[v].lport[q]
        /\ \A g \in Groups : UpdateDb(vm[v], m).secgroup[g] =
                               IF m.secgroup[g] > 0 THEN m.secgroup[g] ELSE vm[v].secgroup[g]
    BY DEF UpdateDb
  <1>2. \A g \in Groups : m.secgroup[g] \in Nat
    BY DEF Db
  <1>3. NotBack(UpdateDb(vm[v], m).lport, v)
    BY <1>1, Numbers DEF NotBack, Present
  <1>4. RulesNotBack(UpdateDb(vm[v], m).secgroup, v)
    BY <1>1, <1>2, Numbers DEF RulesNotBack
  <1> QED  BY <1>3, <1>4

LEMMA NotBackDelete ==
  ASSUME TypeInv, NEW v \in Vms, NEW m \in Db, NEW d \in DeleteDb(vm[v], m)
  PROVE  NotBack(d.lport, v) /\ RulesNotBack(d.secgroup, v)
  <1>1. vm[v] \in Db
    BY Numbers
  <1>2. /\ \A q \in Ports : d.lport[q] = vm[v].lport[q] \/ d.lport[q] = Absent
        /\ d.secgroup = vm[v].secgroup
    BY <1>1, DeleteDbShape
  <1>3. \A q \in Present(d.lport) : d.lport[q] = vm[v].lport[q]
    BY <1>2 DEF Present, Absent
  <1> QED  BY <1>2, <1>3, Numbers DEF NotBack, RulesNotBack, Present

LEMMA StillAdvances ==
  ASSUME TypeInv, vm' = vm
  PROVE  Advance
  BY Numbers DEF Advance, NotBack, RulesNotBack, Present

LEMMA VmAdvances ==
  ASSUME TypeInv, NEW v \in Vms, NEW d, vm' = [vm EXCEPT ![v] = d],
         NotBack(d.lport, v), RulesNotBack(d.secgroup, v)
  PROVE  Advance
  <1>1. \A u \in Vms : vm'[u] = IF u = v THEN d ELSE vm[u]
    BY Numbers
  <1>2. \A u \in Vms : NotBack(vm[u].lport, u) /\ RulesNotBack(vm[u].secgroup, u)
    BY Numbers DEF NotBack, RulesNotBack, Present
  <1> QED  BY <1>1, <1>2 DEF Advance
-----------------------------------------------------------------------------
(* A step of a handler, by what it changes.  The rest stays.                *)
Still == UNCHANGED <<port, rules, rows, tx>>

LEMMA MoveFacts ==
  ASSUME OneWorker, TypeInv, NEW w \in Workers, NEW a, Goto(w, a)
  PROVE  \A x \in Workers : x = w /\ job'[x] = a
  BY Numbers DEF OneWorker, Goto, TypeInv, TypeOK

(* Only the handler's locals.                                               *)
LEMMA VersionLocal ==
  ASSUME OneWorker, TypeInv, VersionInv, NEW w \in Workers, NEW a, Goto(w, a),
         FreshJob(w, a), Still, UNCHANGED <<vm, late, cut>>
  PROVE  VersionInv' /\ Advance
  <1>1. \A x \in Workers : x = w /\ job'[x] = a
    BY MoveFacts
  <1>2. \A x \in Workers : FreshJob(x, job'[x])
    BY <1>1
  <1>3. \A x \in Workers : FreshJob(x, job[x])'
    BY <1>2 DEF FreshJob, NotBack, RulesNotBack, Read, Committed, Ever, Still, Connected
  <1>4. TxInv' /\ LateInv'
    BY DEF VersionInv, TxInv, LateInv, NotBack, RulesNotBack, Ever, Still, Connected
  <1>5. \A x \in Workers : \A v \in Vms : Connected(x, v)' => Behind(v)'
    BY DEF VersionInv, Behind, NotBack, Committed, Ever, Still, Connected
  <1> QED  BY <1>3, <1>4, <1>5, StillAdvances DEF VersionInv

(* An answered send: VM v holds d.                                          *)
LEMMA VersionVm ==
  ASSUME OneWorker, TypeInv, VersionInv, NEW w \in Workers, NEW a, Goto(w, a),
         FreshJob(w, a), Still, UNCHANGED <<late, cut>>,
         NEW v \in Vms, Connected(w, v), NEW d \in Db, vm' = [vm EXCEPT ![v] = d],
         \A q \in Ports : \/ d.lport[q].ver = 0
                          \/ d.lport[q].ver = vm[v].lport[q].ver
                          \/ d.lport[q].ver = job[w].snap[q].ver,
         a.snap = job[w].snap, Committed(d.secgroup),
         NotBack(d.lport, v), RulesNotBack(d.secgroup, v),
         a.pc = "update" =>
           \A g \in Groups : a.out.secgroup[g] = 0 \/ a.out.secgroup[g] >= d.secgroup[g],
         a.log.kind \in PortKinds /\ a.pc \in {"update", "state", "agent", "apply"} =>
           \A g \in Groups : a.info.secgroup[g] = 0 \/ a.info.secgroup[g] >= d.secgroup[g]
  PROVE  VersionInv' /\ Advance
  <1>1. \A x \in Workers : x = w /\ job'[x] = a
    BY MoveFacts
  <1>2. \A u \in Vms : vm'[u] = IF u = v THEN d ELSE vm[u]
    BY Numbers
  <1>3. /\ Behind(v) /\ FreshJob(w, job[w]) /\ NotBack(a.snap, v)
        /\ \A u \in Vms : Connected(w, u) => Behind(u)
    BY DEF VersionInv, FreshJob
  <1>4. \A q \in Present(a.snap) : a.snap[q].ver >= d.lport[q].ver
    BY <1>3, Numbers DEF NotBack, Present
  <1>5. \A q \in Present(port) : port[q].ver >= d.lport[q].ver
    BY <1>3, Numbers DEF Behind, NotBack, Present, FreshJob
  <1>6. Present(d.lport) \subseteq Ever
    <2>1. ASSUME NEW q \in Ports, d.lport[q].ver > 0
          PROVE  q \in Present(vm[v].lport) \/ q \in Present(job[w].snap)
      BY <2>1, Numbers DEF Present
    <2> QED  BY <1>3, <2>1 DEF Behind, FreshJob, Present
  <1>7. TxInv'
    BY DEF VersionInv, TxInv, Ever, Still
  <1>8. LateInv'
    <2>1. \A m \in late : m.to # v /\ m.to \in Vms
      BY DEF VersionInv, LateInv, TypeInv, TypeOK, Msg
    <2>2. \A m \in late : vm'[m.to] = vm[m.to]
      BY <1>2, <2>1
    <2>3. \A m \in late : m.op # "delete" =>
            NotBack(m.db.lport, m.to)' /\ RulesNotBack(m.db.secgroup, m.to)'
      BY <2>2 DEF VersionInv, LateInv, NotBack, RulesNotBack
    <2> QED  BY <2>3 DEF VersionInv, LateInv, Connected
  <1>9. ASSUME NEW u \in Vms, Connected(w, u) PROVE Behind(u)'
    <2>1. CASE u = v
      BY <1>2, <1>5, <1>6, <2>1 DEF Behind, NotBack, Committed, Ever, Still
    <2>2. CASE u # v
      <3>1. vm'[u] = vm[u] /\ Behind(u)
        BY <1>2, <1>3, <1>9, <2>2
      <3> QED  BY <3>1 DEF Behind, NotBack, Committed, Ever, Still
    <2> QED  BY <2>1, <2>2
  <1>10. FreshJob(w, a)'
    <2>1. \A u \in Vms : Connected(w, u) => NotBack(a.snap, u)'
      BY <1>2, <1>4 DEF NotBack, FreshJob
    <2>2. a.pc = "update" =>
            \A u \in Vms : Connected(w, u) => RulesNotBack(a.out.secgroup, u)'
      BY <1>2 DEF RulesNotBack, FreshJob
    <2>3. a.log.kind \in PortKinds /\ a.pc \in {"update", "state", "agent", "apply"} =>
            \A u \in Vms : Connected(w, u) => RulesNotBack(a.info.secgroup, u)'
      BY <1>2 DEF RulesNotBack, FreshJob
    <2> QED  BY <2>1, <2>2, <2>3 DEF FreshJob, Read, Committed, Ever, Still, Connected
  <1>11. \A x \in Workers : FreshJob(x, job[x])'
    BY <1>1, <1>10 DEF FreshJob, Read, Committed, Connected, NotBack, RulesNotBack
  <1>12. \A x \in Workers : \A u \in Vms : Connected(x, u)' => Behind(u)'
    BY <1>1, <1>9 DEF Connected
  <1> QED  BY <1>7, <1>8, <1>11, <1>12, VmAdvances DEF VersionInv

(* A send that raises: from now on nothing is sent to v but what is late.   *)
LEMMA VersionGivesUp ==
  ASSUME OneWorker, TypeInv, VersionInv, NEW w \in Workers, NEW a, Goto(w, a),
         FreshJob(w, a), Still, UNCHANGED vm,
         NEW v, NEW sent, GivesUp(w, v, sent), \A m, n \in sent : m = n,
         \A m \in sent : /\ m.to = v
                         /\ Connected(w, v) /\ m.op # "delete" =>
                              NotBack(m.db.lport, v) /\ RulesNotBack(m.db.secgroup, v)
  PROVE  VersionInv' /\ Advance
  <1>1. \A x \in Workers : x = w /\ job'[x] = a
    BY MoveFacts
  <1>2. CASE ~Connected(w, v)
    BY <1>2, VersionLocal DEF GivesUp
  <1>3. CASE Connected(w, v)
    <2>1. cut' = cut \cup {<<w, v>>} /\ late' = late \cup sent
      BY <1>3 DEF GivesUp
    <2>2. /\ \A u : Connected(w, u)' => Connected(w, u)
          /\ ~Connected(w, v)'
      BY <2>1 DEF Connected
    <2>3. TxInv'
      BY DEF VersionInv, TxInv, Ever, Still
    <2>4. LateInv'
      <3>1. \A m \in late : m.to # v /\ ~Connected(w, m.to)
        BY <1>3 DEF VersionInv, LateInv
      <3>2. \A m \in late' : ~Connected(w, m.to)'
        BY <2>1, <2>2, <3>1
      <3>3. \A m, n \in late' : m.to = n.to => m = n
        BY <2>1, <3>1 DEF VersionInv, LateInv
      <3>4. \A m \in late' : m.op # "delete" =>
              NotBack(m.db.lport, m.to) /\ RulesNotBack(m.db.secgroup, m.to)
        BY <1>3, <2>1 DEF VersionInv, LateInv
      <3> QED  BY <1>1, <3>2, <3>3, <3>4 DEF LateInv, NotBack, RulesNotBack
    <2>5. \A u \in Vms : Connected(w, u)' => Behind(u)'
      BY <2>2 DEF VersionInv, Behind, NotBack, Committed, Ever, Still
    <2>6. FreshJob(w, a)'
      BY <2>2 DEF FreshJob, NotBack, RulesNotBack, Read, Committed, Ever, Still
    <2>7. \A x \in Workers : FreshJob(x, job[x])'
      BY <1>1, <2>6 DEF FreshJob, Read, Committed, Connected, NotBack, RulesNotBack
    <2>8. \A x \in Workers : \A u \in Vms : Connected(x, u)' => Behind(u)'
      BY <1>1, <2>5 DEF Connected
    <2> QED  BY <2>3, <2>4, <2>7, <2>8, StillAdvances DEF VersionInv
  <1> QED  BY <1>2, <1>3
-----------------------------------------------------------------------------
(* Steps of the one worker.                                                 *)

(* A handler that has read nothing yet, or ends.                            *)
LEMMA FreshEmpty ==
  ASSUME TypeInv, NEW w, NEW a, a.snap = NoPorts,
         a.pc \notin {"update", "state", "agent", "apply"}
  PROVE  FreshJob(w, a)
  <1>1. Present(a.snap) = {} /\ \A q \in Ports : a.snap[q].ver = 0
    BY DEF Present, NoPorts, Absent
  <1> QED  BY <1>1, Numbers DEF FreshJob, NotBack, Present

LEMMA FreshIdle ==
  ASSUME TypeInv, NEW w
  PROVE  /\ FreshJob(w, IdleJob)
         /\ \A pc, t : pc \notin {"update", "state", "agent", "apply"} =>
              FreshJob(w, [IdleJob EXCEPT !.pc = pc, !.log = t])
  <1>1. ASSUME NEW pc, NEW t, pc \notin {"update", "state", "agent", "apply"}
        PROVE  FreshJob(w, [IdleJob EXCEPT !.pc = pc, !.log = t])
    <2> DEFINE a == [IdleJob EXCEPT !.pc = pc, !.log = t]
    <2>1. a.pc = pc /\ a.snap = NoPorts
      BY DEF IdleJob
    <2> HIDE DEF a
    <2>2. FreshJob(w, a)
      BY <1>1, <2>1, FreshEmpty
    <2> QED  BY <2>2 DEF a
  <1>2. IdleJob.snap = NoPorts /\ IdleJob.pc = "idle"
    BY DEF IdleJob
  <1> QED  BY <1>1, <1>2, FreshEmpty

(* A handler that goes on with what it has read, and builds no bulk.        *)
LEMMA FreshKept ==
  ASSUME NEW w, NEW j, NEW a, FreshJob(w, j), a.snap = j.snap, a.log = j.log,
         a.info = j.info, a.pc # "update",
         j.log.kind \in PortKinds /\ a.pc \in {"state", "agent", "apply"} =>
           j.pc \in {"update", "state", "agent", "apply"}
  PROVE  FreshJob(w, a)
  BY DEF FreshJob, Read

(* A handler that reads the ports of one more network.                      *)
LEMMA FreshRead ==
  ASSUME TypeInv, VersionInv, NEW w \in Workers, NEW j \in Job, FreshJob(w, j),
         NEW N \in SUBSET Present(port),
         NEW a, a.pc \notin {"update", "state", "agent", "apply"},
         a.snap = [p \in Ports |-> IF p \in N THEN port[p] ELSE j.snap[p]]
  PROVE  FreshJob(w, a)
  <1>1. \A q \in Ports : a.snap[q] = IF q \in N THEN port[q] ELSE j.snap[q]
    OBVIOUS
  <1>2. Present(a.snap) \subseteq Ever
    <2>1. Present(a.snap) \subseteq Present(port) \cup Present(j.snap)
      BY <1>1 DEF Present
    <2> QED  BY <2>1 DEF VersionInv, TxInv, FreshJob
  <1>3. \A q \in Present(port) : a.snap[q].ver <= port[q].ver
    BY <1>1, Numbers DEF FreshJob, Present
  <1>4. ASSUME NEW v \in Vms, Connected(w, v) PROVE NotBack(a.snap, v)
    <2>1. NotBack(port, v) /\ NotBack(j.snap, v)
      BY <1>4 DEF VersionInv, Behind, FreshJob
    <2> QED  BY <1>1, <2>1 DEF NotBack, Present
  <1> QED  BY <1>2, <1>3, <1>4 DEF FreshJob

(* A handler that goes on to send o to the VMs, and then i.                 *)
LEMMA FreshSend ==
  ASSUME NEW w, NEW j, NEW a, FreshJob(w, j), a.snap = j.snap, a.log = j.log,
         a.pc = "update", Read(j, a.out.lport), Committed(a.out.secgroup),
         \A v \in Vms : Connected(w, v) => RulesNotBack(a.out.secgroup, v),
         j.log.kind \in PortKinds =>
           /\ \A g \in Groups : a.out.secgroup[g] = 0
           /\ Read(j, a.info.lport) /\ Committed(a.info.secgroup)
           /\ \A v \in Vms : Connected(w, v) => RulesNotBack(a.info.secgroup, v)
  PROVE  FreshJob(w, a)
  BY DEF FreshJob, Read

(* Rules that are not sent or just read are not older than a VM's.          *)
LEMMA FreshRules ==
  ASSUME TypeInv, VersionInv, NEW w \in Workers, NEW s,
         \A g \in Groups : s[g] = 0 \/ s[g] = rules[g]
  PROVE  /\ Committed(s)
         /\ \A v \in Vms : Connected(w, v) => RulesNotBack(s, v)
  <1>1. Committed(s)
    BY Numbers DEF Committed
  <1>2. ASSUME NEW v \in Vms, Connected(w, v) PROVE RulesNotBack(s, v)
    <2>1. Committed(vm[v].secgroup)
      BY <1>2 DEF VersionInv, Behind
    <2> QED  BY <2>1 DEF Committed, RulesNotBack
  <1> QED  BY <1>1, <1>2

LEMMA VersionHandle ==
  ASSUME OneWorker, TypeInv, VersionInv, NEW w \in Workers, Handle(w)
  PROVE  VersionInv' /\ Advance
  <1> DEFINE j == job[w]
             Goal == VersionInv' /\ Advance
  <1>0. /\ j \in Job /\ JobOK(j) /\ FreshJob(w, j) /\ vm \in [Vms -> Db]
    BY DEF TypeInv, TypeOK, VersionInv
  <1>a. ASSUME NEW a, Goto(w, a), Local, FreshJob(w, a)
        PROVE  Goal
    <2>1. Still /\ UNCHANGED <<vm, late, cut>>
      BY <1>a DEF Local, Still
    <2> QED  BY <1>a, <2>1, VersionLocal
  <1>b. ASSUME Finish(w), Still, UNCHANGED <<vm, late, cut>> PROVE Goal
    BY <1>b, VersionLocal, FreshIdle DEF Finish
  <1>c. ASSUME Finish(w), Local PROVE Goal
    BY <1>c, <1>b DEF Local, Still
  <1> SUFFICES Goal
    OBVIOUS
  <1> HIDE DEF Goal
  <1>1. CASE GetPort(w)
    <2> DEFINE a == [j EXCEPT !.pc = "routers"]
    <2>1. a.snap = j.snap /\ a.log = j.log /\ a.info = j.info /\ a.pc = "routers"
      BY <1>0 DEF Job
    <2>2. FreshJob(w, a)
      BY <1>0, <2>1, FreshKept
    <2> QED  BY <1>1, <2>2, <1>a, <1>c DEF GetPort
  <1>2. CASE RouterUpdate(w)
    <2> DEFINE a == [j EXCEPT !.pc = "attach"]
    <2>1. a.snap = j.snap /\ a.log = j.log /\ a.info = j.info /\ a.pc = "attach"
      BY <1>0 DEF Job
    <2>2. FreshJob(w, a)
      BY <1>0, <2>1, FreshKept
    <2> QED  BY <1>2, <2>2, <1>a, <1>c DEF RouterUpdate
  <1>3. CASE RouterIfaceAttach(w)
    <2> DEFINE a == [j EXCEPT !.router = TRUE, !.pc = "router_ports"]
    <2>1. a.snap = j.snap /\ a.log = j.log /\ a.info = j.info /\ a.pc = "router_ports"
      BY <1>0 DEF Job
    <2>2. FreshJob(w, a)
      BY <1>0, <2>1, FreshKept
    <2> QED  BY <1>3, <2>2, <1>a, <1>c DEF RouterIfaceAttach
  <1>4. CASE RouterIfaceDetach(w)
    <2> DEFINE a == [j EXCEPT !.router = TRUE, !.pc = "gone_ports"]
    <2>1. a.snap = j.snap /\ a.log = j.log /\ a.info = j.info /\ a.pc = "gone_ports"
      BY <1>0 DEF Job
    <2>2. FreshJob(w, a)
      BY <1>0, <2>1, FreshKept
    <2> QED  BY <1>4, <2>2, <1>a, <1>c DEF RouterIfaceDetach
  <1>5. CASE GetRoutersForNet(w)
    <2> DEFINE a == [j EXCEPT !.router = TRUE, !.pc = "router_ports"]
               b == [j EXCEPT !.todo = {NetOf[Obj(w)]}, !.pc = "network_ports"]
    <2>1. a.snap = j.snap /\ a.log = j.log /\ a.info = j.info /\ a.pc = "router_ports"
      BY <1>0 DEF Job
    <2>2. b.snap = j.snap /\ b.log = j.log /\ b.info = j.info /\ b.pc = "network_ports"
      BY <1>0 DEF Job
    <2>3. (Goto(w, a) \/ Goto(w, b)) /\ Local
      BY <1>5 DEF GetRoutersForNet
    <2> HIDE DEF a, b
    <2>4. FreshJob(w, a) /\ FreshJob(w, b)
      BY <1>0, <2>1, <2>2, FreshKept
    <2> QED  BY <2>3, <2>4, <1>a
  <1>6. CASE GetPortsFromRouter(w)
    <2>1. PICK topo, todo : Goto(w, [j EXCEPT !.topo = topo, !.todo = todo,
                                              !.pc = "network_ports"])
      BY <1>6 DEF GetPortsFromRouter
    <2> DEFINE a == [j EXCEPT !.topo = topo, !.todo = todo, !.pc = "network_ports"]
    <2>2. a.snap = j.snap /\ a.log = j.log /\ a.info = j.info /\ a.pc = "network_ports"
      BY <1>0 DEF Job
    <2>3. FreshJob(w, a)
      BY <1>0, <2>2, FreshKept
    <2> QED  BY <1>6, <2>1, <2>3, <1>a DEF GetPortsFromRouter
  <1>7. CASE GetNetworkPorts(w)
    <2> DEFINE snap(n) == [p \in Ports |-> IF p \in NetworkPorts(port, n)
                                           THEN port[p] ELSE j.snap[p]]
               a(n) == [j EXCEPT !.todo = @ \ {n}, !.snap = snap(n)]
    <2>1. PICK n \in j.todo : Goto(w, a(n))
      BY <1>7 DEF GetNetworkPorts
    <2>2. Local /\ j.pc = "network_ports"
      BY <1>7 DEF GetNetworkPorts, At
    <2>3. a(n).snap = snap(n) /\ a(n).pc = "network_ports"
      BY <1>0, <2>2 DEF Job
    <2>4. NetworkPorts(port, n) \in SUBSET Present(port)
      BY DEF NetworkPorts
    <2>5. FreshJob(w, a(n))
      <3> DEFINE b == a(n)
      <3>1. b.snap = [p \in Ports |-> IF p \in NetworkPorts(port, n)
                                      THEN port[p] ELSE j.snap[p]]
        BY <2>3
      <3>2. b.pc = "network_ports"
        BY <2>3
      <3> HIDE DEF b
      <3>3. FreshJob(w, b)
        BY <1>0, <2>4, <3>1, <3>2, FreshRead
      <3> QED  BY <3>3 DEF b
    <2> QED  BY <2>1, <2>2, <2>5, <1>a
  <1>8. CASE GetDetachedPorts(w)
    <2>1. PICK gone : Goto(w, [j EXCEPT !.gone = gone, !.pc = "router_ports"])
      BY <1>8 DEF GetDetachedPorts
    <2> DEFINE a == [j EXCEPT !.gone = gone, !.pc = "router_ports"]
    <2>2. a.snap = j.snap /\ a.log = j.log /\ a.info = j.info /\ a.pc = "router_ports"
      BY <1>0 DEF Job
    <2>3. FreshJob(w, a)
      BY <1>0, <2>2, FreshKept
    <2> QED  BY <1>8, <2>1, <2>3, <1>a DEF GetDetachedPorts
  <1>9. CASE PortInfo(w)
    <2> DEFINE p == Obj(w)
               o == PortDb(p, j.snap)
               i == PortToDb(p, j.snap, j.topo, j.router, rules)
               a == [j EXCEPT !.out = o, !.dest = VmsOf(j.snap, {p}),
                              !.info = i, !.pc = "update"]
    <2>1. (p \in Present(j.snap) /\ Goto(w, a)) \/ Finish(w)
      BY <1>9 DEF PortInfo
    <2>2. Local
      BY <1>9 DEF PortInfo
    <2>3. CASE p \in Present(j.snap) /\ Goto(w, a)
      <3>1. i.lport = j.snap /\ \A g \in Groups : i.secgroup[g] = 0 \/ i.secgroup[g] = rules[g]
        BY DEF PortToDb, ToDb
      <3>2. /\ o.lport = [NoPorts EXCEPT ![p] = j.snap[p]]
            /\ \A g \in Groups : o.secgroup[g] = 0
        BY DEF PortDb, EmptyDb, NoRules
      <3> HIDE DEF o, i, p
      <3>3. Read(j, o.lport) /\ Read(j, i.lport)
        BY <3>1, <3>2 DEF Read, Present, NoPorts, Absent
      <3>4. /\ a.snap = j.snap /\ a.log = j.log /\ a.pc = "update" /\ a.out = o
            /\ a.info = i
        BY <1>0 DEF Job
      <3> HIDE DEF a
      <3>5. /\ Committed(o.secgroup) /\ Committed(i.secgroup)
            /\ \A v \in Vms : Connected(w, v) =>
                 RulesNotBack(o.secgroup, v) /\ RulesNotBack(i.secgroup, v)
        BY <3>1, <3>2, FreshRules
      <3>6. FreshJob(w, a)
        BY <1>0, <3>2, <3>3, <3>4, <3>5, FreshSend
      <3> QED  BY <2>2, <2>3, <3>6, <1>a
    <2> QED  BY <2>1, <2>2, <2>3, <1>c
  <1>10. CASE State(w)
    <2>1. PICK pc \in {"agent", "apply"} : Goto(w, [j EXCEPT !.pc = pc])
      BY <1>10 DEF State
    <2>2. Local /\ j.pc = "state"
      BY <1>10 DEF State, At
    <2> DEFINE a == [j EXCEPT !.pc = pc]
    <2>3. a.snap = j.snap /\ a.log = j.log /\ a.info = j.info /\ a.pc = pc
      BY <1>0 DEF Job
    <2>4. FreshJob(w, a)
      BY <1>0, <2>2, <2>3, FreshKept
    <2> QED  BY <2>1, <2>2, <2>4, <1>a
  <1>11. CASE RegisterAgent(w)
    <2> DEFINE a == [j EXCEPT !.pc = "apply"]
    <2>1. a.snap = j.snap /\ a.log = j.log /\ a.info = j.info /\ a.pc = "apply"
      BY <1>0 DEF Job
    <2>2. j.pc = "agent" /\ Still /\ UNCHANGED <<vm, late, cut>>
      BY <1>11 DEF RegisterAgent, At, Still
    <2>3. FreshJob(w, a)
      BY <1>0, <2>1, <2>2, FreshKept
    <2>4. Goto(w, a) \/ Finish(w)
      BY <1>11 DEF RegisterAgent
    <2>5. CASE Goto(w, a)
      BY <2>2, <2>3, <2>5, VersionLocal DEF Goal
    <2> QED  BY <2>2, <2>4, <2>5, <1>b
  <1>12. CASE Apply(w)
    <2> DEFINE v == VmOf[Obj(w)]
               a == [j EXCEPT !.pc = "tunnel"]
    <2>1. a.snap = j.snap /\ a.log = j.log /\ a.info = j.info /\ a.pc = "tunnel"
      BY <1>0 DEF Job
    <2>2. FreshJob(w, a)
      BY <1>0, <2>1, FreshKept
    <2>3. /\ vm' = [vm EXCEPT ![v] = j.info] /\ Goto(w, a) /\ Connected(w, v)
          /\ Still /\ UNCHANGED <<late, cut>> /\ j.pc = "apply"
      BY <1>12 DEF Apply, ApplyDb, At, Still
    <2>4. j.log.kind \in PortKinds
      BY <1>0, <2>3 DEF JobOK, PortSteps
    <2>5. v \in Vms /\ j.info \in Db /\ j.info.lport \in Table
      BY <1>0, <2>4, LogObject, TopologyAssumption DEF Job, Obj, Db
    <2> HIDE DEF a, v
    <2>6. /\ Read(j, j.info.lport) /\ Committed(j.info.secgroup)
          /\ RulesNotBack(j.info.secgroup, v) /\ NotBack(j.snap, v)
      BY <1>0, <2>3, <2>4, <2>5 DEF FreshJob
    <2>7. NotBack(j.info.lport, v)
      BY <2>6, NotBackPart DEF Read
    <2>8. \A q \in Ports : j.info.lport[q].ver = 0 \/ j.info.lport[q].ver = j.snap[q].ver
      BY <2>5, <2>6 DEF Read, Present, Table, Lport
    <2> QED  BY ZenonT(30), <2>1, <2>2, <2>3, <2>5, <2>6, <2>7, <2>8, VersionVm DEF Goal
  <1>13. CASE CallFails(w)
    <2> DEFINE v == VmOf[Obj(w)]
               sent == IF At(w, "apply") THEN {Message(w, v, "apply", j.info)} ELSE {}
    <2>1. GivesUp(w, v, sent) /\ Goto(w, IdleJob) /\ Still /\ UNCHANGED vm
      BY <1>13 DEF CallFails, Finish, Still
    <2>2. j.log.kind \in PortKinds
      BY <1>0, <1>13 DEF CallFails, At, JobOK, PortSteps
    <2>3. v \in Vms
      BY <1>0, <2>2, LogObject, TopologyAssumption DEF Job, Obj
    <2>4. ASSUME NEW m \in sent
          PROVE  /\ m.to = v
                 /\ Connected(w, v) /\ m.op # "delete" =>
                      NotBack(m.db.lport, v) /\ RulesNotBack(m.db.secgroup, v)
      <3>1. m.to = v /\ m.db = j.info /\ j.pc = "apply"
        BY <2>4 DEF Message, At
      <3>2. Connected(w, v) =>
              /\ Read(j, j.info.lport) /\ NotBack(j.snap, v)
              /\ RulesNotBack(j.info.secgroup, v)
        BY <1>0, <2>2, <2>3, <3>1 DEF FreshJob
      <3>3. Connected(w, v) => NotBack(j.info.lport, v)
        BY <3>2, NotBackPart DEF Read
      <3> QED  BY <3>1, <3>2, <3>3
    <2>5. \A m, n \in sent : m = n
      OBVIOUS
    <2>6. FreshJob(w, IdleJob)
      BY FreshIdle
    <2> HIDE DEF v, sent
    <2> QED  BY <2>1, <2>4, <2>5, <2>6, VersionGivesUp DEF Goal
  <1>14. CASE AddEndpoint(w)
    BY <1>14, <1>b DEF AddEndpoint, Still
  <1>d. ASSUME NEW v
        PROVE  /\ FreshJob(w, [j EXCEPT !.dest = @ \ {v}])
               /\ [j EXCEPT !.dest = @ \ {v}].snap = j.snap
               /\ [j EXCEPT !.dest = @ \ {v}].pc = j.pc
               /\ [j EXCEPT !.dest = @ \ {v}].out = j.out
               /\ [j EXCEPT !.dest = @ \ {v}].log = j.log
               /\ [j EXCEPT !.dest = @ \ {v}].info = j.info
    <2> DEFINE a == [j EXCEPT !.dest = @ \ {v}]
    <2>1. /\ a.snap = j.snap /\ a.log = j.log /\ a.info = j.info /\ a.pc = j.pc
          /\ a.out = j.out
      BY <1>0 DEF Job
    <2> HIDE DEF a
    <2>2. FreshJob(w, a)
      BY <1>0, <2>1 DEF FreshJob, Read
    <2> QED  BY <2>1, <2>2 DEF a
  (* What a bulk update sends does not take the VMs it reaches back.        *)
  <1>e. ASSUME NEW v \in Vms, Connected(w, v), At(w, "update")
        PROVE  /\ NotBack(j.out.lport, v) /\ RulesNotBack(j.out.secgroup, v)
               /\ Committed(j.out.secgroup) /\ Read(j, j.out.lport)
    <2>1. /\ Read(j, j.out.lport) /\ Committed(j.out.secgroup)
          /\ RulesNotBack(j.out.secgroup, v) /\ NotBack(j.snap, v)
      BY <1>0, <1>e DEF FreshJob, At
    <2>2. NotBack(j.out.lport, v)
      BY <2>1, NotBackPart DEF Read
    <2> QED  BY <2>1, <2>2
  <1>15. CASE BulkUpdate(w)
    <2> DEFINE a(v) == [j EXCEPT !.dest = @ \ {v}]
               d(v) == UpdateDb(vm[v], j.out)
    <2>1. PICK v \in j.dest : /\ vm' = [vm EXCEPT ![v] = d(v)]
                              /\ Goto(w, a(v)) /\ Connected(w, v)
      BY <1>15 DEF BulkUpdate
    <2>2. /\ v \in Vms /\ vm[v] \in Db /\ j.out \in Db
          /\ Still /\ UNCHANGED <<late, cut>> /\ At(w, "update")
      BY <1>0, <1>15 DEF Job, BulkUpdate, Still
    <2>3. /\ NotBack(j.out.lport, v) /\ RulesNotBack(j.out.secgroup, v)
          /\ Committed(j.out.secgroup) /\ Read(j, j.out.lport)
      BY <1>e, <2>1, <2>2
    <2>4. d(v) \in Db
      BY <2>2, UpdateDbType
    <2>5. NotBack(d(v).lport, v) /\ RulesNotBack(d(v).secgroup, v)
      BY <2>2, <2>3, NotBackUpdate
    <2>6. /\ \A q \in Ports : d(v).lport[q] =
               IF q \in Present(j.out.lport) THEN j.out.lport[q] ELSE vm[v].lport[q]
          /\ \A g \in Groups : d(v).secgroup[g] =
               IF j.out.secgroup[g] > 0 THEN j.out.secgroup[g] ELSE vm[v].secgroup[g]
      BY DEF UpdateDb
    <2>7. /\ FreshJob(w, a(v)) /\ a(v).snap = j.snap /\ a(v).pc = j.pc
          /\ a(v).out = j.out /\ a(v).log = j.log /\ a(v).info = j.info
      BY <1>d
    <2> HIDE DEF a, d
    <2>8. \A q \in Ports : \/ d(v).lport[q].ver = vm[v].lport[q].ver
                           \/ d(v).lport[q].ver = j.snap[q].ver
      BY <2>3, <2>6 DEF Read
    <2>9. Committed(vm[v].secgroup)
      BY <2>1, <2>2 DEF VersionInv, Behind
    <2>10. Committed(d(v).secgroup)
      BY <2>3, <2>6, <2>9 DEF Committed
    <2>11. \A g \in Groups : j.out.secgroup[g] \in Nat
      BY <2>2 DEF Db
    <2>12. \A g \in Groups : j.out.secgroup[g] = 0 \/ j.out.secgroup[g] >= d(v).secgroup[g]
      BY <2>6, <2>11
    <2>13. j.log.kind \in PortKinds =>
             \A g \in Groups : j.info.secgroup[g] = 0 \/ j.info.secgroup[g] >= d(v).secgroup[g]
      BY <1>0, <2>1, <2>2, <2>6 DEF FreshJob, RulesNotBack, At
    <2> DEFINE b == a(v)
               e == d(v)
    <2>14. /\ Goto(w, b) /\ FreshJob(w, b) /\ b.snap = job[w].snap
           /\ b.pc = "update" =>
                \A g \in Groups : b.out.secgroup[g] = 0 \/ b.out.secgroup[g] >= e.secgroup[g]
           /\ b.log.kind \in PortKinds /\ b.pc \in {"update", "state", "agent", "apply"} =>
                \A g \in Groups : b.info.secgroup[g] = 0 \/ b.info.secgroup[g] >= e.secgroup[g]
      BY <2>1, <2>7, <2>12, <2>13
    <2>15. /\ e \in Db /\ vm' = [vm EXCEPT ![v] = e] /\ Committed(e.secgroup)
           /\ NotBack(e.lport, v) /\ RulesNotBack(e.secgroup, v)
           /\ \A q \in Ports : \/ e.lport[q].ver = 0
                               \/ e.lport[q].ver = vm[v].lport[q].ver
                               \/ e.lport[q].ver = job[w].snap[q].ver
      BY <2>1, <2>4, <2>5, <2>8, <2>10
    <2> HIDE DEF b, e
    <2> QED  BY ZenonT(30), <2>1, <2>2, <2>14, <2>15, VersionVm DEF Goal
  <1>16. CASE BulkDelete(w)
    <2> DEFINE a(v) == [j EXCEPT !.dest = @ \ {v}]
    <2>1. PICK v \in j.dest : /\ \E d \in DeleteDb(vm[v], j.out) :
                                   vm' = [vm EXCEPT ![v] = d]
                              /\ Goto(w, a(v)) /\ Connected(w, v)
      BY <1>16 DEF BulkDelete
    <2>2. PICK d \in DeleteDb(vm[v], j.out) : vm' = [vm EXCEPT ![v] = d]
      BY <2>1
    <2>3. /\ v \in Vms /\ vm[v] \in Db /\ j.out \in Db
          /\ Still /\ UNCHANGED <<late, cut>> /\ j.pc \in {"delete1", "delete2"}
      BY <1>0, <1>16 DEF Job, BulkDelete, Still, At
    <2>4. j.log.kind \notin PortKinds
      BY <1>0, <2>3 DEF JobOK, DetachSteps, PortKinds
    <2>5. /\ d \in Db /\ d.secgroup = vm[v].secgroup
          /\ \A q \in Ports : d.lport[q] = vm[v].lport[q] \/ d.lport[q] = Absent
      BY <2>3, DeleteDbShape
    <2>6. NotBack(d.lport, v) /\ RulesNotBack(d.secgroup, v)
      BY <2>3, NotBackDelete
    <2>7. /\ FreshJob(w, a(v)) /\ a(v).snap = j.snap /\ a(v).pc = j.pc
          /\ a(v).log = j.log
      BY <1>d
    <2> HIDE DEF a
    <2>8. \A q \in Ports : d.lport[q].ver = 0 \/ d.lport[q].ver = vm[v].lport[q].ver
      BY <2>5 DEF Absent
    <2>9. Committed(d.secgroup)
      BY <2>1, <2>3, <2>5 DEF VersionInv, Behind
    <2> DEFINE b == a(v)
    <2>10. /\ Goto(w, b) /\ FreshJob(w, b) /\ b.snap = job[w].snap
           /\ b.pc = "update" =>
                \A g \in Groups : b.out.secgroup[g] = 0 \/ b.out.secgroup[g] >= d.secgroup[g]
           /\ b.log.kind \in PortKinds /\ b.pc \in {"update", "state", "agent", "apply"} =>
                \A g \in Groups : b.info.secgroup[g] = 0 \/ b.info.secgroup[g] >= d.secgroup[g]
      BY <2>1, <2>3, <2>4, <2>7
    <2>11. \A q \in Ports : \/ d.lport[q].ver = 0
                            \/ d.lport[q].ver = vm[v].lport[q].ver
                            \/ d.lport[q].ver = job[w].snap[q].ver
      BY <2>8
    <2>12. Still /\ UNCHANGED <<late, cut>> /\ v \in Vms /\ Connected(w, v)
      BY <2>1, <2>3
    <2> HIDE DEF b
    <2> QED  BY <2>2, <2>5, <2>6, <2>9, <2>10, <2>11, <2>12, VersionVm DEF Goal
  <1>17. CASE BulkLost(w)
    <2> DEFINE op == IF At(w, "update") THEN "update" ELSE "delete"
               a(v) == [j EXCEPT !.dest = @ \ {v}]
               sent(v) == {Message(w, v, op, j.out)}
    <2>1. PICK v \in j.dest : GivesUp(w, v, sent(v)) /\ Goto(w, a(v))
      BY <1>17 DEF BulkLost
    <2>2. v \in Vms /\ Still /\ UNCHANGED vm
      BY <1>0, <1>17 DEF Job, BulkLost, Still
    <2>3. ASSUME NEW m \in sent(v)
          PROVE  /\ m.to = v
                 /\ Connected(w, v) /\ m.op # "delete" =>
                      NotBack(m.db.lport, v) /\ RulesNotBack(m.db.secgroup, v)
      <3>1. m.to = v /\ m.db = j.out /\ m.op = op
        BY <2>3 DEF Message
      <3> QED  BY <1>e, <2>2, <3>1
    <2>4. FreshJob(w, a(v))
      BY <1>d
    <2>5. \A m, n \in sent(v) : m = n
      OBVIOUS
    <2> HIDE DEF a, sent
    <2> QED  BY <2>1, <2>2, <2>3, <2>4, <2>5, VersionGivesUp DEF Goal
  <1>18. CASE BulkDone(w)
    <2> DEFINE a == [j EXCEPT !.pc = "state", !.out = EmptyDb]
    <2>1. a.snap = j.snap /\ a.log = j.log /\ a.info = j.info /\ a.pc = "state"
      BY <1>0 DEF Job
    <2>2. j.log.kind \in PortKinds => j.pc = "update"
      BY <1>0, <1>18 DEF BulkDone, At, JobOK, DetachSteps, PortKinds
    <2>3. FreshJob(w, a)
      BY <1>0, <2>1, <2>2, FreshKept
    <2> QED  BY <1>18, <2>3, <1>a, <1>c DEF BulkDone
  <1>19. CASE SecurityGroupUpdate(w)
    <2> DEFINE o == SecGroupDb(Obj(w), rules[Obj(w)])
    <2>1. PICK dest : Goto(w, [j EXCEPT !.out = o, !.dest = dest, !.pc = "update"])
      BY <1>19 DEF SecurityGroupUpdate
    <2>2. /\ Present(o.lport) = {}
          /\ \A g \in Groups : o.secgroup[g] = 0 \/ o.secgroup[g] = rules[g]
      BY DEF SecGroupDb, EmptyDb, NoRules, NoPorts, Absent, Present
    <2>3. j.log.kind \notin PortKinds
      BY <1>0, <1>19 DEF SecurityGroupUpdate, At, JobOK, PortKinds
    <2> HIDE DEF o
    <2> DEFINE a == [j EXCEPT !.out = o, !.dest = dest, !.pc = "update"]
    <2>4. a.snap = j.snap /\ a.log = j.log /\ a.pc = "update" /\ a.out = o
      BY <1>0 DEF Job
    <2>5. Read(j, o.lport)
      BY <2>2 DEF Read
    <2>6. Goto(w, a) /\ Local
      BY <1>19, <2>1 DEF SecurityGroupUpdate
    <2> HIDE DEF a
    <2>7. FreshJob(w, a)
      BY <1>0, <2>2, <2>3, <2>4, <2>5, FreshRules, FreshSend
    <2> QED  BY <2>6, <2>7, <1>a
  <1>20. CASE AttachInfo(w)
    <2> DEFINE o == ToDb(j.snap, j.topo, TRUE)
               a == [j EXCEPT !.out = o, !.dest = VmsOf(j.snap, {}), !.pc = "update"]
    <2>1. Goto(w, a) /\ Local
      BY <1>20 DEF AttachInfo
    <2>2. o.lport = j.snap /\ \A g \in Groups : o.secgroup[g] = 0
      BY DEF ToDb, NoRules
    <2>3. j.log.kind \notin PortKinds
      BY <1>20 DEF AttachInfo, PortKinds
    <2> HIDE DEF o
    <2>4. a.snap = j.snap /\ a.log = j.log /\ a.pc = "update" /\ a.out = o
      BY <1>0 DEF Job
    <2>5. Read(j, o.lport)
      BY <2>2 DEF Read
    <2> HIDE DEF a
    <2>6. FreshJob(w, a)
      BY <1>0, <2>2, <2>3, <2>4, <2>5, FreshRules, FreshSend
    <2> QED  BY <2>1, <2>6, <1>a
  <1>f. ASSUME NEW o, NEW dest, NEW pc \in {"delete1", "delete2"}
        PROVE  FreshJob(w, [j EXCEPT !.out = o, !.dest = dest, !.pc = pc])
    <2> DEFINE a == [j EXCEPT !.out = o, !.dest = dest, !.pc = pc]
    <2>1. a.snap = j.snap /\ a.log = j.log /\ a.info = j.info /\ a.pc = pc
      BY <1>0 DEF Job
    <2> HIDE DEF a
    <2>2. FreshJob(w, a)
      BY <1>0, <2>1, FreshKept
    <2> QED  BY <2>2 DEF a
  <1>21. CASE Disconnect1(w)
    BY <1>21, <1>a, <1>f DEF Disconnect1
  <1>22. CASE Disconnect2(w)
    BY <1>22, <1>a, <1>f DEF Disconnect2
  <1> QED  BY <1>1, <1>2, <1>3, <1>4, <1>5, <1>6, <1>7, <1>8, <1>9, <1>10,
           <1>11, <1>12, <1>13, <1>14, <1>15, <1>16, <1>17, <1>18,
           <1>19, <1>20, <1>21, <1>22
           DEF Handle
-----------------------------------------------------------------------------
(* Steps of the environment, and of an agent that is late.                  *)

(* Neutron's tables only move on: a port that has been is not created again.*)
LEMMA VersionTables ==
  ASSUME TypeInv, TypeInv', VersionInv, TxInv', UNCHANGED agentVars,
         Ever \subseteq Ever',
         \A q \in Present(port') : q \in Ever =>
           q \in Present(port) /\ port[q].ver <= port'[q].ver,
         \A g \in Groups : rules[g] <= rules'[g]
  PROVE  VersionInv' /\ Advance
  <1>1. UNCHANGED <<vm, job, late, cut>>
    BY DEF agentVars
  <1>2. /\ \A q \in Ports : port'[q].ver \in Nat
        /\ \A g \in Groups : rules'[g] \in Nat
    BY DEF TypeInv, TypeOK, ApiTypeOK, Table, Lport
  <1>3. LateInv'
    BY <1>1 DEF VersionInv, LateInv, NotBack, RulesNotBack, Connected
  <1>5. ASSUME NEW w \in Workers, NEW v \in Vms, Connected(w, v)
        PROVE  Behind(v)'
    <2>1. Behind(v)
      BY <1>5 DEF VersionInv
    <2>2. Committed(vm[v].secgroup)'
      BY <1>1, <1>2, <2>1, Numbers DEF Behind, Committed
    <2>3. ASSUME NEW q \in Present(port') PROVE port'[q].ver >= vm[v].lport[q].ver
      <3>1. CASE q \in Ever
        BY <1>2, <2>1, <2>3, <3>1, Numbers DEF Behind, NotBack, Present
      <3>2. CASE q \notin Ever
        <4>1. vm[v].lport[q].ver = 0
          BY <2>1, <2>3, <3>2, Numbers DEF Behind, Present
        <4> QED  BY <1>2, <2>3, <4>1 DEF Present
      <3> QED  BY <3>1, <3>2
    <2> QED  BY <1>1, <2>1, <2>2, <2>3 DEF Behind, NotBack
  <1>6. ASSUME NEW w \in Workers PROVE FreshJob(w, job[w])'
    <2> DEFINE j == job[w]
    <2>1. FreshJob(w, j) /\ j \in Job
      BY Numbers DEF VersionInv
    <2>2. ASSUME NEW q \in Present(port') PROVE j.snap[q].ver <= port'[q].ver
      <3>1. CASE q \in Ever
        BY <1>2, <2>1, <2>2, <3>1, Numbers DEF FreshJob, Present
      <3>2. CASE q \notin Ever
        <4>1. j.snap[q].ver = 0
          BY <2>1, <2>2, <3>2, Numbers DEF FreshJob, Present
        <4> QED  BY <1>2, <2>2, <4>1 DEF Present
      <3> QED  BY <3>1, <3>2
    <2>3. /\ Committed(j.out.secgroup) => Committed(j.out.secgroup)'
          /\ Committed(j.info.secgroup) => Committed(j.info.secgroup)'
      <3>1. \A g \in Groups : j.out.secgroup[g] \in Nat /\ j.info.secgroup[g] \in Nat
        BY <2>1 DEF Job, Db
      <3> QED  BY <1>1, <1>2, <3>1, Numbers DEF Committed
    <2>4. Present(j.snap) \subseteq Ever'
      BY <2>1 DEF FreshJob
    <2> QED  BY <1>1, <2>1, <2>2, <2>3, <2>4 DEF FreshJob, NotBack, RulesNotBack, Read, Connected
  <1>7. \A w \in Workers : \A v \in Vms : Connected(w, v)' => Behind(v)'
    BY <1>1, <1>5 DEF Connected
  <1> QED  BY <1>1, <1>3, <1>6, <1>7, StillAdvances DEF VersionInv

LEMMA VersionBegin ==
  ASSUME TypeInv, TypeInv', VersionInv, Begin, UNCHANGED agentVars
  PROVE  VersionInv' /\ Advance
  <1>1. PICK kind \in Kinds : \E obj \in ObjectsOf(kind) : BeginRequest(kind, obj)
    BY DEF Begin
  <1>2. PICK obj \in ObjectsOf(kind) : BeginRequest(kind, obj)
    BY <1>1
  <1> DEFINE t == [id |-> reqs + 1, kind |-> kind, obj |-> obj]
  <1>3. /\ tx' = tx \cup {t} /\ UNCHANGED <<port, rules, rows>>
        /\ Valid(kind, obj) /\ RowFree(kind, obj)
    BY <1>2 DEF BeginRequest, CreateUpdateLog
  <1>4. t.kind = kind /\ t.obj = obj
    OBVIOUS
  <1>5. Ever' = Ever
    BY <1>3 DEF Ever
  <1>6. kind \in PortKinds => \A u \in tx : u.obj # obj
    BY <1>3 DEF RowFree, PortKinds
  <1>7. kind = "create_port" => obj \notin Ever
    BY <1>3 DEF Valid, NeverCreated, Ever
  <1>8. kind \in {"bind_port", "unbind_port"} => obj \in Present(port)
    <2>1. Bound(port) \subseteq Present(port)
      BY DEF TypeInv, TypeOK, ApiTypeOK, Table, Lport, Bound, Present
    <2> QED  BY <1>3, <2>1 DEF Valid
  <1> HIDE DEF t
  <1>9. TxInv'
    <2>1. ASSUME NEW x \in tx', NEW y \in tx',
                 {x.kind, y.kind} \subseteq PortKinds, x.obj = y.obj
          PROVE  x = y
      BY <1>3, <1>4, <1>6, <2>1 DEF VersionInv, TxInv
    <2>2. ASSUME NEW x \in tx'
          PROVE  /\ x.kind = "create_port" => x.obj \notin Ever
                 /\ x.kind \in {"bind_port", "unbind_port"} => x.obj \in Present(port)
      BY <1>3, <1>4, <1>7, <1>8, <2>2 DEF VersionInv, TxInv
    <2> QED  BY <1>3, <1>5, <2>1, <2>2 DEF VersionInv, TxInv, Present
  <1>10. \A q \in Present(port') : q \in Ever =>
           q \in Present(port) /\ port[q].ver <= port'[q].ver
    BY <1>3, Numbers DEF Present
  <1>11. \A g \in Groups : rules[g] <= rules'[g]
    BY <1>3, Numbers
  <1> QED  BY <1>5, <1>9, <1>10, <1>11, VersionTables

LEMMA VersionCommit ==
  ASSUME TypeInv, TypeInv', VersionInv, NEW t \in tx, Commit(t), UNCHANGED agentVars
  PROVE  VersionInv' /\ Advance
  <1>1. /\ tx' = tx \ {t} /\ rows' = rows \cup {t}
        /\ port' = IF t.kind \in PortKinds
                   THEN [port EXCEPT ![t.obj] = WrittenPort(t)] ELSE port
        /\ rules' = IF t.kind = "update_sg"
                    THEN [rules EXCEPT ![t.obj] = @ + 1] ELSE rules
    BY DEF Commit
  <1>2. t \in Request /\ port \in [Ports -> Lport] /\ rules \in [Groups -> Nat]
    BY DEF TypeInv, TypeOK, ApiTypeOK, Table
  <1>3. Ever' = Ever \cup (IF t.kind = "create_port" THEN {t.obj} ELSE {})
    BY <1>1 DEF Ever
  <1>4. \A q \in Ports : port'[q] =
          IF t.kind \in PortKinds /\ q = t.obj THEN WrittenPort(t) ELSE port[q]
    BY <1>1, <1>2
  <1>5. TxInv
    BY DEF VersionInv
  <1>6. \A u \in tx' : {t.kind, u.kind} \subseteq PortKinds => u.obj # t.obj
    BY <1>1, <1>5 DEF TxInv
  (* What the commit leaves of the port it is about.                        *)
  <1>7. ASSUME t.kind \in PortKinds, WrittenPort(t).ver > 0
        PROVE  \/ t.kind = "create_port" /\ t.obj \notin Ever
               \/ t.obj \in Present(port) /\ port[t.obj].ver <= WrittenPort(t).ver
    <2>1. CASE t.kind = "create_port"
      BY <1>5, <2>1 DEF TxInv
    <2>2. CASE t.kind \in {"bind_port", "unbind_port"}
      <3>1. t.obj \in Present(port)
        BY <1>5, <2>2 DEF TxInv
      <3>2. WrittenPort(t).ver = port[t.obj].ver + 1
        BY <2>2 DEF WrittenPort
      <3>3. port[t.obj].ver \in Nat
        BY <3>1, Numbers DEF Present
      <3> QED  BY <3>1, <3>2, <3>3
    <2>3. CASE t.kind = "delete_port"
      BY <1>7, <2>3 DEF WrittenPort, Absent
    <2> QED  BY <1>7, <2>1, <2>2, <2>3 DEF PortKinds
  <1>8. ASSUME NEW q \in Present(port'), q \in Ever
        PROVE  q \in Present(port) /\ port[q].ver <= port'[q].ver
    BY <1>4, <1>7, <1>8, Numbers DEF Present
  <1>9. Present(port') \subseteq Ever'
    BY <1>3, <1>4, <1>5, <1>7 DEF Present, TxInv
  <1>10. TxInv'
    <2>1. \A x, y \in tx' : {x.kind, y.kind} \subseteq PortKinds /\ x.obj = y.obj => x = y
      BY <1>1, <1>5 DEF TxInv
    <2>2. ASSUME NEW x \in tx', x.kind = "create_port" PROVE x.obj \notin Ever'
      BY <1>1, <1>3, <1>5, <1>6, <2>2 DEF TxInv, PortKinds
    <2>3. ASSUME NEW x \in tx', x.kind \in {"bind_port", "unbind_port"}
          PROVE  x.obj \in Present(port')
      <3>1. x.obj \in Present(port)
        BY <1>1, <1>5, <2>3 DEF TxInv
      <3>2. t.kind \in PortKinds => x.obj # t.obj
        BY <1>6, <2>3 DEF PortKinds
      <3> QED  BY <1>4, <3>1, <3>2 DEF Present
    <2> QED  BY <1>9, <2>1, <2>2, <2>3 DEF TxInv
  <1>11. \A g \in Groups : rules[g] <= rules'[g]
    BY <1>1, <1>2
  <1>12. Ever \subseteq Ever'
    BY <1>3
  <1> QED  BY <1>8, <1>10, <1>11, <1>12, VersionTables

LEMMA VersionRollback ==
  ASSUME TypeInv, TypeInv', VersionInv, NEW t \in tx, Rollback(t), UNCHANGED agentVars
  PROVE  VersionInv' /\ Advance
  <1>1. tx' = tx \ {t} /\ UNCHANGED <<port, rules, rows>>
    BY DEF Rollback
  <1>2. Ever' = Ever
    BY <1>1 DEF Ever
  <1>3. TxInv'
    BY <1>1, <1>2 DEF VersionInv, TxInv, Present
  <1>4. \A q \in Present(port') : q \in Ever =>
          q \in Present(port) /\ port[q].ver <= port'[q].ver
    BY <1>1, Numbers DEF Present
  <1>5. \A g \in Groups : rules[g] <= rules'[g]
    BY <1>1, Numbers
  <1> QED  BY <1>2, <1>3, <1>4, <1>5, VersionTables

LEMMA NotBackExecuted ==
  ASSUME TypeInv, NEW m \in Msg, NEW d \in Executed(vm[m.to], m),
         m.op # "delete" =>
           NotBack(m.db.lport, m.to) /\ RulesNotBack(m.db.secgroup, m.to)
  PROVE  NotBack(d.lport, m.to) /\ RulesNotBack(d.secgroup, m.to)
  <1>1. m.db \in Db /\ m.to \in Vms /\ m.op \in {"apply", "update", "delete"}
    BY DEF Msg
  <1>2. CASE m.op = "apply"
    BY <1>2 DEF Executed, ApplyDb
  <1>3. CASE m.op = "update"
    <2>1. d = UpdateDb(vm[m.to], m.db)
      BY <1>3 DEF Executed
    <2> QED  BY <1>1, <1>3, <2>1, NotBackUpdate
  <1>4. CASE m.op = "delete"
    <2>1. d \in DeleteDb(vm[m.to], m.db)
      BY <1>4 DEF Executed
    <2> QED  BY <1>1, <2>1, NotBackDelete
  <1> QED  BY <1>1, <1>2, <1>3, <1>4

(* A late message reaches a VM that nothing newer could be sent to since.   *)
LEMMA VersionLate ==
  ASSUME TypeInv, VersionInv, LateDelivery
  PROVE  VersionInv' /\ Advance
  <1>1. PICK m \in late : /\ \E d \in Executed(vm[m.to], m) :
                               vm' = [vm EXCEPT ![m.to] = d]
                          /\ late' = late \ {m}
    BY DEF LateDelivery
  <1>2. PICK d \in Executed(vm[m.to], m) : vm' = [vm EXCEPT ![m.to] = d]
    BY <1>1
  <1>3. Still /\ UNCHANGED <<job, cut>>
    BY DEF LateDelivery, Still
  <1>4. m \in Msg /\ m.to \in Vms
    BY <1>1 DEF TypeInv, TypeOK, Msg
  <1>5. LateInv
    BY DEF VersionInv
  <1>6. NotBack(d.lport, m.to) /\ RulesNotBack(d.secgroup, m.to)
    BY <1>1, <1>2, <1>4, <1>5, NotBackExecuted DEF LateInv
  <1>7. \A u \in Vms : u # m.to => vm'[u] = vm[u]
    BY <1>2, <1>4, Numbers
  <1>8. \A w \in Workers : \A v \in Vms : Connected(w, v) => v # m.to
    BY <1>1, <1>5 DEF LateInv
  <1>9. TxInv'
    BY <1>3 DEF VersionInv, TxInv, Ever, Still
  <1>10. LateInv'
    <2>1. \A n \in late' : n \in late /\ n.to \in Vms /\ n.to # m.to
      BY <1>1, <1>5 DEF LateInv, TypeInv, TypeOK, Msg
    <2>2. \A n \in late' : vm'[n.to] = vm[n.to]
      BY <1>7, <2>1
    <2> QED  BY <1>3, <1>5, <2>1, <2>2 DEF LateInv, NotBack, RulesNotBack, Connected
  <1>11. \A w \in Workers : \A v \in Vms : Connected(w, v)' => Behind(v)'
    BY <1>3, <1>7, <1>8
       DEF VersionInv, Behind, NotBack, Committed, Ever, Still, Connected
  <1>12. ASSUME NEW w \in Workers PROVE FreshJob(w, job[w])'
    <2>1. FreshJob(w, job[w])
      BY DEF VersionInv
    <2> QED  BY <1>3, <1>7, <1>8, <2>1
             DEF FreshJob, NotBack, RulesNotBack, Read, Committed, Ever, Still, Connected
  <1> QED  BY <1>2, <1>4, <1>6, <1>9, <1>10, <1>11, <1>12, VmAdvances DEF VersionInv

(* A step that changes none of this.                                        *)
LEMMA VersionStill ==
  ASSUME TypeInv, VersionInv, Still, UNCHANGED <<job, vm, late, cut>>
  PROVE  VersionInv' /\ Advance
  <1>1. TxInv' /\ LateInv'
    BY DEF VersionInv, TxInv, LateInv, NotBack, RulesNotBack, Ever, Still, Connected
  <1>2. \A w \in Workers : \A v \in Vms : Connected(w, v)' => Behind(v)'
    BY DEF VersionInv, Behind, NotBack, Committed, Ever, Still, Connected
  <1>3. ASSUME NEW w \in Workers PROVE FreshJob(w, job[w])'
    BY DEF VersionInv, FreshJob, NotBack, RulesNotBack, Read, Committed, Ever,
           Still, Connected
  <1> QED  BY <1>1, <1>2, <1>3, StillAdvances DEF VersionInv
-----------------------------------------------------------------------------
LEMMA VersionInit == Init => VersionInv
  <1> SUFFICES ASSUME Init PROVE VersionInv
    OBVIOUS
  <1>1. TypeInv
    BY TypeInit
  <1>2. /\ tx = {} /\ rows = {} /\ late = {}
        /\ \A g \in Groups : rules[g] = 1
        /\ \A q \in Ports : port[q] = IF q \in InitPorts
                                      THEN [ver |-> 1, bound |-> Warm] ELSE Absent
    BY DEF Init, ApiInit
  <1>3. Ever = InitPorts /\ Present(port) = InitPorts
    BY <1>2, ApiAssumption DEF Ever, Present, Absent
  <1>4. TxInv /\ LateInv
    BY <1>2, <1>3 DEF TxInv, LateInv
  <1>5. ASSUME NEW v \in Vms PROVE Behind(v)
    <2>1. CASE v \in WarmVms
      <3>1. vm[v] = WarmDb(v)
        BY <2>1 DEF Init
      <3>2. vm[v].lport = port /\ \A g \in Groups : vm[v].secgroup[g] \in {0, 1}
        BY <3>1 DEF WarmDb, ToDb
      <3>3. \A q \in Ports : port[q].ver \in Nat
        BY <1>1, Numbers
      <3>4. NotBack(port, v)
        BY <3>2, <3>3 DEF NotBack, Present
      <3>5. Committed(vm[v].secgroup)
        BY <1>2, <3>2 DEF Committed
      <3> QED  BY <1>3, <3>2, <3>4, <3>5 DEF Behind
    <2>2. CASE v \notin WarmVms
      <3>1. vm[v] = EmptyDb
        BY <2>2 DEF Init
      <3>2. /\ \A q \in Ports : vm[v].lport[q].ver = 0
            /\ \A g \in Groups : vm[v].secgroup[g] = 0
        BY <3>1 DEF EmptyDb, NoPorts, Absent, NoRules
      <3>3. \A q \in Ports : port[q].ver \in Nat
        BY <1>1, Numbers
      <3> QED  BY <1>2, <3>2, <3>3 DEF Behind, NotBack, Committed, Present
    <2> QED  BY <2>1, <2>2
  <1>6. \A w \in Workers : FreshJob(w, job[w])
    BY <1>1, FreshIdle DEF Init
  <1> QED  BY <1>4, <1>5, <1>6 DEF VersionInv

LEMMA VersionStep ==
  ASSUME OneWorker, ~Crashes
  PROVE  TypeInv /\ TypeInv' /\ VersionInv /\ [Next]_vars => VersionInv' /\ Advance
  <1> SUFFICES ASSUME TypeInv, TypeInv', VersionInv, [Next]_vars
               PROVE  VersionInv' /\ Advance
    OBVIOUS
  <1>1. CASE UNCHANGED vars
    BY <1>1, VersionStill DEF vars, Still
  <1>2. ASSUME NEW w \in Workers, ProcessLog(w) PROVE VersionInv' /\ Advance
    <2>1. PICK t \in logs :
            \/ UNCHANGED job
            \/ Goto(w, [IdleJob EXCEPT !.pc = ACTIONS_CLASS[t.kind], !.log = t])
      BY <1>2 DEF ProcessLog
    <2>2. Still /\ UNCHANGED <<vm, late, cut>>
      BY <1>2 DEF ProcessLog, Still
    <2>3. ACTIONS_CLASS[t.kind] \notin {"update", "state", "agent", "apply"}
      <3>1. t.kind \in AllKinds
        BY DEF TypeInv, TypeOK, ApiTypeOK, Request
      <3> QED  BY <3>1 DEF ACTIONS_CLASS, AllKinds, PortKinds, LegKinds
    <2>4. FreshJob(w, [IdleJob EXCEPT !.pc = ACTIONS_CLASS[t.kind], !.log = t])
      BY <2>3, FreshIdle
    <2> QED  BY <2>1, <2>2, <2>4, VersionLocal, VersionStill
  <1>3. ASSUME NEW w \in Workers, Handle(w) PROVE VersionInv' /\ Advance
    BY <1>3, VersionHandle
  <1>4. ASSUME NEW w \in Workers PROVE ~WorkerDies(w)
    BY DEF WorkerDies
  <1>5. CASE LateDelivery
    BY <1>5, VersionLate
  <1>6. CASE ApiNext /\ UNCHANGED agentVars
    BY <1>6, VersionBegin, VersionCommit, VersionRollback DEF ApiNext
  <1> QED  BY <1>1, <1>2, <1>3, <1>4, <1>5, <1>6 DEF Next, Rest, WorkerNext

(* Whatever the topology: with one worker that does not die, no VM goes     *)
(* back to an older version of a port or of the rules of a security group.  *)
(* Two things make it so.  What a handler has read is never older than what *)
(* the VMs it can send to hold, since nobody else sends; and of two things  *)
(* sent to one VM only the last can be late, since the socket that timed    *)
(* out accepts nothing newer.                                               *)
THEOREM VersionsNeverFall ==
  ASSUME OneWorker, ~Crashes
  PROVE  Spec => VersionsMonotone
  <1>1. Advance =>
          \A v \in Vms :
            /\ \A q \in Present(vm'[v].lport) :
                 vm'[v].lport[q].ver >= vm[v].lport[q].ver
            /\ \A g \in Groups :
                 vm'[v].secgroup[g] = 0 \/ vm'[v].secgroup[g] >= vm[v].secgroup[g]
    BY DEF Advance, NotBack, RulesNotBack
  <1>2. TypeInv /\ TypeInv' /\ VersionInv /\ [Next]_vars => VersionInv' /\ Advance
    BY VersionStep
  <1>3. Spec => []VersionInv
    BY <1>2, VersionInit, TypeInvariant, PTL DEF Spec
  <1> QED  BY <1>1, <1>2, <1>3, TypeInvariant, PTL DEF Spec, VersionsMonotone
=============================================================================
