--------------------------- MODULE LogAgentSerial ---------------------------
(* What the VMs hold once all is handled, when requests are made one at a   *)
(* time, no send fails and no worker dies: the current rules of their groups*)
(* (RulesInv), every port they can reach (ReadInv, what a handler has read  *)
(* is what is committed, and CompleteInv, what a VM must hold is there or is*)
(* still to be sent), and no other port (IsolatedInv).                      *)
EXTENDS LogAgentProofs, FiniteSetTheorems

(* No socket becomes useless, no worker dies, and the agents table lists    *)
(* every host a handler looks for.                                          *)
NothingFails == MaxCut = 0 /\ ~Crashes /\ (L2Pop => Named = Vms)
-----------------------------------------------------------------------------
(* One request at a time: it is open or committed but not yet handled, or a *)
(* worker is at it, or there is none.                                       *)
OneAtATime ==
  /\ \A w, x \in Workers : ~At(w, "idle") /\ ~At(x, "idle") => w = x
  /\ (\E w \in Workers : ~At(w, "idle")) => tx = {} /\ logs = {}
  /\ \A t, u \in logs : t = u
  /\ tx = {} \/ tx = logs
  /\ late = {} /\ cut = {}

(* Request t calls for sending the rules of group g to the VM of port p.    *)
Touches(t, p, g) ==
  \/ t.kind = "update_sg" /\ t.obj = g
  \/ t.kind = "bind_port" /\ t.obj = p

(* The handler has not sent them yet.                                       *)
Outstanding(j, p) ==
  /\ j.pc \notin {"idle", "tunnel"}
  /\ j.pc = "update" /\ j.log.kind = "update_sg" => VmOf[p] \in j.dest

Due(p, g) ==
  \/ tx = {} /\ \E t \in logs : Touches(t, p, g)
  \/ \E w \in Workers : Touches(job[w].log, p, g) /\ Outstanding(job[w], p)

Current(p, g) == vm[VmOf[p]].secgroup[g] = rules[g]

(* The handler has what it needs: it sends the current rules of the group   *)
(* it is about and of no other; the port it is about is bound, will be read *)
(* and is sent with the current rules of its groups.                        *)
RulesJob(j) ==
  /\ j.pc = "agent" => L2Pop
  /\ j.pc = "update" => \A g \in Groups :
       j.out.secgroup[g] = IF j.log.kind = "update_sg" /\ j.log.obj = g
                           THEN rules[g] ELSE 0
  /\ j.log.kind \in PortKinds =>
       /\ j.pc \notin {"idle", "get_port"} => j.log.obj \in Bound(port)
       /\ j.pc = "network_ports" =>
            NetOf[j.log.obj] \in j.todo \/ j.log.obj \in Present(j.snap)
       /\ j.pc \in {"update", "state", "agent", "apply"} =>
            \A g \in GroupsOf[j.log.obj] : j.info.secgroup[g] = rules[g]

RulesInv ==
  /\ OneAtATime
  /\ \A g \in Groups : rules[g] > 0
  /\ \A w \in Workers : RulesJob(job[w])
  /\ \A p \in Bound(port) : \A g \in GroupsOf[p] : Current(p, g) \/ Due(p, g)
-----------------------------------------------------------------------------
(* An operator who waits makes no step that others could not make.          *)
LEMMA SerialIsNext == SerialNext => Next
  BY DEF SerialNext, Next, ApiNext

LEMMA SerialTypes == SerialSpec => []TypeInv
  <1>1. TypeInv /\ [SerialNext]_vars => TypeInv'
    BY SerialIsNext, TypeStep
  <1> QED  BY <1>1, TypeInit, PTL DEF SerialSpec

LEMMA SerialFacts ==
  ASSUME TypeInv
  PROVE  /\ vm \in [Vms -> Db] /\ port \in Table /\ rules \in [Groups -> Nat]
         /\ Bound(port) \subseteq Present(port) /\ Present(port) \subseteq Ports
         /\ \A w \in Workers : job[w] \in Job /\ JobOK(job[w])
  BY DEF TypeInv, TypeOK, ApiTypeOK, Table, Lport, Bound, Present

(* With no request open, nothing late and all sockets usable, no send can   *)
(* fail.                                                                    *)
LEMMA NoGivesUp ==
  ASSUME NothingFails, OneAtATime, NEW w, NEW v, NEW sent
  PROVE  ~GivesUp(w, v, sent)
  <1>1. Connected(w, v)
    BY DEF OneAtATime, Connected
  <1>2. Cardinality(cut) = 0
    BY FS_EmptySet DEF OneAtATime
  <1> QED  BY <1>1, <1>2 DEF GivesUp, NothingFails

(* A step of the handler that is under way.                                 *)
LEMMA OneMoves ==
  ASSUME TypeInv, OneAtATime, NEW w \in Workers, ~At(w, "idle"), NEW a, Goto(w, a),
         UNCHANGED <<tx, logs, late, cut>>
  PROVE  /\ OneAtATime'
         /\ tx = {} /\ logs = {}
         /\ \A x \in Workers : job'[x] = IF x = w THEN a ELSE job[x]
         /\ \A x \in Workers \ {w} : At(x, "idle")
  <1>1. \A x \in Workers : job'[x] = IF x = w THEN a ELSE job[x]
    BY DEF Goto, TypeInv, TypeOK
  <1>2. tx = {} /\ logs = {} /\ \A x \in Workers \ {w} : At(x, "idle")
    BY DEF OneAtATime
  <1>3. \A x \in Workers \ {w} : At(x, "idle")'
    BY <1>1, <1>2 DEF At
  <1> QED  BY <1>1, <1>2, <1>3 DEF OneAtATime
-----------------------------------------------------------------------------
(* The handler moves to a; what was current stays so, and what it had still *)
(* to send is current now or still to be sent.                              *)
LEMMA RulesFrame ==
  ASSUME TypeInv, RulesInv, NEW w \in Workers, ~At(w, "idle"), NEW a, Goto(w, a),
         RulesJob(a), UNCHANGED <<port, rules, tx, logs, late, cut>>,
         \A p \in Bound(port) : \A g \in GroupsOf[p] :
           \/ Current(p, g)
           \/ Touches(job[w].log, p, g) /\ Outstanding(job[w], p)
           => \/ vm'[VmOf[p]].secgroup[g] = rules[g]
              \/ Touches(a.log, p, g) /\ Outstanding(a, p)
  PROVE  RulesInv'
  <1>1. /\ OneAtATime' /\ tx = {} /\ logs = {}
        /\ \A x \in Workers : job'[x] = IF x = w THEN a ELSE job[x]
        /\ \A x \in Workers \ {w} : At(x, "idle")
    BY OneMoves DEF RulesInv
  <1>2. \A x \in Workers : RulesJob(job'[x])
    BY <1>1 DEF RulesInv
  <1>3. \A x \in Workers : RulesJob(job[x])'
    BY <1>2 DEF RulesJob
  <1>4. ASSUME NEW p \in Bound(port), NEW g \in GroupsOf[p]
        PROVE  Current(p, g)' \/ Due(p, g)'
    <2>1. Current(p, g) \/ (Touches(job[w].log, p, g) /\ Outstanding(job[w], p))
      BY <1>1 DEF RulesInv, Due, Outstanding, At
    <2>2. \/ vm'[VmOf[p]].secgroup[g] = rules[g]
          \/ Touches(a.log, p, g) /\ Outstanding(a, p)
      BY <2>1
    <2>3. (Touches(a.log, p, g) /\ Outstanding(a, p)) => Due(p, g)'
      BY <1>1 DEF Due, Touches, Outstanding
    <2> QED  BY <2>2, <2>3 DEF Current
  <1>5. \A p \in Bound(port') : \A g \in GroupsOf[p] : Current(p, g)' \/ Due(p, g)'
    BY <1>4
  <1> QED  BY <1>1, <1>3, <1>5 DEF RulesInv, Bound

(* A step to a, at which there is as much to send.                          *)
LEMMA RulesGoes ==
  ASSUME TypeInv, RulesInv, NEW w \in Workers, ~At(w, "idle"), NEW a, Goto(w, a),
         Local, RulesJob(a), a.log = job[w].log,
         \A p \in Bound(port) : Outstanding(job[w], p) => Outstanding(a, p)
  PROVE  RulesInv'
  <1>1. UNCHANGED <<port, rules, tx, logs, vm, late, cut>>
    BY DEF Local
  <1>2. ASSUME NEW p \in Bound(port), NEW g \in GroupsOf[p],
               \/ Current(p, g)
               \/ Touches(job[w].log, p, g) /\ Outstanding(job[w], p)
        PROVE  \/ vm'[VmOf[p]].secgroup[g] = rules[g]
               \/ Touches(a.log, p, g) /\ Outstanding(a, p)
    BY <1>1, <1>2 DEF Current
  <1> QED  BY <1>1, <1>2, RulesFrame

LEMMA RulesIdle ==
  /\ RulesJob(IdleJob)
  /\ \A pc, t : pc \notin {"update", "agent"} /\ (t.kind \in PortKinds => pc = "get_port")
       => RulesJob([IdleJob EXCEPT !.pc = pc, !.log = t])
  <1>1. RulesJob(IdleJob)
    BY DEF RulesJob, IdleJob, NoLog, PortKinds
  <1>2. ASSUME NEW pc, NEW t, pc \notin {"update", "agent"},
               t.kind \in PortKinds => pc = "get_port"
        PROVE  RulesJob([IdleJob EXCEPT !.pc = pc, !.log = t])
    <2> DEFINE a == [IdleJob EXCEPT !.pc = pc, !.log = t]
    <2>1. a.pc = pc /\ a.log = t
      BY DEF IdleJob
    <2> HIDE DEF a
    <2>2. RulesJob(a)
      BY <1>2, <2>1 DEF RulesJob
    <2> QED  BY <2>2 DEF a
  <1> QED  BY <1>1, <1>2

(* The handler ends with nothing left to send.                              *)
LEMMA RulesEnds ==
  ASSUME TypeInv, RulesInv, NEW w \in Workers, ~At(w, "idle"), Finish(w),
         UNCHANGED <<port, rules, tx, logs, vm, late, cut>>,
         \A p \in Bound(port) : \A g \in GroupsOf[p] :
           ~(Touches(job[w].log, p, g) /\ Outstanding(job[w], p))
  PROVE  RulesInv'
  <1>1. ASSUME NEW p \in Bound(port), NEW g \in GroupsOf[p],
               \/ Current(p, g)
               \/ Touches(job[w].log, p, g) /\ Outstanding(job[w], p)
        PROVE  \/ vm'[VmOf[p]].secgroup[g] = rules[g]
               \/ Touches(IdleJob.log, p, g) /\ Outstanding(IdleJob, p)
    BY <1>1 DEF Current
  <1> QED  BY <1>1, RulesIdle, RulesFrame DEF Finish

LEMMA RulesHandle ==
  ASSUME OnePortPerVm, NothingFails, TypeInv, RulesInv, NEW w \in Workers, Handle(w)
  PROVE  RulesInv'
  <1> DEFINE j == job[w]
  <1>0. /\ j \in Job /\ JobOK(j) /\ RulesJob(j) /\ vm \in [Vms -> Db]
        /\ port \in Table /\ rules \in [Groups -> Nat]
        /\ Bound(port) \subseteq Present(port)
    BY SerialFacts DEF RulesInv
  <1>i. ~At(w, "idle")
    BY DEF Handle, At, GetPort, GetRoutersForNet, GetPortsFromRouter,
           GetNetworkPorts, AllRead, PortInfo, State, RegisterAgent, Apply, CallFails,
           AddEndpoint, BulkUpdate, BulkDelete, BulkLost, BulkDone,
           SecurityGroupUpdate, RouterUpdate, RouterIfaceAttach, AttachInfo,
           RouterIfaceDetach, GetDetachedPorts, Disconnect1, Disconnect2
  (* A step on the way to a send, or out of a handler that sends no rules.  *)
  <1>a. ASSUME NEW a, Goto(w, a), Local, RulesJob(a), a.log = j.log,
               a.pc \notin {"idle", "tunnel", "update"}
        PROVE  RulesInv'
    BY <1>a, <1>i, RulesGoes DEF Outstanding
  <1>b. ASSUME Finish(w), Local, j.log.kind \notin {"update_sg", "bind_port"}
        PROVE  RulesInv'
    BY <1>b, <1>i, RulesEnds DEF Local, Touches
  <1>1. CASE GetPort(w)
    <2> DEFINE a == [j EXCEPT !.pc = "routers"]
    <2>1. a.log = j.log /\ a.pc = "routers" /\ j.pc = "get_port" /\ Local
      BY <1>0, <1>1 DEF Job, GetPort, At
    <2>2. CASE Obj(w) \in Bound(port)
      <3>1. Goto(w, a)
        BY <1>1, <2>2 DEF GetPort
      <3> HIDE DEF a
      <3>2. RulesJob(a)
        BY <2>1, <2>2 DEF RulesJob, Obj
      <3> QED  BY <2>1, <3>1, <3>2, <1>a
    <2>3. CASE Obj(w) \notin Bound(port)
      <3>1. Finish(w) /\ j.log.kind # "update_sg"
        BY <1>0, <1>1, <2>1, <2>3 DEF GetPort, JobOK, PortSteps, PortKinds
      <3> QED  BY <1>i, <2>1, <2>3, <3>1, RulesEnds DEF Local, Touches, Obj
    <2> QED  BY <2>2, <2>3
  <1>2. CASE RouterUpdate(w)
    <2> DEFINE a == [j EXCEPT !.pc = "attach"]
    <2>1. a.log = j.log /\ a.pc = "attach" /\ j.log.kind = "update_router"
      BY <1>0, <1>2 DEF Job, RouterUpdate, At, JobOK
    <2>2. RulesJob(a)
      BY <2>1 DEF RulesJob, PortKinds
    <2> QED  BY <1>2, <2>1, <2>2, <1>a, <1>b DEF RouterUpdate
  <1>3. CASE RouterIfaceAttach(w)
    <2> DEFINE a == [j EXCEPT !.router = TRUE, !.pc = "router_ports"]
    <2>1. /\ a.log = j.log /\ a.pc = "router_ports"
          /\ j.log.kind \in {"attach", "update_router"}
      BY <1>0, <1>3 DEF Job, RouterIfaceAttach, At, JobOK
    <2>2. RulesJob(a)
      BY <2>1 DEF RulesJob, PortKinds
    <2> QED  BY <1>3, <2>1, <2>2, <1>a, <1>b DEF RouterIfaceAttach
  <1>4. CASE RouterIfaceDetach(w)
    <2> DEFINE a == [j EXCEPT !.router = TRUE, !.pc = "gone_ports"]
    <2>1. a.log = j.log /\ a.pc = "gone_ports" /\ j.log.kind = "detach"
      BY <1>0, <1>4 DEF Job, RouterIfaceDetach, At, JobOK, DetachSteps
    <2>2. RulesJob(a)
      BY <2>1 DEF RulesJob, PortKinds
    <2> QED  BY <1>4, <2>1, <2>2, <1>a, <1>b DEF RouterIfaceDetach
  <1>5. CASE GetRoutersForNet(w)
    <2> DEFINE a == [j EXCEPT !.router = TRUE, !.pc = "router_ports"]
               b == [j EXCEPT !.todo = {NetOf[Obj(w)]}, !.pc = "network_ports"]
    <2>1. /\ (Goto(w, a) \/ Goto(w, b)) /\ Local /\ j.pc = "routers"
      BY <1>5 DEF GetRoutersForNet, At
    <2>2. j.log.kind \in PortKinds => j.log.obj \in Bound(port)
      BY <1>0, <2>1 DEF RulesJob
    <2>3. /\ a.log = j.log /\ a.pc = "router_ports"
          /\ b.log = j.log /\ b.pc = "network_ports" /\ b.todo = {NetOf[j.log.obj]}
      BY <1>0 DEF Job, Obj
    <2> HIDE DEF a, b
    <2>4. RulesJob(a) /\ RulesJob(b)
      BY <2>2, <2>3 DEF RulesJob
    <2> QED  BY <2>1, <2>3, <2>4, <1>a
  <1>6. CASE GetPortsFromRouter(w)
    <2> DEFINE own == IF j.log.kind \in PortKinds THEN {NetOf[Obj(w)]} ELSE {}
    <2>1. PICK topo : Goto(w, [j EXCEPT !.topo = topo, !.todo = topo \cup own,
                                        !.pc = "network_ports"])
      BY <1>6 DEF GetPortsFromRouter
    <2> DEFINE a == [j EXCEPT !.topo = topo, !.todo = topo \cup own,
                              !.pc = "network_ports"]
    <2>2. Local /\ j.pc = "router_ports"
      BY <1>6 DEF GetPortsFromRouter, At
    <2>3. a.log = j.log /\ a.pc = "network_ports" /\ a.todo = topo \cup own
      BY <1>0 DEF Job
    <2>4. j.log.kind \in PortKinds =>
            j.log.obj \in Bound(port) /\ NetOf[j.log.obj] \in own
      BY <1>0, <2>2 DEF RulesJob, Obj
    <2>5. Goto(w, a)
      BY <2>1
    <2> HIDE DEF a, own
    <2>6. RulesJob(a)
      BY <2>3, <2>4 DEF RulesJob
    <2> QED  BY <2>2, <2>3, <2>5, <2>6, <1>a
  <1>7. CASE GetNetworkPorts(w)
    <2> DEFINE snap(n) == [p \in Ports |-> IF p \in NetworkPorts(port, n)
                                           THEN port[p] ELSE j.snap[p]]
               a(n) == [j EXCEPT !.todo = @ \ {n}, !.snap = snap(n)]
    <2>1. PICK n \in j.todo : Goto(w, a(n))
      BY <1>7 DEF GetNetworkPorts
    <2>2. Local /\ j.pc = "network_ports"
      BY <1>7 DEF GetNetworkPorts, At
    <2> DEFINE b == a(n)
    <2>3. /\ b.log = j.log /\ b.pc = "network_ports" /\ b.todo = j.todo \ {n}
          /\ b.snap = snap(n) /\ Goto(w, b)
      BY <1>0, <2>1, <2>2 DEF Job
    <2> HIDE DEF b
    <2>4. ASSUME j.log.kind \in PortKinds
          PROVE  /\ j.log.obj \in Bound(port)
                 /\ NetOf[j.log.obj] \in b.todo \/ j.log.obj \in Present(b.snap)
      <3>1. /\ j.log.obj \in Bound(port)
            /\ NetOf[j.log.obj] \in j.todo \/ j.log.obj \in Present(j.snap)
        BY <1>0, <2>2, <2>4 DEF RulesJob
      <3>2. j.log.obj \in Present(port) /\ j.log.obj \in Ports
        BY <1>0, <3>1 DEF Present
      <3>3. NetOf[j.log.obj] = n => j.log.obj \in Present(b.snap)
        BY <2>3, <3>2 DEF Present, NetworkPorts
      <3>4. j.log.obj \in Present(j.snap) => j.log.obj \in Present(b.snap)
        BY <2>3, <3>2 DEF Present, NetworkPorts
      <3> QED  BY <2>3, <3>1, <3>3, <3>4
    <2>5. RulesJob(b)
      BY <2>3, <2>4 DEF RulesJob
    <2> QED  BY <2>2, <2>3, <2>5, <1>a
  <1>8. CASE GetDetachedPorts(w)
    <2>1. PICK gone : Goto(w, [j EXCEPT !.gone = gone, !.pc = "router_ports"])
      BY <1>8 DEF GetDetachedPorts
    <2> DEFINE a == [j EXCEPT !.gone = gone, !.pc = "router_ports"]
    <2>2. a.log = j.log /\ a.pc = "router_ports" /\ j.log.kind = "detach"
      BY <1>0, <1>8 DEF Job, GetDetachedPorts, At, JobOK, DetachSteps
    <2>3. RulesJob(a)
      BY <2>2 DEF RulesJob, PortKinds
    <2> QED  BY <1>8, <2>1, <2>2, <2>3, <1>a DEF GetDetachedPorts
  <1>9. CASE PortInfo(w)
    <2> DEFINE p == Obj(w)
               o == PortDb(p, j.snap)
               i == PortToDb(p, j.snap, j.topo, j.router, rules)
               a == [j EXCEPT !.out = o, !.dest = VmsOf(j.snap, {p}),
                              !.info = i, !.pc = "update"]
    <2>1. /\ j.pc = "network_ports" /\ j.todo = {} /\ Local
          /\ j.log.kind \in PortKinds /\ p = j.log.obj
      BY <1>9 DEF PortInfo, AllRead, At, Obj
    <2>2. p \in Present(j.snap) /\ p \in Bound(port)
      BY <1>0, <2>1 DEF RulesJob
    <2>3. Goto(w, a)
      BY <1>9, <2>2 DEF PortInfo
    <2>4. p \in Ports /\ GroupsOf[p] \subseteq Groups
      BY <2>2, TopologyAssumption DEF Present
    <2>5. /\ \A g \in Groups : o.secgroup[g] = 0
          /\ \A g \in GroupsOf[p] : i.secgroup[g] = rules[g]
      BY <2>4 DEF PortDb, EmptyDb, NoRules, PortToDb, ToDb
    <2> HIDE DEF o, i, p
    <2>6. /\ a.log = j.log /\ a.pc = "update" /\ a.out = o /\ a.info = i
      BY <1>0 DEF Job
    <2> HIDE DEF a
    <2>7. RulesJob(a)
      BY <2>1, <2>2, <2>5, <2>6 DEF RulesJob, PortKinds
    <2>8. \A q \in Bound(port) : Outstanding(a, q)
      BY <2>1, <2>6 DEF Outstanding, PortKinds
    <2> QED  BY <1>i, <2>1, <2>3, <2>6, <2>7, <2>8, RulesGoes
  <1>10. CASE State(w)
    <2>1. PICK pc \in {"agent", "apply"} : /\ Goto(w, [j EXCEPT !.pc = pc])
                                           /\ pc = "agent" => L2Pop
      BY <1>10 DEF State
    <2> DEFINE a == [j EXCEPT !.pc = pc]
    <2>2. /\ a.log = j.log /\ a.pc = pc /\ a.info = j.info /\ j.pc = "state" /\ Local
          /\ Goto(w, a)
      BY <1>0, <1>10, <2>1 DEF Job, State, At
    <2> HIDE DEF a
    <2>3. RulesJob(a)
      BY <1>0, <2>1, <2>2 DEF RulesJob
    <2> QED  BY <2>2, <2>3, <1>a
  <1>11. CASE RegisterAgent(w)
    <2> DEFINE a == [j EXCEPT !.pc = "apply"]
    <2>1. /\ j.pc = "agent" /\ agents' = agents \cup ({VmOf[Obj(w)]} \cap Named)
          /\ UNCHANGED <<port, rules, tx, logs, vm, late, cut>>
      BY <1>11 DEF RegisterAgent, At
    <2>2. j.log.kind \in PortKinds /\ VmOf[Obj(w)] \in Vms
      BY <1>0, <2>1, LogObject, TopologyAssumption DEF JobOK, PortSteps, Job, Obj
    <2>3. VmOf[Obj(w)] \in agents'
      BY <1>0, <2>1, <2>2 DEF RulesJob, NothingFails
    <2>4. Goto(w, a) /\ a.log = j.log /\ a.pc = "apply" /\ a.info = j.info
      BY <1>0, <1>11, <2>3 DEF RegisterAgent, Job
    <2> HIDE DEF a
    <2>5. RulesJob(a)
      BY <1>0, <2>1, <2>4 DEF RulesJob
    <2>6. \A p \in Bound(port) : Outstanding(a, p)
      BY <2>4 DEF Outstanding
    <2>7. ASSUME NEW p \in Bound(port), NEW g \in GroupsOf[p],
                 \/ Current(p, g)
                 \/ Touches(j.log, p, g) /\ Outstanding(j, p)
          PROVE  \/ vm'[VmOf[p]].secgroup[g] = rules[g]
                 \/ Touches(a.log, p, g) /\ Outstanding(a, p)
      BY <2>1, <2>4, <2>6, <2>7 DEF Current
    <2> QED  BY <1>i, <2>1, <2>4, <2>5, <2>7, RulesFrame
  <1>12. CASE Apply(w)
    <2> DEFINE p == Obj(w)
               a == [j EXCEPT !.pc = "tunnel"]
    <2>1. /\ j.pc = "apply" /\ Goto(w, a) /\ vm' = [vm EXCEPT ![VmOf[p]] = j.info]
          /\ UNCHANGED <<port, rules, tx, logs, late, cut>>
      BY <1>12 DEF Apply, At, ApplyDb
    <2>2. /\ j.log.kind \in PortKinds /\ p = j.log.obj /\ p \in Ports
      BY <1>0, <2>1, LogObject DEF JobOK, PortSteps, Job, Obj
    <2>3. /\ p \in Bound(port) /\ VmOf[p] \in Vms
          /\ \A g \in GroupsOf[p] : j.info.secgroup[g] = rules[g]
      BY <1>0, <2>1, <2>2, TopologyAssumption DEF RulesJob
    <2>4. a.log = j.log /\ a.pc = "tunnel"
      BY <1>0 DEF Job
    <2> HIDE DEF a, p
    <2>5. RulesJob(a)
      BY <2>2, <2>3, <2>4 DEF RulesJob
    <2>6. \A v \in Vms : vm'[v] = IF v = VmOf[p] THEN j.info ELSE vm[v]
      BY <1>0, <2>1
    <2>7. ASSUME NEW q \in Bound(port), NEW g \in GroupsOf[q],
                 \/ Current(q, g)
                 \/ Touches(j.log, q, g) /\ Outstanding(j, q)
          PROVE  \/ vm'[VmOf[q]].secgroup[g] = rules[g]
                 \/ Touches(a.log, q, g) /\ Outstanding(a, q)
      <3>0. q \in Ports /\ VmOf[q] \in Vms
        BY TopologyAssumption DEF Bound
      <3>1. CASE q = p
        BY <2>3, <2>6, <3>0, <3>1
      <3>2. CASE q # p
        <4>1. VmOf[q] # VmOf[p] /\ ~Touches(j.log, q, g)
          BY <2>2, <3>0, <3>2 DEF OnePortPerVm, Touches, PortKinds
        <4> QED  BY <2>6, <2>7, <3>0, <4>1 DEF Current
      <3> QED  BY <3>1, <3>2
    <2> QED  BY <1>i, <2>1, <2>5, <2>7, RulesFrame
  <1>13. ~CallFails(w) /\ ~BulkLost(w)
    BY NoGivesUp DEF CallFails, BulkLost, RulesInv
  <1>14. CASE AddEndpoint(w)
    BY <1>14, <1>i, RulesEnds DEF AddEndpoint, At, Outstanding
  <1>c. ASSUME NEW v
        PROVE  /\ [j EXCEPT !.dest = @ \ {v}].pc = j.pc
               /\ [j EXCEPT !.dest = @ \ {v}].log = j.log
               /\ [j EXCEPT !.dest = @ \ {v}].dest = j.dest \ {v}
               /\ RulesJob([j EXCEPT !.dest = @ \ {v}])
    <2> DEFINE a == [j EXCEPT !.dest = @ \ {v}]
    <2>1. /\ a.pc = j.pc /\ a.log = j.log /\ a.dest = j.dest \ {v} /\ a.out = j.out
          /\ a.info = j.info /\ a.todo = j.todo /\ a.snap = j.snap
      BY <1>0 DEF Job
    <2> HIDE DEF a
    <2>2. RulesJob(a)
      BY <1>0, <2>1 DEF RulesJob
    <2> QED  BY <2>1, <2>2 DEF a
  <1>15. CASE BulkUpdate(w)
    <2>1. PICK v \in j.dest : /\ vm' = [vm EXCEPT ![v] = UpdateDb(vm[v], j.out)]
                              /\ Goto(w, [j EXCEPT !.dest = @ \ {v}])
      BY <1>15 DEF BulkUpdate
    <2>2. j.pc = "update" /\ UNCHANGED <<port, rules, tx, logs, late, cut>>
      BY <1>15 DEF BulkUpdate, At
    <2> DEFINE a == [j EXCEPT !.dest = @ \ {v}]
    <2>3. /\ a.pc = "update" /\ a.log = j.log /\ a.dest = j.dest \ {v} /\ RulesJob(a)
          /\ Goto(w, a)
      BY <1>c, <2>1, <2>2
    <2> HIDE DEF a
    <2>4. v \in Vms /\ \A u \in Vms : u # v => vm'[u] = vm[u]
      BY <1>0, <2>1 DEF Job
    <2>5. \A g \in Groups : vm'[v].secgroup[g] =
            IF j.out.secgroup[g] > 0 THEN j.out.secgroup[g] ELSE vm[v].secgroup[g]
      BY <1>0, <2>1, <2>4 DEF UpdateDb
    <2>6. \A g \in Groups : /\ rules[g] > 0
                            /\ j.out.secgroup[g] =
                                 IF j.log.kind = "update_sg" /\ j.log.obj = g
                                 THEN rules[g] ELSE 0
      BY <1>0, <2>2 DEF RulesInv, RulesJob
    <2>7. \A g \in Groups : vm'[v].secgroup[g] =
            IF j.log.kind = "update_sg" /\ j.log.obj = g
            THEN rules[g] ELSE vm[v].secgroup[g]
      BY <2>5, <2>6
    <2>8. ASSUME NEW q \in Bound(port), NEW g \in GroupsOf[q],
                 \/ Current(q, g)
                 \/ Touches(j.log, q, g) /\ Outstanding(j, q)
          PROVE  \/ vm'[VmOf[q]].secgroup[g] = rules[g]
                 \/ Touches(a.log, q, g) /\ Outstanding(a, q)
      <3>0. q \in Ports /\ VmOf[q] \in Vms /\ g \in Groups
        BY TopologyAssumption DEF Bound
      <3>1. CASE Current(q, g)
        BY <2>4, <2>7, <3>0, <3>1 DEF Current
      <3>2. CASE Touches(j.log, q, g) /\ Outstanding(j, q)
        <4>1. CASE j.log.kind = "update_sg"
          <5>1. j.log.obj = g
            BY <3>2, <4>1 DEF Touches
          <5>2. VmOf[q] = v \/ Outstanding(a, q)
            BY <2>2, <2>3, <3>2, <4>1 DEF Outstanding
          <5> QED  BY <2>3, <2>7, <3>0, <3>2, <4>1, <5>1, <5>2
        <4>2. CASE j.log.kind # "update_sg"
          BY <2>3, <3>2, <4>2 DEF Outstanding
        <4> QED  BY <4>1, <4>2
      <3> QED  BY <2>8, <3>1, <3>2
    <2> QED  BY <1>i, <2>2, <2>3, <2>8, RulesFrame
  <1>16. CASE BulkDelete(w)
    <2>1. PICK v \in j.dest : /\ \E d \in DeleteDb(vm[v], j.out) :
                                   vm' = [vm EXCEPT ![v] = d]
                              /\ Goto(w, [j EXCEPT !.dest = @ \ {v}])
      BY <1>16 DEF BulkDelete
    <2>2. PICK d \in DeleteDb(vm[v], j.out) : vm' = [vm EXCEPT ![v] = d]
      BY <2>1
    <2>3. /\ j.pc \in {"delete1", "delete2"}
          /\ UNCHANGED <<port, rules, tx, logs, late, cut>>
      BY <1>16 DEF BulkDelete, At
    <2>4. v \in Vms /\ vm[v] \in Db /\ j.out \in Db
      BY <1>0 DEF Job
    <2>5. d.secgroup = vm[v].secgroup
      BY <2>4, DeleteDbShape
    <2>6. \A u \in Vms : vm'[u].secgroup = vm[u].secgroup
      BY <1>0, <2>2, <2>4, <2>5
    <2> DEFINE a == [j EXCEPT !.dest = @ \ {v}]
    <2>7. a.pc = j.pc /\ a.log = j.log /\ RulesJob(a) /\ Goto(w, a)
      BY <1>c, <2>1
    <2> HIDE DEF a
    <2>8. ASSUME NEW q \in Bound(port), NEW g \in GroupsOf[q],
                 \/ Current(q, g)
                 \/ Touches(j.log, q, g) /\ Outstanding(j, q)
          PROVE  \/ vm'[VmOf[q]].secgroup[g] = rules[g]
                 \/ Touches(a.log, q, g) /\ Outstanding(a, q)
      <3>1. VmOf[q] \in Vms
        BY TopologyAssumption DEF Bound
      <3> QED  BY <2>3, <2>6, <2>7, <2>8, <3>1 DEF Current, Outstanding
    <2> QED  BY <1>i, <2>3, <2>7, <2>8, RulesFrame
  <1>18. CASE BulkDone(w)
    <2> DEFINE a == [j EXCEPT !.pc = "state", !.out = EmptyDb]
    <2>1. j.pc \in {"update", "delete2"} /\ j.dest = {} /\ Local
      BY <1>18 DEF BulkDone, At
    <2>2. CASE j.log.kind \in PortKinds
      <3>1. j.pc = "update" /\ j.log.obj \in Bound(port)
        BY <1>0, <2>1, <2>2 DEF JobOK, DetachSteps, PortKinds, RulesJob
      <3>2. /\ a.log = j.log /\ a.pc = "state" /\ a.info = j.info /\ Goto(w, a)
        BY <1>0, <1>18, <2>2 DEF Job, BulkDone
      <3> HIDE DEF a
      <3>3. RulesJob(a)
        BY <1>0, <2>2, <3>1, <3>2 DEF RulesJob
      <3> QED  BY <2>1, <3>2, <3>3, <1>a
    <2>3. CASE j.log.kind \notin PortKinds
      <3>1. Finish(w)
        BY <1>18, <2>3 DEF BulkDone
      <3>2. \A p, g : ~(Touches(j.log, p, g) /\ Outstanding(j, p))
        BY <1>0, <2>1, <2>3 DEF Touches, Outstanding, PortKinds, JobOK, DetachSteps
      <3> QED  BY <1>i, <2>1, <3>1, <3>2, RulesEnds DEF Local
    <2> QED  BY <2>2, <2>3
  <1>19. CASE SecurityGroupUpdate(w)
    <2> DEFINE o == SecGroupDb(Obj(w), rules[Obj(w)])
               members == {p \in Bound(port) : Obj(w) \in GroupsOf[p]}
               dest == {VmOf[p] : p \in members}
               a == [j EXCEPT !.out = o, !.dest = dest, !.pc = "update"]
    <2>1. Goto(w, a) /\ Local /\ j.pc = "sg" /\ j.log.kind = "update_sg"
      BY <1>0, <1>19 DEF SecurityGroupUpdate, At, JobOK
    <2>2. Obj(w) = j.log.obj /\ Obj(w) \in Groups
      BY <1>0, <2>1, LogObject DEF Job, Obj
    <2>3. \A g \in Groups : o.secgroup[g] = IF j.log.obj = g THEN rules[g] ELSE 0
      BY <2>2 DEF SecGroupDb, EmptyDb, NoRules
    <2>4. \A p \in Bound(port) : j.log.obj \in GroupsOf[p] => VmOf[p] \in dest
      BY <2>2
    <2> HIDE DEF o, dest
    <2>5. a.log = j.log /\ a.pc = "update" /\ a.out = o /\ a.dest = dest
      BY <1>0 DEF Job
    <2> HIDE DEF a
    <2>6. RulesJob(a)
      BY <2>1, <2>3, <2>5 DEF RulesJob, PortKinds
    <2>7. ASSUME NEW q \in Bound(port), NEW g \in GroupsOf[q],
                 \/ Current(q, g)
                 \/ Touches(j.log, q, g) /\ Outstanding(j, q)
          PROVE  \/ vm'[VmOf[q]].secgroup[g] = rules[g]
                 \/ Touches(a.log, q, g) /\ Outstanding(a, q)
      <3>1. CASE Current(q, g)
        BY <2>1, <3>1 DEF Current, Local
      <3>2. CASE Touches(j.log, q, g)
        <4>1. j.log.obj = g
          BY <2>1, <3>2 DEF Touches
        <4> QED  BY <2>4, <2>5, <3>2, <4>1 DEF Outstanding
      <3> QED  BY <2>7, <3>1, <3>2
    <2> QED  BY <1>i, <2>1, <2>6, <2>7, RulesFrame DEF Local
  <1>20. CASE AttachInfo(w)
    <2> DEFINE o == ToDb(j.snap, j.topo, TRUE)
               a == [j EXCEPT !.out = o, !.dest = VmsOf(j.snap, {}), !.pc = "update"]
    <2>1. Goto(w, a) /\ Local /\ j.log.kind \in {"attach", "update_router"}
      BY <1>20 DEF AttachInfo
    <2>2. \A g \in Groups : o.secgroup[g] = 0
      BY DEF ToDb, NoRules
    <2> HIDE DEF o
    <2>3. a.log = j.log /\ a.pc = "update" /\ a.out = o
      BY <1>0 DEF Job
    <2> HIDE DEF a
    <2>4. RulesJob(a)
      BY <2>1, <2>2, <2>3 DEF RulesJob, PortKinds
    <2>5. \A p : Outstanding(a, p)
      BY <2>1, <2>3 DEF Outstanding
    <2> QED  BY <1>i, <2>1, <2>3, <2>4, <2>5, RulesGoes
  <1>d. ASSUME NEW o, NEW dest, NEW pc \in {"delete1", "delete2"},
               j.log.kind = "detach"
        PROVE  /\ RulesJob([j EXCEPT !.out = o, !.dest = dest, !.pc = pc])
               /\ [j EXCEPT !.out = o, !.dest = dest, !.pc = pc].log = j.log
               /\ [j EXCEPT !.out = o, !.dest = dest, !.pc = pc].pc = pc
    <2> DEFINE a == [j EXCEPT !.out = o, !.dest = dest, !.pc = pc]
    <2>1. a.log = j.log /\ a.pc = pc
      BY <1>0 DEF Job
    <2> HIDE DEF a
    <2>2. RulesJob(a)
      BY <1>d, <2>1 DEF RulesJob, PortKinds
    <2> QED  BY <2>1, <2>2 DEF a
  <1>21. CASE Disconnect1(w)
    <2>1. PICK o, dest : Goto(w, [j EXCEPT !.out = o, !.dest = dest, !.pc = "delete1"])
      BY <1>21 DEF Disconnect1
    <2>2. Local /\ j.log.kind = "detach"
      BY <1>21 DEF Disconnect1
    <2> QED  BY <2>1, <2>2, <1>a, <1>d
  <1>22. CASE Disconnect2(w)
    <2>1. PICK o, dest : Goto(w, [j EXCEPT !.out = o, !.dest = dest, !.pc = "delete2"])
      BY <1>22 DEF Disconnect2
    <2>2. Local /\ j.log.kind = "detach"
      BY <1>0, <1>22 DEF Disconnect2, At, JobOK, DetachSteps
    <2> QED  BY <2>1, <2>2, <1>a, <1>d
  <1> QED  BY <1>1, <1>2, <1>3, <1>4, <1>5, <1>6, <1>7, <1>8, <1>9, <1>10, <1>11,
           <1>12, <1>13, <1>14, <1>15, <1>16, <1>18, <1>19, <1>20, <1>21, <1>22
           DEF Handle
-----------------------------------------------------------------------------
(* The other steps.                                                         *)

(* A worker takes the log that is committed and not handled.                *)
LEMMA RulesProcess ==
  ASSUME TypeInv, RulesInv, tx = {}, NEW w \in Workers, ProcessLog(w)
  PROVE  RulesInv'
  <1>0. OneAtATime
    BY DEF RulesInv
  <1>1. PICK t \in logs :
          /\ logs' = logs \ {t}
          /\ IF ACTIONS_CLASS[t.kind] = "idle" THEN UNCHANGED job
             ELSE Goto(w, [IdleJob EXCEPT !.pc = ACTIONS_CLASS[t.kind], !.log = t])
    BY DEF ProcessLog
  <1>2. UNCHANGED <<port, rules, tx, vm, late, cut>>
    BY DEF ProcessLog
  <1>3. logs = {t} /\ logs' = {} /\ \A x \in Workers : At(x, "idle")
    BY <1>0, <1>1 DEF OneAtATime
  <1>4. t \in Request /\ t.kind \in AllKinds
    BY <1>1 DEF TypeInv, TypeOK, ApiTypeOK, Request
  <1>5. ASSUME NEW p \in Bound(port), NEW g \in GroupsOf[p]
        PROVE  Current(p, g) \/ Touches(t, p, g)
    BY <1>3 DEF RulesInv, Due, Outstanding, At
  <1>6. CASE ACTIONS_CLASS[t.kind] = "idle"
    <2>1. t.kind = "delete_port"
      BY <1>4, <1>6 DEF ACTIONS_CLASS, AllKinds, PortKinds, LegKinds
    <2>2. \A p \in Bound(port) : \A g \in GroupsOf[p] : Current(p, g)
      BY <1>5, <2>1 DEF Touches
    <2>3. UNCHANGED job
      BY <1>1, <1>6
    <2>4. \A x \in Workers : RulesJob(job[x])'
      BY <1>2, <2>3 DEF RulesInv, RulesJob
    <2>5. OneAtATime'
      BY <1>0, <1>2, <1>3, <2>3 DEF OneAtATime, At
    <2> QED  BY <1>2, <2>2, <2>4, <2>5 DEF RulesInv, Current
  <1>7. CASE ACTIONS_CLASS[t.kind] # "idle"
    <2> DEFINE pc == ACTIONS_CLASS[t.kind]
               a == [IdleJob EXCEPT !.pc = pc, !.log = t]
    <2>1. /\ pc \in {"get_port", "sg", "router_update", "attach", "detach"}
          /\ t.kind \in PortKinds => pc = "get_port"
      BY <1>4, <1>7 DEF ACTIONS_CLASS, AllKinds, PortKinds, LegKinds
    <2>2. Goto(w, a) /\ a.pc = pc /\ a.log = t
      BY <1>1, <1>7 DEF IdleJob
    <2>3. RulesJob(a)
      BY <2>1, RulesIdle
    <2> HIDE DEF a, pc
    <2>4. \A x \in Workers : job'[x] = IF x = w THEN a ELSE job[x]
      BY <2>2 DEF Goto, TypeInv, TypeOK
    <2>5. \A x \in Workers : RulesJob(job'[x])
      BY <2>3, <2>4 DEF RulesInv
    <2>6. \A x \in Workers : RulesJob(job[x])'
      BY <1>2, <2>5 DEF RulesJob
    <2>7. OneAtATime'
      BY <1>0, <1>2, <1>3, <2>4 DEF OneAtATime, At
    <2>8. \A p : Outstanding(a, p)
      BY <2>1, <2>2 DEF Outstanding
    <2>9. ASSUME NEW p \in Bound(port), NEW g \in GroupsOf[p]
          PROVE  Current(p, g)' \/ Due(p, g)'
      BY <1>2, <1>5, <2>2, <2>4, <2>8 DEF Current, Due, Touches, Outstanding
    <2>10. \A p \in Bound(port') : \A g \in GroupsOf[p] : Current(p, g)' \/ Due(p, g)'
      BY <1>2, <2>9
    <2> QED  BY <1>2, <2>6, <2>7, <2>10 DEF RulesInv, Bound
  <1> QED  BY <1>6, <1>7

(* While nothing is committed and not handled, all is current.              *)
LEMMA RulesQuiet ==
  ASSUME RulesInv, AllIdle, tx # {} \/ logs = {}
  PROVE  \A p \in Bound(port) : \A g \in GroupsOf[p] : Current(p, g)
  BY DEF RulesInv, Due, Outstanding, AllIdle, At

LEMMA RulesBegin ==
  ASSUME TypeInv, RulesInv, Quiet, Begin, UNCHANGED agentVars
  PROVE  RulesInv'
  <1>1. PICK kind \in Kinds : \E obj \in ObjectsOf(kind) : BeginRequest(kind, obj)
    BY DEF Begin
  <1>2. PICK obj \in ObjectsOf(kind) : BeginRequest(kind, obj)
    BY <1>1
  <1> DEFINE t == [id |-> reqs + 1, kind |-> kind, obj |-> obj]
  <1>3. tx' = tx \cup {t} /\ logs' = logs \cup {t} /\ UNCHANGED <<port, rules>>
    BY <1>2 DEF BeginRequest, CreateUpdateLog
  <1> HIDE DEF t
  <1>4. tx' = {t} /\ logs' = {t} /\ AllIdle
    BY <1>3 DEF Quiet
  <1>5. UNCHANGED <<job, vm, late, cut>>
    BY DEF agentVars
  <1>6. OneAtATime'
    BY <1>4, <1>5 DEF RulesInv, OneAtATime, AllIdle, At
  <1>7. \A p \in Bound(port) : \A g \in GroupsOf[p] : Current(p, g)
    BY RulesQuiet DEF Quiet
  <1>8. \A x \in Workers : RulesJob(job[x])'
    BY <1>3, <1>5 DEF RulesInv, RulesJob
  <1> QED  BY <1>3, <1>5, <1>6, <1>7, <1>8 DEF RulesInv, Current, Bound

LEMMA RulesCommit ==
  ASSUME TypeInv, RulesInv, AllIdle, NEW t \in tx, Commit(t), UNCHANGED agentVars
  PROVE  RulesInv'
  <1>0. OneAtATime
    BY DEF RulesInv
  <1>1. /\ tx' = tx \ {t} /\ logs' = logs
        /\ port' = IF t.kind \in PortKinds
                   THEN [port EXCEPT ![t.obj] = WrittenPort(t)] ELSE port
        /\ rules' = IF t.kind = "update_sg"
                    THEN [rules EXCEPT ![t.obj] = @ + 1] ELSE rules
    BY DEF Commit
  <1>2. tx = {t} /\ logs = {t}
    BY <1>0 DEF OneAtATime
  <1>3. UNCHANGED <<job, vm, late, cut>>
    BY DEF agentVars
  <1>4. OneAtATime'
    BY <1>0, <1>1, <1>2, <1>3 DEF OneAtATime, AllIdle, At
  <1>5. \A x \in Workers : RulesJob(job[x])'
    BY <1>3 DEF RulesJob, AllIdle, At
  <1>6. \A p \in Bound(port) : \A g \in GroupsOf[p] : Current(p, g)
    BY <1>2, RulesQuiet
  <1>7. /\ port \in Table /\ rules \in [Groups -> Nat]
        /\ t.kind = "update_sg" => t.obj \in Groups
        /\ t.kind \in AllKinds
    BY SerialFacts, LogObject DEF TypeInv, TypeOK, ApiTypeOK, Request
  <1>8. \A g \in Groups : /\ rules'[g] > 0
                          /\ rules'[g] = rules[g] \/ (t.kind = "update_sg" /\ t.obj = g)
    BY <1>1, <1>7 DEF RulesInv
  <1>9. ASSUME NEW p \in Bound(port')
        PROVE  p \in Bound(port) \/ (t.kind = "bind_port" /\ t.obj = p)
    <2>1. CASE t.kind \in PortKinds /\ p = t.obj
      <3>1. port'[p] = WrittenPort(t)
        BY <1>1, <1>7, <1>9, <2>1 DEF Bound, Table
      <3>2. t.kind = "bind_port"
        BY <1>9, <2>1, <3>1 DEF Bound, WrittenPort, Absent, PortKinds
      <3> QED  BY <2>1, <3>2
    <2>2. CASE ~(t.kind \in PortKinds /\ p = t.obj)
      BY <1>1, <1>7, <1>9, <2>2 DEF Bound, Table
    <2> QED  BY <2>1, <2>2
  <1>10. ASSUME NEW p \in Bound(port'), NEW g \in GroupsOf[p]
         PROVE  Current(p, g)' \/ Due(p, g)'
    <2>1. g \in Groups /\ p \in Ports
      BY TopologyAssumption DEF Bound
    <2>2. Touches(t, p, g) => Due(p, g)'
      BY <1>1, <1>2 DEF Due, Touches
    <2>3. ~Touches(t, p, g) => p \in Bound(port) /\ rules'[g] = rules[g]
      BY <1>8, <1>9, <2>1 DEF Touches
    <2> QED  BY <1>3, <1>6, <2>2, <2>3 DEF Current
  <1> QED  BY <1>4, <1>5, <1>8, <1>10 DEF RulesInv

LEMMA RulesInit == Init => RulesInv
  <1> SUFFICES ASSUME Init PROVE RulesInv
    OBVIOUS
  <1>1. OneAtATime
    BY DEF Init, ApiInit, OneAtATime, At, IdleJob
  <1>2. \A g \in Groups : rules[g] = 1
    BY DEF Init, ApiInit
  <1>3. \A w \in Workers : RulesJob(job[w])
    BY RulesIdle DEF Init
  <1>4. ASSUME NEW p \in Bound(port), NEW g \in GroupsOf[p] PROVE Current(p, g)
    <2>1. p \in Ports /\ VmOf[p] \in Vms /\ g \in Groups
      BY TopologyAssumption DEF Bound
    <2>2. p \in InitPorts /\ Warm
      BY <1>4, <2>1 DEF Init, ApiInit, Bound, Absent
    <2>3. vm[VmOf[p]] = WarmDb(VmOf[p])
      BY <2>1, <2>2 DEF Init, WarmVms
    <2>4. WarmDb(VmOf[p]).secgroup[g] = 1
      BY <1>4, <2>1, <2>2 DEF WarmDb, ToDb
    <2> QED  BY <1>2, <2>1, <2>3, <2>4 DEF Current
  <1> QED  BY <1>1, <1>2, <1>3, <1>4 DEF RulesInv

LEMMA RulesStep ==
  ASSUME OnePortPerVm, NothingFails
  PROVE  TypeInv /\ RulesInv /\ [SerialNext]_vars => RulesInv'
  <1> SUFFICES ASSUME TypeInv, RulesInv, [SerialNext]_vars PROVE RulesInv'
    OBVIOUS
  <1>1. CASE UNCHANGED vars
    <2>1. UNCHANGED <<port, rules, tx, logs, job, vm, late, cut>>
      BY <1>1 DEF vars
    <2>2. OneAtATime' /\ \A w \in Workers : RulesJob(job[w])'
      BY <2>1 DEF RulesInv, OneAtATime, RulesJob, At
    <2> QED  BY <2>1, <2>2 DEF RulesInv, Current, Due, Touches, Outstanding, Bound
  <1>2. CASE Quiet /\ Begin /\ UNCHANGED agentVars
    BY <1>2, RulesBegin
  <1>3. CASE AllIdle /\ (\E t \in tx : Commit(t)) /\ UNCHANGED agentVars
    BY <1>3, RulesCommit
  <1>4. ASSUME tx = {}, NEW w \in Workers, WorkerNext(w) PROVE RulesInv'
    BY <1>4, RulesProcess, RulesHandle DEF WorkerNext, WorkerDies, NothingFails
  <1>5. ~LateDelivery
    BY DEF LateDelivery, RulesInv, OneAtATime
  <1> QED  BY <1>1, <1>2, <1>3, <1>4, <1>5 DEF SerialNext, Rest

(* With one port per VM, requests one at a time and nothing that fails: when*)
(* all is handled, the VM of a bound port holds the current rules of the    *)
(* port's groups, whatever the requests were.  Neither an update about      *)
(* another group, nor an apply for another port, nor a router's attach or   *)
(* detach takes them away.                                                  *)
THEOREM RulesReachTheirVms ==
  ASSUME OnePortPerVm, NothingFails
  PROVE  SerialSpec => []SecurityGroupsCurrent
  <1>1. RulesInv => SecurityGroupsCurrent
    BY RulesQuiet DEF SecurityGroupsCurrent, Quiet, Current
  <1>2. TypeInv /\ RulesInv /\ [SerialNext]_vars => RulesInv'
    BY RulesStep
  <1> QED  BY <1>1, <1>2, RulesInit, SerialTypes, PTL DEF SerialSpec
-----------------------------------------------------------------------------
(* What a handler has read.                                                 *)

(* The network of the handler's port; whether it is on the router; the      *)
(* networks the handler finds there.                                        *)
OwnNet(j) == IF j.log.kind \in PortKinds THEN {NetOf[j.log.obj]} ELSE {}

OnRouter(j) == Distributed /\ OwnNet(j) \subseteq legs

Topo(j) == IF OnRouter(j) THEN legs ELSE {}

BeforeRead == {"get_port", "routers", "router_ports", "router_update", "attach",
               "detach", "gone_ports"}

AfterRead == {"update", "state", "agent", "apply", "delete1", "delete2"}

(* Nothing changes while a handler is at work, so what it has read is what  *)
(* is committed, and it reads all that it is about.                         *)
ReadJob(j) ==
  /\ j.pc \in BeforeRead => j.snap = NoPorts
  /\ j.pc \in {"get_port", "routers"} => j.topo = {}
  /\ j.pc = "agent" => L2Pop
  /\ j.pc \in {"gone_ports", "router_ports"} => OnRouter(j) /\ j.router
  /\ j.pc \in AfterRead \cup {"network_ports"} /\ j.log.kind # "update_sg" =>
       /\ j.topo = Topo(j)
       /\ OnRouter(j) => j.router
       /\ j.todo \subseteq j.topo \cup OwnNet(j)
       /\ \A q \in Ports : j.snap[q] = IF NetOf[q] \in (j.topo \cup OwnNet(j)) \ j.todo
                                       THEN port[q] ELSE Absent
       /\ j.pc # "network_ports" => j.todo = {}
  /\ j.log.kind \in PortKinds /\ j.pc \notin {"idle", "get_port"} =>
       j.log.obj \in Bound(port)
  /\ j.log.kind = "detach" /\ j.pc # "idle" =>
       /\ j.log.obj \notin legs
       /\ j.pc \in AfterRead \cup {"router_ports", "network_ports"} =>
            \A q \in Ports : j.gone[q] = IF NetOf[q] = j.log.obj
                                         THEN port[q] ELSE Absent

ReadInv ==
  /\ OneAtATime
  /\ \A w \in Workers : ReadJob(job[w])
  /\ tx = {} => \A t \in logs : t.kind = "detach" => t.obj \notin legs

LEMMA ReadIdle == ReadJob(IdleJob)
  BY DEF ReadJob, IdleJob, NoLog, PortKinds, BeforeRead, AfterRead

LEMMA ReadFresh ==
  ASSUME NEW pc \in {"get_port", "sg", "router_update", "attach", "detach"}, NEW t,
         t.kind \in PortKinds => pc = "get_port",
         t.kind = "detach" => t.obj \notin legs
  PROVE  ReadJob([IdleJob EXCEPT !.pc = pc, !.log = t])
  <1> DEFINE a == [IdleJob EXCEPT !.pc = pc, !.log = t]
  <1>1. a.pc = pc /\ a.log = t /\ a.snap = NoPorts /\ a.topo = {}
    BY DEF IdleJob
  <1> HIDE DEF a
  <1>2. ReadJob(a)
    BY <1>1 DEF ReadJob, AfterRead
  <1> QED  BY <1>2 DEF a

LEMMA OnNetwork ==
  ASSUME port \in Table, NEW q \in Ports, NEW n
  PROVE  q \in NetworkPorts(port, n) <=> port[q] # Absent /\ NetOf[q] = n
  BY DEF NetworkPorts, Present, Table, Lport, Absent

(* The handler moves to a, nothing is committed.                            *)
LEMMA ReadFrame ==
  ASSUME TypeInv, ReadInv, NEW w \in Workers, ~At(w, "idle"), NEW a, Goto(w, a),
         ReadJob(a), UNCHANGED <<port, legs, tx, logs, late, cut>>
  PROVE  ReadInv'
  <1>1. /\ OneAtATime' /\ logs = {}
        /\ \A x \in Workers : job'[x] = IF x = w THEN a ELSE job[x]
    BY OneMoves DEF ReadInv
  <1>2. \A x \in Workers : ReadJob(job'[x])
    BY <1>1 DEF ReadInv
  <1>3. \A x \in Workers : ReadJob(job[x])'
    BY <1>2 DEF ReadJob, OnRouter, Topo, OwnNet, Bound
  <1> QED  BY <1>1, <1>3 DEF ReadInv

(* A step after the last query: nothing of what was read is touched.        *)
LEMMA ReadKept ==
  ASSUME NEW j, NEW a, ReadJob(j), a.log = j.log, a.router = j.router, a.topo = j.topo,
         a.todo = j.todo, a.snap = j.snap, a.gone = j.gone,
         j.pc \in AfterRead \cup {"network_ports"}, a.pc \in AfterRead \cup {"tunnel"},
         j.pc = "network_ports" => j.todo = {}, a.pc = "agent" => L2Pop
  PROVE  ReadJob(a)
  BY DEF ReadJob, OnRouter, Topo, OwnNet, AfterRead, BeforeRead

LEMMA ReadHandle ==
  ASSUME NothingFails, TypeInv, ReadInv, NEW w \in Workers, Handle(w)
  PROVE  ReadInv'
  <1> DEFINE j == job[w]
  <1>0. /\ j \in Job /\ JobOK(j) /\ ReadJob(j) /\ port \in Table
        /\ Bound(port) \subseteq Present(port)
    BY SerialFacts DEF ReadInv
  <1>i. ~At(w, "idle")
    BY DEF Handle, At, GetPort, GetRoutersForNet, GetPortsFromRouter,
           GetNetworkPorts, AllRead, PortInfo, State, RegisterAgent, Apply, CallFails,
           AddEndpoint, BulkUpdate, BulkDelete, BulkLost, BulkDone,
           SecurityGroupUpdate, RouterUpdate, RouterIfaceAttach, AttachInfo,
           RouterIfaceDetach, GetDetachedPorts, Disconnect1, Disconnect2
  <1>a. ASSUME NEW a, Goto(w, a), UNCHANGED <<port, legs, tx, logs, late, cut>>,
               ReadJob(a)
        PROVE  ReadInv'
    BY <1>a, <1>i, ReadFrame
  <1>b. ASSUME Finish(w), UNCHANGED <<port, legs, tx, logs, late, cut>>
        PROVE  ReadInv'
    BY <1>a, <1>b, ReadIdle DEF Finish
  <1>1. CASE GetPort(w)
    <2> DEFINE a == [j EXCEPT !.pc = "routers"]
    <2>1. /\ j.pc = "get_port" /\ UNCHANGED <<port, legs, tx, logs, late, cut>>
          /\ j.log.kind \in PortKinds
      BY <1>0, <1>1 DEF GetPort, At, Local, JobOK, PortSteps
    <2>2. CASE Obj(w) \in Bound(port)
      <3>1. Goto(w, a)
        BY <1>1, <2>2 DEF GetPort
      <3>2. a.pc = "routers" /\ a.log = j.log /\ a.snap = j.snap /\ a.topo = j.topo
        BY <1>0 DEF Job
      <3> HIDE DEF a
      <3>3. ReadJob(a)
        BY <1>0, <2>1, <2>2, <3>2 DEF ReadJob, Obj, BeforeRead, AfterRead, PortKinds
      <3> QED  BY <1>a, <2>1, <3>1, <3>3
    <2>3. CASE Obj(w) \notin Bound(port)
      BY <1>1, <1>b, <2>1, <2>3 DEF GetPort
    <2> QED  BY <2>2, <2>3
  <1>2. CASE RouterUpdate(w)
    <2> DEFINE a == [j EXCEPT !.pc = "attach"]
    <2>1. /\ a.pc = "attach" /\ a.log = j.log /\ a.snap = j.snap
          /\ j.pc = "router_update" /\ j.log.kind = "update_router"
          /\ UNCHANGED <<port, legs, tx, logs, late, cut>>
      BY <1>0, <1>2 DEF RouterUpdate, At, Local, Job, JobOK
    <2> HIDE DEF a
    <2>2. ReadJob(a)
      BY <1>0, <2>1 DEF ReadJob, BeforeRead, AfterRead, PortKinds
    <2> QED  BY <1>2, <1>a, <1>b, <2>1, <2>2 DEF RouterUpdate, a
  <1>3. CASE RouterIfaceAttach(w)
    <2> DEFINE a == [j EXCEPT !.router = TRUE, !.pc = "router_ports"]
    <2>1. /\ a.pc = "router_ports" /\ a.log = j.log /\ a.snap = j.snap /\ a.router
          /\ j.pc = "attach" /\ j.log.kind \in {"attach", "update_router"}
          /\ UNCHANGED <<port, legs, tx, logs, late, cut>>
      BY <1>0, <1>3 DEF RouterIfaceAttach, At, Local, Job, JobOK
    <2> HIDE DEF a
    <2>2. ASSUME Distributed PROVE ReadJob(a)
      BY <1>0, <2>1, <2>2 DEF ReadJob, BeforeRead, AfterRead, PortKinds, OnRouter, OwnNet
    <2> QED  BY <1>3, <1>a, <1>b, <2>1, <2>2 DEF RouterIfaceAttach, a
  <1>4. CASE RouterIfaceDetach(w)
    <2> DEFINE a == [j EXCEPT !.router = TRUE, !.pc = "gone_ports"]
    <2>1. /\ a.pc = "gone_ports" /\ a.log = j.log /\ a.snap = j.snap /\ a.router
          /\ j.pc = "detach" /\ j.log.kind = "detach"
          /\ UNCHANGED <<port, legs, tx, logs, late, cut>>
      BY <1>0, <1>4 DEF RouterIfaceDetach, At, Local, Job, JobOK, DetachSteps
    <2> HIDE DEF a
    <2>2. ASSUME Distributed PROVE ReadJob(a)
      BY <1>0, <2>1, <2>2 DEF ReadJob, BeforeRead, AfterRead, PortKinds, OnRouter, OwnNet
    <2> QED  BY <1>4, <1>a, <1>b, <2>1, <2>2 DEF RouterIfaceDetach, a
  <1>5. CASE GetDetachedPorts(w)
    <2> DEFINE gone == [p \in Ports |-> IF p \in NetworkPorts(port, Obj(w))
                                        THEN port[p] ELSE Absent]
               a == [j EXCEPT !.gone = gone, !.pc = "router_ports"]
    <2>1. /\ a.pc = "router_ports" /\ a.log = j.log /\ a.snap = j.snap
          /\ a.router = j.router /\ a.gone = gone /\ Goto(w, a)
          /\ j.pc = "gone_ports" /\ j.log.kind = "detach"
          /\ UNCHANGED <<port, legs, tx, logs, late, cut>>
      BY <1>0, <1>5 DEF GetDetachedPorts, At, Local, Job, JobOK, DetachSteps
    <2> HIDE DEF a
    <2>2. \A q \in Ports : a.gone[q] = IF NetOf[q] = a.log.obj THEN port[q] ELSE Absent
      BY <1>0, <2>1, OnNetwork DEF Obj
    <2>3. ReadJob(a)
      BY <1>0, <2>1, <2>2 DEF ReadJob, BeforeRead, AfterRead, PortKinds, OnRouter, OwnNet
    <2> QED  BY <1>a, <2>1, <2>3
  <1>6. CASE GetRoutersForNet(w)
    <2>1. /\ j.pc = "routers" /\ j.log.kind \in PortKinds /\ OwnNet(j) = {NetOf[Obj(w)]}
          /\ UNCHANGED <<port, legs, tx, logs, late, cut>>
      BY <1>0, <1>6 DEF GetRoutersForNet, At, Local, JobOK, PortSteps, OwnNet, Obj
    <2>2. CASE Distributed /\ NetOf[Obj(w)] \in legs
      <3> DEFINE a == [j EXCEPT !.router = TRUE, !.pc = "router_ports"]
      <3>1. /\ a.pc = "router_ports" /\ a.log = j.log /\ a.snap = j.snap /\ a.router
            /\ Goto(w, a)
        BY <1>0, <1>6, <2>2 DEF GetRoutersForNet, Job
      <3> HIDE DEF a
      <3>2. OnRouter(a)
        BY <2>1, <2>2, <3>1 DEF OnRouter, OwnNet
      <3>3. ReadJob(a)
        BY <1>0, <2>1, <3>1, <3>2 DEF ReadJob, BeforeRead, AfterRead, PortKinds
      <3> QED  BY <1>a, <2>1, <3>1, <3>3
    <2>3. CASE ~(Distributed /\ NetOf[Obj(w)] \in legs)
      <3> DEFINE a == [j EXCEPT !.todo = {NetOf[Obj(w)]}, !.pc = "network_ports"]
      <3>1. /\ a.pc = "network_ports" /\ a.log = j.log /\ a.snap = j.snap
            /\ a.topo = j.topo /\ a.todo = {NetOf[Obj(w)]} /\ Goto(w, a)
        BY <1>0, <1>6, <2>3 DEF GetRoutersForNet, Job
      <3> HIDE DEF a
      <3>2. ~OnRouter(a) /\ OwnNet(a) = a.todo
        BY <2>1, <2>3, <3>1 DEF OnRouter, OwnNet
      <3>3. a.topo = {} /\ a.snap = NoPorts
        BY <1>0, <2>1, <3>1 DEF ReadJob, BeforeRead
      <3>4. \A q \in Ports : a.snap[q] = Absent
        BY <3>3 DEF NoPorts
      <3>5. ReadJob(a)
        BY <1>0, <2>1, <3>1, <3>2, <3>3, <3>4
           DEF ReadJob, BeforeRead, AfterRead, PortKinds, Topo
      <3> QED  BY <1>a, <2>1, <3>1, <3>5
    <2> QED  BY <2>2, <2>3
  <1>7. CASE GetPortsFromRouter(w)
    <2> DEFINE found == IF Distributed THEN legs ELSE {}
               topo == IF j.log.kind = "detach" THEN found \ {Obj(w)} ELSE found
               a == [j EXCEPT !.topo = topo, !.todo = topo \cup OwnNet(j),
                              !.pc = "network_ports"]
    <2>1. /\ j.pc = "router_ports" /\ UNCHANGED <<port, legs, tx, logs, late, cut>>
          /\ Goto(w, a)
      BY <1>7 DEF GetPortsFromRouter, At, Local, OwnNet, Obj
    <2>2. OnRouter(j) /\ j.router /\ j.snap = NoPorts /\ topo = found
      BY <1>0, <2>1 DEF ReadJob, BeforeRead, Obj
    <2>3. topo = Topo(j)
      BY <2>2 DEF Topo, OnRouter
    <2>4. /\ a.pc = "network_ports" /\ a.log = j.log /\ a.snap = NoPorts
          /\ a.topo = topo /\ a.todo = topo \cup OwnNet(j) /\ a.router = j.router
          /\ a.gone = j.gone
      BY <1>0, <2>2 DEF Job
    <2> HIDE DEF a, topo
    <2>5. OwnNet(a) = OwnNet(j) /\ OnRouter(a) /\ Topo(a) = topo
      BY <2>2, <2>3, <2>4 DEF OwnNet, OnRouter, Topo
    <2>6. \A q \in Ports : a.snap[q] = Absent
      BY <2>4 DEF NoPorts
    <2>7. ReadJob(a)
      BY <1>0, <2>1, <2>2, <2>4, <2>5, <2>6
         DEF ReadJob, BeforeRead, AfterRead, PortKinds
    <2> QED  BY <1>a, <2>1, <2>7
  <1>8. CASE GetNetworkPorts(w)
    <2> DEFINE snap(n) == [p \in Ports |-> IF p \in NetworkPorts(port, n)
                                           THEN port[p] ELSE j.snap[p]]
               b(n) == [j EXCEPT !.todo = @ \ {n}, !.snap = snap(n)]
    <2>1. PICK n \in j.todo : Goto(w, b(n))
      BY <1>8 DEF GetNetworkPorts
    <2> DEFINE a == b(n)
    <2>2. /\ j.pc = "network_ports" /\ UNCHANGED <<port, legs, tx, logs, late, cut>>
          /\ Goto(w, a)
      BY <1>8, <2>1 DEF GetNetworkPorts, At, Local
    <2>3. /\ a.pc = "network_ports" /\ a.log = j.log /\ a.snap = snap(n)
          /\ a.topo = j.topo /\ a.todo = j.todo \ {n} /\ a.router = j.router
          /\ a.gone = j.gone
      BY <1>0, <2>2 DEF Job
    <2> HIDE DEF a
    <2>4. OwnNet(a) = OwnNet(j) /\ OnRouter(a) = OnRouter(j) /\ Topo(a) = Topo(j)
      BY <2>3 DEF OwnNet, OnRouter, Topo
    <2>5. ASSUME j.log.kind # "update_sg", NEW q \in Ports
          PROVE  a.snap[q] = IF NetOf[q] \in (a.topo \cup OwnNet(a)) \ a.todo
                             THEN port[q] ELSE Absent
      <3>1. /\ j.todo \subseteq j.topo \cup OwnNet(j)
            /\ j.snap[q] = IF NetOf[q] \in (j.topo \cup OwnNet(j)) \ j.todo
                           THEN port[q] ELSE Absent
        BY <1>0, <2>2, <2>5 DEF ReadJob
      <3>2. a.snap[q] = IF q \in NetworkPorts(port, n) THEN port[q] ELSE j.snap[q]
        BY <2>3
      <3>3. q \in NetworkPorts(port, n) <=> (port[q] # Absent /\ NetOf[q] = n)
        BY <1>0, OnNetwork
      <3> QED  BY <2>3, <2>4, <3>1, <3>2, <3>3
    <2>6. ReadJob(a)
      BY <1>0, <2>2, <2>3, <2>4, <2>5 DEF ReadJob, BeforeRead, AfterRead
    <2> QED  BY <1>a, <2>2, <2>6
  (* After the last query.                                                  *)
  <1>c. ASSUME NEW a, Goto(w, a), UNCHANGED <<port, legs, tx, logs, late, cut>>,
               a.log = j.log, a.router = j.router, a.topo = j.topo,
               a.todo = j.todo, a.snap = j.snap, a.gone = j.gone,
               j.pc \in AfterRead \/ AllRead(w), a.pc \in AfterRead \cup {"tunnel"},
               a.pc = "agent" => L2Pop
        PROVE  ReadInv'
    <2>1. ReadJob(a)
      BY <1>0, <1>c, ReadKept DEF AllRead, At, AfterRead
    <2> QED  BY <1>a, <1>c, <2>1
  <1>9. CASE PortInfo(w)
    <2>1. AllRead(w) /\ UNCHANGED <<port, legs, tx, logs, late, cut>>
      BY <1>9 DEF PortInfo, Local
    <2>2. CASE Finish(w)
      BY <1>b, <2>1, <2>2
    <2>3. CASE ~Finish(w)
      <3>1. PICK o, d, i : Goto(w, [j EXCEPT !.out = o, !.dest = d, !.info = i,
                                             !.pc = "update"])
        BY <1>9, <2>3 DEF PortInfo
      <3> QED  BY <1>0, <1>c, <2>1, <3>1 DEF Job, AfterRead
    <2> QED  BY <2>2, <2>3
  <1>10. CASE State(w)
    <2>1. PICK pc \in {"agent", "apply"} : /\ Goto(w, [j EXCEPT !.pc = pc])
                                           /\ pc = "agent" => L2Pop
      BY <1>10 DEF State
    <2>2. j.pc = "state" /\ UNCHANGED <<port, legs, tx, logs, late, cut>>
      BY <1>10 DEF State, At, Local
    <2> QED  BY <1>0, <1>c, <2>1, <2>2 DEF Job, AfterRead
  <1>11. CASE RegisterAgent(w)
    <2>1. j.pc = "agent" /\ UNCHANGED <<port, legs, tx, logs, late, cut>>
      BY <1>11 DEF RegisterAgent, At
    <2>2. Goto(w, [j EXCEPT !.pc = "apply"]) \/ Finish(w)
      BY <1>11 DEF RegisterAgent
    <2> QED  BY <1>0, <1>b, <1>c, <2>1, <2>2 DEF Job, AfterRead
  <1>12. CASE Apply(w)
    <2>1. /\ j.pc = "apply" /\ UNCHANGED <<port, legs, tx, logs, late, cut>>
          /\ Goto(w, [j EXCEPT !.pc = "tunnel"])
      BY <1>12 DEF Apply, At
    <2> QED  BY <1>0, <1>c, <2>1 DEF Job, AfterRead
  <1>13. ~CallFails(w) /\ ~BulkLost(w)
    BY NoGivesUp DEF CallFails, BulkLost, ReadInv
  <1>14. CASE AddEndpoint(w)
    BY <1>14, <1>b DEF AddEndpoint
  <1>15. CASE BulkUpdate(w) \/ BulkDelete(w)
    <2>1. PICK v : Goto(w, [j EXCEPT !.dest = @ \ {v}])
      BY <1>15 DEF BulkUpdate, BulkDelete
    <2>2. /\ j.pc \in {"update", "delete1", "delete2"}
          /\ UNCHANGED <<port, legs, tx, logs, late, cut>>
      BY <1>15 DEF BulkUpdate, BulkDelete, At
    <2> QED  BY <1>0, <1>c, <2>1, <2>2 DEF Job, AfterRead
  <1>16. CASE BulkDone(w)
    <2>1. /\ j.pc \in {"update", "delete2"}
          /\ UNCHANGED <<port, legs, tx, logs, late, cut>>
      BY <1>16 DEF BulkDone, At, Local
    <2>2. Goto(w, [j EXCEPT !.pc = "state", !.out = EmptyDb]) \/ Finish(w)
      BY <1>16 DEF BulkDone
    <2> QED  BY <1>0, <1>b, <1>c, <2>1, <2>2 DEF Job, AfterRead
  <1>17. CASE SecurityGroupUpdate(w)
    <2>1. PICK o, d : Goto(w, [j EXCEPT !.out = o, !.dest = d, !.pc = "update"])
      BY <1>17 DEF SecurityGroupUpdate
    <2> DEFINE a == [j EXCEPT !.out = o, !.dest = d, !.pc = "update"]
    <2>2. /\ j.log.kind = "update_sg" /\ UNCHANGED <<port, legs, tx, logs, late, cut>>
          /\ a.log = j.log /\ a.pc = "update" /\ Goto(w, a)
      BY <1>0, <1>17, <2>1 DEF SecurityGroupUpdate, At, Local, JobOK, Job
    <2> HIDE DEF a
    <2>3. ReadJob(a)
      BY <2>2 DEF ReadJob, BeforeRead, PortKinds
    <2> QED  BY <1>a, <2>2, <2>3
  <1>18. CASE AttachInfo(w) \/ Disconnect1(w)
    <2>1. PICK o, d, pc : /\ Goto(w, [j EXCEPT !.out = o, !.dest = d, !.pc = pc])
                          /\ pc \in {"update", "delete1"}
      BY <1>18 DEF AttachInfo, Disconnect1
    <2>2. AllRead(w) /\ UNCHANGED <<port, legs, tx, logs, late, cut>>
      BY <1>18 DEF AttachInfo, Disconnect1, Local
    <2> QED  BY <1>0, <1>c, <2>1, <2>2 DEF Job, AfterRead
  <1>19. CASE Disconnect2(w)
    <2>1. PICK o, d : Goto(w, [j EXCEPT !.out = o, !.dest = d, !.pc = "delete2"])
      BY <1>19 DEF Disconnect2
    <2>2. j.pc = "delete1" /\ UNCHANGED <<port, legs, tx, logs, late, cut>>
      BY <1>19 DEF Disconnect2, At, Local
    <2> QED  BY <1>0, <1>c, <2>1, <2>2 DEF Job, AfterRead
  <1> QED  BY <1>1, <1>2, <1>3, <1>4, <1>5, <1>6, <1>7, <1>8, <1>9, <1>10, <1>11,
           <1>12, <1>13, <1>14, <1>15, <1>16, <1>17, <1>18, <1>19 DEF Handle

LEMMA ReadProcess ==
  ASSUME TypeInv, ReadInv, tx = {}, NEW w \in Workers, ProcessLog(w)
  PROVE  ReadInv'
  <1>0. OneAtATime
    BY DEF ReadInv
  <1>1. PICK t \in logs :
          /\ logs' = logs \ {t}
          /\ IF ACTIONS_CLASS[t.kind] = "idle" THEN UNCHANGED job
             ELSE Goto(w, [IdleJob EXCEPT !.pc = ACTIONS_CLASS[t.kind], !.log = t])
    BY DEF ProcessLog
  <1>2. UNCHANGED <<port, legs, tx, late, cut>>
    BY DEF ProcessLog
  <1>3. logs = {t} /\ logs' = {} /\ \A x \in Workers : At(x, "idle")
    BY <1>0, <1>1 DEF OneAtATime
  <1>4. t.kind \in AllKinds /\ (t.kind = "detach" => t.obj \notin legs)
    BY <1>1 DEF TypeInv, TypeOK, ApiTypeOK, Request, ReadInv
  <1>5. CASE UNCHANGED job
    <2>1. \A x \in Workers : ReadJob(job[x])'
      BY <1>2, <1>5 DEF ReadInv, ReadJob, OnRouter, Topo, OwnNet, Bound
    <2>2. OneAtATime'
      BY <1>0, <1>2, <1>3, <1>5 DEF OneAtATime, At
    <2> QED  BY <1>3, <2>1, <2>2 DEF ReadInv
  <1>6. CASE ~UNCHANGED job
    <2> DEFINE pc == ACTIONS_CLASS[t.kind]
               a == [IdleJob EXCEPT !.pc = pc, !.log = t]
    <2>1. /\ pc \in {"get_port", "sg", "router_update", "attach", "detach"}
          /\ t.kind \in PortKinds => pc = "get_port"
      BY <1>1, <1>4, <1>6 DEF ACTIONS_CLASS, AllKinds, PortKinds, LegKinds
    <2>2. Goto(w, a)
      BY <1>1, <1>6
    <2>3. ReadJob(a)
      BY <1>4, <2>1, ReadFresh
    <2> HIDE DEF a, pc
    <2>4. \A x \in Workers : job'[x] = IF x = w THEN a ELSE job[x]
      BY <2>2 DEF Goto, TypeInv, TypeOK
    <2>5. \A x \in Workers : ReadJob(job'[x])
      BY <2>3, <2>4 DEF ReadInv
    <2>6. \A x \in Workers : ReadJob(job[x])'
      BY <1>2, <2>5 DEF ReadJob, OnRouter, Topo, OwnNet, Bound
    <2>7. OneAtATime'
      BY <1>0, <1>2, <1>3, <2>4 DEF OneAtATime, At
    <2> QED  BY <1>3, <2>6, <2>7 DEF ReadInv
  <1> QED  BY <1>5, <1>6

LEMMA ReadAllIdle ==
  ASSUME AllIdle
  PROVE  \A x \in Workers : ReadJob(job[x])
  BY DEF ReadJob, AllIdle, At, BeforeRead, AfterRead

LEMMA ReadBegin ==
  ASSUME TypeInv, ReadInv, Quiet, Begin, UNCHANGED agentVars
  PROVE  ReadInv'
  <1>1. PICK kind \in Kinds : \E obj \in ObjectsOf(kind) : BeginRequest(kind, obj)
    BY DEF Begin
  <1>2. PICK obj \in ObjectsOf(kind) : BeginRequest(kind, obj)
    BY <1>1
  <1> DEFINE t == [id |-> reqs + 1, kind |-> kind, obj |-> obj]
  <1>3. tx' = tx \cup {t} /\ logs' = logs \cup {t}
    BY <1>2 DEF BeginRequest, CreateUpdateLog
  <1> HIDE DEF t
  <1>4. tx' = {t} /\ logs' = {t} /\ AllIdle'
    BY <1>3 DEF Quiet, AllIdle, At, agentVars
  <1>5. OneAtATime'
    BY <1>4 DEF ReadInv, OneAtATime, AllIdle, At, agentVars
  <1>6. \A x \in Workers : ReadJob(job[x])'
    BY <1>4, ReadAllIdle DEF AllIdle, ReadJob, At, BeforeRead, AfterRead
  <1> QED  BY <1>4, <1>5, <1>6 DEF ReadInv

LEMMA ReadCommit ==
  ASSUME TypeInv, ReadInv, AllIdle, NEW t \in tx, Commit(t), UNCHANGED agentVars
  PROVE  ReadInv'
  <1>1. tx = {t} /\ logs = {t}
    BY DEF ReadInv, OneAtATime
  <1>2. tx' = {} /\ logs' = {t} /\ (t.kind = "detach" => legs' = legs \ {t.obj})
    BY <1>1 DEF Commit
  <1>3. AllIdle'
    BY DEF AllIdle, At, agentVars
  <1>4. OneAtATime'
    BY <1>2, <1>3 DEF ReadInv, OneAtATime, AllIdle, At, agentVars
  <1>5. \A x \in Workers : ReadJob(job[x])'
    BY <1>3 DEF AllIdle, ReadJob, At, BeforeRead, AfterRead
  <1> QED  BY <1>2, <1>4, <1>5 DEF ReadInv

LEMMA ReadInit == Init => ReadInv
  <1> SUFFICES ASSUME Init PROVE ReadInv
    OBVIOUS
  <1>1. OneAtATime /\ logs = {}
    BY DEF Init, ApiInit, OneAtATime, At, IdleJob
  <1> QED  BY <1>1, ReadIdle DEF Init, ReadInv

LEMMA ReadStep ==
  ASSUME NothingFails
  PROVE  TypeInv /\ ReadInv /\ [SerialNext]_vars => ReadInv'
  <1> SUFFICES ASSUME TypeInv, ReadInv, [SerialNext]_vars PROVE ReadInv'
    OBVIOUS
  <1>1. CASE UNCHANGED vars
    <2>1. UNCHANGED <<port, legs, tx, logs, job, late, cut>>
      BY <1>1 DEF vars
    <2>2. OneAtATime'
      BY <2>1 DEF ReadInv, OneAtATime, At
    <2>3. \A w \in Workers : ReadJob(job[w])'
      BY <2>1 DEF ReadInv, ReadJob, OnRouter, Topo, OwnNet, Bound
    <2> QED  BY <2>1, <2>2, <2>3 DEF ReadInv
  <1>2. CASE Quiet /\ Begin /\ UNCHANGED agentVars
    BY <1>2, ReadBegin
  <1>3. CASE AllIdle /\ (\E t \in tx : Commit(t)) /\ UNCHANGED agentVars
    BY <1>3, ReadCommit
  <1>4. ASSUME tx = {}, NEW w \in Workers, WorkerNext(w) PROVE ReadInv'
    BY <1>4, ReadProcess, ReadHandle DEF WorkerNext, WorkerDies, NothingFails
  <1>5. ~LateDelivery
    BY DEF LateDelivery, ReadInv, OneAtATime
  <1> QED  BY <1>1, <1>2, <1>3, <1>4, <1>5 DEF SerialNext, Rest
-----------------------------------------------------------------------------
(* Complete.                                                                *)

Reach(p, q) == NetOf[p] = NetOf[q] \/ Routed(p, q)

(* Database d, of the VM of port p, holds port q.                           *)
Knows(d, p, q) ==
  /\ d.lport[q] = port[q]
  /\ VmOf[q] \in d.chassis
  /\ p = q => NetOf[p] \in d.lswitch

(* It holds the router with all its networks, if p is to be routed.         *)
Routes(d, p) ==
  Distributed /\ up /\ NetOf[p] \in legs =>
    legs \subseteq d.lswitch /\ \E r \in d.lrouter : legs \subseteq r

(* Request t calls for telling the VM of port p about the router, about q.  *)
Reroutes(t, p) ==
  \/ t.kind \in {"attach", "update_router"}
  \/ t.kind = "bind_port" /\ t.obj = p

Concerns(t, p, q) ==
  \/ t.kind \in {"attach", "update_router"} /\ NetOf[p] # NetOf[q]
  \/ t.kind = "bind_port" /\ t.obj \in {p, q}

(* The handler has not told it yet.                                         *)
Untold(j, p) ==
  /\ j.pc \notin {"idle", "tunnel"}
  /\ j.log.kind # "bind_port" \/ j.log.obj # p =>
       /\ j.pc \notin {"state", "agent", "apply"}
       /\ j.pc = "update" => VmOf[p] \in j.dest

RoutesDue(p) ==
  \/ tx = {} /\ \E t \in logs : Reroutes(t, p)
  \/ \E w \in Workers : Reroutes(job[w].log, p) /\ Untold(job[w], p)

KnowsDue(p, q) ==
  \/ tx = {} /\ \E t \in logs : Concerns(t, p, q)
  \/ \E w \in Workers : Concerns(job[w].log, p, q) /\ Untold(job[w], p)

(* An update with message m tells nothing that is not so.                   *)
Honest(m) ==
  /\ \A q \in Present(m.lport) : m.lport[q] = port[q]
  /\ Distributed => \/ m.lrouter = {}
                    \/ m.lrouter = {legs} /\ legs \subseteq m.lswitch

(* A delete of message m leaves the VM of port p what it needs.             *)
Spared(m, p) ==
  /\ NetOf[p] \notin m.lswitch
  /\ NetOf[p] \in legs => m.lrouter = {} /\ m.lswitch = {}
  /\ \A q \in Bound(port) : Reach(p, q) =>
       q \notin Present(m.lport) /\ VmOf[q] \notin m.chassis

Names(m, q) == q \in Present(m.lport) /\ VmOf[q] \in m.chassis

(* The handler's messages bring what is called for and take nothing away.   *)
TellsJob(j) ==
  /\ j.pc = "update" =>
       /\ Honest(j.out)
       /\ j.log.kind \in PortKinds => Names(j.out, j.log.obj)
       /\ j.log.kind \in {"attach", "update_router"} /\ Distributed =>
            /\ j.out.lrouter = {legs}
            /\ \A q \in Bound(port) : NetOf[q] \in legs => Names(j.out, q)
  /\ j.log.kind \in PortKinds /\ j.pc \in {"update", "state", "agent", "apply"} =>
       /\ Routes(j.info, j.log.obj)
       /\ \A q \in Bound(port) :
            Reach(j.log.obj, q) => Knows(j.info, j.log.obj, q)
  /\ j.pc \in {"delete1", "delete2"} =>
       \A p \in Bound(port) : VmOf[p] \in j.dest => Spared(j.out, p)

(* What the VM of a port must hold is there or will be sent.                *)
CompleteInv ==
  /\ \A w \in Workers : TellsJob(job[w])
  /\ \A p \in Bound(port) : Routes(vm[VmOf[p]], p) \/ RoutesDue(p)
  /\ \A p, q \in Bound(port) :
       Reach(p, q) => Knows(vm[VmOf[p]], p, q) \/ KnowsDue(p, q)

LEMMA TopologyFacts ==
  ASSUME NEW p \in Bound(port)
  PROVE  p \in Ports /\ NetOf[p] \in Nets /\ VmOf[p] \in Vms
  BY TopologyAssumption DEF Bound

(* After its last query a handler has exactly the ports of its networks.    *)
LEMMA AllReadFacts ==
  ASSUME NEW j, ReadJob(j), j.log.kind # "update_sg",
         j.pc \in AfterRead \/ (j.pc = "network_ports" /\ j.todo = {})
  PROVE  /\ j.topo = Topo(j)
         /\ OnRouter(j) => j.router
         /\ \A q \in Ports : j.snap[q] = IF NetOf[q] \in j.topo \cup OwnNet(j)
                                         THEN port[q] ELSE Absent
  BY DEF ReadJob, AfterRead

(* A port's networks are those of the ports it reaches.                     *)
LEMMA ReachIsRead ==
  ASSUME NEW j, j.log.kind \in PortKinds, j.topo = Topo(j), NEW q,
         Reach(j.log.obj, q) \/ Reach(q, j.log.obj)
  PROVE  NetOf[q] \in j.topo \cup OwnNet(j)
  BY DEF Reach, Routed, Topo, OnRouter, OwnNet

(* What PortUpdateAction makes of its queries.                              *)
LEMMA PortTells ==
  ASSUME TypeInv, NEW j \in Job, ReadJob(j), j.log.kind \in PortKinds,
         j.pc = "network_ports", j.todo = {},
         NEW o, o = PortDb(j.log.obj, j.snap),
         NEW i, i = PortToDb(j.log.obj, j.snap, j.topo, j.router, rules)
  PROVE  /\ Honest(o) /\ Names(o, j.log.obj)
         /\ Routes(i, j.log.obj)
         /\ \A q \in Bound(port) : Reach(j.log.obj, q) => Knows(i, j.log.obj, q)
         /\ \A q \in Bound(port) : q # j.log.obj /\ Reach(q, j.log.obj) =>
              VmOf[q] \in VmsOf(j.snap, {j.log.obj})
  <1> DEFINE p == j.log.obj
  <1>1. /\ j.topo = Topo(j) /\ (OnRouter(j) => j.router)
        /\ \A q \in Ports : j.snap[q] = IF NetOf[q] \in j.topo \cup OwnNet(j)
                                        THEN port[q] ELSE Absent
    BY AllReadFacts DEF PortKinds
  <1>2. /\ p \in Bound(port) /\ p \in Ports /\ port \in Table
        /\ OwnNet(j) = {NetOf[p]} /\ p \in Present(port) /\ j.snap \in Table
    BY SerialFacts, TopologyFacts DEF ReadJob, OwnNet, Job
  <1>3. ASSUME NEW q \in Bound(port), NetOf[q] \in j.topo \cup OwnNet(j)
        PROVE  j.snap[q] = port[q] /\ q \in Bound(j.snap) /\ q \in Ports
    BY <1>1, <1>3 DEF Bound
  <1>4. j.snap[p] = port[p] /\ p \in Bound(j.snap) /\ p \in Present(j.snap)
    BY <1>2, <1>3 DEF Present
  <1>5. /\ \A q \in Ports : o.lport[q] = IF q = p THEN port[p] ELSE Absent
        /\ VmOf[p] \in o.chassis /\ o.lrouter = {}
    BY <1>2, <1>4 DEF PortDb, EmptyDb, NoPorts, Chassis
  <1>6. Honest(o) /\ Names(o, p)
    BY <1>2, <1>5 DEF Honest, Names, Present, Absent
  <1>7. /\ i.lport = j.snap /\ i.lswitch = j.topo \cup {NetOf[p]}
        /\ i.chassis = Chassis(j.snap)
        /\ i.lrouter = IF j.router THEN {j.topo} ELSE {}
    BY DEF PortToDb, ToDb
  <1>8. Routes(i, p)
    <2> SUFFICES ASSUME Distributed, NetOf[p] \in legs
                 PROVE  legs \subseteq i.lswitch /\ \E r \in i.lrouter : legs \subseteq r
      BY DEF Routes
    <2>1. OnRouter(j) /\ j.topo = legs
      BY <1>1, <1>2 DEF OnRouter, Topo
    <2> QED  BY <1>1, <1>7, <2>1
  <1>9. ASSUME NEW q \in Bound(port), Reach(p, q)
        PROVE  Knows(i, p, q)
    <2>1. NetOf[q] \in j.topo \cup OwnNet(j)
      BY <1>1, <1>9, ReachIsRead
    <2>2. j.snap[q] = port[q] /\ VmOf[q] \in Chassis(j.snap)
      BY <1>3, <2>1 DEF Chassis
    <2> QED  BY <1>7, <2>2 DEF Knows
  <1>10. ASSUME NEW q \in Bound(port), q # p, Reach(q, p)
         PROVE  VmOf[q] \in VmsOf(j.snap, {p})
    <2>1. NetOf[q] \in j.topo \cup OwnNet(j)
      BY <1>1, <1>10, ReachIsRead
    <2> QED  BY <1>3, <1>10, <2>1 DEF VmsOf
  <1> QED  BY <1>6, <1>8, <1>9, <1>10

(* What RouterIfaceAttachAction makes of its queries.                       *)
LEMMA AttachTells ==
  ASSUME TypeInv, NEW j \in Job, ReadJob(j), j.log.kind \in {"attach", "update_router"},
         j.pc = "network_ports", j.todo = {},
         NEW o, o = ToDb(j.snap, j.topo, TRUE)
  PROVE  /\ Honest(o)
         /\ Distributed => o.lrouter = {legs}
         /\ Distributed => \A q \in Bound(port) : NetOf[q] \in legs =>
              Names(o, q) /\ VmOf[q] \in VmsOf(j.snap, {})
  <1>1. /\ j.topo = Topo(j)
        /\ \A q \in Ports : j.snap[q] = IF NetOf[q] \in j.topo \cup OwnNet(j)
                                        THEN port[q] ELSE Absent
    BY AllReadFacts DEF PortKinds
  <1>2. OwnNet(j) = {} /\ (Distributed => j.topo = legs)
    BY <1>1 DEF OwnNet, OnRouter, Topo, PortKinds
  <1>3. /\ o.lport = j.snap /\ o.lswitch = j.topo
        /\ o.chassis = Chassis(j.snap) /\ o.lrouter = {j.topo}
    BY DEF ToDb
  <1>4. Honest(o)
    <2>1. \A q \in Present(j.snap) : j.snap[q] = port[q]
      BY <1>1 DEF Present, Absent
    <2> QED  BY <1>2, <1>3, <2>1 DEF Honest
  <1>5. ASSUME Distributed, NEW q \in Bound(port), NetOf[q] \in legs
        PROVE  Names(o, q) /\ VmOf[q] \in VmsOf(j.snap, {})
    <2>1. q \in Ports /\ q \in Present(port)
      BY SerialFacts, TopologyFacts
    <2>2. j.snap[q] = port[q]
      BY <1>1, <1>2, <1>5, <2>1
    <2>3. q \in Bound(j.snap) /\ q \in Present(j.snap)
      BY <2>1, <2>2 DEF Bound, Present
    <2> QED  BY <1>3, <2>3 DEF Names, Chassis, VmsOf
  <1> QED  BY <1>2, <1>3, <1>4, <1>5

(* What RouterIfaceDetachAction makes of its queries: neither delete names  *)
(* what the VM it goes to still needs.                                      *)
LEMMA DetachSpares ==
  ASSUME OnePortPerVm, TypeInv, NEW j \in Job, ReadJob(j), j.log.kind = "detach",
         j.pc \in AfterRead \/ (j.pc = "network_ports" /\ j.todo = {}),
         NEW p \in Bound(port)
  PROVE  /\ VmOf[p] \in VmsOf(j.snap, {}) => Spared(ToDb(j.gone, {}, FALSE), p)
         /\ VmOf[p] \in VmsOf(j.gone, {}) => Spared(ToDb(j.snap, j.topo, TRUE), p)
  <1>1. /\ j.topo = Topo(j)
        /\ \A q \in Ports : j.snap[q] = IF NetOf[q] \in j.topo \cup OwnNet(j)
                                        THEN port[q] ELSE Absent
    BY AllReadFacts
  <1>2. OwnNet(j) = {} /\ j.topo \subseteq legs /\ j.log.obj \notin legs
    BY <1>1 DEF OwnNet, Topo, PortKinds, ReadJob, AfterRead
  <1>3. \A q \in Ports : j.gone[q] = IF NetOf[q] = j.log.obj THEN port[q] ELSE Absent
    BY DEF ReadJob, AfterRead
  <1>4. \A q : q \in Present(j.snap) \/ q \in Bound(j.snap) =>
                 q \in Ports /\ NetOf[q] \in j.topo
    BY <1>1, <1>2 DEF Present, Bound, Absent
  <1>5. \A q : q \in Present(j.gone) \/ q \in Bound(j.gone) =>
                 q \in Ports /\ NetOf[q] = j.log.obj
    BY <1>3 DEF Present, Bound, Absent
  <1>6. p \in Ports /\ \A q \in Bound(port) : q \in Ports
    BY TopologyFacts
  <1>7. ASSUME VmOf[p] \in VmsOf(j.snap, {})
        PROVE  Spared(ToDb(j.gone, {}, FALSE), p)
    <2>1. NetOf[p] \in legs
      BY <1>2, <1>4, <1>6, <1>7 DEF VmsOf, OnePortPerVm
    <2>2. \A q \in Bound(port) : Reach(p, q) => NetOf[q] # j.log.obj
      BY <1>2, <2>1 DEF Reach, Routed
    <2>3. \A q \in Bound(port) : Reach(p, q) =>
            q \notin Present(j.gone) /\ VmOf[q] \notin Chassis(j.gone)
      BY <1>5, <1>6, <2>2 DEF Chassis, OnePortPerVm
    <2> QED  BY <2>3 DEF Spared, ToDb
  <1>8. ASSUME VmOf[p] \in VmsOf(j.gone, {})
        PROVE  Spared(ToDb(j.snap, j.topo, TRUE), p)
    <2>1. NetOf[p] \notin legs
      BY <1>2, <1>5, <1>6, <1>8 DEF VmsOf, OnePortPerVm
    <2>2. \A q \in Bound(port) : Reach(p, q) => NetOf[q] \notin j.topo
      BY <1>2, <2>1 DEF Reach, Routed
    <2>3. \A q \in Bound(port) : Reach(p, q) =>
            q \notin Present(j.snap) /\ VmOf[q] \notin Chassis(j.snap)
      BY <1>4, <1>6, <2>2 DEF Chassis, OnePortPerVm
    <2> QED  BY <1>2, <2>1, <2>3 DEF Spared, ToDb
  <1> QED  BY <1>7, <1>8

LEMMA UpdateTells ==
  ASSUME NEW db, NEW m, Honest(m), NEW p \in Bound(port)
  PROVE  /\ Routes(db, p) \/ m.lrouter = {legs} => Routes(UpdateDb(db, m), p)
         /\ \A q \in Bound(port) :
              Knows(db, p, q) \/ (Names(m, q) /\ p # q) => Knows(UpdateDb(db, m), p, q)
  <1> DEFINE d == UpdateDb(db, m)
  <1>1. /\ \A q \in Ports : d.lport[q] = IF q \in Present(m.lport)
                                         THEN m.lport[q] ELSE db.lport[q]
        /\ d.lswitch = db.lswitch \cup m.lswitch
        /\ d.chassis = db.chassis \cup m.chassis
        /\ d.lrouter = IF m.lrouter = {} THEN db.lrouter ELSE m.lrouter
    BY DEF UpdateDb
  <1> HIDE DEF d
  <1>2. Routes(db, p) \/ m.lrouter = {legs} => Routes(d, p)
    <2>1. CASE m.lrouter = {}
      BY <1>1, <2>1 DEF Routes
    <2>2. CASE m.lrouter # {}
      BY <1>1, <2>2 DEF Routes, Honest
    <2> QED  BY <2>1, <2>2
  <1>3. ASSUME NEW q \in Bound(port), Knows(db, p, q) \/ (Names(m, q) /\ p # q)
        PROVE  Knows(d, p, q)
    <2>1. q \in Ports
      BY TopologyFacts
    <2> QED  BY <1>1, <1>3, <2>1 DEF Knows, Names, Honest
  <1> QED  BY <1>2, <1>3 DEF d

LEMMA DeleteRouter ==
  ASSUME NEW db, NEW m, NEW d \in DeleteDb(db, m), m.lrouter = {}
  PROVE  d.lrouter = db.lrouter
  <1>1. \E P, S, C : d = Remove(db, P, S, C, FALSE)
    BY DEF DeleteDb
  <1> QED  BY <1>1 DEF Remove

LEMMA DeleteSpares ==
  ASSUME NEW db \in Db, NEW m \in Db, NEW d \in DeleteDb(db, m),
         NEW p \in Bound(port), Spared(m, p)
  PROVE  /\ Routes(db, p) => Routes(d, p)
         /\ \A q \in Bound(port) :
              Reach(p, q) /\ Knows(db, p, q) => Knows(d, p, q)
  <1>1. /\ \A q \in Ports : \/ d.lport[q] = db.lport[q]
                            \/ q \in Present(m.lport)
        /\ db.lswitch \ m.lswitch \subseteq d.lswitch
        /\ db.chassis \ m.chassis \subseteq d.chassis
    BY DeleteDbShape
  <1>2. Routes(db, p) => Routes(d, p)
    <2> SUFFICES ASSUME Routes(db, p), NetOf[p] \in legs PROVE Routes(d, p)
      BY DEF Routes
    <2>1. m.lrouter = {} /\ m.lswitch = {}
      BY DEF Spared
    <2>2. d.lrouter = db.lrouter /\ db.lswitch \subseteq d.lswitch
      BY <1>1, <2>1, DeleteRouter
    <2> QED  BY <2>2 DEF Routes
  <1>3. ASSUME NEW q \in Bound(port), Reach(p, q), Knows(db, p, q)
        PROVE  Knows(d, p, q)
    <2>1. q \in Ports /\ q \notin Present(m.lport) /\ VmOf[q] \notin m.chassis
      BY <1>3, TopologyFacts DEF Spared
    <2> QED  BY <1>1, <1>3, <2>1 DEF Knows, Spared
  <1> QED  BY <1>2, <1>3
-----------------------------------------------------------------------------
(* The handler moves to a; what was held stays so, and what it had still to *)
(* tell is held now or still to be told.                                    *)
LEMMA CompleteFrame ==
  ASSUME TypeInv, OneAtATime, CompleteInv, NEW w \in Workers, ~At(w, "idle"),
         NEW a, Goto(w, a), TellsJob(a),
         UNCHANGED <<port, legs, up, tx, logs, late, cut>>,
         \A p \in Bound(port) :
           Routes(vm[VmOf[p]], p) \/ (Reroutes(job[w].log, p) /\ Untold(job[w], p))
           => Routes(vm'[VmOf[p]], p) \/ (Reroutes(a.log, p) /\ Untold(a, p)),
         \A p, q \in Bound(port) : Reach(p, q) =>
           (Knows(vm[VmOf[p]], p, q) \/ (Concerns(job[w].log, p, q) /\ Untold(job[w], p))
            => Knows(vm'[VmOf[p]], p, q) \/ (Concerns(a.log, p, q) /\ Untold(a, p)))
  PROVE  CompleteInv'
  <1>1. /\ tx = {} /\ logs = {}
        /\ \A x \in Workers : job'[x] = IF x = w THEN a ELSE job[x]
        /\ \A x \in Workers \ {w} : At(x, "idle")
    BY OneMoves
  <1>2. \A x \in Workers : TellsJob(job'[x])
    BY <1>1 DEF CompleteInv
  <1>3. \A x \in Workers : TellsJob(job[x])'
    BY <1>2 DEF TellsJob, Honest, Names, Spared, Routes, Knows, Reach, Routed, Bound
  <1>4. ASSUME NEW p \in Bound(port)
        PROVE  Routes(vm[VmOf[p]], p)' \/ RoutesDue(p)'
    <2>1. Routes(vm[VmOf[p]], p) \/ (Reroutes(job[w].log, p) /\ Untold(job[w], p))
      BY <1>1 DEF CompleteInv, RoutesDue, Untold, At
    <2>2. Routes(vm'[VmOf[p]], p) \/ (Reroutes(a.log, p) /\ Untold(a, p))
      BY <2>1
    <2>3. Routes(vm'[VmOf[p]], p) => Routes(vm[VmOf[p]], p)'
      BY DEF Routes
    <2>4. Reroutes(a.log, p) /\ Untold(a, p) => RoutesDue(p)'
      BY <1>1 DEF RoutesDue, Reroutes, Untold
    <2> QED  BY <2>2, <2>3, <2>4
  <1>5. ASSUME NEW p \in Bound(port), NEW q \in Bound(port), Reach(p, q)
        PROVE  Knows(vm[VmOf[p]], p, q)' \/ KnowsDue(p, q)'
    <2>1. \/ Knows(vm[VmOf[p]], p, q)
          \/ Concerns(job[w].log, p, q) /\ Untold(job[w], p)
      BY <1>1, <1>5 DEF CompleteInv, KnowsDue, Untold, At
    <2>2. Knows(vm'[VmOf[p]], p, q) \/ (Concerns(a.log, p, q) /\ Untold(a, p))
      BY <1>5, <2>1
    <2>3. Knows(vm'[VmOf[p]], p, q) => Knows(vm[VmOf[p]], p, q)'
      BY DEF Knows
    <2>4. Concerns(a.log, p, q) /\ Untold(a, p) => KnowsDue(p, q)'
      BY <1>1 DEF KnowsDue, Concerns, Untold
    <2> QED  BY <2>2, <2>3, <2>4
  <1>6. Bound(port') = Bound(port) /\ \A p, q : Reach(p, q)' = Reach(p, q)
    BY DEF Reach, Routed
  <1>7. \A p \in Bound(port)' : Routes(vm[VmOf[p]], p)' \/ RoutesDue(p)'
    BY <1>4, <1>6 DEF Bound
  <1>8. \A p, q \in Bound(port)' : Reach(p, q)' =>
          Knows(vm[VmOf[p]], p, q)' \/ KnowsDue(p, q)'
    BY <1>5, <1>6
  <1> QED  BY <1>3, <1>7, <1>8 DEF CompleteInv

(* The handler goes on with the same log and as much to tell.               *)
LEMMA CompleteGoes ==
  ASSUME TypeInv, OneAtATime, CompleteInv, NEW w \in Workers, ~At(w, "idle"),
         NEW a, Goto(w, a), TellsJob(a), a.log = job[w].log,
         UNCHANGED <<port, legs, up, tx, logs, late, cut, vm>>,
         \A p \in Bound(port) : Untold(job[w], p) => Untold(a, p)
  PROVE  CompleteInv'
  <1>1. \A p \in Bound(port) :
           Routes(vm[VmOf[p]], p) \/ (Reroutes(job[w].log, p) /\ Untold(job[w], p))
           => Routes(vm'[VmOf[p]], p) \/ (Reroutes(a.log, p) /\ Untold(a, p))
    OBVIOUS
  <1>2. \A p, q \in Bound(port) : Reach(p, q) =>
           (Knows(vm[VmOf[p]], p, q) \/ (Concerns(job[w].log, p, q) /\ Untold(job[w], p))
            => Knows(vm'[VmOf[p]], p, q) \/ (Concerns(a.log, p, q) /\ Untold(a, p)))
    OBVIOUS
  <1> QED  BY <1>1, <1>2, CompleteFrame

LEMMA TellsIdle ==
  ASSUME NEW j, j.pc \notin {"update", "state", "agent", "apply", "delete1", "delete2"}
  PROVE  TellsJob(j)
  BY DEF TellsJob

(* The handler ends with nothing left to tell.                              *)
LEMMA CompleteEnds ==
  ASSUME TypeInv, OneAtATime, CompleteInv, NEW w \in Workers, ~At(w, "idle"), Finish(w),
         UNCHANGED <<port, legs, up, tx, logs, late, cut, vm>>,
         \A p \in Bound(port) : Untold(job[w], p) =>
           /\ Reroutes(job[w].log, p) => Routes(vm[VmOf[p]], p)
           /\ \A q \in Bound(port) : Concerns(job[w].log, p, q) /\ Reach(p, q) =>
                Knows(vm[VmOf[p]], p, q)
  PROVE  CompleteInv'
  <1>1. TellsJob(IdleJob)
    BY TellsIdle DEF IdleJob
  <1>2. \A p \in Bound(port) :
           Routes(vm[VmOf[p]], p) \/ (Reroutes(job[w].log, p) /\ Untold(job[w], p))
           => Routes(vm'[VmOf[p]], p)
    OBVIOUS
  <1>3. \A p, q \in Bound(port) : Reach(p, q) =>
           (Knows(vm[VmOf[p]], p, q) \/ (Concerns(job[w].log, p, q) /\ Untold(job[w], p))
            => Knows(vm'[VmOf[p]], p, q))
    OBVIOUS
  <1> QED  BY <1>1, <1>2, <1>3, CompleteFrame DEF Finish

LEMMA CompleteHandle ==
  ASSUME OnePortPerVm, NothingFails, TypeInv, ReadInv, CompleteInv,
         NEW w \in Workers, Handle(w)
  PROVE  CompleteInv'
  <1> DEFINE j == job[w]
  <1>0. /\ OneAtATime /\ j \in Job /\ JobOK(j) /\ ReadJob(j) /\ TellsJob(j)
        /\ port \in Table /\ vm \in [Vms -> Db]
    BY SerialFacts DEF ReadInv, CompleteInv
  <1>i. ~At(w, "idle")
    BY DEF Handle, At, GetPort, GetRoutersForNet, GetPortsFromRouter,
           GetNetworkPorts, AllRead, PortInfo, State, RegisterAgent, Apply, CallFails,
           AddEndpoint, BulkUpdate, BulkDelete, BulkLost, BulkDone,
           SecurityGroupUpdate, RouterUpdate, RouterIfaceAttach, AttachInfo,
           RouterIfaceDetach, GetDetachedPorts, Disconnect1, Disconnect2
  (* A query that is not the last.                                          *)
  <1>a. ASSUME NEW a, Goto(w, a), a.log = j.log, Local,
               a.pc \in {"routers", "router_ports", "network_ports", "attach", "gone_ports"}
        PROVE  CompleteInv'
    <2>1. TellsJob(a) /\ \A p : Untold(a, p)
      BY <1>a, TellsIdle DEF Untold
    <2> QED  BY <1>0, <1>a, <1>i, <2>1, CompleteGoes DEF Local
  (* A step of a handler that has nothing to tell.                          *)
  <1>b. ASSUME NEW a, Goto(w, a), a.log = j.log, Local, TellsJob(a),
               j.log.kind \in {"update_sg", "detach"}
        PROVE  CompleteInv'
    <2>1. UNCHANGED <<port, legs, up, tx, logs, late, cut, vm>>
      BY <1>b DEF Local
    <2>2. \A p, q : ~Reroutes(j.log, p) /\ ~Concerns(j.log, p, q)
      BY <1>b DEF Reroutes, Concerns
    <2>3. \A p \in Bound(port) :
           Routes(vm[VmOf[p]], p) \/ (Reroutes(j.log, p) /\ Untold(j, p))
           => Routes(vm'[VmOf[p]], p) \/ (Reroutes(a.log, p) /\ Untold(a, p))
      BY <2>1, <2>2
    <2>4. \A p, q \in Bound(port) : Reach(p, q) =>
           (Knows(vm[VmOf[p]], p, q) \/ (Concerns(j.log, p, q) /\ Untold(j, p))
            => Knows(vm'[VmOf[p]], p, q) \/ (Concerns(a.log, p, q) /\ Untold(a, p)))
      BY <2>1, <2>2
    <2> QED  BY <1>0, <1>b, <1>i, <2>1, <2>3, <2>4, CompleteFrame
  <1>c. ASSUME Finish(w), Local,
               \/ j.log.kind \in {"update_sg", "detach"}
               \/ j.log.kind \in {"attach", "update_router"} /\ ~(Distributed /\ up)
               \/ \A p : ~Untold(j, p)
        PROVE  CompleteInv'
    <2>1. ASSUME NEW p \in Bound(port), Untold(j, p)
          PROVE  /\ Reroutes(j.log, p) => Routes(vm[VmOf[p]], p)
                 /\ \A q \in Bound(port) : Concerns(j.log, p, q) /\ Reach(p, q) =>
                      Knows(vm[VmOf[p]], p, q)
      BY <1>c, <2>1 DEF Reroutes, Concerns, Routes, Reach, Routed
    <2> QED  BY <1>0, <1>c, <1>i, <2>1, CompleteEnds DEF Local
  <1>1. CASE GetPort(w)
    <2>1. j.pc = "get_port" /\ j.log.kind \in PortKinds /\ Local
      BY <1>0, <1>1 DEF GetPort, At, JobOK, PortSteps
    <2>2. CASE Obj(w) \in Bound(port)
      <3>1. Goto(w, [j EXCEPT !.pc = "routers"])
        BY <1>1, <2>2 DEF GetPort
      <3> QED  BY <1>0, <1>a, <2>1, <3>1 DEF Job
    <2>3. CASE Obj(w) \notin Bound(port)
      <3>1. Finish(w)
        BY <1>1, <2>3 DEF GetPort
      <3>2. \A p, q \in Bound(port) : ~Reroutes(j.log, p) /\ ~Concerns(j.log, p, q)
        BY <2>1, <2>3 DEF Reroutes, Concerns, PortKinds, Obj
      <3> QED  BY <1>0, <1>i, <2>1, <3>1, <3>2, CompleteEnds DEF Local
    <2> QED  BY <2>2, <2>3
  <1>2. CASE RouterUpdate(w)
    <2>1. j.log.kind = "update_router" /\ Local
      BY <1>0, <1>2 DEF RouterUpdate, At, JobOK
    <2>2. CASE Distributed /\ up
      <3>1. Goto(w, [j EXCEPT !.pc = "attach"])
        BY <1>2, <2>2 DEF RouterUpdate
      <3> QED  BY <1>0, <1>a, <2>1, <3>1 DEF Job
    <2>3. CASE ~(Distributed /\ up)
      BY <1>2, <1>c, <2>1, <2>3 DEF RouterUpdate
    <2> QED  BY <2>2, <2>3
  <1>3. CASE RouterIfaceAttach(w)
    <2>1. j.log.kind \in {"attach", "update_router"} /\ Local
      BY <1>0, <1>3 DEF RouterIfaceAttach, At, JobOK
    <2>2. CASE Distributed /\ up
      <3>1. Goto(w, [j EXCEPT !.router = TRUE, !.pc = "router_ports"])
        BY <1>3, <2>2 DEF RouterIfaceAttach
      <3> QED  BY <1>0, <1>a, <2>1, <3>1 DEF Job
    <2>3. CASE ~(Distributed /\ up)
      BY <1>3, <1>c, <2>1, <2>3 DEF RouterIfaceAttach
    <2> QED  BY <2>2, <2>3
  <1>4. CASE RouterIfaceDetach(w)
    <2>1. j.log.kind = "detach" /\ Local
      BY <1>0, <1>4 DEF RouterIfaceDetach, At, JobOK, DetachSteps
    <2>2. Finish(w) \/ Goto(w, [j EXCEPT !.router = TRUE, !.pc = "gone_ports"])
      BY <1>4 DEF RouterIfaceDetach
    <2> QED  BY <1>0, <1>a, <1>c, <2>1, <2>2 DEF Job
  <1>5. CASE GetDetachedPorts(w)
    <2>1. PICK g : Goto(w, [j EXCEPT !.gone = g, !.pc = "router_ports"])
      BY <1>5 DEF GetDetachedPorts
    <2> QED  BY <1>0, <1>5, <1>a, <2>1 DEF Job, GetDetachedPorts
  <1>6. CASE GetRoutersForNet(w)
    <2>1. \/ Goto(w, [j EXCEPT !.router = TRUE, !.pc = "router_ports"])
          \/ Goto(w, [j EXCEPT !.todo = {NetOf[Obj(w)]}, !.pc = "network_ports"])
      BY <1>6 DEF GetRoutersForNet
    <2> QED  BY <1>0, <1>6, <1>a, <2>1 DEF Job, GetRoutersForNet
  <1>7. CASE GetPortsFromRouter(w)
    <2>1. PICK t, d : Goto(w, [j EXCEPT !.topo = t, !.todo = d, !.pc = "network_ports"])
      BY <1>7 DEF GetPortsFromRouter
    <2> QED  BY <1>0, <1>7, <1>a, <2>1 DEF Job, GetPortsFromRouter
  <1>8. CASE GetNetworkPorts(w)
    <2>1. PICK n, s : Goto(w, [j EXCEPT !.todo = @ \ {n}, !.snap = s])
      BY <1>8 DEF GetNetworkPorts
    <2>2. j.pc = "network_ports" /\ Local
      BY <1>8 DEF GetNetworkPorts, At
    <2> QED  BY <1>0, <1>a, <2>1, <2>2 DEF Job
  <1>9. CASE PortInfo(w)
    <2> DEFINE p == Obj(w)
               o == PortDb(p, j.snap)
               i == PortToDb(p, j.snap, j.topo, j.router, rules)
               a == [j EXCEPT !.out = o, !.dest = VmsOf(j.snap, {p}),
                              !.info = i, !.pc = "update"]
    <2>1. /\ j.pc = "network_ports" /\ j.todo = {} /\ Local
          /\ j.log.kind \in PortKinds /\ p = j.log.obj
      BY <1>9 DEF PortInfo, AllRead, At, Obj
    <2>2. /\ Honest(o) /\ Names(o, p) /\ Routes(i, p)
          /\ \A q \in Bound(port) : Reach(p, q) => Knows(i, p, q)
          /\ \A q \in Bound(port) : q # p /\ Reach(q, p) => VmOf[q] \in VmsOf(j.snap, {p})
      BY <1>0, <2>1, PortTells
    <2>3. Names(o, p) => p \in Present(j.snap)
      BY DEF Names, PortDb, EmptyDb, NoPorts, Present, Absent
    <2>4. Goto(w, a)
      BY <1>9, <2>2, <2>3 DEF PortInfo
    <2> HIDE DEF o, i, p
    <2>5. /\ a.log = j.log /\ a.pc = "update" /\ a.out = o /\ a.info = i
          /\ a.dest = VmsOf(j.snap, {p})
      BY <1>0 DEF Job
    <2> HIDE DEF a
    <2>6. TellsJob(a)
      BY <2>1, <2>2, <2>5 DEF TellsJob, PortKinds
    <2>7. \A q \in Bound(port) :
           Routes(vm[VmOf[q]], q) \/ (Reroutes(j.log, q) /\ Untold(j, q))
           => Routes(vm'[VmOf[q]], q) \/ (Reroutes(a.log, q) /\ Untold(a, q))
      BY <2>1, <2>5 DEF Reroutes, Untold, PortKinds, Local
    <2>8. ASSUME NEW q \in Bound(port), NEW r \in Bound(port), Reach(q, r),
                 Knows(vm[VmOf[q]], q, r) \/ (Concerns(j.log, q, r) /\ Untold(j, q))
          PROVE  Knows(vm'[VmOf[q]], q, r) \/ (Concerns(a.log, q, r) /\ Untold(a, q))
      <3>1. Concerns(j.log, q, r) => Untold(a, q)
        BY <2>1, <2>2, <2>5, <2>8 DEF Concerns, Untold, PortKinds
      <3> QED  BY <2>1, <2>5, <2>8, <3>1 DEF Local
    <2> QED  BY <1>0, <1>i, <2>1, <2>4, <2>6, <2>7, <2>8, CompleteFrame DEF Local
  (* On the way to the apply.                                               *)
  <1>d. ASSUME NEW a, Goto(w, a), UNCHANGED <<port, legs, up, tx, logs, late, cut, vm>>,
               a.log = j.log, a.info = j.info, j.log.kind \in PortKinds,
               a.pc \in {"state", "agent", "apply"},
               \/ j.pc \in {"state", "agent"}
               \/ j.pc = "update" /\ j.dest = {}
        PROVE  CompleteInv'
    <2>1. TellsJob(a)
      BY <1>0, <1>d DEF TellsJob
    <2>2. \A p : Untold(j, p) => Untold(a, p)
      BY <1>d DEF Untold
    <2> QED  BY <1>0, <1>d, <1>i, <2>1, <2>2, CompleteGoes
  <1>10. CASE State(w)
    <2>1. PICK pc \in {"agent", "apply"} : Goto(w, [j EXCEPT !.pc = pc])
      BY <1>10 DEF State
    <2>2. j.pc = "state" /\ j.log.kind \in PortKinds /\ Local
      BY <1>0, <1>10 DEF State, At, JobOK, PortSteps
    <2> QED  BY <1>0, <1>d, <2>1, <2>2 DEF Job, Local
  <1>11. CASE RegisterAgent(w)
    <2>1. /\ j.pc = "agent" /\ agents' = agents \cup ({VmOf[Obj(w)]} \cap Named)
          /\ UNCHANGED <<port, legs, up, tx, logs, late, cut, vm>>
      BY <1>11 DEF RegisterAgent, At
    <2>2. j.log.kind \in PortKinds /\ VmOf[Obj(w)] \in Vms
      BY <1>0, <2>1, LogObject, TopologyAssumption DEF JobOK, PortSteps, Job, Obj
    <2>3. VmOf[Obj(w)] \in agents'
      BY <1>0, <2>1, <2>2 DEF ReadJob, NothingFails
    <2>4. Goto(w, [j EXCEPT !.pc = "apply"])
      BY <1>11, <2>3 DEF RegisterAgent
    <2> QED  BY <1>0, <1>d, <2>1, <2>2, <2>4 DEF Job
  <1>12. CASE Apply(w)
    <2> DEFINE p == Obj(w)
               a == [j EXCEPT !.pc = "tunnel"]
    <2>1. /\ j.pc = "apply" /\ Goto(w, a) /\ vm' = [vm EXCEPT ![VmOf[p]] = j.info]
          /\ UNCHANGED <<port, legs, up, tx, logs, late, cut>>
      BY <1>12 DEF Apply, At, ApplyDb
    <2>2. /\ j.log.kind \in PortKinds /\ p = j.log.obj /\ p \in Bound(port)
      BY <1>0, <2>1 DEF JobOK, PortSteps, Obj, ReadJob
    <2>3. /\ Routes(j.info, p)
          /\ \A q \in Bound(port) : Reach(p, q) => Knows(j.info, p, q)
      BY <1>0, <2>1, <2>2 DEF TellsJob
    <2>4. a.log = j.log /\ a.pc = "tunnel"
      BY <1>0 DEF Job
    <2> HIDE DEF a, p
    <2>5. TellsJob(a)
      BY <2>4, TellsIdle
    <2>6. \A q \in Bound(port) : IF q = p THEN vm'[VmOf[q]] = j.info
                                 ELSE vm'[VmOf[q]] = vm[VmOf[q]] /\ q # j.log.obj
      BY <1>0, <2>1, <2>2, TopologyFacts DEF OnePortPerVm
    <2>7. \A q \in Bound(port) : q # p => ~Untold(j, q)
      BY <2>1, <2>2 DEF Untold
    <2>8. \A q \in Bound(port) :
           Routes(vm[VmOf[q]], q) \/ (Reroutes(j.log, q) /\ Untold(j, q))
           => Routes(vm'[VmOf[q]], q)
      BY <2>3, <2>6, <2>7
    <2>9. \A q, r \in Bound(port) : Reach(q, r) =>
           (Knows(vm[VmOf[q]], q, r) \/ (Concerns(j.log, q, r) /\ Untold(j, q))
            => Knows(vm'[VmOf[q]], q, r))
      BY <2>3, <2>6, <2>7
    <2> QED  BY <1>0, <1>i, <2>1, <2>5, <2>8, <2>9, CompleteFrame
  <1>13. ~CallFails(w) /\ ~BulkLost(w)
    BY <1>0, NoGivesUp DEF CallFails, BulkLost
  <1>14. CASE AddEndpoint(w)
    <2>1. \A p : ~Untold(j, p)
      BY <1>14 DEF AddEndpoint, At, Untold
    <2>2. UNCHANGED <<port, legs, up, tx, logs, late, cut, vm>> /\ Finish(w)
      BY <1>14 DEF AddEndpoint
    <2> QED  BY <1>0, <1>i, <2>1, <2>2, CompleteEnds
  <1>15. CASE BulkUpdate(w)
    <2>1. PICK v \in j.dest : /\ vm' = [vm EXCEPT ![v] = UpdateDb(vm[v], j.out)]
                              /\ Goto(w, [j EXCEPT !.dest = @ \ {v}])
      BY <1>15 DEF BulkUpdate
    <2>2. j.pc = "update" /\ UNCHANGED <<port, legs, up, tx, logs, late, cut>>
      BY <1>15 DEF BulkUpdate, At
    <2> DEFINE a == [j EXCEPT !.dest = @ \ {v}]
    <2>3. /\ a.pc = "update" /\ a.log = j.log /\ a.dest = j.dest \ {v}
          /\ a.out = j.out /\ a.info = j.info /\ Goto(w, a) /\ v \in Vms
      BY <1>0, <2>1, <2>2 DEF Job
    <2> HIDE DEF a
    <2>4. TellsJob(a) /\ Honest(j.out)
      BY <1>0, <2>2, <2>3 DEF TellsJob
    <2>5. \A u \in Vms : vm'[u] = IF u = v THEN UpdateDb(vm[v], j.out) ELSE vm[u]
      BY <1>0, <2>1, <2>3
    <2>6. \A q \in Bound(port) : VmOf[q] # v => (Untold(j, q) => Untold(a, q))
      BY <2>2, <2>3 DEF Untold
    <2>7. ASSUME NEW p \in Bound(port),
                 Routes(vm[VmOf[p]], p) \/ (Reroutes(j.log, p) /\ Untold(j, p))
          PROVE  Routes(vm'[VmOf[p]], p) \/ (Reroutes(a.log, p) /\ Untold(a, p))
      <3>1. CASE VmOf[p] # v
        BY <2>3, <2>5, <2>6, <2>7, <3>1, TopologyFacts
      <3>2. CASE VmOf[p] = v
        <4>1. vm'[VmOf[p]] = UpdateDb(vm[v], j.out)
          BY <2>3, <2>5, <3>2
        <4>2. CASE Routes(vm[v], p)
          BY <2>4, <4>1, <4>2, UpdateTells
        <4>3. CASE j.log.kind \in {"attach", "update_router"}
          <5>1. Distributed => j.out.lrouter = {legs}
            BY <1>0, <2>2, <4>3 DEF TellsJob
          <5>2. ~Distributed => Routes(vm'[VmOf[p]], p)
            BY DEF Routes
          <5> QED  BY <2>4, <4>1, <5>1, <5>2, UpdateTells
        <4>4. CASE j.log.kind = "bind_port" /\ j.log.obj = p
          BY <2>3, <4>4 DEF Reroutes, Untold
        <4> QED  BY <2>7, <3>2, <4>2, <4>3, <4>4 DEF Reroutes
      <3> QED  BY <3>1, <3>2
    <2>8. ASSUME NEW p \in Bound(port), NEW q \in Bound(port), Reach(p, q),
                 Knows(vm[VmOf[p]], p, q) \/ (Concerns(j.log, p, q) /\ Untold(j, p))
          PROVE  Knows(vm'[VmOf[p]], p, q) \/ (Concerns(a.log, p, q) /\ Untold(a, p))
      <3>1. CASE VmOf[p] # v
        BY <2>3, <2>5, <2>6, <2>8, <3>1, TopologyFacts
      <3>2. CASE VmOf[p] = v
        <4>1. vm'[VmOf[p]] = UpdateDb(vm[v], j.out)
          BY <2>3, <2>5, <3>2
        <4>2. CASE Knows(vm[v], p, q)
          BY <2>4, <4>1, <4>2, UpdateTells
        <4>3. CASE j.log.kind \in {"attach", "update_router"} /\ NetOf[p] # NetOf[q]
          <5>1. Distributed /\ NetOf[q] \in legs
            BY <2>8, <4>3 DEF Reach, Routed
          <5>2. Names(j.out, q)
            BY <1>0, <2>2, <4>3, <5>1 DEF TellsJob
          <5> QED  BY <2>4, <4>1, <4>3, <5>2, UpdateTells
        <4>4. CASE j.log.kind = "bind_port" /\ j.log.obj = p
          BY <2>3, <4>4 DEF Concerns, Untold
        <4>5. CASE j.log.kind = "bind_port" /\ j.log.obj = q /\ p # q
          <5>1. Names(j.out, q)
            BY <1>0, <2>2, <4>5 DEF TellsJob, PortKinds
          <5> QED  BY <2>4, <4>1, <4>5, <5>1, UpdateTells
        <4> QED  BY <2>8, <3>2, <4>2, <4>3, <4>4, <4>5 DEF Concerns
      <3> QED  BY <3>1, <3>2
    <2> QED  BY <1>0, <1>i, <2>2, <2>3, <2>4, <2>7, <2>8, CompleteFrame
  <1>16. CASE BulkDelete(w)
    <2>1. PICK v \in j.dest : /\ \E d \in DeleteDb(vm[v], j.out) :
                                   vm' = [vm EXCEPT ![v] = d]
                              /\ Goto(w, [j EXCEPT !.dest = @ \ {v}])
      BY <1>16 DEF BulkDelete
    <2>2. PICK d \in DeleteDb(vm[v], j.out) : vm' = [vm EXCEPT ![v] = d]
      BY <2>1
    <2>3. /\ j.pc \in {"delete1", "delete2"} /\ j.log.kind = "detach"
          /\ UNCHANGED <<port, legs, up, tx, logs, late, cut>>
      BY <1>0, <1>16 DEF BulkDelete, At, JobOK, DetachSteps
    <2> DEFINE a == [j EXCEPT !.dest = @ \ {v}]
    <2>4. /\ a.pc = j.pc /\ a.log = j.log /\ a.dest = j.dest \ {v}
          /\ a.out = j.out /\ Goto(w, a) /\ v \in Vms /\ j.out \in Db /\ vm[v] \in Db
      BY <1>0, <2>1 DEF Job
    <2> HIDE DEF a
    <2>5. TellsJob(a)
      BY <1>0, <2>3, <2>4 DEF TellsJob, PortKinds
    <2>6. \A u \in Vms : vm'[u] = IF u = v THEN d ELSE vm[u]
      BY <1>0, <2>2, <2>4
    <2>7. \A p \in Bound(port) : VmOf[p] = v => Spared(j.out, p)
      BY <1>0, <2>1, <2>3 DEF TellsJob
    <2>8. \A p, q : ~Reroutes(j.log, p) /\ ~Concerns(j.log, p, q)
      BY <2>3 DEF Reroutes, Concerns
    <2>9. ASSUME NEW p \in Bound(port)
          PROVE  /\ Routes(vm[VmOf[p]], p) => Routes(vm'[VmOf[p]], p)
                 /\ \A q \in Bound(port) : Reach(p, q) =>
                      (Knows(vm[VmOf[p]], p, q) => Knows(vm'[VmOf[p]], p, q))
      <3>1. CASE VmOf[p] # v
        BY <2>6, <3>1, TopologyFacts
      <3>2. CASE VmOf[p] = v
        <4>1. Spared(j.out, p) /\ vm'[VmOf[p]] = d
          BY <2>4, <2>6, <2>7, <3>2
        <4> QED  BY <2>4, <3>2, <4>1, DeleteSpares
      <3> QED  BY <3>1, <3>2
    <2> QED  BY <1>0, <1>i, <2>3, <2>4, <2>5, <2>8, <2>9, CompleteFrame
  <1>17. CASE BulkDone(w)
    <2>1. j.pc \in {"update", "delete2"} /\ j.dest = {} /\ Local
      BY <1>17 DEF BulkDone, At
    <2>2. CASE j.log.kind \in PortKinds
      <3>1. j.pc = "update"
        BY <1>0, <2>1, <2>2 DEF JobOK, DetachSteps, PortKinds
      <3>2. Goto(w, [j EXCEPT !.pc = "state", !.out = EmptyDb])
        BY <1>17, <2>2 DEF BulkDone
      <3> QED  BY <1>0, <1>d, <2>1, <2>2, <3>1, <3>2 DEF Job, Local
    <2>3. CASE j.log.kind \notin PortKinds
      <3>1. Finish(w)
        BY <1>17, <2>3 DEF BulkDone
      <3>2. j.log.kind = "detach" \/ \A p : ~Untold(j, p)
        BY <1>0, <2>1, <2>3 DEF JobOK, DetachSteps, Untold, PortKinds
      <3> QED  BY <1>c, <2>1, <3>1, <3>2
    <2> QED  BY <2>2, <2>3
  <1>18. CASE SecurityGroupUpdate(w)
    <2> DEFINE o == SecGroupDb(Obj(w), rules[Obj(w)])
    <2>1. PICK d : Goto(w, [j EXCEPT !.out = o, !.dest = d, !.pc = "update"])
      BY <1>18 DEF SecurityGroupUpdate
    <2> DEFINE a == [j EXCEPT !.out = o, !.dest = d, !.pc = "update"]
    <2>2. /\ a.log = j.log /\ a.pc = "update" /\ a.out = o /\ Goto(w, a) /\ Local
          /\ j.log.kind = "update_sg"
      BY <1>0, <1>18, <2>1 DEF SecurityGroupUpdate, At, JobOK, Job
    <2>3. Honest(o)
      BY DEF Honest, SecGroupDb, EmptyDb, NoPorts, Present, Absent
    <2> HIDE DEF a, o
    <2>4. TellsJob(a)
      BY <2>2, <2>3 DEF TellsJob, PortKinds
    <2> QED  BY <1>b, <2>2, <2>4
  <1>19. CASE AttachInfo(w)
    <2> DEFINE o == ToDb(j.snap, j.topo, TRUE)
               a == [j EXCEPT !.out = o, !.dest = VmsOf(j.snap, {}), !.pc = "update"]
    <2>1. /\ Goto(w, a) /\ Local /\ j.log.kind \in {"attach", "update_router"}
          /\ j.pc = "network_ports" /\ j.todo = {}
      BY <1>19 DEF AttachInfo, AllRead, At
    <2>2. /\ Honest(o)
          /\ Distributed => o.lrouter = {legs}
          /\ Distributed => \A q \in Bound(port) : NetOf[q] \in legs =>
               Names(o, q) /\ VmOf[q] \in VmsOf(j.snap, {})
      BY <1>0, <2>1, AttachTells
    <2> HIDE DEF o
    <2>3. a.log = j.log /\ a.pc = "update" /\ a.out = o /\ a.dest = VmsOf(j.snap, {})
      BY <1>0 DEF Job
    <2> HIDE DEF a
    <2>4. TellsJob(a)
      BY <2>1, <2>2, <2>3 DEF TellsJob, PortKinds
    <2>5. \A p \in Bound(port) : Distributed /\ NetOf[p] \in legs => Untold(a, p)
      BY <2>1, <2>2, <2>3 DEF Untold
    <2>6. \A p \in Bound(port) :
           Routes(vm[VmOf[p]], p) \/ (Reroutes(j.log, p) /\ Untold(j, p))
           => Routes(vm'[VmOf[p]], p) \/ (Reroutes(a.log, p) /\ Untold(a, p))
      BY <2>1, <2>3, <2>5 DEF Routes, Local
    <2>7. ASSUME NEW p \in Bound(port), NEW q \in Bound(port), Reach(p, q),
                 Knows(vm[VmOf[p]], p, q) \/ (Concerns(j.log, p, q) /\ Untold(j, p))
          PROVE  Knows(vm'[VmOf[p]], p, q) \/ (Concerns(a.log, p, q) /\ Untold(a, p))
      <3>1. Concerns(j.log, p, q) => Distributed /\ NetOf[p] \in legs
        BY <2>1, <2>7 DEF Concerns, Reach, Routed
      <3> QED  BY <2>1, <2>3, <2>5, <2>7, <3>1 DEF Local
    <2> QED  BY <1>0, <1>i, <2>1, <2>3, <2>4, <2>6, <2>7, CompleteFrame DEF Local
  <1>20. CASE Disconnect1(w)
    <2> DEFINE o == ToDb(j.gone, {}, FALSE)
               a == [j EXCEPT !.out = o, !.dest = VmsOf(j.snap, {}), !.pc = "delete1"]
    <2>1. /\ Goto(w, a) /\ Local /\ j.log.kind = "detach"
          /\ j.pc = "network_ports" /\ j.todo = {}
      BY <1>20 DEF Disconnect1, AllRead, At
    <2>2. \A p \in Bound(port) : VmOf[p] \in VmsOf(j.snap, {}) => Spared(o, p)
      BY <1>0, <2>1, DetachSpares
    <2> HIDE DEF o
    <2>3. a.log = j.log /\ a.pc = "delete1" /\ a.out = o /\ a.dest = VmsOf(j.snap, {})
      BY <1>0 DEF Job
    <2> HIDE DEF a
    <2>4. TellsJob(a)
      BY <2>1, <2>2, <2>3 DEF TellsJob, PortKinds
    <2> QED  BY <1>b, <2>1, <2>3, <2>4
  <1>21. CASE Disconnect2(w)
    <2> DEFINE o == ToDb(j.snap, j.topo, TRUE)
               a == [j EXCEPT !.out = o, !.dest = VmsOf(j.gone, {}), !.pc = "delete2"]
    <2>1. Goto(w, a) /\ Local /\ j.log.kind = "detach" /\ j.pc = "delete1"
      BY <1>0, <1>21 DEF Disconnect2, At, JobOK, DetachSteps
    <2>2. \A p \in Bound(port) : VmOf[p] \in VmsOf(j.gone, {}) => Spared(o, p)
      BY <1>0, <2>1, DetachSpares DEF AfterRead
    <2> HIDE DEF o
    <2>3. a.log = j.log /\ a.pc = "delete2" /\ a.out = o /\ a.dest = VmsOf(j.gone, {})
      BY <1>0 DEF Job
    <2> HIDE DEF a
    <2>4. TellsJob(a)
      BY <2>1, <2>2, <2>3 DEF TellsJob, PortKinds
    <2> QED  BY <1>b, <2>1, <2>3, <2>4
  <1> QED  BY <1>1, <1>2, <1>3, <1>4, <1>5, <1>6, <1>7, <1>8, <1>9, <1>10, <1>11,
           <1>12, <1>13, <1>14, <1>15, <1>16, <1>17, <1>18, <1>19, <1>20, <1>21
           DEF Handle
-----------------------------------------------------------------------------
(* The other steps.                                                         *)

LEMMA CompleteProcess ==
  ASSUME TypeInv, ReadInv, CompleteInv, tx = {}, NEW w \in Workers, ProcessLog(w)
  PROVE  CompleteInv'
  <1>0. OneAtATime
    BY DEF ReadInv
  <1>1. PICK t \in logs :
          /\ logs' = logs \ {t}
          /\ IF ACTIONS_CLASS[t.kind] = "idle" THEN UNCHANGED job
             ELSE Goto(w, [IdleJob EXCEPT !.pc = ACTIONS_CLASS[t.kind], !.log = t])
    BY DEF ProcessLog
  <1>2. UNCHANGED <<port, legs, up, tx, vm>>
    BY DEF ProcessLog
  <1>3. logs = {t} /\ \A x \in Workers : At(x, "idle")
    BY <1>0, <1>1 DEF OneAtATime
  <1>4. t.kind \in AllKinds
    BY <1>1 DEF TypeInv, TypeOK, ApiTypeOK, Request
  <1>5. /\ \A p \in Bound(port) : Routes(vm[VmOf[p]], p) \/ Reroutes(t, p)
        /\ \A p, q \in Bound(port) :
             Reach(p, q) => Knows(vm[VmOf[p]], p, q) \/ Concerns(t, p, q)
    BY <1>3 DEF CompleteInv, RoutesDue, KnowsDue, Untold, At
  <1>6. /\ Bound(port)' = Bound(port)
        /\ \A p, q : Reach(p, q)' = Reach(p, q)
        /\ \A p : Routes(vm[VmOf[p]], p)' = Routes(vm[VmOf[p]], p)
        /\ \A p, q : Knows(vm[VmOf[p]], p, q)' = Knows(vm[VmOf[p]], p, q)
    BY <1>2 DEF Bound, Reach, Routed, Routes, Knows
  <1>7. CASE ACTIONS_CLASS[t.kind] = "idle"
    <2>1. t.kind = "delete_port"
      BY <1>4, <1>7 DEF ACTIONS_CLASS, AllKinds, PortKinds, LegKinds
    <2>2. \A p, q : ~Reroutes(t, p) /\ ~Concerns(t, p, q)
      BY <2>1 DEF Reroutes, Concerns
    <2>3. UNCHANGED job
      BY <1>1, <1>7
    <2>4. \A x \in Workers : TellsJob(job[x])'
      BY <1>3, <2>3, TellsIdle DEF At, TellsJob
    <2> QED  BY <1>5, <1>6, <2>2, <2>4 DEF CompleteInv
  <1>8. CASE ACTIONS_CLASS[t.kind] # "idle"
    <2> DEFINE pc == ACTIONS_CLASS[t.kind]
               a == [IdleJob EXCEPT !.pc = pc, !.log = t]
    <2>1. pc \in {"get_port", "sg", "router_update", "attach", "detach"}
      BY <1>4, <1>8 DEF ACTIONS_CLASS, AllKinds, PortKinds, LegKinds
    <2>2. Goto(w, a) /\ a.pc = pc /\ a.log = t
      BY <1>1, <1>8 DEF IdleJob
    <2> HIDE DEF a, pc
    <2>3. job'[w] = a /\ \A x \in Workers : job'[x] = IF x = w THEN a ELSE job[x]
      BY <2>2 DEF Goto, TypeInv, TypeOK
    <2>4. \A p : Untold(a, p)
      BY <2>1, <2>2 DEF Untold
    <2>5. \A x \in Workers :
            job'[x].pc \notin {"update", "state", "agent", "apply", "delete1", "delete2"}
      BY <1>3, <2>1, <2>2, <2>3 DEF At
    <2>6. \A x \in Workers : TellsJob(job[x])'
      BY <2>5 DEF TellsJob
    <2>7. /\ \A p : Reroutes(t, p) => RoutesDue(p)'
          /\ \A p, q : Concerns(t, p, q) => KnowsDue(p, q)'
      BY <2>2, <2>3, <2>4 DEF RoutesDue, KnowsDue, Reroutes, Concerns, Untold
    <2> QED  BY <1>5, <1>6, <2>6, <2>7 DEF CompleteInv
  <1> QED  BY <1>7, <1>8

(* While nothing is committed and not handled, nothing is left to tell.     *)
LEMMA CompleteQuiet ==
  ASSUME CompleteInv, AllIdle, tx # {} \/ logs = {}
  PROVE  /\ \A p \in Bound(port) : Routes(vm[VmOf[p]], p)
         /\ \A p, q \in Bound(port) : Reach(p, q) => Knows(vm[VmOf[p]], p, q)
  BY DEF CompleteInv, RoutesDue, KnowsDue, Untold, AllIdle, At

LEMMA CompleteBegin ==
  ASSUME TypeInv, CompleteInv, Quiet, Begin, UNCHANGED agentVars
  PROVE  CompleteInv'
  <1>1. UNCHANGED <<port, legs, up>>
    BY DEF Begin, BeginRequest
  <1>2. UNCHANGED <<job, vm>>
    BY DEF agentVars
  <1>3. /\ \A p \in Bound(port) : Routes(vm[VmOf[p]], p)
        /\ \A p, q \in Bound(port) : Reach(p, q) => Knows(vm[VmOf[p]], p, q)
    BY CompleteQuiet DEF Quiet
  <1>4. /\ Bound(port)' = Bound(port)
        /\ \A p, q : Reach(p, q)' = Reach(p, q)
        /\ \A p : Routes(vm[VmOf[p]], p)' = Routes(vm[VmOf[p]], p)
        /\ \A p, q : Knows(vm[VmOf[p]], p, q)' = Knows(vm[VmOf[p]], p, q)
    BY <1>1, <1>2 DEF Bound, Reach, Routed, Routes, Knows
  <1>5. \A x \in Workers : TellsJob(job[x])'
    BY <1>2 DEF Quiet, AllIdle, At, TellsJob
  <1> QED  BY <1>3, <1>4, <1>5 DEF CompleteInv

LEMMA CompleteCommit ==
  ASSUME TypeInv, ReadInv, CompleteInv, AllIdle, NEW t \in tx, Commit(t),
         UNCHANGED agentVars
  PROVE  CompleteInv'
  <1>1. tx = {t} /\ logs = {t} /\ tx' = {} /\ logs' = {t}
    BY DEF ReadInv, OneAtATime, Commit
  <1>2. UNCHANGED <<job, vm>>
    BY DEF agentVars
  <1>3. /\ \A p \in Bound(port) : Routes(vm[VmOf[p]], p)
        /\ \A p, q \in Bound(port) : Reach(p, q) => Knows(vm[VmOf[p]], p, q)
    BY <1>1, CompleteQuiet
  <1>4. \A x \in Workers : TellsJob(job[x])'
    BY <1>2 DEF AllIdle, At, TellsJob
  <1>5. /\ \A p : Reroutes(t, p) => RoutesDue(p)'
        /\ \A p, q : Concerns(t, p, q) => KnowsDue(p, q)'
    BY <1>1 DEF RoutesDue, KnowsDue, Reroutes, Concerns
  <1>6. t.kind \in AllKinds /\ port \in Table
    BY SerialFacts DEF TypeInv, TypeOK, ApiTypeOK, Request
  <1>7. ASSUME NEW p \in Bound(port')
        PROVE  \/ t.kind = "bind_port" /\ t.obj = p
               \/ p \in Bound(port) /\ port'[p] = port[p]
    <2>1. CASE t.kind \in PortKinds /\ p = t.obj
      <3>1. port'[p] = WrittenPort(t)
        BY <1>6, <1>7, <2>1 DEF Commit, Bound, Table
      <3>2. t.kind = "bind_port"
        BY <1>7, <2>1, <3>1 DEF Bound, WrittenPort, Absent, PortKinds
      <3> QED  BY <2>1, <3>2
    <2>2. CASE ~(t.kind \in PortKinds /\ p = t.obj)
      BY <1>6, <1>7, <2>2 DEF Commit, Bound, Table
    <2> QED  BY <2>1, <2>2
  <1>8. t.kind \notin {"attach", "update_router"} => legs' \subseteq legs /\ up' = up
    BY <1>6 DEF Commit
  <1>9. ASSUME NEW p \in Bound(port')
        PROVE  Routes(vm[VmOf[p]], p)' \/ RoutesDue(p)'
    <2>1. CASE Reroutes(t, p)
      BY <1>5, <2>1
    <2>2. CASE ~Reroutes(t, p)
      <3>1. p \in Bound(port) /\ legs' \subseteq legs /\ up' = up
        BY <1>7, <1>8, <2>2 DEF Reroutes
      <3> QED  BY <1>2, <1>3, <3>1 DEF Routes
    <2> QED  BY <2>1, <2>2
  <1>10. ASSUME NEW p \in Bound(port'), NEW q \in Bound(port'), Reach(p, q)'
         PROVE  Knows(vm[VmOf[p]], p, q)' \/ KnowsDue(p, q)'
    <2>1. CASE Concerns(t, p, q)
      BY <1>5, <2>1
    <2>2. CASE ~Concerns(t, p, q)
      <3>1. p \in Bound(port) /\ q \in Bound(port) /\ port'[q] = port[q]
        BY <1>7, <2>2 DEF Concerns
      <3>2. Reach(p, q)
        BY <1>8, <1>10, <2>2 DEF Concerns, Reach, Routed
      <3> QED  BY <1>2, <1>3, <3>1, <3>2 DEF Knows
    <2> QED  BY <2>1, <2>2
  <1> QED  BY <1>4, <1>9, <1>10 DEF CompleteInv, Bound

LEMMA CompleteInit == Init => CompleteInv
  <1> SUFFICES ASSUME Init PROVE CompleteInv
    OBVIOUS
  <1>1. \A w \in Workers : TellsJob(job[w])
    BY TellsIdle DEF Init, IdleJob
  <1>2. ASSUME NEW p \in Bound(port)
        PROVE  p \in InitPorts /\ Warm /\ vm[VmOf[p]] = WarmDb(VmOf[p]) /\ legs = Nets
    <2>1. p \in InitPorts /\ Warm /\ VmOf[p] \in Vms
      BY TopologyFacts DEF Init, ApiInit, Bound, Absent
    <2> QED  BY <2>1 DEF Init, ApiInit, WarmVms
  <1>3. \A v : /\ WarmDb(v).lport = port /\ WarmDb(v).lswitch = Nets
               /\ WarmDb(v).chassis = Chassis(port) /\ WarmDb(v).lrouter = {Nets}
    BY DEF WarmDb, ToDb
  <1>4. ASSUME NEW p \in Bound(port) PROVE Routes(vm[VmOf[p]], p)
    BY <1>2, <1>3 DEF Routes
  <1>5. ASSUME NEW p \in Bound(port), NEW q \in Bound(port)
        PROVE  Knows(vm[VmOf[p]], p, q)
    BY <1>2, <1>3, TopologyFacts DEF Knows, Chassis
  <1> QED  BY <1>1, <1>4, <1>5 DEF CompleteInv

LEMMA CompleteStep ==
  ASSUME OnePortPerVm, NothingFails
  PROVE  TypeInv /\ ReadInv /\ CompleteInv /\ [SerialNext]_vars => CompleteInv'
  <1> SUFFICES ASSUME TypeInv, ReadInv, CompleteInv, [SerialNext]_vars
               PROVE  CompleteInv'
    OBVIOUS
  <1>1. CASE UNCHANGED vars
    <2>1. UNCHANGED <<port, legs, up, tx, logs, job, vm>>
      BY <1>1 DEF vars
    <2>2. \A w \in Workers : TellsJob(job[w])'
      BY <2>1 DEF CompleteInv, TellsJob, Honest, Names, Spared, Routes, Knows, Reach,
                  Routed, Bound
    <2>3. /\ Bound(port)' = Bound(port)
          /\ \A p, q : Reach(p, q)' = Reach(p, q)
          /\ \A p : Routes(vm[VmOf[p]], p)' = Routes(vm[VmOf[p]], p)
          /\ \A p, q : Knows(vm[VmOf[p]], p, q)' = Knows(vm[VmOf[p]], p, q)
          /\ \A p : RoutesDue(p)' = RoutesDue(p)
          /\ \A p, q : KnowsDue(p, q)' = KnowsDue(p, q)
      BY <2>1 DEF Bound, Reach, Routed, Routes, Knows, RoutesDue, KnowsDue, Reroutes,
                  Concerns, Untold
    <2> QED  BY <2>2, <2>3 DEF CompleteInv
  <1>2. CASE Quiet /\ Begin /\ UNCHANGED agentVars
    BY <1>2, CompleteBegin
  <1>3. CASE AllIdle /\ (\E t \in tx : Commit(t)) /\ UNCHANGED agentVars
    BY <1>3, CompleteCommit
  <1>4. ASSUME tx = {}, NEW w \in Workers, WorkerNext(w) PROVE CompleteInv'
    BY <1>4, CompleteProcess, CompleteHandle DEF WorkerNext, WorkerDies, NothingFails
  <1>5. ~LateDelivery
    BY DEF LateDelivery, ReadInv, OneAtATime
  <1> QED  BY <1>1, <1>2, <1>3, <1>4, <1>5 DEF SerialNext, Rest

LEMMA CompleteHolds ==
  ASSUME ReadInv, CompleteInv PROVE Complete
  <1> SUFFICES ASSUME Quiet, NEW p \in Bound(port), NEW q \in Bound(port), Reach(p, q)
               PROVE  LET db == vm[VmOf[p]]
                      IN  /\ db.lport[q] = port[q]
                          /\ VmOf[q] \in db.chassis
                          /\ NetOf[q] \in db.lswitch
                          /\ NetOf[p] # NetOf[q] =>
                               \E r \in db.lrouter : {NetOf[p], NetOf[q]} \subseteq r
    BY DEF Complete, Reach
  <1>1. /\ Routes(vm[VmOf[p]], p)
        /\ Knows(vm[VmOf[p]], p, q) /\ Knows(vm[VmOf[p]], p, p)
    BY CompleteQuiet DEF Quiet, Reach
  <1>2. CASE NetOf[p] = NetOf[q]
    BY <1>1, <1>2 DEF Knows
  <1>3. CASE NetOf[p] # NetOf[q]
    <2>1. Distributed /\ up /\ NetOf[p] \in legs /\ NetOf[q] \in legs
      BY <1>3 DEF Reach, Routed
    <2>2. legs \subseteq vm[VmOf[p]].lswitch /\ \E r \in vm[VmOf[p]].lrouter : legs \subseteq r
      BY <1>1, <2>1 DEF Routes
    <2> QED  BY <1>1, <2>1, <2>2 DEF Knows
  <1> QED  BY <1>2, <1>3

(* With one port per VM, requests one at a time and nothing that fails: when*)
(* all is handled, the VM of a bound port holds every bound port it can     *)
(* reach, as it is committed, the tunnel to it, its switch and the router   *)
(* between them.  What PortUpdateAction sends to the neighbours, what it    *)
(* applies to the port's own VM, what RouterIfaceAttachAction sends to all  *)
(* and what the two deletes of RouterIfaceDetachAction leave in place add up*)
(* to it, whatever the requests were.                                       *)
THEOREM NeighboursReachVms ==
  ASSUME OnePortPerVm, NothingFails
  PROVE  SerialSpec => []Complete
  <1>1. Init => TypeInv /\ ReadInv /\ CompleteInv
    BY TypeInit, ReadInit, CompleteInit
  <1>2. TypeInv /\ (ReadInv /\ CompleteInv) /\ [SerialNext]_vars
        => (ReadInv /\ CompleteInv)'
    BY ReadStep, CompleteStep
  <1>3. ReadInv /\ CompleteInv => Complete
    BY CompleteHolds
  <1> QED  BY <1>1, <1>2, <1>3, SerialTypes, PTL DEF SerialSpec
-----------------------------------------------------------------------------
(* Isolated.                                                                *)

(* No port appears or disappears and no router is disabled.                 *)
PortsStay ==
  Kinds \cap {"create_port", "delete_port", "update_router"} = {}

(* The handler of log t, before its first step.                             *)
Fresh(t) == [IdleJob EXCEPT !.pc = ACTIONS_CLASS[t.kind], !.log = t]

(* Request t calls for giving port q to the VM of port p.                   *)
Fills(t, p, q) ==
  \/ t.kind = "attach" /\ NetOf[p] # NetOf[q]
  \/ t.kind = "bind_port" /\ t.obj = p

(* The router led from p to q before network n was detached.                *)
WasRouted(p, q, n) ==
  /\ Distributed
  /\ \/ NetOf[p] = n /\ NetOf[q] \in legs
     \/ NetOf[q] = n /\ NetOf[p] \in legs

(* The detach has not been sent to the VM of port p yet.                    *)
Uncut(j, p) ==
  /\ j.log.kind = "detach"
  /\ \/ j.pc \in {"detach", "gone_ports", "router_ports", "network_ports"}
     \/ j.pc = "delete1" /\ (NetOf[p] \in legs => VmOf[p] \in j.dest)
     \/ j.pc = "delete2" /\ NetOf[p] = j.log.obj /\ VmOf[p] \in j.dest

(* Database d, of the VM of port p, holds all ports that p reaches, bound   *)
(* or not, up to what handler j is still to bring.                          *)
Filled(d, j, p) ==
  \A q \in Present(port) : Reach(p, q) =>
    q \in Present(d.lport) \/ (Fills(j.log, p, q) /\ Untold(j, p))

(* It holds no other port, up to what j is still to remove or to replace.   *)
Clean(d, j, p) ==
  \/ j.log.kind = "bind_port" /\ j.log.obj = p /\ Untold(j, p)
  \/ \A q \in Present(d.lport) :
       /\ q \in Present(port)
       /\ Reach(p, q) \/ (Uncut(j, p) /\ WasRouted(p, q, j.log.obj))

(* It holds all that j is still to remove: the delete will not stop.        *)
Removable(d, j, p) ==
  Uncut(j, p) =>
    /\ \A q \in Present(port) : WasRouted(p, q, j.log.obj) => q \in Present(d.lport)
    /\ \A q \in Bound(port) : WasRouted(p, q, j.log.obj) => VmOf[q] \in d.chassis
    /\ Distributed /\ NetOf[p] = j.log.obj => legs \subseteq d.lswitch

Fits(d, j, p) == Filled(d, j, p) /\ Clean(d, j, p) /\ Removable(d, j, p)

AllFit(j) == \A p \in Bound(port) : Fits(vm[VmOf[p]], j, p)

(* The handler's messages hold the ports they should, and go where they     *)
(* should.                                                                  *)
FitsJob(j) ==
  /\ j.log.kind \in Kinds \cup {"none"}
  /\ j.pc = "update" =>
       /\ Present(j.out.lport) \subseteq Present(port)
       /\ \A p \in Bound(port) : VmOf[p] \in j.dest =>
            \A q \in Present(j.out.lport) : Reach(p, q)
       /\ j.log.kind = "attach" /\ Distributed =>
            \A q \in Present(port) : NetOf[q] \in legs => q \in Present(j.out.lport)
  /\ j.log.kind \in PortKinds /\ j.pc \in {"update", "state", "agent", "apply"} =>
       \A q \in Ports : q \in Present(j.info.lport) <=>
                          q \in Present(port) /\ Reach(j.log.obj, q)
  /\ j.pc = "delete1" => /\ j.out = ToDb(j.gone, {}, FALSE)
                         /\ j.dest \subseteq VmsOf(j.snap, {})
  /\ j.pc = "delete2" => /\ j.out = ToDb(j.snap, j.topo, TRUE)
                         /\ j.dest \subseteq VmsOf(j.gone, {})

(* What a VM holds is what its port reaches, up to what the request that is *)
(* committed, or its handler, is still to change.                           *)
IsolatedInv ==
  /\ up
  /\ \A t \in tx \cup logs : t.kind \in Kinds
  /\ \A t \in tx : /\ t.kind = "detach" => t.obj \in legs
                   /\ t.kind \in PortKinds => t.obj \in Present(port)
  /\ \A w \in Workers : FitsJob(job[w])
  /\ \A w \in Workers : ~At(w, "idle") => AllFit(job[w])
  /\ tx = {} => \A t \in logs : AllFit(Fresh(t))
  /\ AllIdle /\ (tx # {} \/ logs = {}) => AllFit(IdleJob)

LEMMA NobodyOwes ==
  /\ \A p : ~Uncut(IdleJob, p) /\ ~Untold(IdleJob, p)
  /\ \A p, q : ~Fills(IdleJob.log, p, q)
  /\ IdleJob.log.kind = "none"
  BY DEF IdleJob, NoLog, Uncut, Untold, Fills

LEMMA FitsIdle ==
  ASSUME NEW j, j.log.kind \in Kinds \cup {"none"},
         j.pc \notin {"update", "state", "agent", "apply", "delete1", "delete2"}
  PROVE  FitsJob(j)
  BY DEF FitsJob

(* A handler that still has as much to bring and to remove.                 *)
LEMMA FitsGoes ==
  ASSUME NEW d, NEW j, NEW a, NEW p, Fits(d, j, p), a.log = j.log,
         Untold(j, p) => Untold(a, p), Uncut(a, p) <=> Uncut(j, p)
  PROVE  Fits(d, a, p)
  BY DEF Fits, Filled, Clean, Removable

(* A handler that ends with nothing to bring or to remove.                  *)
LEMMA FitsEnds ==
  ASSUME NEW d, NEW j, NEW p, Fits(d, j, p),
         ~(j.log.kind = "bind_port" /\ j.log.obj = p /\ Untold(j, p)),
         \A q : ~(Fills(j.log, p, q) /\ Untold(j, p) /\ Reach(p, q)),
         \A q : ~(Uncut(j, p) /\ WasRouted(p, q, j.log.obj))
  PROVE  Fits(d, IdleJob, p)
  BY NobodyOwes DEF Fits, Filled, Clean, Removable

(* A delete whose entries the VM holds removes them all.                    *)
LEMMA DeleteAll ==
  ASSUME NEW db \in Db, NEW m \in Db, NEW d \in DeleteDb(db, m),
         Present(m.lport) \subseteq Present(db.lport), m.lswitch \subseteq db.lswitch,
         m.chassis \subseteq db.chassis, ChassisTwice(m.lport) = {}
  PROVE  \A q \in Ports : d.lport[q] = IF q \in Present(m.lport) THEN Absent
                                       ELSE db.lport[q]
  <1> DEFINE ports    == Present(m.lport)
             switches == m.lswitch \cap db.lswitch
             chassis  == m.chassis \cap db.chassis
  <1>1. ports \cap Present(db.lport) = ports /\ switches = m.lswitch
    OBVIOUS
  <1>2. d = Remove(db, ports, switches, chassis, m.lrouter # {})
    BY <1>1 DEF DeleteDb
  <1> QED  BY <1>2 DEF Remove

(* No two of the ports read are on one VM.                                  *)
LEMMA NoneTwice ==
  ASSUME OnePortPerVm, NEW snap
  PROVE  ChassisTwice(snap) = {}
  BY DEF OnePortPerVm, ChassisTwice, Bound
-----------------------------------------------------------------------------
(* The handler moves to a, and every VM fits it.                            *)
LEMMA IsolatedFrame ==
  ASSUME TypeInv, OneAtATime, IsolatedInv, NEW w \in Workers, ~At(w, "idle"),
         NEW a, Goto(w, a), FitsJob(a), a = IdleJob \/ a.pc # "idle",
         UNCHANGED <<port, legs, up, tx, logs, late, cut>>,
         \A p \in Bound(port) : Fits(vm[VmOf[p]], job[w], p) => Fits(vm'[VmOf[p]], a, p)
  PROVE  IsolatedInv'
  <1>1. /\ tx = {} /\ logs = {}
        /\ \A x \in Workers : job'[x] = IF x = w THEN a ELSE job[x]
        /\ \A x \in Workers \ {w} : At(x, "idle")
    BY OneMoves
  <1>2. Bound(port') = Bound(port) /\ Present(port') = Present(port)
    OBVIOUS
  <1>3. \A x \in Workers : FitsJob(job'[x])
    BY <1>1 DEF IsolatedInv
  <1>4. ASSUME NEW x \in Workers PROVE FitsJob(job[x])'
    <2>1. FitsJob(job'[x])
      BY <1>3
    <2>2. \A p, q : Reach(p, q)' = Reach(p, q)
      BY DEF Reach, Routed
    <2> QED  BY <1>2, <2>1, <2>2 DEF FitsJob
  <1>5. \A p \in Bound(port) : Fits(vm'[VmOf[p]], a, p)
    BY DEF IsolatedInv, AllFit
  <1>6. \A p \in Bound(port) : \A j :
          Fits(vm'[VmOf[p]], j, p) => Fits(vm[VmOf[p]], j, p)'
    BY DEF Fits, Filled, Clean, Removable, Fills, Untold, Uncut, WasRouted, Reach, Routed
  <1>7. \A x \in Workers : ~At(x, "idle")' => AllFit(job[x])'
    BY <1>1, <1>2, <1>5, <1>6 DEF AllFit, At
  <1>8. AllIdle' => AllFit(IdleJob)'
    BY <1>1, <1>2, <1>5, <1>6 DEF AllFit, AllIdle, At
  <1> QED  BY <1>1, <1>4, <1>7, <1>8 DEF IsolatedInv

(* What PortUpdateAction makes of its queries.                              *)
LEMMA PortFits ==
  ASSUME OnePortPerVm, up, TypeInv, NEW j \in Job, ReadJob(j), j.log.kind \in PortKinds,
         j.pc = "network_ports", j.todo = {},
         NEW o, o = PortDb(j.log.obj, j.snap),
         NEW i, i = PortToDb(j.log.obj, j.snap, j.topo, j.router, rules)
  PROVE  /\ Present(o.lport) \subseteq Present(port)
         /\ \A p \in Bound(port) : VmOf[p] \in VmsOf(j.snap, {j.log.obj}) =>
              \A q \in Present(o.lport) : Reach(p, q)
         /\ \A q \in Ports : q \in Present(i.lport) <=>
                               q \in Present(port) /\ Reach(j.log.obj, q)
  <1> DEFINE r == j.log.obj
  <1>1. /\ j.topo = Topo(j)
        /\ \A q \in Ports : j.snap[q] = IF NetOf[q] \in j.topo \cup OwnNet(j)
                                        THEN port[q] ELSE Absent
    BY AllReadFacts DEF PortKinds
  <1>2. r \in Bound(port) /\ r \in Ports /\ OwnNet(j) = {NetOf[r]}
    BY TopologyFacts DEF ReadJob, OwnNet
  <1>3. \A q \in Ports : NetOf[q] \in j.topo \cup OwnNet(j) <=> Reach(r, q)
    BY <1>1, <1>2 DEF Reach, Routed, Topo, OnRouter
  <1>4. \A p : Reach(r, p) => Reach(p, r)
    BY DEF Reach, Routed
  <1>5. \A q \in Ports : q \in Present(j.snap) <=> q \in Present(port) /\ Reach(r, q)
    BY <1>1, <1>3 DEF Present, Absent
  <1>6. \A q \in Present(o.lport) : q = r
    BY DEF PortDb, EmptyDb, NoPorts, Present, Absent
  <1>7. r \in Present(port)
    BY <1>2, SerialFacts
  <1>8. ASSUME NEW p \in Bound(port), VmOf[p] \in VmsOf(j.snap, {r})
        PROVE  Reach(p, r)
    <2>1. PICK q \in Bound(j.snap) : VmOf[q] = VmOf[p]
      BY <1>8 DEF VmsOf
    <2>2. q = p /\ p \in Ports /\ j.snap[p].bound
      BY <2>1, TopologyFacts DEF OnePortPerVm, Bound
    <2>3. NetOf[p] \in j.topo \cup OwnNet(j)
      BY <1>1, <2>2 DEF Absent
    <2> QED  BY <1>3, <1>4, <2>2, <2>3
  <1>9. i.lport = j.snap
    BY DEF PortToDb, ToDb
  <1> QED  BY <1>5, <1>6, <1>7, <1>8, <1>9

(* What RouterIfaceAttachAction makes of its queries.                       *)
LEMMA AttachFits ==
  ASSUME OnePortPerVm, up, TypeInv, NEW j \in Job, ReadJob(j), j.log.kind = "attach",
         j.pc = "network_ports", j.todo = {},
         NEW o, o = ToDb(j.snap, j.topo, TRUE)
  PROVE  /\ Present(o.lport) \subseteq Present(port)
         /\ \A p \in Bound(port) : VmOf[p] \in VmsOf(j.snap, {}) =>
              \A q \in Present(o.lport) : Reach(p, q)
         /\ Distributed => \A q \in Present(port) : NetOf[q] \in legs =>
              q \in Present(o.lport)
         /\ Distributed => \A p \in Bound(port) : NetOf[p] \in legs =>
              VmOf[p] \in VmsOf(j.snap, {})
  <1>1. /\ j.topo = Topo(j)
        /\ \A q \in Ports : j.snap[q] = IF NetOf[q] \in j.topo \cup OwnNet(j)
                                        THEN port[q] ELSE Absent
    BY AllReadFacts DEF PortKinds
  <1>2. OwnNet(j) = {} /\ j.topo = IF Distributed THEN legs ELSE {}
    BY <1>1 DEF OwnNet, OnRouter, Topo, PortKinds
  <1>3. o.lport = j.snap
    BY DEF ToDb
  <1>4. \A q \in Ports : q \in Present(j.snap) <=> q \in Present(port) /\ NetOf[q] \in j.topo
    BY <1>1, <1>2 DEF Present, Absent
  <1>5. \A q \in Ports : q \in Bound(j.snap) <=> q \in Bound(port) /\ NetOf[q] \in j.topo
    BY <1>1, <1>2 DEF Bound, Absent
  <1>6. \A p \in Bound(port) : VmOf[p] \in VmsOf(j.snap, {}) => NetOf[p] \in j.topo
    BY <1>5 DEF VmsOf, OnePortPerVm, Bound
  <1>7. \A p, q : NetOf[p] \in j.topo /\ NetOf[q] \in j.topo => Reach(p, q)
    BY <1>2 DEF Reach, Routed
  <1>8. Present(o.lport) \subseteq Present(port)
    BY <1>3, <1>4 DEF Present
  <1>9. \A q \in Present(o.lport) : NetOf[q] \in j.topo
    BY <1>3, <1>4 DEF Present
  <1>10. Distributed => \A q \in Present(port) : NetOf[q] \in legs => q \in Present(o.lport)
    BY <1>2, <1>3, <1>4 DEF Present
  <1>11. Distributed => \A p \in Bound(port) : NetOf[p] \in legs =>
           VmOf[p] \in VmsOf(j.snap, {})
    BY <1>2, <1>5 DEF VmsOf, Bound
  <1> QED  BY <1>6, <1>7, <1>8, <1>9, <1>10, <1>11

(* What RouterIfaceDetachAction has read.                                   *)
LEMMA DetachFits ==
  ASSUME OnePortPerVm, NEW j, ReadJob(j), j.log.kind = "detach",
         j.pc \in AfterRead \/ (j.pc = "network_ports" /\ j.todo = {})
  PROVE  /\ j.log.obj \notin legs
         /\ j.topo = IF Distributed THEN legs ELSE {}
         /\ \A q \in Ports :
              /\ q \in Present(j.snap) <=> q \in Present(port) /\ NetOf[q] \in j.topo
              /\ q \in Bound(j.snap) <=> q \in Bound(port) /\ NetOf[q] \in j.topo
              /\ q \in Present(j.gone) <=> q \in Present(port) /\ NetOf[q] = j.log.obj
              /\ q \in Bound(j.gone) <=> q \in Bound(port) /\ NetOf[q] = j.log.obj
         /\ \A p \in Bound(port) :
              /\ VmOf[p] \in VmsOf(j.snap, {}) <=> NetOf[p] \in j.topo
              /\ VmOf[p] \in VmsOf(j.gone, {}) <=> NetOf[p] = j.log.obj
  <1>1. /\ j.topo = Topo(j)
        /\ \A q \in Ports : j.snap[q] = IF NetOf[q] \in j.topo \cup OwnNet(j)
                                        THEN port[q] ELSE Absent
    BY AllReadFacts
  <1>2. OwnNet(j) = {} /\ j.log.obj \notin legs /\ j.topo = IF Distributed THEN legs ELSE {}
    BY <1>1 DEF OwnNet, OnRouter, Topo, PortKinds, ReadJob, AfterRead
  <1>3. \A q \in Ports : j.gone[q] = IF NetOf[q] = j.log.obj THEN port[q] ELSE Absent
    BY DEF ReadJob, AfterRead
  <1>4. \A q \in Ports :
              /\ q \in Present(j.snap) <=> q \in Present(port) /\ NetOf[q] \in j.topo
              /\ q \in Present(j.gone) <=> q \in Present(port) /\ NetOf[q] = j.log.obj
    BY <1>1, <1>2, <1>3 DEF Present, Absent
  <1>5. \A q \in Ports :
              /\ q \in Bound(j.snap) <=> q \in Bound(port) /\ NetOf[q] \in j.topo
              /\ q \in Bound(j.gone) <=> q \in Bound(port) /\ NetOf[q] = j.log.obj
    BY <1>1, <1>2, <1>3 DEF Bound, Absent
  <1>6. \A p \in Bound(port) :
              /\ VmOf[p] \in VmsOf(j.snap, {}) <=> NetOf[p] \in j.topo
              /\ VmOf[p] \in VmsOf(j.gone, {}) <=> NetOf[p] = j.log.obj
    BY <1>5 DEF VmsOf, OnePortPerVm, Bound
  <1> QED  BY <1>2, <1>4, <1>5, <1>6

(* A delete of RouterIfaceDetachAction removes all it names: the VM holds it.*)
LEMMA Disconnects ==
  ASSUME OnePortPerVm, NEW j \in Job, ReadJob(j), FitsJob(j), j.log.kind = "detach",
         j.pc \in {"delete1", "delete2"}, NEW p \in Bound(port), VmOf[p] \in j.dest,
         NEW db \in Db, Fits(db, j, p), NEW d \in DeleteDb(db, j.out),
         NEW a, a.pc = j.pc, a.log = j.log, a.dest = j.dest \ {VmOf[p]}
  PROVE  Fits(d, a, p)
  <1> DEFINE n == j.log.obj
  <1>1. /\ n \notin legs
        /\ j.topo = IF Distributed THEN legs ELSE {}
        /\ \A q \in Ports :
             /\ q \in Present(j.snap) <=> q \in Present(port) /\ NetOf[q] \in j.topo
             /\ q \in Bound(j.snap) <=> q \in Bound(port) /\ NetOf[q] \in j.topo
             /\ q \in Present(j.gone) <=> q \in Present(port) /\ NetOf[q] = n
             /\ q \in Bound(j.gone) <=> q \in Bound(port) /\ NetOf[q] = n
        /\ VmOf[p] \in VmsOf(j.snap, {}) <=> NetOf[p] \in j.topo
        /\ VmOf[p] \in VmsOf(j.gone, {}) <=> NetOf[p] = n
    BY DetachFits DEF AfterRead
  <1>2. j.out \in Db /\ ChassisTwice(j.out.lport) = {}
    BY NoneTwice DEF Job
  <1>3. /\ \A q \in Present(port) : Reach(p, q) => q \in Present(db.lport)
        /\ \A q \in Present(db.lport) :
             /\ q \in Present(port)
             /\ Reach(p, q) \/ (Uncut(j, p) /\ WasRouted(p, q, n))
    BY DEF Fits, Filled, Clean, Fills
  <1>4. p \in Ports /\ \A q : q \in Present(port) \/ q \in Bound(port) => q \in Ports
    BY DEF Present, Bound
  (* The delete names nothing p reaches and all that it was routed to.      *)
  <1>5. ASSUME Uncut(j, p), ~Uncut(a, p),
               \A q \in Present(port) : Reach(p, q) => q \notin Present(j.out.lport),
               \A q \in Present(port) : WasRouted(p, q, n) => q \in Present(j.out.lport),
               Present(j.out.lport) \subseteq Present(db.lport),
               j.out.lswitch \subseteq db.lswitch, j.out.chassis \subseteq db.chassis
        PROVE  Fits(d, a, p)
    <2>1. \A q \in Ports : d.lport[q] = IF q \in Present(j.out.lport) THEN Absent
                                        ELSE db.lport[q]
      BY <1>2, <1>5, DeleteAll
    <2>2. \A q \in Ports : q \in Present(d.lport) <=>
                             q \in Present(db.lport) /\ q \notin Present(j.out.lport)
      BY <2>1 DEF Present, Absent
    <2>3. Filled(d, a, p)
      BY <1>3, <1>4, <1>5, <2>2 DEF Filled
    <2>4. \A q \in Present(d.lport) : q \in Ports
      BY DEF Present
    <2>5. Clean(d, a, p)
      BY <1>3, <1>5, <2>2, <2>4 DEF Clean
    <2> QED  BY <1>5, <2>3, <2>5 DEF Fits, Removable
  <1>6. CASE j.pc = "delete1"
    <2>1. /\ j.out.lport = j.gone /\ j.out.lswitch = {} /\ j.out.chassis = Chassis(j.gone)
          /\ VmOf[p] \in VmsOf(j.snap, {})
      BY <1>6 DEF FitsJob, ToDb
    <2>2. NetOf[p] \in legs /\ Distributed
      BY <1>1, <2>1
    <2>3. Uncut(j, p) /\ ~Uncut(a, p)
      BY <1>6, <2>2 DEF Uncut
    <2>4. /\ \A q \in Present(port) : WasRouted(p, q, n) => q \in Present(db.lport)
          /\ \A q \in Bound(port) : WasRouted(p, q, n) => VmOf[q] \in db.chassis
      BY <2>3 DEF Fits, Removable
    <2>5. \A q : WasRouted(p, q, n) <=> NetOf[q] = n
      BY <1>1, <2>2 DEF WasRouted
    <2>6. \A q : Reach(p, q) => NetOf[q] # n
      BY <1>1, <2>2 DEF Reach, Routed
    <2>7. Present(j.gone) \subseteq Present(db.lport)
      BY <1>1, <1>4, <2>4, <2>5 DEF Present
    <2>8. Chassis(j.gone) \subseteq db.chassis
      BY <1>1, <2>4, <2>5 DEF Chassis, Bound
    <2> QED  BY <1>1, <1>4, <1>5, <2>1, <2>3, <2>5, <2>6, <2>7, <2>8
  <1>7. CASE j.pc = "delete2"
    <2>1. /\ j.out.lport = j.snap /\ j.out.lswitch = j.topo
          /\ j.out.chassis = Chassis(j.snap) /\ VmOf[p] \in VmsOf(j.gone, {})
      BY <1>7 DEF FitsJob, ToDb
    <2>2. NetOf[p] = n /\ NetOf[p] \notin legs
      BY <1>1, <2>1
    <2>3. Uncut(j, p) /\ ~Uncut(a, p)
      BY <1>7, <2>2 DEF Uncut
    <2>4. /\ \A q \in Present(port) : WasRouted(p, q, n) => q \in Present(db.lport)
          /\ \A q \in Bound(port) : WasRouted(p, q, n) => VmOf[q] \in db.chassis
          /\ Distributed => legs \subseteq db.lswitch
      BY <2>2, <2>3 DEF Fits, Removable
    <2>5. \A q : WasRouted(p, q, n) <=> NetOf[q] \in j.topo
      BY <1>1, <2>2 DEF WasRouted
    <2>6. \A q : Reach(p, q) => NetOf[q] \notin j.topo
      BY <1>1, <2>2 DEF Reach, Routed
    <2>7. Present(j.snap) \subseteq Present(db.lport)
      BY <1>1, <1>4, <2>4, <2>5 DEF Present
    <2>8. Chassis(j.snap) \subseteq db.chassis
      BY <1>1, <2>4, <2>5 DEF Chassis, Bound
    <2>9. j.topo \subseteq db.lswitch
      BY <1>1, <2>4
    <2> QED  BY <1>1, <1>4, <1>5, <2>1, <2>3, <2>5, <2>6, <2>7, <2>8, <2>9
  <1> QED  BY <1>6, <1>7

LEMMA IsolatedHandle ==
  ASSUME OnePortPerVm, NothingFails, PortsStay, TypeInv, ReadInv, IsolatedInv,
         NEW w \in Workers, Handle(w)
  PROVE  IsolatedInv'
  <1> DEFINE j == job[w]
  <1>0. /\ OneAtATime /\ j \in Job /\ JobOK(j) /\ ReadJob(j) /\ FitsJob(j) /\ up
        /\ port \in Table /\ vm \in [Vms -> Db]
    BY SerialFacts DEF ReadInv, IsolatedInv
  <1>i. ~At(w, "idle")
    BY DEF Handle, At, GetPort, GetRoutersForNet, GetPortsFromRouter,
           GetNetworkPorts, AllRead, PortInfo, State, RegisterAgent, Apply, CallFails,
           AddEndpoint, BulkUpdate, BulkDelete, BulkLost, BulkDone,
           SecurityGroupUpdate, RouterUpdate, RouterIfaceAttach, AttachInfo,
           RouterIfaceDetach, GetDetachedPorts, Disconnect1, Disconnect2
  <1>k. j.log.kind # "update_router" /\ j.log.kind \in Kinds \cup {"none"}
    BY <1>0 DEF FitsJob, PortsStay
  (* The tables and the VMs stay, the handler goes on or ends.              *)
  <1>m. ASSUME NEW a, Goto(w, a), FitsJob(a), a = IdleJob \/ a.pc # "idle",
               UNCHANGED <<port, legs, up, tx, logs, late, cut, vm>>,
               \A p \in Bound(port) : \A d : Fits(d, j, p) => Fits(d, a, p)
        PROVE  IsolatedInv'
    BY <1>0, <1>i, <1>m, IsolatedFrame
  (* A query that is not the last.                                          *)
  <1>a. ASSUME NEW a, Goto(w, a), a.log = j.log, Local,
               a.pc \in {"routers", "router_ports", "network_ports", "attach", "gone_ports"},
               j.log.kind = "detach" =>
                 /\ j.pc \in {"detach", "gone_ports", "router_ports", "network_ports"}
                 /\ a.pc \in {"gone_ports", "router_ports", "network_ports"}
        PROVE  IsolatedInv'
    <2>1. \A p : Untold(a, p) /\ (Uncut(a, p) <=> Uncut(j, p))
      BY <1>a DEF Untold, Uncut
    <2>2. FitsJob(a)
      BY <1>a, <1>k, FitsIdle
    <2>3. \A p \in Bound(port) : \A d : Fits(d, j, p) => Fits(d, a, p)
      BY <1>a, <2>1, FitsGoes
    <2> QED  BY <1>a, <1>m, <2>2, <2>3 DEF Local
  (* A handler that goes on and is not about a detach.                      *)
  <1>b. ASSUME NEW a, Goto(w, a), a.log = j.log, FitsJob(a), a.pc # "idle",
               UNCHANGED <<port, legs, up, tx, logs, late, cut, vm>>,
               j.log.kind # "detach", \A p \in Bound(port) : Untold(j, p) => Untold(a, p)
        PROVE  IsolatedInv'
    <2>1. \A p : Uncut(a, p) <=> Uncut(j, p)
      BY <1>b DEF Uncut
    <2>2. \A p \in Bound(port) : \A d : Fits(d, j, p) => Fits(d, a, p)
      BY <1>b, <2>1, FitsGoes
    <2> QED  BY <1>b, <1>m, <2>2
  (* A handler that ends.                                                   *)
  <1>c. ASSUME Finish(w), UNCHANGED <<port, legs, up, tx, logs, late, cut, vm>>,
               \A p \in Bound(port) :
                 /\ ~(j.log.kind = "bind_port" /\ j.log.obj = p /\ Untold(j, p))
                 /\ \A q : ~(Fills(j.log, p, q) /\ Untold(j, p) /\ Reach(p, q))
                 /\ \A q : ~(Uncut(j, p) /\ WasRouted(p, q, j.log.obj))
        PROVE  IsolatedInv'
    <2>1. \A p \in Bound(port) : \A d : Fits(d, j, p) => Fits(d, IdleJob, p)
      BY <1>c, FitsEnds
    <2>2. FitsJob(IdleJob)
      BY FitsIdle DEF IdleJob, NoLog
    <2> QED  BY <1>c, <1>m, <2>1, <2>2 DEF Finish
  <1>1. CASE GetPort(w)
    <2>1. j.pc = "get_port" /\ j.log.kind \in PortKinds /\ Local
      BY <1>0, <1>1 DEF GetPort, At, JobOK, PortSteps
    <2>2. CASE Obj(w) \in Bound(port)
      <3>1. Goto(w, [j EXCEPT !.pc = "routers"])
        BY <1>1, <2>2 DEF GetPort
      <3> QED  BY <1>0, <1>a, <2>1, <3>1 DEF Job, PortKinds
    <2>3. CASE Obj(w) \notin Bound(port)
      <3>1. Finish(w)
        BY <1>1, <2>3 DEF GetPort
      <3>2. \A p \in Bound(port) : p # j.log.obj
        BY <2>3 DEF Obj
      <3>3. \A p \in Bound(port) : \A q : ~Fills(j.log, p, q) /\ ~Uncut(j, p)
        BY <2>1, <3>2 DEF Fills, Uncut, PortKinds
      <3> QED  BY <1>c, <2>1, <3>1, <3>2, <3>3 DEF Local
    <2> QED  BY <2>2, <2>3
  <1>2. ~RouterUpdate(w)
    BY <1>0, <1>k DEF RouterUpdate, At, JobOK
  <1>3. CASE RouterIfaceAttach(w)
    <2>1. j.pc = "attach" /\ j.log.kind = "attach" /\ Local
      BY <1>0, <1>3, <1>k DEF RouterIfaceAttach, At, JobOK
    <2>2. CASE Distributed
      <3>1. Goto(w, [j EXCEPT !.router = TRUE, !.pc = "router_ports"])
        BY <1>0, <1>3, <2>2 DEF RouterIfaceAttach
      <3> QED  BY <1>0, <1>a, <2>1, <3>1 DEF Job
    <2>3. CASE ~Distributed
      <3>1. Finish(w)
        BY <1>3, <2>3 DEF RouterIfaceAttach
      <3>2. \A p, q : ~(Fills(j.log, p, q) /\ Reach(p, q)) /\ ~Uncut(j, p)
        BY <2>1, <2>3 DEF Fills, Uncut, Reach, Routed
      <3> QED  BY <1>c, <2>1, <3>1, <3>2 DEF Local
    <2> QED  BY <2>2, <2>3
  <1>4. CASE RouterIfaceDetach(w)
    <2>1. j.pc = "detach" /\ j.log.kind = "detach" /\ Local
      BY <1>0, <1>4 DEF RouterIfaceDetach, At, JobOK, DetachSteps
    <2>2. CASE Distributed
      <3>1. Goto(w, [j EXCEPT !.router = TRUE, !.pc = "gone_ports"])
        BY <1>0, <1>4, <2>2 DEF RouterIfaceDetach
      <3> QED  BY <1>0, <1>a, <2>1, <3>1 DEF Job
    <2>3. CASE ~Distributed
      <3>1. Finish(w)
        BY <1>4, <2>3 DEF RouterIfaceDetach
      <3>2. \A p, q : ~Fills(j.log, p, q) /\ ~WasRouted(p, q, j.log.obj)
        BY <2>1, <2>3 DEF Fills, WasRouted
      <3> QED  BY <1>c, <2>1, <3>1, <3>2 DEF Local
    <2> QED  BY <2>2, <2>3
  <1>5. CASE GetDetachedPorts(w)
    <2>1. PICK g : Goto(w, [j EXCEPT !.gone = g, !.pc = "router_ports"])
      BY <1>5 DEF GetDetachedPorts
    <2>2. j.pc = "gone_ports" /\ Local
      BY <1>5 DEF GetDetachedPorts, At
    <2> QED  BY <1>0, <1>a, <2>1, <2>2 DEF Job
  <1>6. CASE GetRoutersForNet(w)
    <2>1. j.pc = "routers" /\ j.log.kind \in PortKinds /\ Local
      BY <1>0, <1>6 DEF GetRoutersForNet, At, JobOK, PortSteps
    <2>2. \/ Goto(w, [j EXCEPT !.router = TRUE, !.pc = "router_ports"])
          \/ Goto(w, [j EXCEPT !.todo = {NetOf[Obj(w)]}, !.pc = "network_ports"])
      BY <1>6 DEF GetRoutersForNet
    <2> QED  BY <1>0, <1>a, <2>1, <2>2 DEF Job, PortKinds
  <1>7. CASE GetPortsFromRouter(w)
    <2>1. PICK s, t : Goto(w, [j EXCEPT !.topo = s, !.todo = t, !.pc = "network_ports"])
      BY <1>7 DEF GetPortsFromRouter
    <2>2. j.pc = "router_ports" /\ Local
      BY <1>7 DEF GetPortsFromRouter, At
    <2> QED  BY <1>0, <1>a, <2>1, <2>2 DEF Job
  <1>8. CASE GetNetworkPorts(w)
    <2>1. PICK n, s : Goto(w, [j EXCEPT !.todo = @ \ {n}, !.snap = s])
      BY <1>8 DEF GetNetworkPorts
    <2>2. j.pc = "network_ports" /\ Local
      BY <1>8 DEF GetNetworkPorts, At
    <2> QED  BY <1>0, <1>a, <2>1, <2>2 DEF Job
  <1>9. CASE PortInfo(w)
    <2> DEFINE r == Obj(w)
               o == PortDb(r, j.snap)
               i == PortToDb(r, j.snap, j.topo, j.router, rules)
               a == [j EXCEPT !.out = o, !.dest = VmsOf(j.snap, {r}),
                              !.info = i, !.pc = "update"]
    <2>1. /\ j.pc = "network_ports" /\ j.todo = {} /\ Local
          /\ j.log.kind \in PortKinds /\ r = j.log.obj
      BY <1>9 DEF PortInfo, AllRead, At, Obj
    <2>2. r \in Present(j.snap)
      <3>1. Names(o, r)
        BY <1>0, <2>1, PortTells
      <3> QED  BY <3>1 DEF Names, PortDb, EmptyDb, NoPorts, Present, Absent
    <2>3. /\ Present(o.lport) \subseteq Present(port)
          /\ \A p \in Bound(port) : VmOf[p] \in VmsOf(j.snap, {r}) =>
               \A q \in Present(o.lport) : Reach(p, q)
          /\ \A q \in Ports : q \in Present(i.lport) <=> q \in Present(port) /\ Reach(r, q)
      BY <1>0, <2>1, PortFits
    <2>4. Goto(w, a)
      BY <1>9, <2>2 DEF PortInfo
    <2> HIDE DEF o, i, r
    <2>5. /\ a.log = j.log /\ a.pc = "update" /\ a.out = o /\ a.info = i
          /\ a.dest = VmsOf(j.snap, {r})
      BY <1>0 DEF Job
    <2> HIDE DEF a
    <2>6. FitsJob(a)
      BY <1>k, <2>1, <2>3, <2>5 DEF FitsJob, PortKinds
    <2>7. /\ j.log.kind # "detach"
          /\ \A p : j.log.kind = "bind_port" /\ j.log.obj = p => Untold(a, p)
          /\ \A p, q : Fills(j.log, p, q) => Untold(a, p)
      BY <2>1, <2>5 DEF Untold, Fills, PortKinds
    <2>8. \A p \in Bound(port) : \A d : Fits(d, j, p) => Fits(d, a, p)
      BY <2>5, <2>7 DEF Fits, Filled, Clean, Removable, Uncut
    <2> QED  BY <1>m, <2>1, <2>4, <2>5, <2>6, <2>8 DEF Local
  (* On the way to the apply.                                               *)
  <1>d. ASSUME NEW a, Goto(w, a), UNCHANGED <<port, legs, up, tx, logs, late, cut, vm>>,
               a.log = j.log, a.info = j.info, j.log.kind \in PortKinds,
               a.pc \in {"state", "agent", "apply"},
               \/ j.pc \in {"state", "agent"}
               \/ j.pc = "update" /\ j.dest = {}
        PROVE  IsolatedInv'
    <2>1. FitsJob(a)
      BY <1>0, <1>d DEF FitsJob
    <2>2. \A p : Untold(j, p) => Untold(a, p)
      BY <1>d DEF Untold
    <2> QED  BY <1>b, <1>d, <2>1, <2>2 DEF PortKinds
  <1>10. CASE State(w)
    <2>1. PICK pc \in {"agent", "apply"} : Goto(w, [j EXCEPT !.pc = pc])
      BY <1>10 DEF State
    <2>2. j.pc = "state" /\ j.log.kind \in PortKinds /\ Local
      BY <1>0, <1>10 DEF State, At, JobOK, PortSteps
    <2> QED  BY <1>0, <1>d, <2>1, <2>2 DEF Job, Local
  <1>11. CASE RegisterAgent(w)
    <2>1. /\ j.pc = "agent" /\ agents' = agents \cup ({VmOf[Obj(w)]} \cap Named)
          /\ UNCHANGED <<port, legs, up, tx, logs, late, cut, vm>>
      BY <1>11 DEF RegisterAgent, At
    <2>2. j.log.kind \in PortKinds /\ VmOf[Obj(w)] \in Vms
      BY <1>0, <2>1, LogObject, TopologyAssumption DEF JobOK, PortSteps, Job, Obj
    <2>3. VmOf[Obj(w)] \in agents'
      BY <1>0, <2>1, <2>2 DEF ReadJob, NothingFails
    <2>4. Goto(w, [j EXCEPT !.pc = "apply"])
      BY <1>11, <2>3 DEF RegisterAgent
    <2> QED  BY <1>0, <1>d, <2>1, <2>2, <2>4 DEF Job
  <1>12. CASE Apply(w)
    <2> DEFINE r == Obj(w)
               a == [j EXCEPT !.pc = "tunnel"]
    <2>1. /\ j.pc = "apply" /\ Goto(w, a) /\ vm' = [vm EXCEPT ![VmOf[r]] = j.info]
          /\ UNCHANGED <<port, legs, up, tx, logs, late, cut>>
      BY <1>12 DEF Apply, At, ApplyDb
    <2>2. /\ j.log.kind \in PortKinds /\ r = j.log.obj /\ r \in Bound(port)
      BY <1>0, <2>1 DEF JobOK, PortSteps, Obj, ReadJob
    <2>3. \A q \in Ports : q \in Present(j.info.lport) <=>
                             q \in Present(port) /\ Reach(r, q)
      BY <1>0, <2>1, <2>2 DEF FitsJob
    <2>4. a.log = j.log /\ a.pc = "tunnel"
      BY <1>0 DEF Job
    <2> HIDE DEF a, r
    <2>5. FitsJob(a)
      BY <1>k, <2>4, FitsIdle
    <2>6. \A q \in Bound(port) : IF q = r THEN vm'[VmOf[q]] = j.info
                                 ELSE vm'[VmOf[q]] = vm[VmOf[q]] /\ q # j.log.obj
      BY <1>0, <2>1, <2>2, TopologyFacts DEF OnePortPerVm
    <2>7. j.log.kind # "detach" /\ j.log.kind # "attach"
      BY <2>2 DEF PortKinds
    <2>8. ASSUME NEW p \in Bound(port), Fits(vm[VmOf[p]], j, p)
          PROVE  Fits(vm'[VmOf[p]], a, p)
      <3>1. CASE p = r
        <4>1. \A q : q \in Present(port) => q \in Ports
          BY DEF Present
        <4>2. \A q : q \in Present(j.info.lport) => q \in Ports
          BY DEF Present
        <4>3. vm'[VmOf[p]] = j.info
          BY <2>6, <3>1
        <4> QED  BY <2>3, <2>4, <2>7, <3>1, <4>1, <4>2, <4>3
                 DEF Fits, Filled, Clean, Removable, Uncut
      <3>2. CASE p # r
        <4>1. vm'[VmOf[p]] = vm[VmOf[p]] /\ p # j.log.obj
          BY <2>6, <3>2
        <4>2. \A q : ~Fills(j.log, p, q)
          BY <2>7, <4>1 DEF Fills
        <4> QED  BY <2>4, <2>7, <2>8, <4>1, <4>2
                 DEF Fits, Filled, Clean, Removable, Uncut
      <3> QED  BY <3>1, <3>2
    <2> QED  BY <1>0, <1>i, <2>1, <2>4, <2>5, <2>8, IsolatedFrame
  <1>13. ~CallFails(w) /\ ~BulkLost(w)
    BY <1>0, NoGivesUp DEF CallFails, BulkLost
  <1>14. CASE AddEndpoint(w)
    <2>1. j.pc = "tunnel" /\ j.log.kind \in PortKinds
      BY <1>0, <1>14 DEF AddEndpoint, At, JobOK, PortSteps
    <2>2. \A p : ~Untold(j, p) /\ ~Uncut(j, p)
      BY <2>1 DEF Untold, Uncut
    <2>3. UNCHANGED <<port, legs, up, tx, logs, late, cut, vm>> /\ Finish(w)
      BY <1>14 DEF AddEndpoint
    <2> QED  BY <1>c, <2>2, <2>3
  <1>15. CASE BulkUpdate(w)
    <2>1. PICK v \in j.dest : /\ vm' = [vm EXCEPT ![v] = UpdateDb(vm[v], j.out)]
                              /\ Goto(w, [j EXCEPT !.dest = @ \ {v}])
      BY <1>15 DEF BulkUpdate
    <2>2. j.pc = "update" /\ UNCHANGED <<port, legs, up, tx, logs, late, cut>>
      BY <1>15 DEF BulkUpdate, At
    <2> DEFINE a == [j EXCEPT !.dest = @ \ {v}]
    <2>3. /\ a.pc = "update" /\ a.log = j.log /\ a.dest = j.dest \ {v}
          /\ a.out = j.out /\ a.info = j.info /\ Goto(w, a) /\ v \in Vms
      BY <1>0, <2>1, <2>2 DEF Job
    <2> HIDE DEF a
    <2>4. FitsJob(a)
      BY <1>0, <2>2, <2>3 DEF FitsJob
    <2>5. \A u \in Vms : vm'[u] = IF u = v THEN UpdateDb(vm[v], j.out) ELSE vm[u]
      BY <1>0, <2>1, <2>3
    <2>6. \A p : ~Uncut(j, p) /\ ~Uncut(a, p)
      BY <2>2, <2>3 DEF Uncut
    <2>7. ASSUME NEW p \in Bound(port), Fits(vm[VmOf[p]], j, p)
          PROVE  Fits(vm'[VmOf[p]], a, p)
      <3>1. CASE VmOf[p] # v
        <4>1. Untold(j, p) => Untold(a, p)
          BY <2>2, <2>3, <3>1 DEF Untold
        <4>2. vm'[VmOf[p]] = vm[VmOf[p]]
          BY <2>5, <3>1, TopologyFacts
        <4> QED  BY <2>3, <2>6, <2>7, <4>1, <4>2, FitsGoes
      <3>2. CASE VmOf[p] = v
        <4> DEFINE d == vm'[VmOf[p]]
        <4>1. d = UpdateDb(vm[v], j.out)
          BY <2>3, <2>5, <3>2
        <4>2. \A q \in Ports : q \in Present(d.lport) <=>
                                 q \in Present(vm[v].lport) \/ q \in Present(j.out.lport)
          <5>1. \A q \in Ports : d.lport[q] = IF q \in Present(j.out.lport)
                                              THEN j.out.lport[q] ELSE vm[v].lport[q]
            BY <4>1 DEF UpdateDb
          <5> QED  BY <5>1 DEF Present
        <4> HIDE DEF d
        <4>3. /\ Present(j.out.lport) \subseteq Present(port)
              /\ \A q \in Present(j.out.lport) : Reach(p, q)
              /\ j.log.kind = "attach" /\ Distributed =>
                   \A q \in Present(port) : NetOf[q] \in legs => q \in Present(j.out.lport)
          BY <1>0, <2>2, <3>2 DEF FitsJob
        <4>4. j.log.kind = "bind_port" /\ j.log.obj = p => Untold(a, p)
          BY <2>3 DEF Untold
        <4>5. ASSUME NEW q \in Present(port), Reach(p, q)
              PROVE  q \in Present(d.lport) \/ (Fills(a.log, p, q) /\ Untold(a, p))
          <5>1. q \in Ports
            BY DEF Present
          <5>2. q \in Present(vm[v].lport) \/ Fills(j.log, p, q)
            BY <2>7, <3>2, <4>5 DEF Fits, Filled
          <5>3. CASE j.log.kind = "attach" /\ NetOf[p] # NetOf[q]
            <6>1. Distributed /\ NetOf[q] \in legs
              BY <4>5, <5>3 DEF Reach, Routed
            <6> QED  BY <4>2, <4>3, <5>1, <5>3, <6>1
          <5> QED  BY <2>3, <4>2, <4>4, <5>1, <5>2, <5>3 DEF Fills
        <4>6. Filled(d, a, p)
          BY <4>5 DEF Filled
        <4>7. \A q : q \in Present(d.lport) => q \in Ports
          BY DEF Present
        <4>8. Clean(vm[v], j, p)
          BY <2>7, <3>2 DEF Fits
        <4>9. Clean(d, a, p)
          BY <2>3, <2>6, <4>2, <4>3, <4>4, <4>7, <4>8 DEF Clean
        <4> QED  BY <2>6, <4>6, <4>9 DEF Fits, Removable, d
      <3> QED  BY <3>1, <3>2
    <2> QED  BY <1>0, <1>i, <2>2, <2>3, <2>4, <2>7, IsolatedFrame
  <1>16. CASE BulkDelete(w)
    <2>1. PICK v \in j.dest : /\ \E d \in DeleteDb(vm[v], j.out) :
                                   vm' = [vm EXCEPT ![v] = d]
                              /\ Goto(w, [j EXCEPT !.dest = @ \ {v}])
      BY <1>16 DEF BulkDelete
    <2>2. PICK d \in DeleteDb(vm[v], j.out) : vm' = [vm EXCEPT ![v] = d]
      BY <2>1
    <2>3. /\ j.pc \in {"delete1", "delete2"} /\ j.log.kind = "detach"
          /\ UNCHANGED <<port, legs, up, tx, logs, late, cut>>
      BY <1>0, <1>16 DEF BulkDelete, At, JobOK, DetachSteps
    <2> DEFINE a == [j EXCEPT !.dest = @ \ {v}]
    <2>4. /\ a.pc = j.pc /\ a.log = j.log /\ a.dest = j.dest \ {v} /\ a.snap = j.snap
          /\ a.topo = j.topo /\ a.gone = j.gone
          /\ a.out = j.out /\ Goto(w, a) /\ v \in Vms /\ j.out \in Db /\ vm[v] \in Db
      BY <1>0, <2>1 DEF Job
    <2> HIDE DEF a
    <2>5. FitsJob(a)
      BY <1>0, <2>3, <2>4 DEF FitsJob, PortKinds
    <2>6. \A u \in Vms : vm'[u] = IF u = v THEN d ELSE vm[u]
      BY <1>0, <2>2, <2>4
    <2>7. ASSUME NEW p \in Bound(port), Fits(vm[VmOf[p]], j, p)
          PROVE  Fits(vm'[VmOf[p]], a, p)
      <3>1. CASE VmOf[p] # v
        <4>1. vm'[VmOf[p]] = vm[VmOf[p]]
          BY <2>6, <3>1, TopologyFacts
        <4>2. (Uncut(a, p) <=> Uncut(j, p)) /\ (Untold(j, p) => Untold(a, p))
          BY <2>3, <2>4, <3>1 DEF Uncut, Untold
        <4> QED  BY <2>4, <2>7, <4>1, <4>2, FitsGoes
      <3>2. CASE VmOf[p] = v
        <4>1. vm'[VmOf[p]] = d
          BY <2>4, <2>6, <3>2
        <4> QED  BY <1>0, <2>1, <2>2, <2>3, <2>4, <2>7, <3>2, <4>1, Disconnects
      <3> QED  BY <3>1, <3>2
    <2> QED  BY <1>0, <1>i, <2>3, <2>4, <2>5, <2>7, IsolatedFrame
  <1>17. CASE BulkDone(w)
    <2>1. j.pc \in {"update", "delete2"} /\ j.dest = {} /\ Local
      BY <1>17 DEF BulkDone, At
    <2>2. CASE j.log.kind \in PortKinds
      <3>1. j.pc = "update"
        BY <1>0, <2>1, <2>2 DEF JobOK, DetachSteps, PortKinds
      <3>2. Goto(w, [j EXCEPT !.pc = "state", !.out = EmptyDb])
        BY <1>17, <2>2 DEF BulkDone
      <3> QED  BY <1>0, <1>d, <2>1, <2>2, <3>1, <3>2 DEF Job, Local
    <2>3. CASE j.log.kind \notin PortKinds
      <3>1. Finish(w)
        BY <1>17, <2>3 DEF BulkDone
      <3>2. j.log.kind # "bind_port" /\ \A p : ~Uncut(j, p)
        BY <2>1, <2>3 DEF Uncut, PortKinds
      <3>3. \A p, q : ~(Fills(j.log, p, q) /\ Untold(j, p))
        BY <1>0, <2>1, <3>2 DEF Fills, Untold, JobOK, DetachSteps
      <3> QED  BY <1>c, <2>1, <3>1, <3>2, <3>3 DEF Local
    <2> QED  BY <2>2, <2>3
  <1>18. CASE SecurityGroupUpdate(w)
    <2> DEFINE o == SecGroupDb(Obj(w), rules[Obj(w)])
    <2>1. PICK d : Goto(w, [j EXCEPT !.out = o, !.dest = d, !.pc = "update"])
      BY <1>18 DEF SecurityGroupUpdate
    <2> DEFINE a == [j EXCEPT !.out = o, !.dest = d, !.pc = "update"]
    <2>2. /\ a.log = j.log /\ a.pc = "update" /\ a.out = o /\ Goto(w, a) /\ Local
          /\ j.log.kind = "update_sg"
      BY <1>0, <1>18, <2>1 DEF SecurityGroupUpdate, At, JobOK, Job
    <2>3. Present(o.lport) = {}
      BY DEF SecGroupDb, EmptyDb, NoPorts, Present, Absent
    <2> HIDE DEF a, o
    <2>4. FitsJob(a)
      BY <1>k, <2>2, <2>3 DEF FitsJob, PortKinds
    <2>5. /\ \A p, q : ~Fills(j.log, p, q) /\ ~Uncut(j, p) /\ ~Uncut(a, p)
          /\ j.log.kind # "bind_port"
      BY <2>2 DEF Fills, Uncut
    <2>6. \A p \in Bound(port) : \A e : Fits(e, j, p) => Fits(e, a, p)
      BY <2>2, <2>5 DEF Fits, Filled, Clean, Removable
    <2> QED  BY <1>m, <2>2, <2>4, <2>6 DEF Local
  <1>19. CASE AttachInfo(w)
    <2> DEFINE o == ToDb(j.snap, j.topo, TRUE)
               a == [j EXCEPT !.out = o, !.dest = VmsOf(j.snap, {}), !.pc = "update"]
    <2>1. /\ Goto(w, a) /\ Local /\ j.log.kind = "attach"
          /\ j.pc = "network_ports" /\ j.todo = {}
      BY <1>19, <1>k DEF AttachInfo, AllRead, At
    <2>2. /\ Present(o.lport) \subseteq Present(port)
          /\ \A p \in Bound(port) : VmOf[p] \in VmsOf(j.snap, {}) =>
               \A q \in Present(o.lport) : Reach(p, q)
          /\ Distributed => \A q \in Present(port) : NetOf[q] \in legs =>
               q \in Present(o.lport)
          /\ Distributed => \A p \in Bound(port) : NetOf[p] \in legs =>
               VmOf[p] \in VmsOf(j.snap, {})
      BY <1>0, <2>1, AttachFits
    <2> HIDE DEF o
    <2>3. a.log = j.log /\ a.pc = "update" /\ a.out = o /\ a.dest = VmsOf(j.snap, {})
      BY <1>0 DEF Job
    <2> HIDE DEF a
    <2>4. FitsJob(a)
      BY <1>k, <2>1, <2>2, <2>3 DEF FitsJob, PortKinds
    <2>5. \A p \in Bound(port) : Distributed /\ NetOf[p] \in legs => Untold(a, p)
      BY <2>2, <2>3 DEF Untold
    <2>6. ASSUME NEW p \in Bound(port), NEW e, Fits(e, j, p)
          PROVE  Fits(e, a, p)
      <3>1. \A q : Fills(j.log, p, q) /\ Reach(p, q) => Untold(a, p)
        BY <2>1, <2>5 DEF Fills, Reach, Routed
      <3>2. ~Uncut(j, p) /\ ~Uncut(a, p)
        BY <2>1, <2>3 DEF Uncut
      <3> QED  BY <2>1, <2>3, <2>6, <3>1, <3>2 DEF Fits, Filled, Clean, Removable
    <2> QED  BY <1>m, <2>1, <2>3, <2>4, <2>6 DEF Local
  <1>20. CASE Disconnect1(w)
    <2> DEFINE o == ToDb(j.gone, {}, FALSE)
               a == [j EXCEPT !.out = o, !.dest = VmsOf(j.snap, {}), !.pc = "delete1"]
    <2>1. /\ Goto(w, a) /\ Local /\ j.log.kind = "detach"
          /\ j.pc = "network_ports" /\ j.todo = {}
      BY <1>20 DEF Disconnect1, AllRead, At
    <2>2. /\ a.log = j.log /\ a.pc = "delete1" /\ a.out = ToDb(a.gone, {}, FALSE)
          /\ a.dest = VmsOf(j.snap, {}) /\ a.snap = j.snap
      BY <1>0 DEF Job
    <2> HIDE DEF a, o
    <2>3. FitsJob(a)
      BY <1>k, <2>1, <2>2 DEF FitsJob, PortKinds
    <2>4. ASSUME NEW p \in Bound(port), NEW e, Fits(e, j, p)
          PROVE  Fits(e, a, p)
      <3>1. Uncut(j, p) /\ \A q : ~Fills(j.log, p, q)
        BY <2>1 DEF Uncut, Fills
      <3>2. VmOf[p] \in VmsOf(j.snap, {}) <=> NetOf[p] \in IF Distributed THEN legs ELSE {}
        BY <1>0, <2>1, DetachFits
      <3>3. \A q : WasRouted(p, q, j.log.obj) => Uncut(a, p)
        BY <2>1, <2>2, <3>2 DEF Uncut, WasRouted
      <3> QED  BY <2>1, <2>2, <2>4, <3>1, <3>3 DEF Fits, Filled, Clean, Removable
    <2> QED  BY <1>m, <2>1, <2>2, <2>3, <2>4 DEF Local
  <1>21. CASE Disconnect2(w)
    <2> DEFINE o == ToDb(j.snap, j.topo, TRUE)
               a == [j EXCEPT !.out = o, !.dest = VmsOf(j.gone, {}), !.pc = "delete2"]
    <2>1. /\ Goto(w, a) /\ Local /\ j.log.kind = "detach" /\ j.pc = "delete1"
          /\ j.dest = {}
      BY <1>0, <1>21 DEF Disconnect2, At, JobOK, DetachSteps
    <2>2. /\ a.log = j.log /\ a.pc = "delete2" /\ a.out = ToDb(a.snap, a.topo, TRUE)
          /\ a.dest = VmsOf(j.gone, {}) /\ a.gone = j.gone
      BY <1>0 DEF Job
    <2> HIDE DEF a, o
    <2>3. FitsJob(a)
      BY <1>k, <2>1, <2>2 DEF FitsJob, PortKinds
    <2>4. ASSUME NEW p \in Bound(port), NEW e, Fits(e, j, p)
          PROVE  Fits(e, a, p)
      <3>1. (VmOf[p] \in VmsOf(j.gone, {}) <=> NetOf[p] = j.log.obj) /\ j.log.obj \notin legs
        BY <1>0, <2>1, DetachFits DEF AfterRead
      <3>2. /\ Uncut(a, p) => Uncut(j, p)
            /\ \A q : Uncut(j, p) /\ WasRouted(p, q, j.log.obj) => Uncut(a, p)
            /\ \A q : ~Fills(j.log, p, q)
        BY <2>1, <2>2, <3>1 DEF Uncut, WasRouted, Fills
      <3> QED  BY <2>1, <2>2, <2>4, <3>2 DEF Fits, Filled, Clean, Removable
    <2> QED  BY <1>m, <2>1, <2>2, <2>3, <2>4 DEF Local
  <1> QED  BY <1>1, <1>2, <1>3, <1>4, <1>5, <1>6, <1>7, <1>8, <1>9, <1>10, <1>11,
           <1>12, <1>13, <1>14, <1>15, <1>16, <1>17, <1>18, <1>19, <1>20, <1>21
           DEF Handle
-----------------------------------------------------------------------------
(* A step that leaves tables and databases alone leaves what fits.          *)
LEMMA FitStays ==
  ASSUME UNCHANGED <<port, legs, up, vm>>
  PROVE  /\ \A j : AllFit(j) => AllFit(j)'
         /\ \A j : FitsJob(j) => FitsJob(j)'
  <1>1. Bound(port') = Bound(port) /\ Present(port') = Present(port)
    OBVIOUS
  <1>2. \A p \in Bound(port) : \A j : Fits(vm[VmOf[p]], j, p) => Fits(vm[VmOf[p]], j, p)'
    BY DEF Fits, Filled, Clean, Removable, Fills, Untold, Uncut, WasRouted, Reach, Routed
  <1>3. \A p, q : Reach(p, q)' = Reach(p, q)
    BY DEF Reach, Routed
  <1>4. ASSUME NEW j, AllFit(j) PROVE AllFit(j)'
    BY <1>1, <1>2, <1>4 DEF AllFit
  <1>5. ASSUME NEW j, FitsJob(j) PROVE FitsJob(j)'
    BY <1>1, <1>3, <1>5 DEF FitsJob
  <1> QED  BY <1>4, <1>5

LEMMA IsolatedProcess ==
  ASSUME PortsStay, TypeInv, ReadInv, IsolatedInv, tx = {}, NEW w \in Workers,
         ProcessLog(w)
  PROVE  IsolatedInv'
  <1>0. OneAtATime
    BY DEF ReadInv
  <1>1. PICK t \in logs :
          /\ logs' = logs \ {t}
          /\ IF ACTIONS_CLASS[t.kind] = "idle" THEN UNCHANGED job
             ELSE Goto(w, [IdleJob EXCEPT !.pc = ACTIONS_CLASS[t.kind], !.log = t])
    BY DEF ProcessLog
  <1>2. UNCHANGED <<port, legs, up, tx, vm>>
    BY DEF ProcessLog
  <1>3. logs = {t} /\ logs' = {} /\ \A x \in Workers : At(x, "idle")
    BY <1>0, <1>1 DEF OneAtATime
  <1>4. t.kind \in Kinds /\ t.kind \in AllKinds /\ t.kind # "delete_port"
    BY <1>1 DEF IsolatedInv, PortsStay, TypeInv, TypeOK, ApiTypeOK, Request
  <1> DEFINE a == Fresh(t)
  <1>5. ACTIONS_CLASS[t.kind] \in {"get_port", "sg", "router_update", "attach", "detach"}
    BY <1>4 DEF ACTIONS_CLASS, AllKinds, PortKinds, LegKinds
  <1>6. Goto(w, a) /\ a.pc = ACTIONS_CLASS[t.kind] /\ a.log = t
    BY <1>1, <1>5 DEF Fresh, IdleJob
  <1>7. FitsJob(a) /\ AllFit(a)
    BY <1>1, <1>4, <1>5, <1>6, FitsIdle DEF IsolatedInv
  <1> HIDE DEF a
  <1>8. \A x \in Workers : job'[x] = IF x = w THEN a ELSE job[x]
    BY <1>6 DEF Goto, TypeInv, TypeOK
  <1>9. ASSUME NEW x \in Workers
        PROVE  FitsJob(job[x])' /\ (~At(x, "idle")' => AllFit(job[x])')
    <2>1. FitsJob(job[x])'
      <3>1. FitsJob(job[x])
        BY DEF IsolatedInv
      <3>2. CASE x = w
        BY <1>2, <1>7, <1>8, <3>2, FitStays
      <3>3. CASE x # w
        BY <1>2, <1>8, <3>1, <3>3, FitStays
      <3> QED  BY <3>2, <3>3
    <2>2. ~At(x, "idle")' => AllFit(job[x])'
      BY <1>2, <1>3, <1>7, <1>8, FitStays DEF At
    <2> QED  BY <2>1, <2>2
  <1>10. ~AllIdle'
    BY <1>5, <1>6, <1>8 DEF AllIdle, At
  <1> QED  BY <1>2, <1>3, <1>9, <1>10 DEF IsolatedInv

LEMMA IsolatedBegin ==
  ASSUME PortsStay, TypeInv, IsolatedInv, Quiet, Begin, UNCHANGED agentVars
  PROVE  IsolatedInv'
  <1>1. PICK kind \in Kinds : \E obj \in ObjectsOf(kind) : BeginRequest(kind, obj)
    BY DEF Begin
  <1>2. PICK obj \in ObjectsOf(kind) : BeginRequest(kind, obj)
    BY <1>1
  <1> DEFINE t == [id |-> reqs + 1, kind |-> kind, obj |-> obj]
  <1>3. /\ tx' = tx \cup {t} /\ logs' = logs \cup {t}
        /\ UNCHANGED <<port, legs, up>> /\ Valid(kind, obj)
    BY <1>2 DEF BeginRequest, CreateUpdateLog
  <1>4. t.kind = kind /\ t.obj = obj
    OBVIOUS
  <1>5. /\ t.kind = "detach" => t.obj \in legs
        /\ t.kind \in PortKinds => t.obj \in Present(port)
    <2>1. kind # "create_port" /\ Bound(port) \subseteq Present(port)
      BY SerialFacts DEF PortsStay
    <2> QED  BY <1>3, <1>4, <2>1 DEF Valid, PortKinds
  <1> HIDE DEF t
  <1>6. tx' = {t} /\ logs' = {t} /\ UNCHANGED <<job, vm>> /\ AllIdle /\ t.kind \in Kinds
    BY <1>3, <1>4 DEF Quiet, agentVars
  <1>7. AllFit(IdleJob)' /\ \A x \in Workers : FitsJob(job[x])'
    BY <1>3, <1>6, FitStays DEF IsolatedInv, Quiet
  <1>8. /\ \A u \in tx' \cup logs' : u.kind \in Kinds
        /\ \A u \in tx' : /\ u.kind = "detach" => u.obj \in legs'
                          /\ u.kind \in PortKinds => u.obj \in Present(port')
    BY <1>3, <1>5, <1>6
  <1> QED  BY <1>3, <1>6, <1>7, <1>8 DEF IsolatedInv, AllIdle, At

LEMMA IsolatedCommit ==
  ASSUME PortsStay, TypeInv, ReadInv, CompleteInv, IsolatedInv, AllIdle, NEW t \in tx,
         Commit(t), UNCHANGED agentVars
  PROVE  IsolatedInv'
  <1>1. tx = {t} /\ logs = {t} /\ tx' = {} /\ logs' = {t}
    BY DEF ReadInv, OneAtATime, Commit
  <1>2. UNCHANGED <<job, vm>>
    BY DEF agentVars
  <1>3. /\ up /\ t.kind \in Kinds /\ t.kind \in AllKinds
        /\ t.kind \notin {"create_port", "delete_port", "update_router"}
        /\ t.kind = "detach" => t.obj \in legs
        /\ t.kind \in PortKinds => t.obj \in Present(port)
    BY DEF IsolatedInv, PortsStay, TypeInv, TypeOK, ApiTypeOK, Request
  <1>4. /\ up' = up
        /\ legs' = CASE t.kind = "attach" -> legs \cup {t.obj}
                     [] t.kind = "detach" -> legs \ {t.obj}
                     [] OTHER             -> legs
        /\ port' = IF t.kind \in PortKinds
                   THEN [port EXCEPT ![t.obj] = WrittenPort(t)] ELSE port
    BY <1>3 DEF Commit
  <1>5. /\ port \in Table /\ Bound(port) \subseteq Present(port)
    BY SerialFacts
  <1>6. /\ \A p \in Bound(port) : Routes(vm[VmOf[p]], p)
        /\ \A p, q \in Bound(port) : Reach(p, q) => Knows(vm[VmOf[p]], p, q)
    BY <1>1, CompleteQuiet
  <1>7. ASSUME NEW p \in Bound(port)
        PROVE  /\ \A q \in Present(port) : Reach(p, q) => q \in Present(vm[VmOf[p]].lport)
               /\ \A q \in Present(vm[VmOf[p]].lport) : q \in Present(port) /\ Reach(p, q)
    <2>1. Fits(vm[VmOf[p]], IdleJob, p)
      BY <1>1 DEF IsolatedInv, AllFit
    <2> QED  BY <2>1, NobodyOwes DEF Fits, Filled, Clean
  <1>8. ASSUME t.kind \in PortKinds
        PROVE  /\ t.obj \in Ports /\ t.obj \in Present(port)
               /\ port'[t.obj] = [ver |-> port[t.obj].ver + 1,
                                  bound |-> t.kind = "bind_port"]
               /\ \A p \in Ports \ {t.obj} : port'[p] = port[p]
    <2>1. t.obj \in Ports /\ t.obj \in Present(port)
      BY <1>3, <1>8 DEF Present
    <2>2. WrittenPort(t) = [ver |-> port[t.obj].ver + 1, bound |-> t.kind = "bind_port"]
      BY <1>3, <1>8 DEF WrittenPort, PortKinds
    <2> QED  BY <1>4, <1>5, <1>8, <2>1, <2>2 DEF Table
  <1>9. Present(port') = Present(port)
    <2>1. CASE t.kind \in PortKinds
      <3>1. port[t.obj].ver \in Nat
        BY <1>5, <1>8, <2>1 DEF Table, Lport
      <3>2. \A p \in Ports : port'[p].ver > 0 <=> port[p].ver > 0
        BY <1>8, <2>1, <3>1 DEF Present
      <3> QED  BY <3>2 DEF Present
    <2>2. CASE t.kind \notin PortKinds
      BY <1>4, <2>2
    <2> QED  BY <2>1, <2>2
  <1>10. ASSUME NEW p \in Bound(port')
         PROVE  p \in Ports /\ (p \in Bound(port) \/ (t.kind = "bind_port" /\ t.obj = p))
    <2>1. CASE t.kind \in PortKinds
      <3>1. CASE p = t.obj
        <4>1. port'[p].bound = (t.kind = "bind_port")
          BY <1>8, <2>1, <3>1
        <4> QED  BY <1>10, <3>1, <4>1 DEF Bound
      <3>2. CASE p # t.obj
        BY <1>8, <1>10, <2>1, <3>2 DEF Bound
      <3> QED  BY <3>1, <3>2
    <2>2. CASE t.kind \notin PortKinds
      BY <1>4, <1>10, <2>2 DEF Bound
    <2> QED  BY <2>1, <2>2
  <1> DEFINE a == Fresh(t)
  <1>11. /\ a.log = t /\ a.pc = ACTIONS_CLASS[t.kind]
         /\ a.pc \in {"get_port", "sg", "attach", "detach"}
         /\ t.kind = "detach" <=> a.pc = "detach"
    BY <1>3 DEF Fresh, IdleJob, ACTIONS_CLASS, AllKinds, PortKinds, LegKinds
  <1> HIDE DEF a
  <1>12. /\ \A p : Untold(a, p)'
         /\ \A p : Uncut(a, p)' <=> t.kind = "detach"
    BY <1>11 DEF Untold, Uncut
  <1>13. ASSUME NEW p \in Bound(port')
         PROVE  Fits(vm[VmOf[p]], a, p)'
    <2> DEFINE d == vm[VmOf[p]]
    <2>0. d' = d
      BY <1>2
    <2>1. CASE t.kind = "bind_port" /\ t.obj = p
      <3>1. Filled(d, a, p)'
        BY <1>11, <1>12, <2>1 DEF Filled, Fills
      <3>2. Clean(d, a, p)'
        BY <1>11, <1>12, <2>1 DEF Clean
      <3>3. Removable(d, a, p)'
        BY <1>12, <2>1 DEF Removable
      <3> QED  BY <3>1, <3>2, <3>3 DEF Fits
    <2>2. CASE ~(t.kind = "bind_port" /\ t.obj = p)
      <3>1. p \in Bound(port)
        BY <1>10, <2>2
      <3>2. /\ \A q \in Present(port) : Reach(p, q) => q \in Present(d.lport)
            /\ \A q \in Present(d.lport) : q \in Present(port) /\ Reach(p, q)
        BY <1>7, <3>1
      <3>3. CASE t.kind = "attach"
        <4>1. \A q : Reach(p, q) => Reach(p, q)'
          BY <1>4, <3>3 DEF Reach, Routed
        <4>2. Filled(d, a, p)'
          BY <1>9, <1>11, <1>12, <2>0, <3>2, <3>3 DEF Filled, Fills, Reach
        <4>3. Clean(d, a, p)'
          BY <1>9, <2>0, <3>2, <4>1 DEF Clean
        <4>4. Removable(d, a, p)'
          BY <1>12, <3>3 DEF Removable
        <4> QED  BY <4>2, <4>3, <4>4 DEF Fits
      <3>4. CASE t.kind = "detach"
        <4>1. legs' = legs \ {t.obj} /\ t.obj \in legs /\ port' = port
          BY <1>3, <1>4, <3>4 DEF PortKinds
        <4>2. \A q : Reach(p, q)' => Reach(p, q)
          BY <1>4, <4>1 DEF Reach, Routed
        <4>3. \A q : Reach(p, q) => Reach(p, q)' \/ WasRouted(p, q, t.obj)'
          BY <1>4, <4>1 DEF Reach, Routed, WasRouted
        <4>4. \A q : WasRouted(p, q, t.obj)' => Reach(p, q)
          BY <1>3, <4>1 DEF Reach, Routed, WasRouted
        <4>5. Filled(d, a, p)'
          BY <1>9, <2>0, <3>2, <4>2 DEF Filled
        <4>6. Clean(d, a, p)'
          BY <1>9, <1>11, <1>12, <2>0, <3>2, <3>4, <4>3 DEF Clean
        <4>7. \A q \in Present(port') : WasRouted(p, q, t.obj)' => q \in Present(d'.lport)
          BY <1>9, <2>0, <3>2, <4>4
        <4>8. \A q \in Bound(port') : WasRouted(p, q, t.obj)' => VmOf[q] \in d'.chassis
          BY <1>6, <2>0, <3>1, <4>1, <4>4 DEF Knows
        <4>9. Distributed /\ NetOf[p] = t.obj => legs' \subseteq d'.lswitch
          BY <1>3, <1>6, <2>0, <3>1, <4>1 DEF Routes
        <4>10. Removable(d, a, p)'
          BY <1>11, <4>7, <4>8, <4>9 DEF Removable
        <4> QED  BY <4>5, <4>6, <4>10 DEF Fits
      <3>5. CASE t.kind \notin LegKinds
        <4>1. \A q : Reach(p, q)' <=> Reach(p, q)
          BY <1>4, <3>5 DEF Reach, Routed, LegKinds
        <4>2. Filled(d, a, p)'
          BY <1>9, <2>0, <3>2, <4>1 DEF Filled
        <4>3. Clean(d, a, p)'
          BY <1>9, <2>0, <3>2, <4>1 DEF Clean
        <4>4. Removable(d, a, p)'
          BY <1>12, <3>5 DEF Removable, LegKinds
        <4> QED  BY <4>2, <4>3, <4>4 DEF Fits
      <3> QED  BY <3>3, <3>4, <3>5 DEF LegKinds
    <2> QED  BY <2>1, <2>2
  <1>14. AllFit(Fresh(t))'
    BY <1>13 DEF AllFit, a, Fresh
  <1>15. \A x \in Workers : FitsJob(job[x])'
    <2>1. \A x \in Workers : job'[x].pc = "idle" /\ job'[x].log.kind \in Kinds \cup {"none"}
      BY <1>2 DEF AllIdle, At, IsolatedInv, FitsJob
    <2> QED  BY <2>1 DEF FitsJob
  <1>16. AllIdle'
    BY <1>2 DEF AllIdle, At
  <1> QED  BY <1>1, <1>3, <1>4, <1>14, <1>15, <1>16 DEF IsolatedInv, AllIdle

LEMMA IsolatedInit == Init => IsolatedInv
  <1> SUFFICES ASSUME Init PROVE IsolatedInv
    OBVIOUS
  <1>1. up /\ tx = {} /\ logs = {} /\ \A w \in Workers : job[w] = IdleJob
    BY DEF Init, ApiInit
  <1>2. \A w \in Workers : FitsJob(job[w]) /\ At(w, "idle")
    BY <1>1, FitsIdle DEF At, IdleJob, NoLog
  <1>3. ASSUME NEW p \in Bound(port) PROVE Fits(vm[VmOf[p]], IdleJob, p)
    <2>1. p \in InitPorts /\ Warm /\ VmOf[p] \in Vms
      BY <1>3, TopologyFacts DEF Init, ApiInit, Bound, Absent
    <2>2. vm[VmOf[p]] = WarmDb(VmOf[p]) /\ legs = Nets /\ Distributed
      BY <2>1, AgentAssumption DEF Init, ApiInit, WarmVms
    <2>3. vm[VmOf[p]].lport = port
      BY <2>2 DEF WarmDb, ToDb
    <2>4. \A q \in Present(port) : Reach(p, q)
      BY <1>1, <1>3, <2>2, TopologyFacts, TopologyAssumption DEF Reach, Routed, Present
    <2> QED  BY <2>3, <2>4, NobodyOwes DEF Fits, Filled, Clean, Removable
  <1> QED  BY <1>1, <1>2, <1>3 DEF IsolatedInv, AllFit

LEMMA IsolatedStep ==
  ASSUME OnePortPerVm, NothingFails, PortsStay
  PROVE  TypeInv /\ ReadInv /\ CompleteInv /\ IsolatedInv /\ [SerialNext]_vars
         => IsolatedInv'
  <1> SUFFICES ASSUME TypeInv, ReadInv, CompleteInv, IsolatedInv, [SerialNext]_vars
               PROVE  IsolatedInv'
    OBVIOUS
  <1>1. CASE UNCHANGED vars
    <2>1. UNCHANGED <<port, legs, up, tx, logs, job, vm>>
      BY <1>1 DEF vars
    <2>2. \A w \in Workers : FitsJob(job[w])' /\ (~At(w, "idle") => AllFit(job[w])')
      BY <2>1, FitStays DEF IsolatedInv
    <2>3. /\ AllFit(IdleJob) => AllFit(IdleJob)'
          /\ \A t : AllFit(Fresh(t)) => AllFit(Fresh(t))'
      BY <2>1, FitStays
    <2> QED  BY <2>1, <2>2, <2>3 DEF IsolatedInv, AllIdle, At
  <1>2. CASE Quiet /\ Begin /\ UNCHANGED agentVars
    BY <1>2, IsolatedBegin
  <1>3. CASE AllIdle /\ (\E t \in tx : Commit(t)) /\ UNCHANGED agentVars
    BY <1>3, IsolatedCommit
  <1>4. ASSUME tx = {}, NEW w \in Workers, WorkerNext(w) PROVE IsolatedInv'
    BY <1>4, IsolatedProcess, IsolatedHandle DEF WorkerNext, WorkerDies, NothingFails
  <1>5. ~LateDelivery
    BY DEF LateDelivery, ReadInv, OneAtATime
  <1> QED  BY <1>1, <1>2, <1>3, <1>4, <1>5 DEF SerialNext, Rest

LEMMA IsolatedHolds ==
  ASSUME IsolatedInv PROVE Isolated
  <1> SUFFICES ASSUME Quiet, NEW p \in Bound(port), NEW q \in Present(vm[VmOf[p]].lport)
               PROVE  NetOf[p] = NetOf[q] \/ {NetOf[p], NetOf[q]} \subseteq legs
    BY DEF Isolated
  <1>1. Clean(vm[VmOf[p]], IdleJob, p)
    BY DEF IsolatedInv, Quiet, AllFit, Fits
  <1> QED  BY <1>1, NobodyOwes DEF Clean, Reach, Routed

(* With one port per VM, requests one at a time and nothing that fails, and *)
(* without requests that create or delete a port or disable the router:     *)
(* when all is handled, the VM of a bound port holds no port of a network   *)
(* that is not routed to its own.  The deletes of RouterIfaceDetachAction   *)
(* do not stop half way, because the VM holds every port they name.         *)
THEOREM DetachesIsolate ==
  ASSUME OnePortPerVm, NothingFails, PortsStay
  PROVE  SerialSpec => []Isolated
  <1>1. Init => ReadInv /\ CompleteInv /\ IsolatedInv
    BY ReadInit, CompleteInit, IsolatedInit
  <1>2. TypeInv /\ (ReadInv /\ CompleteInv /\ IsolatedInv) /\ [SerialNext]_vars
        => (ReadInv /\ CompleteInv /\ IsolatedInv)'
    BY ReadStep, CompleteStep, IsolatedStep
  <1>3. ReadInv /\ CompleteInv /\ IsolatedInv => Isolated
    BY IsolatedHolds
  <1> QED  BY <1>1, <1>2, <1>3, SerialTypes, PTL DEF SerialSpec
=============================================================================
