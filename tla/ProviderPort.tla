---------------------------- MODULE ProviderPort ----------------------------
(***************************************************************************)
(* The provider port API (services/bambuk/bambuk_plugin.py) and the process *)
(* that configures a VM (cmd/startup.py).                                   *)
(*                                                                         *)
(* A request runs in one database transaction: it writes its row, sends the *)
(* VM the list of its ports and waits for the answer with no time limit,    *)
(* and only then writes the binding:profile of the Neutron port and commits.*)
(* The VM rebuilds its bridge from every list it receives, so what counts   *)
(* is the last list.  A bind_port or unbind_port request of NeutronApi is   *)
(* the update_port call made here.                                          *)
(***************************************************************************)
EXTENDS Naturals, Sequences

CONSTANTS Ports,     \* Neutron ports
          Vms,       \* VMs, one management address each
          NoVm,      \* no address
          Threads,   \* API workers
          Kinds,     \* the kinds of request that are made
          Faulty,    \* VMs may fail and restart, transactions may fail
          MaxReq     \* bound on the number of requests

(* A touch is an update whose values the row has already.                  *)
AllKinds == {"create", "update", "touch", "delete"}

ASSUME ProviderAssumption ==
  /\ NoVm \notin Vms
  /\ Kinds \subseteq AllKinds
  /\ Faulty \in BOOLEAN
  /\ MaxReq \in Nat

VARIABLES nport,     \* Neutron ports that exist
          profile,   \* provider_mgnt_ip in the binding:profile of a port
          row,       \* providerports: provider_mgnt_ip of the row of a port
          req,       \* req[r]: the request thread r runs and its locals
          reqs,      \* requests made so far
          queue,     \* queue[v]: what waits at the REP socket of VM v
          plugged,   \* plugged[v]: ports with an interface on br-int of VM v
          cfg,       \* VMs with a configuration file
          boot,      \* VMs whose main thread has still to run start_df
          stuck,     \* VMs whose REP socket owes an answer it will never send
          failed     \* VMs that have failed or restarted

vars == <<nport, profile, row, req, reqs, queue, plugged, cfg, boot, stuck, failed>>

Steps == {"lookup", "flush", "send", "wait", "profile"}

(* The steps of a request after its transaction's first query.             *)
Held == {"send", "wait", "profile"}

(* The transaction of request q has written its row and holds its lock.  A  *)
(* touch emits no UPDATE and so takes none.                                 *)
HoldsLock(q) == q.pc \in Held /\ q.kind # "touch"

(* A request's locals: its port, the address its row is given or was read  *)
(* with, and the ports it tells the VM of.                                 *)
Req == [pc : Steps, kind : AllKinds, port : Ports, vm : Vms \cup {NoVm},
        conf : SUBSET Ports]

IdleReq == [pc |-> "idle", kind |-> "none", port |-> NoVm, vm |-> NoVm,
            conf |-> {}]

Conf == [from : Threads, ports : SUBSET Ports]

TypeOK ==
  /\ nport \subseteq Ports
  /\ profile \in [Ports -> Vms \cup {NoVm}]
  /\ row \in [Ports -> Vms \cup {NoVm}]
  /\ req \in [Threads -> Req \cup {IdleReq}]
  /\ reqs \in Nat
  /\ queue \in [Vms -> Seq(Conf)]
  /\ plugged \in [Vms -> SUBSET Ports]
  /\ cfg \subseteq Vms
  /\ boot \subseteq Vms
  /\ stuck \subseteq Vms
  /\ failed \subseteq Vms

Init ==
  /\ nport = Ports
  /\ profile = [p \in Ports |-> NoVm]
  /\ row = [p \in Ports |-> NoVm]
  /\ req = [r \in Threads |-> IdleReq]
  /\ reqs = 0
  /\ queue = [v \in Vms |-> <<>>]
  /\ plugged = [v \in Vms |-> {}]
  /\ cfg = {} /\ boot = {} /\ stuck = {} /\ failed = {}
-----------------------------------------------------------------------------
(* The API.                                                                *)

At(r, pc) == req[r].pc = pc

Goto(r, q) == req' = [req EXCEPT ![r] = q]

(* Mutant of Finish: the locals of the request are kept.                   *)
FinishKeeps(r) == req' = [req EXCEPT ![r].pc = "idle"]

(* The request returns, or raises and its transaction is rolled back.      *)
Finish(r) == Goto(r, IdleReq)

Start(r, kind, p, v) ==
  /\ At(r, "idle")
  /\ reqs < MaxReq
  /\ reqs' = reqs + 1
  /\ Goto(r, [pc |-> "lookup", kind |-> kind, port |-> p, vm |-> v,
              conf |-> {}])
  /\ UNCHANGED <<nport, profile, row, queue, plugged, cfg, boot, stuck, failed>>

(* Only a create names an address; extensions/bambuk.py lets no update do. *)
Requests(r) ==
  \/ "create" \in Kinds /\ \E p \in Ports, v \in Vms : Start(r, "create", p, v)
  \/ \E k \in Kinds \ {"create"}, p \in Ports : Start(r, k, p, NoVm)

(* What a request reads before its transaction begins.  A create or an     *)
(* update of a port that Neutron does not have raises; so does an update of *)
(* a missing row, while a delete of one is done.                            *)
Lookup(r) ==
  /\ At(r, "lookup")
  /\ LET q  == req[r]
         ok == CASE q.kind = "create" -> q.port \in nport
                 [] q.kind \in {"update", "touch"} ->
                      row[q.port] # NoVm /\ q.port \in nport
                 [] q.kind = "delete" -> row[q.port] # NoVm
     IN  IF ok
         THEN Goto(r, [q EXCEPT !.pc = "flush",
                         !.vm = IF q.kind = "create" THEN @ ELSE row[q.port]])
         ELSE Finish(r)
  /\ UNCHANGED <<nport, profile, row, reqs, queue, plugged, cfg, boot, stuck, failed>>

(* Mutant of Locked: no lock is waited for.                                *)
LockedNever(r, p) == FALSE

(* Another transaction holds the lock of the row of p.                     *)
Locked(r, p) == \E s \in Threads \ {r} : req[s].port = p /\ HoldsLock(req[s])

(* Mutant of VmConf: the other ports of the VM are left out.               *)
VmConfOwn(p, v) == {p}

(* _get_vm_conf: the port, and the ports that have a committed row with the *)
(* same management address.                                                 *)
VmConf(p, v) == {p} \cup {o \in Ports : row[o] = v}

(* Mutant of CanFlush: an insert replaces the row there is.                *)
CanFlushAny(q) == q.kind = "update" => row[q.port] # NoVm

(* An insert needs the key to be free, an update its row to be still there; *)
(* a delete that removes no row is only warned of, and a touch looks at     *)
(* nothing.                                                                 *)
CanFlush(q) ==
  /\ q.kind = "create" => row[q.port] = NoVm
  /\ q.kind = "update" => row[q.port] # NoVm

(* The transaction's first query flushes its write, if there is one, and    *)
(* takes the row lock.                                                      *)
(* _get_vm_conf raises if Neutron no longer has one of the other ports.     *)
(* A delete tells the VM nothing.                                           *)
Flush(r) ==
  /\ At(r, "flush")
  /\ LET q    == req[r]
         conf == VmConf(q.port, q.vm)
     IN  /\ q.kind # "touch" => ~Locked(r, q.port)
         /\ \/ q.kind = "delete" /\ Goto(r, [q EXCEPT !.pc = "profile"])
            \/ /\ q.kind # "delete"
               /\ IF CanFlush(q) /\ conf \ {q.port} \subseteq nport
                  THEN Goto(r, [q EXCEPT !.pc = "send", !.conf = conf])
                  ELSE Finish(r)
  /\ UNCHANGED <<nport, profile, row, reqs, queue, plugged, cfg, boot, stuck, failed>>

(* Mutant of Send: the answer is not waited for.                           *)
SendAndForget(r) ==
  /\ At(r, "send")
  /\ queue' = [queue EXCEPT ![req[r].vm] =
                 Append(@, [from |-> r, ports |-> req[r].conf])]
  /\ Goto(r, [req[r] EXCEPT !.pc = "profile"])
  /\ UNCHANGED <<nport, profile, row, reqs, plugged, cfg, boot, stuck, failed>>

(* _send: a REQ socket of its own, then recv() with no time limit.         *)
Send(r) ==
  /\ At(r, "send")
  /\ queue' = [queue EXCEPT ![req[r].vm] =
                 Append(@, [from |-> r, ports |-> req[r].conf])]
  /\ Goto(r, [req[r] EXCEPT !.pc = "wait"])
  /\ UNCHANGED <<nport, profile, row, reqs, plugged, cfg, boot, stuck, failed>>

(* update_port and the end of the transaction.  update_port raises if the   *)
(* Neutron port is gone: the row a delete removed is back, and the VM is    *)
(* not told that the create failed.                                         *)
UpdatePort(r) ==
  /\ At(r, "profile")
  /\ LET q == req[r]
         p == q.port
         v == IF q.kind = "delete" THEN NoVm ELSE q.vm
     IN  IF p \in nport
         THEN /\ profile' = [profile EXCEPT ![p] = v]
              /\ row' = IF q.kind \in {"update", "touch"} THEN row
                      ELSE [row EXCEPT ![p] = v]
         ELSE UNCHANGED <<profile, row>>
  /\ Finish(r)
  /\ UNCHANGED <<nport, reqs, queue, plugged, cfg, boot, stuck, failed>>

(* The database refuses the commit.                                        *)
Rollback(r) ==
  /\ Faulty
  /\ At(r, "profile")
  /\ Finish(r)
  /\ UNCHANGED <<nport, profile, row, reqs, queue, plugged, cfg, boot, stuck, failed>>

(* Neutron's delete_port knows nothing of the provider port's row.         *)
DeletePort(p) ==
  /\ p \in nport
  /\ nport' = nport \ {p}
  /\ profile' = [profile EXCEPT ![p] = NoVm]
  /\ UNCHANGED <<row, req, reqs, queue, plugged, cfg, boot, stuck, failed>>
-----------------------------------------------------------------------------
(* The startup process of a VM.                                            *)

CanReceive(v) == v \notin stuck /\ queue[v] # <<>>

(* start_df: delete and create the bridge, then plug the ports.            *)
StartDf(v, ports) == plugged' = [plugged EXCEPT ![v] = ports]

(* Startup.apply: write the configuration file and start over with ports.  *)
Apply(v, ports) == cfg' = cfg \cup {v} /\ StartDf(v, ports)

(* Mutant of Receive: a list that changes nothing is not answered.         *)
ReceiveNew(v) ==
  /\ CanReceive(v)
  /\ LET m == Head(queue[v])
     IN  /\ Apply(v, m.ports)
         /\ req' = [req EXCEPT ![m.from].pc =
                      IF plugged[v] = m.ports THEN @ ELSE "profile"]
  /\ queue' = [queue EXCEPT ![v] = Tail(@)]
  /\ UNCHANGED <<nport, profile, row, reqs, boot, stuck, failed>>

(* receive: apply the list and answer.  The md5 of the list is kept, but    *)
(* apply is called whether it changed or not.                               *)
Receive(v) ==
  /\ CanReceive(v)
  /\ LET m == Head(queue[v])
     IN  /\ Apply(v, m.ports)
         /\ req' = [req EXCEPT ![m.from].pc = "profile"]
  /\ queue' = [queue EXCEPT ![v] = Tail(@)]
  /\ UNCHANGED <<nport, profile, row, reqs, boot, stuck, failed>>

(* apply raises somewhere: no answer is sent, and from then on every recv   *)
(* of the REP socket raises as well.                                        *)
ReceiveRaises(v) ==
  /\ Faulty
  /\ CanReceive(v)
  /\ \E done \in SUBSET Head(queue[v]).ports : Apply(v, done)
  /\ queue' = [queue EXCEPT ![v] = Tail(@)]
  /\ stuck' = stuck \cup {v}
  /\ failed' = failed \cup {v}
  /\ UNCHANGED <<nport, profile, row, req, reqs, boot>>

(* The VM restarts: main starts the receive thread again and sleeps.  The   *)
(* requests whose message or answer is lost wait for ever.                  *)
Restart(v) ==
  /\ Faulty
  /\ v \notin boot
  /\ queue' = [queue EXCEPT ![v] = <<>>]
  /\ boot' = boot \cup {v}
  /\ stuck' = stuck \ {v}
  /\ failed' = failed \cup {v}
  /\ UNCHANGED <<nport, profile, row, req, reqs, plugged, cfg>>

(* main: if there is a configuration file, start_df rebuilds the bridge and *)
(* raises at the first port, because the file gives the list as a string.   *)
(* What the receive thread plugged after the bridge was deleted is kept.    *)
BootStartDf(v) ==
  /\ v \in boot
  /\ IF v \in cfg
     THEN \E kept \in SUBSET plugged[v] : StartDf(v, kept)
     ELSE UNCHANGED plugged
  /\ boot' = boot \ {v}
  /\ UNCHANGED <<nport, profile, row, req, reqs, queue, cfg, stuck, failed>>
-----------------------------------------------------------------------------
Quiet == \A r \in Threads : At(r, "idle")

(* The environment has made its last request and all have ended.           *)
Rest == Quiet /\ reqs = MaxReq /\ UNCHANGED vars

Work(r) == Lookup(r) \/ Flush(r) \/ Send(r) \/ UpdatePort(r) \/ Rollback(r)

VmNext(v) == Receive(v) \/ ReceiveRaises(v) \/ Restart(v) \/ BootStartDf(v)

Next ==
  \/ \E r \in Threads : Requests(r) \/ Work(r)
  \/ \E p \in Ports : DeletePort(p)
  \/ \E v \in Vms : VmNext(v)
  \/ Rest

Spec == Init /\ [][Next]_vars

(* The VM a request is about; for an update or a delete, the one of the row.*)
Target(q) == IF q.kind = "create" THEN q.vm ELSE row[q.port]

(* The same system under a caller who has at most one request per VM.      *)
PerVmNext ==
  \/ \E r \in Threads :
       /\ Requests(r)
       /\ \A s \in Threads \ {r} :
            At(s, "idle") \/ Target(req[s]) # Target(req'[r])
  \/ \E r \in Threads : Work(r)
  \/ \E p \in Ports : DeletePort(p)
  \/ \E v \in Vms : VmNext(v)
  \/ Rest

PerVmSpec == Init /\ [][PerVmNext]_vars

(* Threads and VMs go on: no step of theirs waits for anything but a lock,  *)
(* an answer or a message.                                                  *)
Fairness ==
  /\ \A r \in Threads : WF_vars(Work(r))
  /\ \A v \in Vms : WF_vars(Receive(v))

FairSpec == Spec /\ Fairness
-----------------------------------------------------------------------------
(* Between its first write and its commit, a transaction is alone on its    *)
(* row, and one that inserts has found no row: the VM takes its time in     *)
(* between (create_providerport, from session.add to update_port).          *)
Exclusive ==
  \A r \in Threads : HoldsLock(req[r]) =>
    /\ ~Locked(r, req[r].port)
    /\ req[r].kind = "create" => row[req[r].port] = NoVm

(* A list that lies at a VM's socket is that of a request which waits for   *)
(* this VM's answer, and a request has one list out at a time: an answer    *)
(* never wakes another request, restarts included (_send, receive).         *)
Awaited ==
  \A v \in Vms : \A i, j \in 1 .. Len(queue[v]) :
    /\ req[queue[v][i].from].pc = "wait"
    /\ req[queue[v][i].from].vm = v
    /\ queue[v][i].from = queue[v][j].from => i = j

(* The address of a provider port never changes while its row exists: of   *)
(* two creates of one port, only one passes the insert, however long the   *)
(* VM takes to answer, and a port moves only by a delete and a create      *)
(* (create_providerport, delete_providerport).                             *)
AddressStable ==
  [][\A p \in Ports : row[p] # NoVm /\ row'[p] # NoVm => row'[p] = row[p]]_vars

(* When no request is running, a VM has an interface for each of its       *)
(* provider ports: the list sent last by create_providerport or            *)
(* update_providerport named them all, and start_df plugged them.          *)
AllPortsPlugged ==
  Quiet => \A p \in nport : row[p] # NoVm => p \in plugged[row[p]]

(* The request waits for an answer that its VM will never send: the VM has  *)
(* failed, and the list was lost or the VM's socket is stuck.               *)
Abandoned(r) ==
  /\ At(r, "wait")
  /\ req[r].vm \in failed
  /\ \/ req[r].vm \in stuck
     \/ \A i \in 1 .. Len(queue[req[r].vm]) : queue[req[r].vm][i].from # r

(* Every request ends, although its transaction waits for the VM's answer   *)
(* and others wait for its lock (_send and receive); it is held up only by  *)
(* a failing VM that has abandoned it, or abandoned one that holds the lock *)
(* of the same port.  Failing VMs stop no request on another port, although *)
(* VMs and threads are shared.                                              *)
RequestsEnd ==
  \A r \in Threads :
    ~At(r, "idle") ~>
      \/ At(r, "idle")
      \/ \E s \in Threads :
           /\ Abandoned(s)
           /\ s = r \/ (req[s].port = req[r].port /\ HoldsLock(req[s]))
=============================================================================
