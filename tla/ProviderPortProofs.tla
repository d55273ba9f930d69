------------------------- MODULE ProviderPortProofs -------------------------
(* Proofs about provider ports, for any number of ports, VMs and threads.   *)
EXTENDS ProviderPort, TLAPS

(* The inductive invariant.  Exclusive needs Awaited: an answer moves the   *)
(* request that it names on, which must be the one that waits.              *)
ProviderInv == TypeOK /\ Exclusive /\ Awaited

LEMMA IdleFacts ==
  /\ IdleReq.pc = "idle"
  /\ "idle" \notin Held
  /\ "lookup" \notin Held
  /\ "flush" \notin Held
  /\ "wait" \in Held
  BY DEF IdleReq, Held

LEMMA InQueue ==
  ASSUME TypeOK, NEW v \in Vms, NEW k \in 1 .. Len(queue[v])
  PROVE  queue[v][k] \in Conf /\ queue[v][k].from \in Threads
  <1>1. queue[v] \in Seq(Conf)
    BY DEF TypeOK
  <1>2. queue[v][k] \in Conf
    BY <1>1
  <1> QED  BY <1>2 DEF Conf

(* A step that changes nothing but the request of r, which is outside its   *)
(* locked part before and after, keeps the invariant.                       *)
LEMMA OutsideStep ==
  ASSUME ProviderInv, NEW r \in Threads, NEW q \in Req \cup {IdleReq},
         req[r].pc # "wait", q.pc \notin Held,
         req' = [req EXCEPT ![r] = q], reqs' \in Nat,
         UNCHANGED <<nport, profile, row, queue, plugged, cfg, boot, stuck, failed>>
  PROVE  ProviderInv'
  <1>1. TypeOK'
    BY DEF ProviderInv, TypeOK
  <1>2. Exclusive'
    BY DEF ProviderInv, TypeOK, Exclusive, Locked, HoldsLock
  <1>3. Awaited'
    BY DEF ProviderInv, TypeOK, Awaited, Conf
  <1> QED  BY <1>1, <1>2, <1>3 DEF ProviderInv

(* A step of r inside the locked part, or into it when nobody is there.     *)
LEMMA InsideStep ==
  ASSUME ProviderInv, NEW r \in Threads, NEW q \in Req,
         req[r].pc # "wait", HoldsLock(q) => ~Locked(r, q.port),
         q.kind = "create" => row[q.port] = NoVm,
         req' = [req EXCEPT ![r] = q],
         UNCHANGED <<nport, profile, row, reqs, queue, plugged, cfg, boot, stuck, failed>>
  PROVE  ProviderInv'
  <1>1. TypeOK'
    BY DEF ProviderInv, TypeOK
  <1>2. Exclusive'
    BY DEF ProviderInv, TypeOK, Exclusive, Locked, HoldsLock
  <1>3. Awaited'
    BY DEF ProviderInv, TypeOK, Awaited, Conf
  <1> QED  BY <1>1, <1>2, <1>3 DEF ProviderInv

LEMMA RequestsStep ==
  ASSUME ProviderInv, NEW r \in Threads, Requests(r)
  PROVE  ProviderInv'
  <1>1. PICK k \in AllKinds, p \in Ports, v \in Vms \cup {NoVm} : Start(r, k, p, v)
    BY ProviderAssumption DEF Requests, AllKinds
  <1> DEFINE q == [pc |-> "lookup", kind |-> k, port |-> p, vm |-> v, conf |-> {}]
  <1>2. q \in Req /\ q.pc \notin Held
    BY DEF Req, Steps, Held
  <1>3. req[r].pc # "wait" /\ reqs' \in Nat
    BY <1>1 DEF Start, At, ProviderInv, TypeOK
  <1>4. /\ req' = [req EXCEPT ![r] = q]
        /\ UNCHANGED <<nport, profile, row, queue, plugged, cfg, boot, stuck, failed>>
    BY <1>1 DEF Start, Goto
  <1> HIDE DEF q
  <1> QED  BY <1>2, <1>3, <1>4, OutsideStep

(* A thread that is at a step of a request holds a request.                *)
LEMMA ActiveReq ==
  ASSUME TypeOK, NEW r \in Threads, req[r].pc # "idle"
  PROVE  req[r] \in Req
  BY DEF TypeOK, IdleReq

LEMMA FinishStep ==
  ASSUME ProviderInv, NEW r \in Threads, Finish(r), req[r].pc # "wait",
         UNCHANGED <<nport, profile, row, reqs, queue, plugged, cfg, boot, stuck, failed>>
  PROVE  ProviderInv'
  <1>1. reqs' \in Nat
    BY DEF ProviderInv, TypeOK
  <1> QED  BY <1>1, IdleFacts, OutsideStep DEF Finish, Goto

LEMMA LookupStep ==
  ASSUME ProviderInv, NEW r \in Threads, Lookup(r)
  PROVE  ProviderInv'
  <1>1. CASE Finish(r)
    BY <1>1, FinishStep DEF Lookup, At
  <1>2. CASE ~Finish(r)
    <2> DEFINE q == [req[r] EXCEPT !.pc = "flush",
                 !.vm = IF req[r].kind = "create" THEN @ ELSE row[req[r].port]]
    <2>1. req[r] \in Req
      BY ActiveReq DEF ProviderInv, Lookup, At
    <2>2. q \in Req /\ q.pc = "flush"
      BY <2>1 DEF Req, Steps, ProviderInv, TypeOK
    <2>3. req' = [req EXCEPT ![r] = q]
      BY <1>2 DEF Lookup, Goto
    <2>4. /\ req[r].pc # "wait" /\ reqs' \in Nat
          /\ UNCHANGED <<nport, profile, row, queue, plugged, cfg, boot, stuck, failed>>
      BY DEF Lookup, At, ProviderInv, TypeOK
    <2> HIDE DEF q
    <2> QED  BY <2>2, <2>3, <2>4, IdleFacts, OutsideStep
  <1> QED  BY <1>1, <1>2

LEMMA FlushStep ==
  ASSUME ProviderInv, NEW r \in Threads, Flush(r)
  PROVE  ProviderInv'
  <1>1. /\ req[r] \in Req /\ req[r].pc = "flush"
        /\ req[r].kind # "touch" => ~Locked(r, req[r].port)
        /\ UNCHANGED <<nport, profile, row, reqs, queue, plugged, cfg, boot, stuck, failed>>
    BY ActiveReq DEF ProviderInv, Flush, At
  <1>2. CASE Finish(r)
    BY <1>1, <1>2, FinishStep
  <1>3. CASE req[r].kind = "delete" /\ Goto(r, [req[r] EXCEPT !.pc = "profile"])
    <2> DEFINE q == [req[r] EXCEPT !.pc = "profile"]
    <2>1. /\ q \in Req /\ q.pc \in Held /\ q.port = req[r].port
          /\ q.kind = "delete"
      BY <1>1, <1>3 DEF Req, Steps, Held
    <2>2. req' = [req EXCEPT ![r] = q]
      BY <1>3 DEF Goto
    <2> HIDE DEF q
    <2> QED  BY <1>1, <1>3, <2>1, <2>2, InsideStep
  <1>4. CASE /\ CanFlush(req[r])
             /\ Goto(r, [req[r] EXCEPT !.pc = "send",
                                       !.conf = VmConf(req[r].port, req[r].vm)])
    <2> DEFINE q == [req[r] EXCEPT !.pc = "send",
                                   !.conf = VmConf(req[r].port, req[r].vm)]
    <2>1. VmConf(req[r].port, req[r].vm) \subseteq Ports
      BY <1>1 DEF VmConf, Req
    <2>2. /\ q \in Req /\ q.pc \in Held /\ q.port = req[r].port
          /\ q.kind = req[r].kind
      BY <1>1, <2>1 DEF Req, Steps, Held
    <2>3. q.kind = "create" => row[q.port] = NoVm
      BY <1>4, <2>2 DEF CanFlush
    <2>4. req' = [req EXCEPT ![r] = q]
      BY <1>4 DEF Goto
    <2> HIDE DEF q
    <2> QED  BY <1>1, <2>2, <2>3, <2>4, InsideStep DEF HoldsLock
  <1> QED  BY <1>2, <1>3, <1>4 DEF Flush

(* The list goes to the end of the VM's queue, and the request waits.      *)
LEMMA SendStep ==
  ASSUME ProviderInv, NEW r \in Threads, Send(r)
  PROVE  ProviderInv'
  <1> DEFINE m == [from |-> r, ports |-> req[r].conf]
             q == [req[r] EXCEPT !.pc = "wait"]
  <1>1. req[r] \in Req /\ req[r].pc = "send"
    BY ActiveReq DEF ProviderInv, Send, At
  <1>2. q \in Req /\ q.pc = "wait" /\ m \in Conf /\ m.from = r
    BY <1>1 DEF Req, Steps, Conf
  <1>3. q.port = req[r].port /\ q.kind = req[r].kind /\ q.vm = req[r].vm
    BY <1>1 DEF Req
  <1>4. /\ req' = [req EXCEPT ![r] = q]
        /\ queue' = [queue EXCEPT ![req[r].vm] = Append(@, m)]
        /\ UNCHANGED <<nport, profile, row, reqs, plugged, cfg, boot, stuck, failed>>
    BY DEF Send, Goto
  <1> HIDE DEF m, q
  <1>5. queue' \in [Vms -> Seq(Conf)]
    <2>1. queue \in [Vms -> Seq(Conf)]
      BY DEF ProviderInv, TypeOK
    <2>2. \A s \in Seq(Conf) : Append(s, m) \in Seq(Conf)
      BY <1>2
    <2> QED  BY <1>4, <2>1, <2>2
  <1>6. TypeOK'
    BY <1>2, <1>4, <1>5 DEF ProviderInv, TypeOK
  <1>7. Exclusive'
    BY <1>1, <1>2, <1>3, <1>4 DEF ProviderInv, TypeOK, Exclusive, Locked, HoldsLock, Held
  <1>8. Awaited'
    <2> SUFFICES ASSUME NEW v \in Vms, NEW i \in 1 .. Len(queue'[v]),
                        NEW j \in 1 .. Len(queue'[v])
                 PROVE  /\ req'[queue'[v][i].from].pc = "wait"
                        /\ req'[queue'[v][i].from].vm = v
                        /\ queue'[v][i].from = queue'[v][j].from => i = j
      BY DEF Awaited
    <2>1. ASSUME NEW k \in 1 .. Len(queue[v])
          PROVE  /\ queue[v][k].from \in Threads \ {r}
                 /\ req[queue[v][k].from].pc = "wait"
                 /\ req[queue[v][k].from].vm = v
      BY <1>1, InQueue DEF ProviderInv, Awaited
    <2>2. CASE v # req[r].vm
      <3>1. queue'[v] = queue[v]
        BY <1>4, <2>2 DEF ProviderInv, TypeOK
      <3>2. \A k \in 1 .. Len(queue[v]) :
              req'[queue[v][k].from] = req[queue[v][k].from]
        BY <1>4, <2>1 DEF ProviderInv, TypeOK
      <3>3. queue[v][i].from = queue[v][j].from => i = j
        BY <3>1 DEF ProviderInv, Awaited
      <3> QED  BY <2>1, <3>1, <3>2, <3>3
    <2>3. CASE v = req[r].vm
      <3>1. queue'[v] = Append(queue[v], m) /\ queue[v] \in Seq(Conf)
        BY <1>4, <2>3 DEF ProviderInv, TypeOK
      <3>2. /\ Len(queue'[v]) = Len(queue[v]) + 1
            /\ Len(queue[v]) \in Nat
            /\ \A k \in 1 .. Len(queue[v]) : queue'[v][k] = queue[v][k]
            /\ queue'[v][Len(queue[v]) + 1] = m
        BY <1>2, <3>1
      <3>3. i \in 1 .. Len(queue[v]) \/ i = Len(queue[v]) + 1
        BY <3>2
      <3>4. j \in 1 .. Len(queue[v]) \/ j = Len(queue[v]) + 1
        BY <3>2
      <3>5. req' [r] = q
        BY <1>4 DEF ProviderInv, TypeOK
      <3>6. /\ req'[queue'[v][i].from].pc = "wait"
            /\ req'[queue'[v][i].from].vm = v
        <4>1. CASE i \in 1 .. Len(queue[v])
          <5>1. req'[queue[v][i].from] = req[queue[v][i].from]
            BY <1>4, <2>1, <4>1 DEF ProviderInv, TypeOK
          <5> QED  BY <2>1, <3>2, <4>1, <5>1
        <4>2. CASE i = Len(queue[v]) + 1
          BY <1>2, <1>3, <2>3, <3>2, <3>5, <4>2
        <4> QED  BY <3>3, <4>1, <4>2
      <3>7. queue'[v][i].from = queue'[v][j].from => i = j
        <4>1. CASE i \in 1 .. Len(queue[v]) /\ j \in 1 .. Len(queue[v])
          <5>1. queue[v][i].from = queue[v][j].from => i = j
            BY <4>1 DEF ProviderInv, Awaited
          <5> QED  BY <3>2, <4>1, <5>1
        <4>2. CASE i = Len(queue[v]) + 1 \/ j = Len(queue[v]) + 1
          BY <1>2, <2>1, <3>2, <3>3, <3>4, <4>2
        <4> QED  BY <3>3, <3>4, <4>1, <4>2
      <3> QED  BY <3>6, <3>7
    <2> QED  BY <2>2, <2>3
  <1> QED  BY <1>6, <1>7, <1>8 DEF ProviderInv

LEMMA UpdatePortStep ==
  ASSUME ProviderInv, NEW r \in Threads, UpdatePort(r)
  PROVE  ProviderInv'
  <1>1. req[r] \in Req /\ req[r].pc = "profile"
    BY ActiveReq DEF ProviderInv, UpdatePort, At
  <1>2. /\ req' = [req EXCEPT ![r] = IdleReq]
        /\ UNCHANGED <<nport, reqs, queue, plugged, cfg, boot, stuck, failed>>
    BY DEF UpdatePort, Finish, Goto
  <1>3. \A p \in Ports : p # req[r].port => row'[p] = row[p]
    BY <1>1 DEF UpdatePort, ProviderInv, TypeOK, Req
  <1>4. TypeOK'
    BY <1>1, <1>2 DEF UpdatePort, ProviderInv, TypeOK, Req
  <1>5. Exclusive'
    <2> SUFFICES ASSUME NEW s \in Threads, HoldsLock(req'[s])
                 PROVE  /\ ~Locked(s, req[s].port)'
                        /\ req'[s].kind = "create" => row'[req'[s].port] = NoVm
      BY DEF Exclusive, HoldsLock
    <2>1. s # r /\ req'[s] = req[s] /\ HoldsLock(req[s])
      BY <1>2, IdleFacts DEF HoldsLock, ProviderInv, TypeOK
    <2>2. /\ ~Locked(s, req[s].port)
          /\ req[s].kind = "create" => row[req[s].port] = NoVm
      BY <2>1 DEF ProviderInv, Exclusive
    <2>3. ~Locked(s, req[s].port)'
      BY <1>2, <2>1, <2>2, IdleFacts DEF Locked, HoldsLock, ProviderInv, TypeOK
    <2>4. row'[req[s].port] = row[req[s].port]
      <3>1. CASE req[s].port = req[r].port
        <4>1. ~HoldsLock(req[r])
          BY <2>1, <2>2, <3>1 DEF Locked
        <4>2. req[r].kind = "touch"
          BY <1>1, <4>1 DEF HoldsLock, Held
        <4> QED  BY <4>2 DEF UpdatePort
      <3>2. CASE req[s].port # req[r].port
        <4>1. req[s].port \in Ports
          BY <2>1, IdleFacts, ActiveReq DEF HoldsLock, Req, ProviderInv
        <4> QED  BY <1>3, <3>2, <4>1
      <3> QED  BY <3>1, <3>2
    <2> QED  BY <2>1, <2>2, <2>3, <2>4
  <1>6. Awaited'
    BY <1>1, <1>2 DEF ProviderInv, TypeOK, Awaited, Conf
  <1> QED  BY <1>4, <1>5, <1>6 DEF ProviderInv

(* Taking the head off a VM's queue: what is left was there before, and     *)
(* none of it is of the request whose list was taken.                       *)
LEMMA TailFacts ==
  ASSUME ProviderInv, NEW v \in Vms, CanReceive(v),
         queue' = [queue EXCEPT ![v] = Tail(@)]
  PROVE  /\ queue' \in [Vms -> Seq(Conf)]
         /\ Head(queue[v]) \in Conf
         /\ req[Head(queue[v]).from].pc = "wait"
         /\ \A w \in Vms : \A i, j \in 1 .. Len(queue'[w]) :
              /\ queue'[w][i].from \in Threads \ {Head(queue[v]).from}
              /\ req[queue'[w][i].from].pc = "wait"
              /\ req[queue'[w][i].from].vm = w
              /\ queue'[w][i].from = queue'[w][j].from => i = j
  <1> DEFINE m == Head(queue[v])
  <1>1. queue[v] \in Seq(Conf) /\ queue[v] # <<>>
    BY DEF ProviderInv, TypeOK, CanReceive
  <1>2. Len(queue[v]) \in Nat \ {0} /\ m = queue[v][1]
    BY <1>1
  <1>3. /\ Tail(queue[v]) \in Seq(Conf)
        /\ Len(Tail(queue[v])) = Len(queue[v]) - 1
        /\ \A i \in 1 .. Len(Tail(queue[v])) :
             Tail(queue[v])[i] = queue[v][i + 1]
    BY <1>1
  <1>4. queue' \in [Vms -> Seq(Conf)] /\ queue'[v] = Tail(queue[v])
    BY <1>3 DEF ProviderInv, TypeOK
  <1>5. /\ m \in Conf /\ m.from \in Threads
        /\ req[m.from].pc = "wait" /\ req[m.from].vm = v
    BY <1>2, InQueue DEF ProviderInv, Awaited
  <1>6. ASSUME NEW w \in Vms, NEW i \in 1 .. Len(queue'[w]),
               NEW j \in 1 .. Len(queue'[w])
        PROVE  /\ queue'[w][i].from \in Threads \ {m.from}
               /\ req[queue'[w][i].from].pc = "wait"
               /\ req[queue'[w][i].from].vm = w
               /\ queue'[w][i].from = queue'[w][j].from => i = j
    <2>1. CASE w # v
      <3>1. queue'[w] = queue[w]
        BY <2>1 DEF ProviderInv, TypeOK
      <3>2. /\ queue[w][i].from \in Threads
            /\ req[queue[w][i].from].pc = "wait"
            /\ req[queue[w][i].from].vm = w
            /\ queue[w][i].from = queue[w][j].from => i = j
        BY <3>1, InQueue DEF ProviderInv, Awaited
      <3> QED  BY <1>5, <2>1, <3>1, <3>2
    <2>2. CASE w = v
      <3> HIDE DEF m
      <3>1. /\ i + 1 \in 1 .. Len(queue[v]) /\ j + 1 \in 1 .. Len(queue[v])
            /\ 1 \in 1 .. Len(queue[v])
            /\ queue'[w][i] = queue[v][i + 1] /\ queue'[w][j] = queue[v][j + 1]
            /\ i + 1 # 1 /\ (i + 1 = j + 1 => i = j)
        BY <1>2, <1>3, <1>4, <2>2
      <3>2. /\ queue[v][i + 1].from \in Threads
            /\ req[queue[v][i + 1].from].pc = "wait"
            /\ req[queue[v][i + 1].from].vm = v
            /\ queue[v][i + 1].from = queue[v][j + 1].from => i + 1 = j + 1
            /\ queue[v][i + 1].from = queue[v][1].from => i + 1 = 1
        BY <3>1, InQueue DEF ProviderInv, Awaited
      <3> QED  BY <1>2, <2>2, <3>1, <3>2
    <2> QED  BY <2>1, <2>2
  <1> QED  BY <1>4, <1>5, <1>6

(* The answer moves the waiting request on, and no other.                  *)
LEMMA ReceiveStep ==
  ASSUME ProviderInv, NEW v \in Vms, Receive(v)
  PROVE  ProviderInv'
  <1> DEFINE r == Head(queue[v]).from
             q == [req[r] EXCEPT !.pc = "profile"]
  <1>1. CanReceive(v) /\ queue' = [queue EXCEPT ![v] = Tail(@)]
    BY DEF Receive
  <1>2. r \in Threads /\ req[r].pc = "wait"
    BY <1>1, TailFacts DEF Conf
  <1>3. req[r] \in Req
    BY <1>2, ActiveReq DEF ProviderInv
  <1>4. /\ q \in Req /\ q.pc = "profile" /\ q.port = req[r].port
        /\ q.kind = req[r].kind
    BY <1>3 DEF Req, Steps
  <1>5. /\ req' = [req EXCEPT ![r] = q]
        /\ UNCHANGED <<nport, profile, row, reqs, boot, stuck, failed>>
        /\ cfg' = cfg \cup {v}
        /\ plugged' = [plugged EXCEPT ![v] = Head(queue[v]).ports]
    BY DEF Receive, Apply, StartDf
  <1>6. Head(queue[v]).ports \subseteq Ports
    BY <1>1, TailFacts DEF Conf
  <1>7. queue' \in [Vms -> Seq(Conf)]
    BY <1>1, TailFacts
  <1>8. \A w \in Vms : \A i, j \in 1 .. Len(queue'[w]) :
              /\ queue'[w][i].from \in Threads \ {r}
              /\ req[queue'[w][i].from].pc = "wait"
              /\ req[queue'[w][i].from].vm = w
              /\ queue'[w][i].from = queue'[w][j].from => i = j
    BY <1>1, TailFacts
  <1> HIDE DEF r, q
  <1>9. TypeOK'
    BY <1>2, <1>4, <1>5, <1>6, <1>7 DEF ProviderInv, TypeOK
  <1>10. Exclusive'
    BY <1>2, <1>4, <1>5 DEF ProviderInv, TypeOK, Exclusive, Locked, HoldsLock, Held
  <1>11. Awaited'
    BY <1>2, <1>5, <1>8 DEF ProviderInv, TypeOK, Awaited
  <1> QED  BY <1>9, <1>10, <1>11 DEF ProviderInv

LEMMA ReceiveRaisesStep ==
  ASSUME ProviderInv, NEW v \in Vms, ReceiveRaises(v)
  PROVE  ProviderInv'
  <1>1. /\ CanReceive(v) /\ queue' = [queue EXCEPT ![v] = Tail(@)]
        /\ UNCHANGED <<nport, profile, row, req, reqs, boot>>
        /\ stuck' = stuck \cup {v} /\ failed' = failed \cup {v}
    BY DEF ReceiveRaises
  <1>2. Head(queue[v]).ports \subseteq Ports
    BY <1>1, TailFacts DEF Conf
  <1>3. PICK done \in SUBSET Ports :
          cfg' = cfg \cup {v} /\ plugged' = [plugged EXCEPT ![v] = done]
    BY <1>2 DEF ReceiveRaises, Apply, StartDf
  <1>4. TypeOK'
    <2>1. queue' \in [Vms -> Seq(Conf)]
      BY <1>1, TailFacts
    <2> QED  BY <1>1, <1>3, <2>1 DEF ProviderInv, TypeOK
  <1>5. Exclusive'
    BY <1>1 DEF ProviderInv, Exclusive, Locked, HoldsLock
  <1>6. Awaited'
    <2>1. \A w \in Vms : \A i, j \in 1 .. Len(queue'[w]) :
              /\ queue'[w][i].from \in Threads \ {Head(queue[v]).from}
              /\ req[queue'[w][i].from].pc = "wait"
              /\ req[queue'[w][i].from].vm = w
              /\ queue'[w][i].from = queue'[w][j].from => i = j
      BY <1>1, TailFacts
    <2>2. req' = req
      BY <1>1
    <2>3. SUFFICES ASSUME NEW w \in Vms, NEW i \in 1 .. Len(queue'[w]),
                          NEW j \in 1 .. Len(queue'[w])
                   PROVE  /\ req'[queue'[w][i].from].pc = "wait"
                          /\ req'[queue'[w][i].from].vm = w
                          /\ queue'[w][i].from = queue'[w][j].from => i = j
      BY DEF Awaited
    <2> QED  BY <2>1, <2>2
  <1> QED  BY <1>4, <1>5, <1>6 DEF ProviderInv

LEMMA RestartStep ==
  ASSUME ProviderInv, NEW v \in Vms, Restart(v)
  PROVE  ProviderInv'
  <1>1. /\ queue' = [queue EXCEPT ![v] = <<>>]
        /\ UNCHANGED <<nport, profile, row, req, reqs, plugged, cfg>>
        /\ boot' = boot \cup {v} /\ stuck' = stuck \ {v}
        /\ failed' = failed \cup {v}
    BY DEF Restart
  <1>2. TypeOK'
    BY <1>1 DEF ProviderInv, TypeOK
  <1>3. Exclusive'
    BY <1>1 DEF ProviderInv, Exclusive, Locked, HoldsLock
  <1>4. \A w \in Vms : queue'[w] = queue[w] \/ queue'[w] = <<>>
    BY <1>1 DEF ProviderInv, TypeOK
  <1>5. Awaited'
    BY <1>1, <1>4 DEF ProviderInv, Awaited
  <1> QED  BY <1>2, <1>3, <1>5 DEF ProviderInv

LEMMA BootStep ==
  ASSUME ProviderInv, NEW v \in Vms, BootStartDf(v)
  PROVE  ProviderInv'
  <1>1. /\ UNCHANGED <<nport, profile, row, req, reqs, queue, cfg, stuck, failed>>
        /\ boot' = boot \ {v}
    BY DEF BootStartDf
  <1>2. plugged' \in [Vms -> SUBSET Ports]
    BY DEF BootStartDf, StartDf, ProviderInv, TypeOK
  <1> QED  BY <1>1, <1>2 DEF ProviderInv, TypeOK, Exclusive, Locked, HoldsLock, Awaited

LEMMA DeletePortStep ==
  ASSUME ProviderInv, NEW p \in Ports, DeletePort(p)
  PROVE  ProviderInv'
  <1>1. TypeOK'
    BY DEF DeletePort, ProviderInv, TypeOK
  <1> QED  BY <1>1 DEF DeletePort, ProviderInv, Exclusive, Locked, HoldsLock, Awaited

LEMMA ProviderInit == Init => ProviderInv
  <1> SUFFICES ASSUME Init PROVE ProviderInv
    OBVIOUS
  <1>1. TypeOK
    BY DEF Init, TypeOK
  <1>2. Exclusive
    BY IdleFacts DEF Init, Exclusive, HoldsLock
  <1>3. Awaited
    BY DEF Init, Awaited
  <1> QED  BY <1>1, <1>2, <1>3 DEF ProviderInv

LEMMA ProviderStep == ProviderInv /\ [Next]_vars => ProviderInv'
  <1> SUFFICES ASSUME ProviderInv, [Next]_vars PROVE ProviderInv'
    OBVIOUS
  <1>1. ASSUME NEW r \in Threads, Requests(r) PROVE ProviderInv'
    BY <1>1, RequestsStep
  <1>2. ASSUME NEW r \in Threads, Work(r) PROVE ProviderInv'
    <2>1. CASE Rollback(r)
      BY <2>1, FinishStep DEF Rollback, At
    <2> QED  BY <1>2, <2>1, LookupStep, FlushStep, SendStep, UpdatePortStep
             DEF Work
  <1>3. ASSUME NEW p \in Ports, DeletePort(p) PROVE ProviderInv'
    BY <1>3, DeletePortStep
  <1>4. ASSUME NEW v \in Vms, VmNext(v) PROVE ProviderInv'
    BY <1>4, ReceiveStep, ReceiveRaisesStep, RestartStep, BootStep DEF VmNext
  <1>5. CASE UNCHANGED vars
    BY <1>5 DEF vars, ProviderInv, TypeOK, Exclusive, Locked, HoldsLock, Awaited
  <1> QED  BY <1>1, <1>2, <1>3, <1>4, <1>5 DEF Next, Rest

LEMMA ProviderInvariant == Spec => []ProviderInv
  <1> QED  BY ProviderInit, ProviderStep, PTL DEF Spec

(* Every variable keeps its type: no answer is ever given to a thread that  *)
(* has no request.                                                          *)
THEOREM ProviderTypes == Spec => []TypeOK
  <1>1. ProviderInv => TypeOK
    BY DEF ProviderInv
  <1> QED  BY <1>1, ProviderInvariant, PTL

(* However many threads create, update and delete provider ports while VMs  *)
(* fail and restart, no two transactions are at work on one row, and an     *)
(* insert that passed finds its key still free when it commits.             *)
THEOREM TransactionsExclusive == Spec => []Exclusive
  <1>1. ProviderInv => Exclusive
    BY DEF ProviderInv
  <1> QED  BY <1>1, ProviderInvariant, PTL

(* The answer of a VM reaches the request that waits for it and no other.   *)
THEOREM AnswersAwaited == Spec => []Awaited
  <1>1. ProviderInv => Awaited
    BY DEF ProviderInv
  <1> QED  BY <1>1, ProviderInvariant, PTL

(* A provider port never moves from one VM to another while its row exists. *)
THEOREM AddressNeverMoves == Spec => AddressStable
  <1> DEFINE Stable == \A p \in Ports :
               row[p] # NoVm /\ row'[p] # NoVm => row'[p] = row[p]
  <1>1. ProviderInv /\ [Next]_vars => [Stable]_vars
    <2> SUFFICES ASSUME ProviderInv, Next PROVE Stable
      OBVIOUS
    <2>1. ASSUME NEW r \in Threads, UpdatePort(r) PROVE Stable
      <3>1. req[r] \in Req /\ req[r].pc \in Held
        BY <2>1, ActiveReq DEF ProviderInv, UpdatePort, At, Held
      <3>2. req[r].kind = "create" => row[req[r].port] = NoVm
        BY <3>1 DEF ProviderInv, Exclusive, HoldsLock
      <3> QED  BY <2>1, <3>1, <3>2
               DEF UpdatePort, ProviderInv, TypeOK, Req, AllKinds
    <2>2. CASE UNCHANGED row
      BY <2>2
    <2> QED  BY <2>1, <2>2
             DEF Next, Requests, Start, Work, Lookup, Flush, Send, Rollback,
                 DeletePort, VmNext, Receive, ReceiveRaises, Restart,
                 BootStartDf, Rest, vars
  <1> QED  BY <1>1, ProviderInvariant, PTL DEF Spec, AddressStable
-----------------------------------------------------------------------------
(* A caller with at most one request per VM.                                *)

Active(q) == q.pc # "idle"

(* No two requests are about one VM, not even two about a VM that none of   *)
(* them knows yet (an update or a delete of a port without a row).          *)
Alone ==
  \A r, s \in Threads : r # s /\ Active(req[r]) /\ Active(req[s]) =>
    Target(req[r]) # Target(req[s])

(* What a request works with stays true until it ends: its VM, and that its *)
(* list names all the ports of the VM.                                      *)
Current(q) ==
  /\ Active(q) /\ q.kind = "create" => q.vm \in Vms
  /\ Active(q) /\ q.pc # "lookup" /\ q.kind # "create" =>
       row[q.port] = q.vm /\ q.vm # NoVm
  /\ q.pc \in {"send", "wait"} => q.kind # "delete"
  /\ q.pc \in Held /\ q.kind # "delete" => VmConf(q.port, q.vm) \subseteq q.conf
  /\ q.pc = "profile" /\ q.kind # "delete" => q.port \in plugged[q.vm]

Listed ==
  \A v \in Vms : \A i \in 1 .. Len(queue[v]) :
    queue[v][i].ports = req[queue[v][i].from].conf

RowsPlugged == \A p \in Ports : row[p] # NoVm => p \in plugged[row[p]]

(* AllPortsPlugged with what it rests on; that nobody is running is not     *)
(* needed.                                                                  *)
PlugInv ==
  /\ ProviderInv /\ Alone /\ Listed /\ RowsPlugged
  /\ \A r \in Threads : Current(req[r])
  /\ boot = {}

(* Once a request has found its VM, that is the one it is about.            *)
LEMMA TargetVm ==
  ASSUME PlugInv, NEW r \in Threads, Active(req[r]), req[r].pc # "lookup"
  PROVE  /\ Target(req[r]) = req[r].vm /\ req[r].vm \in Vms
         /\ req[r] \in Req /\ req[r].kind \in AllKinds /\ req[r].port \in Ports
  <1>1. req[r] \in Req
    BY ActiveReq DEF PlugInv, ProviderInv, Active
  <1>2. Current(req[r])
    BY DEF PlugInv
  <1> QED  BY <1>1, <1>2 DEF Current, Target, Req

(* Thread r goes on to q, or ends; nothing else changes that the invariant  *)
(* speaks of.                                                               *)
LEMMA PlugMove ==
  ASSUME PlugInv, ProviderInv', NEW r \in Threads, NEW q, Current(q),
         req' = [req EXCEPT ![r] = q], req[r].pc # "wait",
         UNCHANGED <<row, queue, plugged, boot>>,
         Active(q) => \A s \in Threads \ {r} :
                        Active(req[s]) => Target(req[s]) # Target(q)
  PROVE  PlugInv'
  <1>1. \A s \in Threads : req'[s] = IF s = r THEN q ELSE req[s]
    BY DEF PlugInv, ProviderInv, TypeOK
  <1>2. \A s \in Threads : Target(req[s])' = IF s = r THEN Target(q) ELSE Target(req[s])
    BY <1>1 DEF Target
  <1>3. Alone'
    BY <1>1, <1>2 DEF PlugInv, Alone, Active
  <1>4. \A s \in Threads : Current(req'[s])
    BY <1>1 DEF PlugInv
  <1>5. \A s \in Threads : Current(req[s])'
    BY <1>4 DEF Current, Active, VmConf
  <1>6. Listed'
    <2> SUFFICES ASSUME NEW v \in Vms, NEW i \in 1 .. Len(queue[v])
                 PROVE  queue[v][i].ports = req'[queue[v][i].from].conf
      BY DEF Listed
    <2>1. queue[v][i].from \in Threads /\ req[queue[v][i].from].pc = "wait"
      BY InQueue DEF PlugInv, ProviderInv, Awaited
    <2>2. req'[queue[v][i].from] = req[queue[v][i].from]
      BY <1>1, <2>1
    <2> QED  BY <2>2 DEF PlugInv, Listed
  <1>7. RowsPlugged' /\ boot' = {}
    BY DEF PlugInv, RowsPlugged
  <1> QED  BY <1>3, <1>5, <1>6, <1>7 DEF PlugInv

LEMMA IdleCurrent == Current(IdleReq) /\ ~Active(IdleReq)
  BY DEF Current, Active, IdleReq, Held

LEMMA PlugFinish ==
  ASSUME PlugInv, ProviderInv', NEW r \in Threads, Finish(r), req[r].pc # "wait",
         UNCHANGED <<row, queue, plugged, boot>>
  PROVE  PlugInv'
  BY IdleCurrent, PlugMove DEF Finish, Goto

LEMMA PlugRequests ==
  ASSUME PlugInv, ProviderInv', NEW r \in Threads, Requests(r),
         \A s \in Threads \ {r} : At(s, "idle") \/ Target(req[s]) # Target(req'[r])
  PROVE  PlugInv'
  <1>1. PICK k \in AllKinds, p \in Ports, v \in Vms \cup {NoVm} :
          Start(r, k, p, v) /\ (k = "create" => v \in Vms)
    BY ProviderAssumption DEF Requests, AllKinds
  <1> DEFINE q == [pc |-> "lookup", kind |-> k, port |-> p, vm |-> v, conf |-> {}]
  <1>2. Current(q)
    BY <1>1 DEF Current, Held
  <1>3. /\ req' = [req EXCEPT ![r] = q] /\ req[r].pc # "wait"
        /\ UNCHANGED <<row, queue, plugged, boot>>
    BY <1>1 DEF Start, Goto, At
  <1> HIDE DEF q
  <1>4. req'[r] = q
    BY <1>3 DEF PlugInv, ProviderInv, TypeOK
  <1>5. \A s \in Threads \ {r} : Active(req[s]) => Target(req[s]) # Target(q)
    BY <1>4 DEF At, Active
  <1> QED  BY <1>2, <1>3, <1>5, PlugMove

(* A request that moves on without another VM to be about.                  *)
LEMMA PlugWork ==
  ASSUME PlugInv, ProviderInv', NEW r \in Threads, Active(req[r]), req[r].pc # "wait",
         NEW q, Current(q), Target(q) = Target(req[r]), req' = [req EXCEPT ![r] = q],
         UNCHANGED <<row, queue, plugged, boot>>
  PROVE  PlugInv'
  <1>1. \A s \in Threads \ {r} : Active(req[s]) => Target(req[s]) # Target(q)
    BY DEF PlugInv, Alone
  <1> QED  BY <1>1, PlugMove

LEMMA PlugLookup ==
  ASSUME PlugInv, ProviderInv', NEW r \in Threads, Lookup(r)
  PROVE  PlugInv'
  <1>1. UNCHANGED <<row, queue, plugged, boot>> /\ req[r].pc = "lookup"
    BY DEF Lookup, At
  <1>2. CASE Finish(r)
    BY <1>1, <1>2, PlugFinish
  <1>3. CASE ~Finish(r)
    <2> DEFINE q == [req[r] EXCEPT !.pc = "flush",
                       !.vm = IF req[r].kind = "create" THEN @ ELSE row[req[r].port]]
    <2>1. req[r] \in Req /\ Current(req[r]) /\ Active(req[r])
      BY <1>1, ActiveReq DEF PlugInv, ProviderInv, Active
    <2>2. /\ req' = [req EXCEPT ![r] = q]
          /\ req[r].kind # "create" => row[req[r].port] # NoVm
      BY <1>3, <2>1 DEF Lookup, Goto, Req, AllKinds
    <2>3. /\ q.pc = "flush" /\ q.kind = req[r].kind /\ q.port = req[r].port
          /\ q.vm = IF req[r].kind = "create" THEN req[r].vm ELSE row[req[r].port]
      BY <2>1 DEF Req
    <2> HIDE DEF q
    <2>4. Current(q) /\ Target(q) = Target(req[r])
      BY <2>1, <2>2, <2>3 DEF Current, Target, Active, Held
    <2> QED  BY <1>1, <2>1, <2>2, <2>4, PlugWork
  <1> QED  BY <1>2, <1>3

LEMMA PlugFlush ==
  ASSUME PlugInv, ProviderInv', NEW r \in Threads, Flush(r)
  PROVE  PlugInv'
  <1>1. /\ UNCHANGED <<row, queue, plugged, boot>> /\ req[r].pc = "flush"
        /\ Active(req[r]) /\ Current(req[r])
    BY DEF Flush, At, Active, PlugInv
  <1>2. Target(req[r]) = req[r].vm /\ req[r] \in Req
    BY <1>1, TargetVm
  <1>3. CASE Finish(r)
    BY <1>1, <1>3, PlugFinish
  <1>4. CASE req[r].kind = "delete" /\ Goto(r, [req[r] EXCEPT !.pc = "profile"])
    <2> DEFINE q == [req[r] EXCEPT !.pc = "profile"]
    <2>1. /\ q.pc = "profile" /\ q.kind = "delete" /\ q.port = req[r].port
          /\ q.vm = req[r].vm /\ req' = [req EXCEPT ![r] = q]
      BY <1>2, <1>4 DEF Req, Goto
    <2> HIDE DEF q
    <2>2. Current(q) /\ Target(q) = Target(req[r])
      BY <1>1, <1>2, <1>4, <2>1 DEF Current, Target, Active
    <2> QED  BY <1>1, <2>1, <2>2, PlugWork
  <1>5. CASE /\ req[r].kind # "delete"
             /\ Goto(r, [req[r] EXCEPT !.pc = "send",
                                       !.conf = VmConf(req[r].port, req[r].vm)])
    <2> DEFINE q == [req[r] EXCEPT !.pc = "send",
                                   !.conf = VmConf(req[r].port, req[r].vm)]
    <2>1. /\ q.pc = "send" /\ q.kind = req[r].kind /\ q.port = req[r].port
          /\ q.vm = req[r].vm /\ q.conf = VmConf(req[r].port, req[r].vm)
          /\ req' = [req EXCEPT ![r] = q]
      BY <1>2, <1>5 DEF Req, Goto
    <2> HIDE DEF q
    <2>2. Current(q) /\ Target(q) = Target(req[r])
      BY <1>1, <1>2, <1>5, <2>1 DEF Current, Target, Active
    <2> QED  BY <1>1, <2>1, <2>2, PlugWork
  <1> QED  BY <1>3, <1>4, <1>5 DEF Flush

(* Thread r goes on with the same request: no target changes.               *)
LEMMA SameRequest ==
  ASSUME PlugInv, NEW r \in Threads, Active(req[r]), NEW q,
         q.kind = req[r].kind, q.port = req[r].port, q.vm = req[r].vm,
         req' = [req EXCEPT ![r] = q], UNCHANGED row
  PROVE  Alone'
  <1>1. \A s \in Threads : req'[s] = IF s = r THEN q ELSE req[s]
    BY DEF PlugInv, ProviderInv, TypeOK
  <1>2. \A s \in Threads : Target(req[s])' = Target(req[s])
    BY <1>1 DEF Target
  <1>3. \A s \in Threads : Active(req'[s]) => Active(req[s])
    BY <1>1
  <1> QED  BY <1>2, <1>3 DEF Alone, PlugInv, Active

LEMMA PlugSend ==
  ASSUME PlugInv, ProviderInv', NEW r \in Threads, Send(r)
  PROVE  PlugInv'
  <1> DEFINE m == [from |-> r, ports |-> req[r].conf]
             q == [req[r] EXCEPT !.pc = "wait"]
  <1>1. /\ req' = [req EXCEPT ![r] = q] /\ req[r].pc = "send"
        /\ queue' = [queue EXCEPT ![req[r].vm] = Append(@, m)]
        /\ UNCHANGED <<row, plugged, boot>> /\ Active(req[r]) /\ Current(req[r])
    BY DEF Send, Goto, At, Active, PlugInv
  <1>2. req[r].vm \in Vms /\ req[r] \in Req
    BY <1>1, TargetVm
  <1>3. /\ q.pc = "wait" /\ q.kind = req[r].kind /\ q.port = req[r].port
        /\ q.vm = req[r].vm /\ q.conf = req[r].conf
        /\ m.from = r /\ m.ports = req[r].conf /\ m \in Conf
    BY <1>2 DEF Req, Conf
  <1> HIDE DEF m, q
  <1>4. \A s \in Threads : req'[s] = IF s = r THEN q ELSE req[s]
    BY <1>1 DEF PlugInv, ProviderInv, TypeOK
  <1>5. Alone'
    BY <1>1, <1>3, SameRequest
  <1>6. \A s \in Threads : Current(req[s])'
    <2>1. Current(q)
      BY <1>1, <1>3 DEF Current, Active, Held
    <2>2. \A s \in Threads : Current(req'[s])
      BY <1>4, <2>1 DEF PlugInv
    <2> QED  BY <1>1, <2>2 DEF Current, Active, VmConf
  <1>7. Listed'
    <2> SUFFICES ASSUME NEW v \in Vms, NEW i \in 1 .. Len(queue'[v])
                 PROVE  queue'[v][i].ports = req'[queue'[v][i].from].conf
      BY DEF Listed
    <2>1. ASSUME NEW k \in 1 .. Len(queue[v])
          PROVE  queue[v][k].ports = req'[queue[v][k].from].conf
      <3>1. queue[v][k].from \in Threads /\ req[queue[v][k].from].pc = "wait"
        BY InQueue DEF PlugInv, ProviderInv, Awaited
      <3>2. req'[queue[v][k].from] = req[queue[v][k].from]
        BY <1>1, <1>4, <3>1
      <3> QED  BY <3>2 DEF PlugInv, Listed
    <2>2. queue[v] \in Seq(Conf) /\ queue \in [Vms -> Seq(Conf)]
      BY DEF PlugInv, ProviderInv, TypeOK
    <2>3. CASE v # req[r].vm
      BY <1>1, <2>1, <2>2, <2>3
    <2>4. CASE v = req[r].vm
      <3>1. queue'[v] = Append(queue[v], m)
        BY <1>1, <2>2, <2>4
      <3>2. i \in 1 .. Len(queue[v]) \/ i = Len(queue[v]) + 1
        BY <1>3, <2>2, <3>1
      <3>3. CASE i \in 1 .. Len(queue[v])
        <4>1. queue'[v][i] = queue[v][i]
          BY <1>3, <2>2, <3>1, <3>3
        <4> QED  BY <2>1, <3>3, <4>1
      <3>4. CASE i = Len(queue[v]) + 1
        <4>1. queue'[v][i] = m
          BY <1>3, <2>2, <3>1, <3>4
        <4> QED  BY <1>3, <1>4, <4>1
      <3> QED  BY <3>2, <3>3, <3>4
    <2> QED  BY <2>3, <2>4
  <1>8. RowsPlugged' /\ boot' = {}
    BY <1>1 DEF PlugInv, RowsPlugged
  <1> QED  BY <1>5, <1>6, <1>7, <1>8 DEF PlugInv

(* The VM plugs the list: it names every port the VM has a row of, and no   *)
(* other request is about this VM.                                          *)
LEMMA PlugReceive ==
  ASSUME PlugInv, ProviderInv', NEW v \in Vms, Receive(v)
  PROVE  PlugInv'
  <1> DEFINE m == Head(queue[v])
             r == m.from
             q == [req[r] EXCEPT !.pc = "profile"]
  <1>1. /\ CanReceive(v) /\ queue' = [queue EXCEPT ![v] = Tail(@)]
        /\ req' = [req EXCEPT ![r] = q] /\ plugged' = [plugged EXCEPT ![v] = m.ports]
        /\ UNCHANGED <<row, boot>>
    BY DEF Receive, Apply, StartDf
  <1>2. queue[v] \in Seq(Conf) /\ queue[v] # <<>> /\ plugged \in [Vms -> SUBSET Ports]
    BY <1>1 DEF CanReceive, PlugInv, ProviderInv, TypeOK
  <1>3. 1 \in 1 .. Len(queue[v]) /\ m = queue[v][1]
    BY <1>2
  <1>4. /\ r \in Threads /\ req[r].pc = "wait" /\ req[r].vm = v
        /\ m.ports = req[r].conf
    BY <1>3, InQueue DEF PlugInv, ProviderInv, Awaited, Listed
  <1>5. /\ req[r] \in Req /\ Target(req[r]) = v /\ Active(req[r]) /\ Current(req[r])
    BY <1>4, TargetVm DEF Active, PlugInv
  <1>6. /\ q.pc = "profile" /\ q.kind = req[r].kind /\ q.port = req[r].port
        /\ q.vm = v /\ q.conf = req[r].conf
    BY <1>4, <1>5 DEF Req
  <1>7. VmConf(req[r].port, v) \subseteq m.ports
    BY <1>4, <1>5 DEF Current, Held
  <1>8. queue' \in [Vms -> Seq(Conf)] /\
        \A u \in Vms : \A i \in 1 .. Len(queue'[u]) :
          \E k \in 1 .. Len(queue[u]) : queue'[u][i] = queue[u][k]
    <2>1. queue' \in [Vms -> Seq(Conf)] /\ queue \in [Vms -> Seq(Conf)]
      BY DEF PlugInv, ProviderInv, TypeOK
    <2> SUFFICES ASSUME NEW u \in Vms, NEW i \in 1 .. Len(queue'[u])
                 PROVE  \E k \in 1 .. Len(queue[u]) : queue'[u][i] = queue[u][k]
      BY <2>1
    <2>2. CASE u # v
      BY <1>1, <2>1, <2>2
    <2>3. CASE u = v
      <3>1. queue'[u] = Tail(queue[v])
        BY <1>1, <2>1, <2>3
      <3>2. i + 1 \in 1 .. Len(queue[v]) /\ queue'[u][i] = queue[v][i + 1]
        BY <1>2, <3>1
      <3> QED  BY <2>3, <3>2
    <2> QED  BY <2>2, <2>3
  <1>9. \A u \in Vms : \A i \in 1 .. Len(queue'[u]) : queue'[u][i].from \in Threads \ {r}
    BY <1>1, TailFacts DEF PlugInv
  <1> HIDE DEF m, r, q
  <1>10. \A s \in Threads : req'[s] = IF s = r THEN q ELSE req[s]
    BY <1>1 DEF PlugInv, ProviderInv, TypeOK
  <1>11. \A u \in Vms : plugged'[u] = IF u = v THEN m.ports ELSE plugged[u]
    BY <1>1, <1>2
  <1>12. Alone'
    BY <1>1, <1>4, <1>5, <1>6, SameRequest
  <1>13. Listed'
    <2> SUFFICES ASSUME NEW u \in Vms, NEW i \in 1 .. Len(queue'[u])
                 PROVE  queue'[u][i].ports = req'[queue'[u][i].from].conf
      BY DEF Listed
    <2>1. PICK k \in 1 .. Len(queue[u]) : queue'[u][i] = queue[u][k]
      BY <1>8
    <2>2. queue[u][k].ports = req[queue[u][k].from].conf
      BY DEF PlugInv, Listed
    <2>3. req'[queue'[u][i].from] = req[queue'[u][i].from]
      BY <1>9, <1>10
    <2> QED  BY <2>1, <2>2, <2>3
  <1>14. RowsPlugged'
    <2> SUFFICES ASSUME NEW p \in Ports, row[p] # NoVm PROVE p \in plugged'[row[p]]
      BY <1>1 DEF RowsPlugged
    <2>1. row[p] \in Vms /\ p \in plugged[row[p]]
      BY DEF PlugInv, RowsPlugged, ProviderInv, TypeOK
    <2> QED  BY <1>7, <1>11, <2>1 DEF VmConf
  <1>15. ASSUME NEW s \in Threads PROVE Current(req[s])'
    <2>1. CASE s = r
      <3>1. req'[s] = q
        BY <1>10, <2>1
      <3>2. q.port \in plugged'[q.vm] /\ VmConf(q.port, q.vm) \subseteq q.conf
        BY <1>4, <1>6, <1>7, <1>11 DEF VmConf
      <3> QED  BY <1>1, <1>4, <1>5, <1>6, <3>1, <3>2 DEF Current, Active, VmConf
    <2>2. CASE s # r
      <3>1. req'[s] = req[s] /\ Current(req[s])
        BY <1>10, <2>2 DEF PlugInv
      <3>2. req[s].pc = "profile" => plugged'[req[s].vm] = plugged[req[s].vm]
        <4> SUFFICES ASSUME req[s].pc = "profile"
                     PROVE  plugged'[req[s].vm] = plugged[req[s].vm]
          OBVIOUS
        <4>1. Target(req[s]) = req[s].vm /\ req[s].vm \in Vms /\ Active(req[s])
          BY TargetVm DEF Active
        <4>2. req[s].vm # v
          BY <1>4, <1>5, <2>2, <4>1 DEF PlugInv, Alone
        <4> QED  BY <1>11, <4>1, <4>2
      <3> QED  BY <1>1, <3>1, <3>2 DEF Current, Active, VmConf
    <2> QED  BY <2>1, <2>2
  <1>16. boot' = {}
    BY <1>1 DEF PlugInv
  <1> QED  BY <1>12, <1>13, <1>14, <1>15, <1>16 DEF PlugInv

(* The end of a transaction: the row of p appears, or goes, or stays.       *)
LEMMA PlugUpdatePort ==
  ASSUME PlugInv, ProviderInv', NEW r \in Threads, UpdatePort(r)
  PROVE  PlugInv'
  <1> DEFINE p == req[r].port
             v == req[r].vm
  <1>1. /\ req' = [req EXCEPT ![r] = IdleReq] /\ req[r].pc = "profile"
        /\ UNCHANGED <<queue, plugged, boot>> /\ Active(req[r]) /\ Current(req[r])
    BY DEF UpdatePort, Finish, Goto, At, Active, PlugInv
  <1>2. /\ Target(req[r]) = v /\ v \in Vms /\ p \in Ports /\ req[r].kind \in AllKinds
        /\ v # NoVm
    BY <1>1, TargetVm, ProviderAssumption
  <1>3. \A s \in Threads : req'[s] = IF s = r THEN IdleReq ELSE req[s]
    BY <1>1 DEF PlugInv, ProviderInv, TypeOK
  <1>4. /\ \A o \in Ports : o # p => row'[o] = row[o]
        /\ \/ UNCHANGED row
           \/ req[r].kind = "create" /\ row'[p] = v /\ row[p] = NoVm
           \/ req[r].kind = "delete" /\ row'[p] = NoVm /\ row[p] = v
    <2>1. row \in [Ports -> Vms \cup {NoVm}]
      BY DEF PlugInv, ProviderInv, TypeOK
    <2>2. req[r].kind = "create" => row[p] = NoVm
      BY <1>1 DEF PlugInv, ProviderInv, Exclusive, HoldsLock, Held
    <2>3. req[r].kind # "create" => row[p] = v
      BY <1>1 DEF Current
    <2> QED  BY <1>2, <2>1, <2>2, <2>3 DEF UpdatePort, AllKinds
  <1>5. \A s \in Threads : Active(req'[s]) => s # r /\ req'[s] = req[s] /\ Active(req[s])
    BY <1>3, IdleCurrent
  <1>6. ASSUME NEW s \in Threads, Active(req'[s])
        PROVE  /\ req[s] \in Req /\ Current(req[s]) /\ Target(req[s]) # v
               /\ \/ Target(req[s])' = Target(req[s])
                  \/ Target(req[s])' = v /\ Target(req[s]) = NoVm
    <2>1. s # r /\ req'[s] = req[s] /\ Active(req[s]) /\ req[s] \in Req /\ Current(req[s])
      BY <1>5, <1>6, ActiveReq DEF Active, PlugInv, ProviderInv
    <2>2. Target(req[s]) # v
      BY <1>1, <1>2, <2>1 DEF PlugInv, Alone
    <2>3. req[s].port \in Ports
      BY <2>1 DEF Req
    <2> HIDE DEF p, v
    <2> QED  BY <1>4, <2>1, <2>2, <2>3 DEF Target
  <1> HIDE DEF p, v
  <1>7. Alone'
    <2> SUFFICES ASSUME NEW s \in Threads, NEW u \in Threads, s # u,
                        Active(req'[s]), Active(req'[u])
                 PROVE  Target(req[s])' # Target(req[u])'
      BY DEF Alone, Active
    <2>1. Target(req[s]) # Target(req[u])
      BY <1>5 DEF PlugInv, Alone
    <2> QED  BY <1>6, <2>1
  <1>8. Listed'
    <2> SUFFICES ASSUME NEW u \in Vms, NEW i \in 1 .. Len(queue[u])
                 PROVE  queue[u][i].ports = req'[queue[u][i].from].conf
      BY <1>1 DEF Listed
    <2>1. queue[u][i].from \in Threads /\ req[queue[u][i].from].pc = "wait"
      BY InQueue DEF PlugInv, ProviderInv, Awaited
    <2>2. req'[queue[u][i].from] = req[queue[u][i].from]
      BY <1>1, <1>3, <2>1
    <2> QED  BY <2>2 DEF PlugInv, Listed
  <1>9. RowsPlugged'
    <2>1. req[r].kind = "create" => p \in plugged[v]
      BY <1>1 DEF Current, p, v
    <2>2. \A o \in Ports : row[o] # NoVm => o \in plugged[row[o]]
      BY DEF PlugInv, RowsPlugged
    <2> QED  BY <1>1, <1>2, <1>4, <2>1, <2>2 DEF RowsPlugged
  <1>10. ASSUME NEW s \in Threads PROVE Current(req[s])'
    <2>1. CASE ~Active(req'[s])
      BY <2>1 DEF Current, Active, Held
    <2>2. CASE Active(req'[s])
      <3>1. /\ req'[s] = req[s] /\ Active(req[s]) /\ req[s] \in Req /\ Current(req[s])
            /\ Target(req[s]) # v
        BY <1>5, <1>6, <2>2
      <3>2. req[s].port \in Ports
        BY <3>1 DEF Req
      <3>3. req[s].pc # "lookup" => Target(req[s]) = req[s].vm /\ req[s].vm # NoVm
        BY <3>1, TargetVm, ProviderAssumption
      <3>4. req[s].pc # "lookup" => VmConf(req[s].port, req[s].vm)' \subseteq
                                      VmConf(req[s].port, req[s].vm)
        BY <1>4, <3>1, <3>3 DEF VmConf
      <3>5. req[s].pc # "lookup" /\ req[s].kind # "create" =>
              row'[req[s].port] = req[s].vm /\ req[s].vm # NoVm
        BY <1>4, <3>1, <3>2, <3>3 DEF Current
      <3> QED  BY <1>1, <3>1, <3>4, <3>5 DEF Current, Active, Held
    <2> QED  BY <2>1, <2>2
  <1> QED  BY <1>1, <1>7, <1>8, <1>9, <1>10 DEF PlugInv

LEMMA PlugInit == Init => PlugInv
  <1> SUFFICES ASSUME Init PROVE PlugInv
    OBVIOUS
  <1>1. \A r \in Threads : req[r] = IdleReq
    BY DEF Init
  <1>2. Alone /\ \A r \in Threads : Current(req[r])
    BY <1>1, IdleCurrent DEF Alone
  <1>3. Listed /\ RowsPlugged /\ boot = {}
    BY DEF Init, Listed, RowsPlugged
  <1> QED  BY <1>2, <1>3, ProviderInit DEF PlugInv

LEMMA PlugStep ==
  ASSUME ~Faulty
  PROVE  PlugInv /\ [PerVmNext]_vars => PlugInv'
  <1> SUFFICES ASSUME PlugInv, [PerVmNext]_vars PROVE PlugInv'
    OBVIOUS
  <1>1. ProviderInv'
    BY ProviderStep DEF PlugInv, PerVmNext, Next
  <1>2. ASSUME NEW r \in Threads, Requests(r),
               \A s \in Threads \ {r} : At(s, "idle") \/ Target(req[s]) # Target(req'[r])
        PROVE  PlugInv'
    BY <1>1, <1>2, PlugRequests
  <1>3. ASSUME NEW r \in Threads, Work(r) PROVE PlugInv'
    BY <1>1, <1>3, PlugLookup, PlugFlush, PlugSend, PlugUpdatePort DEF Work, Rollback
  <1>4. ASSUME UNCHANGED <<row, req, queue, plugged, boot>> PROVE PlugInv'
    BY <1>1, <1>4 DEF PlugInv, Alone, Target, Active, Listed, RowsPlugged, Current, VmConf
  <1>5. ASSUME NEW p \in Ports, DeletePort(p) PROVE PlugInv'
    BY <1>4, <1>5 DEF DeletePort
  <1>6. ASSUME NEW v \in Vms, VmNext(v) PROVE PlugInv'
    BY <1>1, <1>6, PlugReceive
       DEF VmNext, ReceiveRaises, Restart, BootStartDf, PlugInv
  <1>7. CASE UNCHANGED vars
    BY <1>4, <1>7 DEF vars
  <1> QED  BY <1>2, <1>3, <1>5, <1>6, <1>7 DEF PerVmNext, Rest

(* Without failures and with at most one request per VM, a VM always has an *)
(* interface for each of its provider ports, however the requests about     *)
(* different VMs, the answers and Neutron's own deletes interleave.  The    *)
(* run lost_port shows that the condition on the caller is needed.          *)
THEOREM PortsAlwaysPlugged ==
  ASSUME ~Faulty
  PROVE  PerVmSpec => []AllPortsPlugged
  <1>1. PlugInv => AllPortsPlugged
    BY DEF PlugInv, RowsPlugged, AllPortsPlugged, ProviderInv, TypeOK
  <1>2. PlugInv /\ [PerVmNext]_vars => PlugInv'
    BY PlugStep
  <1> QED  BY <1>1, <1>2, PlugInit, PTL DEF PerVmSpec
=============================================================================
