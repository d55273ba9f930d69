------------------------------- MODULE ZmqRpc -------------------------------
(***************************************************************************)
(* The ZeroMQ transport (rpc/zeromq_rpc.py) under the retry loop of         *)
(* rpc/bambuk_rpc.py.  The greenthreads of a log agent process share one    *)
(* REQ socket per VM, guarded by a lock; the VM has one REP socket for all  *)
(* its peers.  A REQ socket that gave up waiting stays in its receiving     *)
(* state, also when the connection under it is made again.                  *)
(***************************************************************************)
EXTENDS BambukRpc

CONSTANTS Procs,     \* log agent processes
          ProcOf     \* the process a client runs in

ASSUME ZmqAssumption == ProcOf \in [Clients -> Procs]

Senders == Procs \X Vms

Sender(t) == <<ProcOf[t[1]], t[2]>>

VARIABLES lock,   \* lock[s]: the holder of the sender's lock
          req,    \* req[s]: what the REQ socket allows next
          out,    \* out[s]: requests on their way to the VM
          back,   \* back[s]: answers on their way from the VM
          rep     \* rep[v]: what the VM's receiver has run and not answered

wireVars == <<lock, req, out, back, rep>>

vars == <<st, nr, got, ran, lock, req, out, back, rep>>

Served == [task : Tasks \cup {None}, heard : BOOLEAN]

Waiting == [task |-> None, heard |-> FALSE]

TypeOK ==
  /\ RpcTypeOK
  /\ lock \in [Senders -> Tasks \cup {None}]
  /\ req \in [Senders -> {"send", "recv"}]
  /\ out \in [Senders -> Seq(Tasks)]
  /\ back \in [Senders -> Seq(Tasks)]
  /\ rep \in [Vms -> Served]

Init ==
  /\ RpcInit
  /\ lock = [s \in Senders |-> None]
  /\ req = [s \in Senders |-> "send"]
  /\ out = [s \in Senders |-> <<>>]
  /\ back = [s \in Senders |-> <<>>]
  /\ rep = [v \in Vms |-> Waiting]
-----------------------------------------------------------------------------
(* lock.acquire(), then socket.send: the request is queued at once, also    *)
(* when the VM cannot be reached.                                           *)
Send(t) ==
  /\ st[t] = "ready"
  /\ lock[Sender(t)] = None
  /\ req[Sender(t)] = "send"
  /\ st' = [st EXCEPT ![t] = "wait"]
  /\ lock' = [lock EXCEPT ![Sender(t)] = t]
  /\ req' = [req EXCEPT ![Sender(t)] = "recv"]
  /\ out' = [out EXCEPT ![Sender(t)] = Append(@, t)]
  /\ UNCHANGED <<nr, got, back, rep, ran>>

(* Mutant of SendRefused: the socket is made anew, so the next attempt sends*)
SendRefusedAnew(t) ==
  /\ st[t] = "ready"
  /\ lock[Sender(t)] = None
  /\ req[Sender(t)] = "recv"
  /\ Raise(t)
  /\ req' = [req EXCEPT ![Sender(t)] = "send"]
  /\ UNCHANGED <<got, lock, out, back, rep, ran>>

(* socket.send raises: an earlier message still has no answer.  The lock is *)
(* taken and released.                                                      *)
SendRefused(t) ==
  /\ st[t] = "ready"
  /\ lock[Sender(t)] = None
  /\ req[Sender(t)] = "recv"
  /\ Raise(t)
  /\ UNCHANGED <<got, lock, req, out, back, rep, ran>>

(* socket.recv returns whatever the VM's socket sent.                       *)
RecvAnswer(t) ==
  /\ st[t] = "wait"
  /\ back[Sender(t)] # <<>>
  /\ got' = [got EXCEPT ![t] = Head(back[Sender(t)])]
  /\ back' = [back EXCEPT ![Sender(t)] = Tail(@)]
  /\ req' = [req EXCEPT ![Sender(t)] = "send"]
  /\ lock' = [lock EXCEPT ![Sender(t)] = None]
  /\ st' = [st EXCEPT ![t] = "ok"]
  /\ UNCHANGED <<nr, out, rep, ran>>

(* Mutant of RecvTimeout: the lock is kept.                                 *)
RecvTimeoutLocked(t) ==
  /\ st[t] = "wait"
  /\ back[Sender(t)] = <<>>
  /\ Raise(t)
  /\ UNCHANGED <<got, lock, req, out, back, rep, ran>>

(* RCVTIMEO has passed: recv raises, finally releases the lock, and the     *)
(* socket goes on expecting the answer.                                     *)
RecvTimeout(t) ==
  /\ st[t] = "wait"
  /\ back[Sender(t)] = <<>>
  /\ lock' = [lock EXCEPT ![Sender(t)] = None]
  /\ Raise(t)
  /\ UNCHANGED <<got, req, out, back, rep, ran>>
-----------------------------------------------------------------------------
(* The receiver takes one request of any peer and runs it.                  *)
CallAgent(s) ==
  /\ rep[s[2]] = Waiting
  /\ out[s] # <<>>
  /\ rep' = [rep EXCEPT ![s[2]] = [task |-> Head(out[s]), heard |-> TRUE]]
  /\ ran' = [ran EXCEPT ![Head(out[s])] = @ + 1]
  /\ out' = [out EXCEPT ![s] = Tail(@)]
  /\ UNCHANGED <<st, nr, got, lock, req, back>>

(* Mutant of Answer: the answer goes to some peer of the VM.                *)
AnswerAny(v) ==
  /\ rep[v] # Waiting
  /\ rep' = [rep EXCEPT ![v] = Waiting]
  /\ \E p \in Procs : back' = [back EXCEPT ![<<p, v>>] = Append(@, rep[v].task)]
  /\ UNCHANGED <<st, nr, got, lock, req, out, ran>>

(* socket.send(response): to the peer the request came from; the answer is  *)
(* dropped when that peer's connection is gone.                             *)
Answer(v) ==
  /\ rep[v] # Waiting
  /\ rep' = [rep EXCEPT ![v] = Waiting]
  /\ IF rep[v].heard
     THEN back' = [back EXCEPT ![Sender(rep[v].task)] = Append(@, rep[v].task)]
     ELSE UNCHANGED back
  /\ UNCHANGED <<st, nr, got, lock, req, out, ran>>

(* The connection of a sender breaks and is made again: what was under way  *)
(* is lost, a request that had not left yet is kept.                        *)
Disconnect(s) ==
  /\ back' = [back EXCEPT ![s] = <<>>]
  /\ \/ out' = [out EXCEPT ![s] = <<>>]
     \/ UNCHANGED out
  /\ rep' = [rep EXCEPT ![s[2]].heard =
               @ /\ \A t \in Tasks : rep[s[2]].task = t => Sender(t) # s]
  /\ UNCHANGED <<st, nr, got, lock, req, ran>>

(* The agent is killed between running a message and answering it.          *)
VmRestart(v) ==
  /\ rep[v] # Waiting
  /\ rep' = [rep EXCEPT ![v] = Waiting]
  /\ UNCHANGED <<st, nr, got, lock, req, out, back, ran>>
-----------------------------------------------------------------------------
Step(t) ==
  \/ Send(t) \/ SendRefused(t) \/ RecvAnswer(t) \/ RecvTimeout(t)
  \/ Retry(t) /\ UNCHANGED wireVars

Next ==
  \/ \E c \in Clients : Start(c) /\ UNCHANGED wireVars
  \/ \E t \in Tasks : Step(t)
  \/ \E s \in Senders : CallAgent(s) \/ Disconnect(s)
  \/ \E v \in Vms : Answer(v) \/ VmRestart(v)

Spec == Init /\ [][Next]_vars

(* A greenthread goes on when it can: RCVTIMEO and the sleep have a limit.  *)
(* Nothing is assumed of the VMs or of the network.                         *)
FairSpec == Spec /\ \A t \in Tasks : WF_vars(Step(t))
-----------------------------------------------------------------------------
R == INSTANCE Rpc WITH call <- Call, MaxRuns <- 1

(* For every message the transport does what Rpc promises, with a single    *)
(* run: although call_method sends again after a time out, no message is    *)
(* run twice, and no greenthread is given the answer to another's message,  *)
(* for all the time outs, broken connections and restarts there may be.     *)
RefinesRpc == R!Spec

Troubled(t) == st[t] = "failed" \/ nr[t] > 0

(* From the first message of a sender that raised, the VM runs at most one  *)
(* more message of that sender, and it is one whose sender has already been *)
(* told of the failure: the VM is cut off from this process for good, and   *)
(* nothing newer can be overtaken by a late message.  LogAgent's cut and    *)
(* late rest on it.                                                         *)
CutForGood ==
  [][\A t, u \in Tasks :
       Sender(t) = Sender(u) /\ Troubled(t) /\ ran'[u] # ran[u] =>
         Troubled(u) /\ ran[t] = 0]_vars

(* Every call and every bulk send ends, whatever the VMs and the network    *)
(* do: no greenthread keeps the lock of a sender.                           *)
CallsEnd == \A t \in Tasks : st[t] = "ready" ~> Ended(t)
=============================================================================
