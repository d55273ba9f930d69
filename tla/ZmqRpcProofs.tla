---------------------------- MODULE ZmqRpcProofs ----------------------------
(* Proofs about the ZeroMQ transport, for any number of processes, clients, *)
(* VMs and attempts.                                                        *)
EXTENDS ZmqRpc, BambukRpcProofs

(* The sender's socket has no holder and expects an answer: it refuses      *)
(* every send from now on.                                                  *)
Useless(s) == req[s] = "recv" /\ lock[s] = None

(* A task waits exactly while it holds the lock of its sender.              *)
LockInv ==
  /\ \A t \in Tasks : st[t] = "wait" <=> lock[Sender(t)] = t
  /\ \A s \in Senders : lock[s] # None =>
       Sender(lock[s]) = s /\ req[s] = "recv"

(* An attempt that raised leaves a useless socket.                          *)
TryInv ==
  \A t \in Tasks :
    /\ st[t] \in {"ready", "wait", "sleep"} => nr[t] < MaxTry
    /\ st[t] = "new" => nr[t] = 0
    /\ st[t] = "sleep" => nr[t] > 0
    /\ Troubled(t) => Useless(Sender(t))

(* A sender has at most one message under way: to the VM, in it or back.    *)
WireInv ==
  /\ \A s \in Senders :
       /\ out[s] = <<>> \/ \E t \in Tasks : out[s] = <<t>> /\ Sender(t) = s
       /\ back[s] = <<>> \/ \E t \in Tasks : back[s] = <<t>> /\ Sender(t) = s
       /\ out[s] = <<>> \/ back[s] = <<>>
       /\ req[s] = "send" => out[s] = <<>> /\ back[s] = <<>>
  /\ \A v \in Vms : rep[v].task = None => rep[v] = Waiting
  /\ \A v \in Vms, t \in Tasks : rep[v].task = t =>
       /\ t[2] = v
       /\ req[Sender(t)] = "recv"
       /\ out[Sender(t)] = <<>> /\ back[Sender(t)] = <<>>

(* The message under way is that of the task that waits for it, or of one   *)
(* that was told of a failure; and it was run if it has reached the VM.     *)
RunInv ==
  \A t \in Tasks :
    /\ ran[t] <= 1
    /\ st[t] \in {"new", "ready"} /\ ~Troubled(t) => ran[t] = 0
    /\ out[Sender(t)] = <<t>> => ran[t] = 0 /\ (st[t] = "wait" \/ Troubled(t))
    /\ back[Sender(t)] = <<t>> => ran[t] = 1 /\ (st[t] = "wait" \/ Troubled(t))
    /\ \A v \in Vms : rep[v].task = t =>
         ran[t] = 1 /\ (st[t] = "wait" \/ Troubled(t))

(* As long as the last request of a useless socket is on its way, nothing   *)
(* that raised on this socket has been run.                                 *)
LastInv ==
  \A t, u \in Tasks :
    Sender(t) = Sender(u) /\ Troubled(t) /\ out[Sender(u)] = <<u>> => ran[t] = 0

ZmqInv == TypeOK /\ LockInv /\ TryInv /\ WireInv /\ RunInv /\ LastInv
-----------------------------------------------------------------------------
LEMMA SenderFacts ==
  ASSUME NEW t \in Tasks
  PROVE  /\ Sender(t) \in Senders
         /\ Sender(t)[2] = t[2]
         /\ t[2] \in Vms
  BY RpcAssumption, ZmqAssumption DEF Sender, Senders, Tasks

LEMMA SenderVm ==
  ASSUME NEW s \in Senders
  PROVE  s[2] \in Vms
  BY DEF Senders

(* Sequences of one element.                                                *)
LEMMA OneElement ==
  ASSUME NEW t \in Tasks
  PROVE  /\ Append(<<>>, t) = <<t>>
         /\ Head(<<t>>) = t
         /\ Tail(<<t>>) = <<>>
         /\ <<t>> # <<>>
         /\ <<t>> \in Seq(Tasks)
         /\ \A u \in Tasks : <<t>> = <<u>> => t = u
  OBVIOUS

LEMMA NoElement == <<>> \in Seq(Tasks)
  OBVIOUS

LEMMA InitInv == Init => ZmqInv
  <1> SUFFICES ASSUME Init PROVE ZmqInv
    OBVIOUS
  <1> USE RpcAssumption DEF Init, RpcInit
  <1>1. TypeOK
    BY NoElement DEF TypeOK, RpcTypeOK, Served, Waiting, States
  <1>2. LockInv
    BY NoneIsNoTask, SenderFacts DEF LockInv
  <1>3. TryInv
    BY DEF TryInv, Troubled
  <1>4. WireInv
    BY NoneIsNoTask, SenderFacts DEF WireInv, Waiting
  <1>5. \A t \in Tasks : ~Troubled(t) /\ ran[t] = 0
    BY DEF Troubled
  <1>6. \A t \in Tasks : out[Sender(t)] # <<t>> /\ back[Sender(t)] # <<t>>
    BY SenderFacts, OneElement
  <1>7. \A v \in Vms : rep[v].task \notin Tasks
    BY NoneIsNoTask DEF Waiting
  <1>8. RunInv /\ LastInv
    <2> SUFFICES ASSUME NEW t \in Tasks
                 PROVE  /\ ran[t] <= 1 /\ ran[t] = 0 /\ ~Troubled(t)
                        /\ out[Sender(t)] # <<t>> /\ back[Sender(t)] # <<t>>
                        /\ \A v \in Vms : rep[v].task # t
      BY Zenon DEF RunInv, LastInv
    <2>1. ran[t] <= 1 /\ ran[t] = 0
      BY <1>5
    <2>2. /\ out[Sender(t)] # <<t>> /\ back[Sender(t)] # <<t>>
          /\ \A v \in Vms : rep[v].task # t
      BY <1>6, <1>7, Zenon
    <2> QED  BY <1>5, <2>1, <2>2, Zenon
  <1> QED  BY <1>1, <1>2, <1>3, <1>4, <1>8 DEF ZmqInv

LEMMA StartStep ==
  ASSUME ZmqInv, NEW c \in Clients, Start(c), UNCHANGED wireVars
  PROVE  ZmqInv'
  <1> USE RpcAssumption DEF ZmqInv, Start, wireVars
  <1>1. TypeOK'
    BY DEF TypeOK, RpcTypeOK, States
  <1>2. LockInv'
    BY SenderFacts DEF LockInv, TypeOK, RpcTypeOK
  <1>3. TryInv'
    BY SenderFacts DEF TryInv, Troubled, Useless, TypeOK, RpcTypeOK
  <1>4. WireInv'
    BY DEF WireInv
  <1>5. RunInv'
    BY SenderFacts DEF RunInv, TryInv, Troubled, TypeOK, RpcTypeOK
  <1>6. LastInv'
    BY DEF LastInv, Troubled, TypeOK, RpcTypeOK
  <1> QED  BY <1>1, <1>2, <1>3, <1>4, <1>5, <1>6

LEMMA SendStep ==
  ASSUME ZmqInv, NEW t \in Tasks, Send(t)
  PROVE  ZmqInv'
  <1> USE DEF ZmqInv, Send
  <1>1. Sender(t) \in Senders /\ out[Sender(t)] = <<>> /\ out'[Sender(t)] = <<t>>
    BY SenderFacts, OneElement DEF WireInv, TypeOK
  <1>2. TypeOK'
    BY <1>1, OneElement DEF TypeOK, RpcTypeOK, States
  <1>3. LockInv'
    BY <1>1, NoneIsNoTask, SenderFacts DEF LockInv, TypeOK, RpcTypeOK
  <1>4. TryInv'
    BY <1>1, SenderFacts DEF TryInv, Troubled, Useless, TypeOK, RpcTypeOK
  <1>5. WireInv'
    BY <1>1, SenderFacts, OneElement DEF WireInv, TypeOK, RpcTypeOK
  <1>6. ~Troubled(t) /\ ran[t] = 0
    BY DEF TryInv, Useless, RunInv
  <1>7. RunInv'
    <2> SUFFICES ASSUME NEW u \in Tasks
                 PROVE  /\ ran[u] <= 1
                        /\ st'[u] \in {"new", "ready"} /\ ~Troubled(u)' => ran[u] = 0
                        /\ out'[Sender(u)] = <<u>> =>
                             ran[u] = 0 /\ (st'[u] = "wait" \/ Troubled(u)')
                        /\ back[Sender(u)] = <<u>> =>
                             ran[u] = 1 /\ (st'[u] = "wait" \/ Troubled(u)')
                        /\ \A v \in Vms : rep[v].task = u =>
                             ran[u] = 1 /\ (st'[u] = "wait" \/ Troubled(u)')
      BY DEF RunInv
    <2>1. CASE u = t
      BY <1>6, <2>1, OneElement DEF RunInv, WireInv, TypeOK, RpcTypeOK
    <2>2. CASE u # t
      <3>1. st'[u] = st[u] /\ Troubled(u)' = Troubled(u)
        BY <2>2 DEF Troubled, TypeOK, RpcTypeOK
      <3>2. out'[Sender(u)] = <<u>> => out[Sender(u)] = <<u>>
        BY <1>1, <2>2, SenderFacts, OneElement DEF TypeOK
      <3> QED  BY <3>1, <3>2 DEF RunInv
    <2> QED  BY <2>1, <2>2
  <1>8. LastInv'
    <2>1. \A u \in Tasks : Sender(u) = Sender(t) => ~Troubled(u)'
      BY DEF TryInv, Useless, Troubled, TypeOK, RpcTypeOK
    <2>2. \A s \in Senders : s # Sender(t) => out'[s] = out[s]
      BY DEF TypeOK
    <2> QED  BY ZenonT(30), <2>1, <2>2, SenderFacts DEF LastInv, Troubled, TypeOK, RpcTypeOK
  <1> QED  BY <1>2, <1>3, <1>4, <1>5, <1>7, <1>8

(* An attempt that raises, in the terms of the invariant.                   *)
LEMMA RaiseTroubles ==
  ASSUME ZmqInv, NEW t \in Tasks, Raise(t), st[t] \in {"ready", "wait"}
  PROVE  /\ st' \in [Tasks -> States] /\ nr' \in [Tasks -> 0 .. MaxTry]
         /\ st'[t] \in {"sleep", "failed"} /\ Troubled(t)'
         /\ st'[t] = "sleep" => nr'[t] \in 1 .. (MaxTry - 1)
         /\ \A u \in Tasks \ {t} :
              st'[u] = st[u] /\ nr'[u] = nr[u] /\ Troubled(u)' = Troubled(u)
  <1>1. RpcTypeOK /\ nr[t] < MaxTry
    BY DEF ZmqInv, TypeOK, TryInv
  <1>2. /\ st' \in [Tasks -> States] /\ nr' \in [Tasks -> 0 .. MaxTry]
        /\ st'[t] \in {"sleep", "failed"}
        /\ st'[t] = "sleep" => nr'[t] \in 1 .. (MaxTry - 1)
        /\ \A u \in Tasks \ {t} : st'[u] = st[u] /\ nr'[u] = nr[u]
    BY <1>1, RaiseFacts
  <1> QED  BY <1>2 DEF Troubled

LEMMA SendRefusedStep ==
  ASSUME ZmqInv, NEW t \in Tasks, SendRefused(t)
  PROVE  ZmqInv'
  <1> USE DEF ZmqInv, SendRefused
  <1>1. TypeOK'
    BY RaiseTroubles DEF TypeOK, RpcTypeOK
  <1>2. /\ st'[t] \in {"sleep", "failed"} /\ Troubled(t)'
        /\ st'[t] = "sleep" => nr'[t] \in 1 .. (MaxTry - 1)
        /\ \A u \in Tasks \ {t} :
             st'[u] = st[u] /\ nr'[u] = nr[u] /\ Troubled(u)' = Troubled(u)
    BY RaiseTroubles
  <1>3. LockInv'
    BY <1>2, NoneIsNoTask DEF LockInv
  <1>4. TryInv'
    <2>1. \A u \in Tasks \ {t} :
            /\ st'[u] \in {"ready", "wait", "sleep"} => nr'[u] < MaxTry
            /\ st'[u] = "new" => nr'[u] = 0
            /\ st'[u] = "sleep" => nr'[u] > 0
            /\ Troubled(u)' => Useless(Sender(u))'
      BY <1>2 DEF TryInv, Useless
    <2>2. /\ st'[t] = "sleep" => nr'[t] < MaxTry /\ nr'[t] > 0
          /\ Useless(Sender(t))'
      BY <1>2, RpcAssumption DEF Useless
    <2> QED  BY <1>2, <2>1, <2>2 DEF TryInv
  <1>5. WireInv'
    BY DEF WireInv
  <1>6. RunInv'
    BY <1>2 DEF RunInv
  <1>7. LastInv'
    BY <1>2 DEF LastInv, RunInv
  <1> QED  BY <1>1, <1>3, <1>4, <1>5, <1>6, <1>7

LEMMA RecvTimeoutStep ==
  ASSUME ZmqInv, NEW t \in Tasks, RecvTimeout(t)
  PROVE  ZmqInv'
  <1> USE DEF ZmqInv, RecvTimeout
  <1>1. TypeOK'
    BY RaiseTroubles DEF TypeOK, RpcTypeOK
  <1>2. /\ st'[t] \in {"sleep", "failed"} /\ Troubled(t)'
        /\ st'[t] = "sleep" => nr'[t] \in 1 .. (MaxTry - 1)
        /\ \A u \in Tasks \ {t} :
             st'[u] = st[u] /\ nr'[u] = nr[u] /\ Troubled(u)' = Troubled(u)
    BY RaiseTroubles
  <1>3. lock[Sender(t)] = t /\ Sender(t) \in Senders /\ req[Sender(t)] = "recv"
    BY NoneIsNoTask, SenderFacts DEF LockInv
  <1>4. /\ lock'[Sender(t)] = None
        /\ \A s \in Senders : s # Sender(t) => lock'[s] = lock[s]
    BY <1>3 DEF TypeOK
  <1>5. LockInv'
    <2>1. \A u \in Tasks : st'[u] = "wait" <=> lock'[Sender(u)] = u
      BY <1>2, <1>3, <1>4, NoneIsNoTask, SenderFacts DEF LockInv
    <2> QED  BY <1>4, <2>1 DEF LockInv
  <1>6. TryInv'
    <2>1. Useless(Sender(t))'
      BY <1>3, <1>4 DEF Useless
    <2>2. \A u \in Tasks \ {t} :
            /\ st'[u] \in {"ready", "wait", "sleep"} => nr'[u] < MaxTry
            /\ st'[u] = "new" => nr'[u] = 0
            /\ st'[u] = "sleep" => nr'[u] > 0
            /\ Troubled(u)' => Useless(Sender(u))'
      BY <1>2, <1>4, <2>1, SenderFacts DEF TryInv, Useless
    <2>3. st'[t] = "sleep" => nr'[t] < MaxTry /\ nr'[t] > 0
      BY <1>2, RpcAssumption
    <2> QED  BY <1>2, <2>1, <2>2, <2>3 DEF TryInv
  <1>7. WireInv'
    BY DEF WireInv
  <1>8. RunInv'
    BY <1>2 DEF RunInv
  <1>9. LastInv'
    BY <1>2, <1>3, NoneIsNoTask DEF LastInv, RunInv, TryInv, LockInv, Useless
  <1> QED  BY <1>1, <1>5, <1>6, <1>7, <1>8, <1>9

LEMMA RetryStep ==
  ASSUME ZmqInv, NEW t \in Tasks, Retry(t), UNCHANGED wireVars
  PROVE  ZmqInv'
  <1> USE DEF ZmqInv, Retry, wireVars
  <1>1. TypeOK'
    BY DEF TypeOK, RpcTypeOK, States
  <1>2. LockInv'
    BY SenderFacts DEF LockInv, TypeOK, RpcTypeOK
  <1>3. TryInv'
    BY DEF TryInv, Troubled, Useless, TypeOK, RpcTypeOK
  <1>4. WireInv'
    BY DEF WireInv
  <1>5. \A u \in Tasks : Troubled(u)' = Troubled(u)
    BY DEF Troubled, TypeOK, RpcTypeOK
  <1>6. RunInv'
    BY <1>5 DEF RunInv, TryInv, Troubled, TypeOK, RpcTypeOK
  <1>7. LastInv'
    BY <1>5 DEF LastInv
  <1> QED  BY <1>1, <1>2, <1>3, <1>4, <1>6, <1>7

LEMMA RecvAnswerStep ==
  ASSUME ZmqInv, NEW t \in Tasks, RecvAnswer(t)
  PROVE  ZmqInv' /\ ran[t] = 1 /\ got' = [got EXCEPT ![t] = t]
  <1> USE DEF ZmqInv, RecvAnswer
  <1>1. lock[Sender(t)] = t /\ Sender(t) \in Senders /\ req[Sender(t)] = "recv"
    BY NoneIsNoTask, SenderFacts DEF LockInv
  <1>2. \A u \in Tasks : Sender(u) = Sender(t) => ~Troubled(u)
    BY <1>1, NoneIsNoTask DEF TryInv, Useless
  <1>3. back[Sender(t)] = <<t>>
    <2>1. PICK u \in Tasks : back[Sender(t)] = <<u>> /\ Sender(u) = Sender(t)
      BY <1>1 DEF WireInv
    <2>2. st[u] = "wait"
      BY <1>2, <2>1 DEF RunInv
    <2> QED  BY <1>1, <2>1, <2>2 DEF LockInv
  <1>4. ran[t] = 1 /\ got' = [got EXCEPT ![t] = t]
    BY <1>3, OneElement DEF RunInv
  <1>5. /\ lock'[Sender(t)] = None /\ req'[Sender(t)] = "send"
        /\ back'[Sender(t)] = <<>>
        /\ \A s \in Senders : s # Sender(t) =>
             lock'[s] = lock[s] /\ req'[s] = req[s] /\ back'[s] = back[s]
    BY <1>1, <1>3, OneElement DEF TypeOK
  <1>6. st'[t] = "ok" /\ \A u \in Tasks \ {t} : st'[u] = st[u]
    BY DEF TypeOK, RpcTypeOK
  <1>7. \A u \in Tasks : Troubled(u)' <=> u # t /\ Troubled(u)
    BY <1>2, <1>6 DEF Troubled
  <1>8. TypeOK'
    <2>1. back' \in [Senders -> Seq(Tasks)]
      BY <1>1, <1>3, OneElement, NoElement DEF TypeOK
    <2>2. got' \in [Tasks -> Tasks \cup {None}] /\ st' \in [Tasks -> States]
      BY <1>4 DEF TypeOK, RpcTypeOK, States
    <2> QED  BY <1>1, <2>1, <2>2 DEF TypeOK, RpcTypeOK
  <1>9. LockInv'
    <2>1. \A u \in Tasks : st'[u] = "wait" <=> lock'[Sender(u)] = u
      BY <1>1, <1>5, <1>6, NoneIsNoTask, SenderFacts DEF LockInv
    <2> QED  BY <1>5, <2>1 DEF LockInv
  <1>10. TryInv'
    <2>1. \A u \in Tasks : Troubled(u)' => Useless(Sender(u))'
      BY <1>2, <1>5, <1>7, SenderFacts DEF TryInv, Useless
    <2> QED  BY <1>6, <2>1 DEF TryInv
  <1>11. out[Sender(t)] = <<>> /\ \A v \in Vms, u \in Tasks :
            rep[v].task = u => Sender(u) # Sender(t)
    <2>1. back[Sender(t)] # <<>>
      BY <1>3, OneElement
    <2>2. out[Sender(t)] = <<>> \/ back[Sender(t)] = <<>>
      BY <1>1 DEF WireInv
    <2>3. \A v \in Vms, u \in Tasks : rep[v].task = u => back[Sender(u)] = <<>>
      BY DEF WireInv
    <2> QED  BY <2>1, <2>2, <2>3
  <1>12. WireInv'
    BY <1>5, <1>11, SenderFacts DEF WireInv
  <1>13. RunInv'
    <2> SUFFICES ASSUME NEW u \in Tasks, u # t
                 PROVE  /\ back'[Sender(u)] = <<u>> => back[Sender(u)] = <<u>>
                        /\ st'[u] = st[u] /\ (Troubled(u)' <=> Troubled(u))
      BY <1>4, <1>5, <1>6, <1>11, OneElement DEF RunInv
    <2>1. back'[Sender(u)] = <<u>> => back[Sender(u)] = <<u>>
      BY <1>5, OneElement, SenderFacts
    <2>2. st'[u] = st[u]
      BY <1>6
    <2>3. Troubled(u)' <=> Troubled(u)
      BY <1>7
    <2> QED  BY <2>1, <2>2, <2>3
  <1>14. LastInv'
    BY <1>7 DEF LastInv
  <1> QED  BY <1>4, <1>8, <1>9, <1>10, <1>12, <1>13, <1>14

LEMMA CallAgentStep ==
  ASSUME ZmqInv, NEW s \in Senders, CallAgent(s)
  PROVE  /\ ZmqInv'
         /\ \E u \in Tasks :
              /\ Sender(u) = s /\ out[s] = <<u>>
              /\ ran' = [ran EXCEPT ![u] = @ + 1]
              /\ ran[u] = 0 /\ (st[u] = "wait" \/ Troubled(u))
  <1> USE DEF ZmqInv, CallAgent
  <1>1. PICK u \in Tasks : out[s] = <<u>> /\ Sender(u) = s
    BY DEF WireInv
  <1>2. /\ ran[u] = 0 /\ (st[u] = "wait" \/ Troubled(u))
        /\ back[s] = <<>> /\ req[s] = "recv" /\ u[2] = s[2] /\ s[2] \in Vms
    <2>1. ran[u] = 0 /\ (st[u] = "wait" \/ Troubled(u))
      BY <1>1 DEF RunInv
    <2>2. out[s] # <<>>
      BY <1>1, OneElement
    <2>3. back[s] = <<>> /\ req[s] = "recv"
      BY <2>2 DEF WireInv, TypeOK
    <2> QED  BY <1>1, <2>1, <2>3, SenderFacts, SenderVm
  <1>3. /\ ran' = [ran EXCEPT ![u] = @ + 1]
        /\ ran'[u] = 1 /\ \A w \in Tasks \ {u} : ran'[w] = ran[w]
        /\ out'[s] = <<>> /\ \A r \in Senders \ {s} : out'[r] = out[r]
        /\ rep'[s[2]] = [task |-> u, heard |-> TRUE]
        /\ \A v \in Vms \ {s[2]} : rep'[v] = rep[v]
    BY <1>1, <1>2, OneElement DEF TypeOK, RpcTypeOK
  <1>4. TypeOK'
    <2>1. out' \in [Senders -> Seq(Tasks)]
      BY <1>1, OneElement, NoElement DEF TypeOK
    <2>2. rep' \in [Vms -> Served]
      BY <1>1, OneElement DEF TypeOK, Served
    <2>3. ran' \in [Tasks -> Nat]
      BY <1>3 DEF TypeOK, RpcTypeOK
    <2> QED  BY <2>1, <2>2, <2>3 DEF TypeOK, RpcTypeOK
  <1>5. LockInv' /\ TryInv'
    BY DEF LockInv, TryInv, Troubled, Useless
  <1>6. \A w \in Tasks : Troubled(w)' = Troubled(w)
    BY DEF Troubled
  <1>7. WireInv'
    <2>1. \A r \in Senders :
            /\ out'[r] = <<>> \/ out'[r] = out[r]
            /\ req[r] = "send" => out'[r] = <<>>
      BY <1>2, <1>3 DEF WireInv
    <2>2. \A v \in Vms : rep'[v].task = None => rep'[v] = Waiting
      BY <1>2, <1>3, NoneIsNoTask DEF WireInv
    <2>3. \A v \in Vms, w \in Tasks : rep'[v].task = w =>
            /\ w[2] = v
            /\ req[Sender(w)] = "recv"
            /\ out'[Sender(w)] = <<>> /\ back[Sender(w)] = <<>>
      BY <1>1, <1>2, <1>3, <2>1, SenderFacts DEF WireInv
    <2>4. \A r \in Senders :
            /\ out'[r] = <<>> \/ \E w \in Tasks : out'[r] = <<w>> /\ Sender(w) = r
            /\ back[r] = <<>> \/ \E w \in Tasks : back[r] = <<w>> /\ Sender(w) = r
            /\ out'[r] = <<>> \/ back[r] = <<>>
            /\ req[r] = "send" => out'[r] = <<>> /\ back[r] = <<>>
      <3>1. WireInv
        OBVIOUS
      <3> HIDE DEF CallAgent, ZmqInv
      <3> QED  BY <2>1, <3>1 DEF WireInv
    <2>5. UNCHANGED <<back, req>>
      OBVIOUS
    <2> HIDE DEF CallAgent, ZmqInv
    <2> QED  BY <2>2, <2>3, <2>4, <2>5 DEF WireInv
  <1>8. RunInv'
    <2>1. \A w \in Tasks \ {u} :
            /\ out'[Sender(w)] = <<w>> => out[Sender(w)] = <<w>>
            /\ \A v \in Vms : rep'[v].task = w => rep[v].task = w
      BY <1>2, <1>3, SenderFacts, OneElement
    <2>2. \A w \in Tasks \ {u} :
            /\ ran'[w] <= 1
            /\ st[w] \in {"new", "ready"} /\ ~Troubled(w) => ran'[w] = 0
            /\ out'[Sender(w)] = <<w>> => ran'[w] = 0 /\ (st[w] = "wait" \/ Troubled(w))
            /\ back[Sender(w)] = <<w>> => ran'[w] = 1 /\ (st[w] = "wait" \/ Troubled(w))
            /\ \A v \in Vms : rep'[v].task = w =>
                 ran'[w] = 1 /\ (st[w] = "wait" \/ Troubled(w))
      BY <1>3, <2>1 DEF RunInv
    <2>3. out'[Sender(u)] # <<u>> /\ back[Sender(u)] # <<u>>
      BY <1>1, <1>2, <1>3, OneElement
    <2> QED  BY <1>2, <1>3, <1>6, <2>2, <2>3 DEF RunInv
  <1>9. LastInv'
    BY <1>1, <1>3, <1>6, SenderFacts, OneElement DEF LastInv
  <1> QED  BY <1>1, <1>2, <1>3, <1>4, <1>5, <1>7, <1>8, <1>9

LEMMA AnswerStep ==
  ASSUME ZmqInv, NEW v \in Vms, Answer(v)
  PROVE  ZmqInv'
  <1> USE DEF ZmqInv, Answer
  <1> DEFINE u == rep[v].task
  <1>1. /\ u \in Tasks /\ u[2] = v /\ ran[u] = 1
        /\ st[u] = "wait" \/ Troubled(u)
        /\ req[Sender(u)] = "recv"
        /\ out[Sender(u)] = <<>> /\ back[Sender(u)] = <<>>
        /\ Sender(u) \in Senders
    BY SenderFacts DEF WireInv, RunInv, TypeOK, Served
  <1>2. /\ back'[Sender(u)] = <<u>> \/ back'[Sender(u)] = <<>>
        /\ back' \in [Senders -> Seq(Tasks)]
        /\ \A r \in Senders : r # Sender(u) => back'[r] = back[r]
    <2>1. CASE rep[v].heard
      <3>1. back' = [back EXCEPT ![Sender(u)] = <<u>>]
        BY <1>1, <2>1, OneElement
      <3> QED  BY <1>1, <3>1, OneElement DEF TypeOK
    <2>2. CASE ~rep[v].heard
      BY <1>1, <2>2 DEF TypeOK
    <2> QED  BY <2>1, <2>2
  <1>3. /\ rep'[v] = Waiting /\ rep'[v].task = None
        /\ \A w \in Vms \ {v} : rep'[w] = rep[w]
    BY DEF TypeOK, Waiting
  <1> HIDE DEF u
  <1>4. TypeOK'
    BY <1>2 DEF TypeOK, RpcTypeOK, Served, Waiting
  <1>5. LockInv' /\ TryInv'
    BY DEF LockInv, TryInv, Troubled, Useless
  <1>6. \A w \in Tasks : Troubled(w)' = Troubled(w)
    BY DEF Troubled
  <1>7. \A w \in Vms, t \in Tasks : rep'[w].task = t =>
          w # v /\ rep[w].task = t /\ Sender(t) # Sender(u)
    BY <1>1, <1>3, NoneIsNoTask, SenderFacts DEF WireInv
  <1>8. WireInv'
    <2>1. \A r \in Senders :
            /\ back'[r] = <<>> \/ \E t \in Tasks : back'[r] = <<t>> /\ Sender(t) = r
            /\ out[r] = <<>> \/ back'[r] = <<>>
            /\ req[r] = "send" => back'[r] = <<>>
      BY <1>1, <1>2 DEF WireInv
    <2>2. \A w \in Vms : rep'[w].task = None => rep'[w] = Waiting
      BY <1>3 DEF WireInv
    <2>3. \A w \in Vms, t \in Tasks : rep'[w].task = t =>
            back'[Sender(t)] = back[Sender(t)]
      BY <1>2, <1>7, SenderFacts
    <2> QED  BY <1>7, <2>1, <2>2, <2>3 DEF WireInv
  <1>9. RunInv'
    <2>1. \A t \in Tasks : back'[Sender(t)] = <<t>> =>
            t = u \/ back[Sender(t)] = <<t>>
      BY SMTT(20), <1>1, <1>2, SenderFacts, OneElement
    <2> QED  BY <1>1, <1>6, <1>7, <2>1 DEF RunInv
  <1>10. LastInv'
    BY <1>6 DEF LastInv
  <1> QED  BY <1>4, <1>5, <1>8, <1>9, <1>10

(* A step that only loses messages.                                         *)
LEMMA LossStep ==
  ASSUME ZmqInv, TypeOK', UNCHANGED <<st, nr, got, lock, req, ran>>,
         \A s \in Senders :
           /\ out'[s] = <<>> \/ out'[s] = out[s]
           /\ back'[s] = <<>> \/ back'[s] = back[s],
         \A v \in Vms :
           /\ rep'[v].task = None => rep'[v] = Waiting
           /\ rep'[v].task = None \/ rep'[v].task = rep[v].task
  PROVE  ZmqInv'
  <1>1. LockInv' /\ TryInv'
    BY DEF ZmqInv, LockInv, TryInv, Troubled, Useless
  <1>2. \A t \in Tasks : Troubled(t)' = Troubled(t)
    BY DEF Troubled
  <1>3. \A v \in Vms, t \in Tasks : rep'[v].task = t => rep[v].task = t
    BY NoneIsNoTask
  <1>4. WireInv'
    BY <1>3, SenderFacts DEF ZmqInv, WireInv
  <1>5. \A t \in Tasks :
          /\ out'[Sender(t)] = <<t>> => out[Sender(t)] = <<t>>
          /\ back'[Sender(t)] = <<t>> => back[Sender(t)] = <<t>>
    BY SenderFacts, OneElement
  <1>6. RunInv'
    BY <1>2, <1>3, <1>5 DEF ZmqInv, RunInv
  <1>7. LastInv'
    BY <1>2, <1>5 DEF ZmqInv, LastInv
  <1> QED  BY <1>1, <1>4, <1>6, <1>7 DEF ZmqInv

LEMMA DisconnectStep ==
  ASSUME ZmqInv, NEW s \in Senders, Disconnect(s)
  PROVE  ZmqInv'
  <1> USE DEF ZmqInv, Disconnect
  <1>1. \A r \in Senders :
          /\ out'[r] = <<>> \/ out'[r] = out[r]
          /\ back'[r] = <<>> \/ back'[r] = back[r]
    BY DEF TypeOK
  <1>2. PICK h \in BOOLEAN :
          /\ rep' = [rep EXCEPT ![s[2]].heard = h]
          /\ h => rep[s[2]].heard
    <2>1. rep[s[2]].heard \in BOOLEAN
      BY SenderVm DEF TypeOK, Served
    <2> QED  BY <2>1
  <1>3. \A v \in Vms :
          /\ rep'[v] \in Served
          /\ rep'[v].task = rep[v].task
          /\ rep'[v].heard => rep[v].heard
    <2> SUFFICES ASSUME NEW v \in Vms
                 PROVE  /\ rep'[v] \in Served
                        /\ rep'[v].task = rep[v].task
                        /\ rep'[v].heard => rep[v].heard
      OBVIOUS
    <2>1. rep[v] \in Served /\ s[2] \in Vms
      BY SenderVm DEF TypeOK
    <2>2. CASE v = s[2]
      <3>1. rep'[v] = [rep[v] EXCEPT !.heard = h]
        BY <1>2, <2>1, <2>2 DEF TypeOK
      <3> QED  BY <1>2, <2>1, <2>2, <3>1 DEF Served
    <2>3. CASE v # s[2]
      <3>1. rep'[v] = rep[v]
        BY <1>2, <2>1, <2>3 DEF TypeOK
      <3> QED  BY <2>1, <3>1
    <2> QED  BY <2>2, <2>3
  <1>4. TypeOK'
    <2>1. rep' \in [Vms -> Served]
      BY <1>2, <1>3 DEF TypeOK
    <2>2. out' \in [Senders -> Seq(Tasks)] /\ back' \in [Senders -> Seq(Tasks)]
      BY NoElement DEF TypeOK
    <2> QED  BY <2>1, <2>2 DEF TypeOK, RpcTypeOK
  <1>5. \A v \in Vms : rep'[v].task = None => rep'[v] = Waiting
    <2> SUFFICES ASSUME NEW v \in Vms, rep'[v].task = None
                 PROVE  rep'[v] = Waiting
      OBVIOUS
    <2>1. rep[v] = Waiting /\ rep'[v] \in Served
      BY <1>3 DEF WireInv
    <2>2. rep'[v].heard = FALSE
      BY <1>3, <2>1 DEF Waiting, Served
    <2> QED  BY <2>1, <2>2 DEF Waiting, Served
  <1> QED  BY <1>1, <1>3, <1>4, <1>5, LossStep

LEMMA VmRestartStep ==
  ASSUME ZmqInv, NEW v \in Vms, VmRestart(v)
  PROVE  ZmqInv'
  <1> USE DEF ZmqInv, VmRestart
  <1>1. TypeOK'
    BY DEF TypeOK, RpcTypeOK, Served, Waiting
  <1>2. \A w \in Vms :
          /\ rep'[w].task = None => rep'[w] = Waiting
          /\ rep'[w].task = None \/ rep'[w].task = rep[w].task
    BY DEF WireInv, Waiting, TypeOK
  <1> QED  BY <1>1, <1>2, LossStep

(* The invariant is inductive.                                              *)
LEMMA NextInv == ZmqInv /\ [Next]_vars => ZmqInv'
  <1> SUFFICES ASSUME ZmqInv, [Next]_vars PROVE ZmqInv'
    OBVIOUS
  <1>1. ASSUME NEW t \in Tasks, Step(t) PROVE ZmqInv'
    BY <1>1, SendStep, SendRefusedStep, RecvAnswerStep, RecvTimeoutStep, RetryStep
       DEF Step
  <1>2. ASSUME NEW s \in Senders, CallAgent(s) \/ Disconnect(s) PROVE ZmqInv'
    BY <1>2, CallAgentStep, DisconnectStep
  <1>3. ASSUME NEW v \in Vms, Answer(v) \/ VmRestart(v) PROVE ZmqInv'
    BY <1>3, AnswerStep, VmRestartStep
  <1>4. ASSUME UNCHANGED vars PROVE ZmqInv'
    BY <1>4 DEF ZmqInv, TypeOK, RpcTypeOK, LockInv, TryInv, WireInv, RunInv,
                LastInv, Troubled, Useless, vars
  <1> QED  BY <1>1, <1>2, <1>3, <1>4, StartStep DEF Next

LEMMA SpecInv == Spec => []ZmqInv
  BY InitInv, NextInv, PTL DEF Spec

(* The variables of the transport keep their types: in particular the       *)
(* attempts of call_method never exceed MaxTry.                             *)
THEOREM ZmqTypeCorrect == Spec => []TypeOK
  <1>1. ZmqInv => TypeOK
    BY DEF ZmqInv
  <1> QED  BY <1>1, SpecInv, PTL

(* A sender that raised once is cut off from its VM for good: at most its   *)
(* last message, whose sender knows of the failure, is still run (the lock  *)
(* and the REQ socket of ZeroMQSender.send).                                *)
THEOREM ZmqCutForGood == Spec => CutForGood
  <1> DEFINE Kept == \A t, u \in Tasks :
               Sender(t) = Sender(u) /\ Troubled(t) /\ ran'[u] # ran[u] =>
                 Troubled(u) /\ ran[t] = 0
  <1>1. ZmqInv /\ [Next]_vars => [Kept]_vars
    <2> SUFFICES ASSUME ZmqInv, Next,
                        NEW t \in Tasks, NEW u \in Tasks,
                        Sender(t) = Sender(u), Troubled(t), ran'[u] # ran[u]
                 PROVE  Troubled(u) /\ ran[t] = 0
      OBVIOUS
    <2>1. PICK s \in Senders : CallAgent(s)
      BY DEF Next, Start, Step, Send, SendRefused, RecvAnswer, RecvTimeout, Retry,
             Disconnect, Answer, VmRestart
    <2>2. PICK w \in Tasks :
            /\ Sender(w) = s /\ out[s] = <<w>>
            /\ ran' = [ran EXCEPT ![w] = @ + 1]
            /\ st[w] = "wait" \/ Troubled(w)
      BY <2>1, CallAgentStep
    <2>3. w = u
      BY <2>2 DEF ZmqInv, TypeOK, RpcTypeOK
    <2>4. ran[t] = 0
      BY <2>2, <2>3 DEF ZmqInv, LastInv
    <2>5. lock[Sender(u)] = None
      BY DEF ZmqInv, TryInv, Useless
    <2>6. st[u] # "wait"
      BY <2>5, NoneIsNoTask DEF ZmqInv, LockInv
    <2> QED  BY <2>2, <2>3, <2>4, <2>6
  <1>2. [][Kept]_vars => CutForGood
    BY PTL DEF CutForGood
  <1> HIDE DEF Kept
  <1> QED  BY <1>1, <1>2, SpecInv, PTL DEF Spec
-----------------------------------------------------------------------------
(* Refinement: what each step is to a caller.                               *)

(* A step that changes no task as a caller sees it, nor what was run or     *)
(* answered, is no step of Rpc.                                             *)
LEMMA Stutters ==
  ASSUME \A t \in Tasks : Seen(st'[t]) = Seen(st[t]), UNCHANGED <<ran, got>>
  PROVE  UNCHANGED R!rpcVars
  BY DEF R!rpcVars, Call

(* An attempt that raises either ends the call with a failure or is not     *)
(* noticed.                                                                 *)
LEMMA RaiseRefines ==
  ASSUME ZmqInv, NEW t \in Tasks, Raise(t), st[t] \in {"ready", "wait"},
         UNCHANGED <<ran, got>>
  PROVE  [R!Next]_R!rpcVars
  <1>1. /\ st'[t] \in {"sleep", "failed"}
        /\ \A u \in Tasks \ {t} : st'[u] = st[u]
    BY RaiseTroubles
  <1>2. Call[t] = "pending"
    BY SeenValues DEF Call
  <1>3. CASE st'[t] = "failed"
    <2>1. Call' = [u \in Tasks |-> IF u \in {t} THEN "failed" ELSE Call[u]]
      BY <1>1, <1>3, SeenValues DEF Call
    <2>2. R!Fail({t})
      BY <1>2, <2>1 DEF R!Fail
    <2> QED  BY <2>2 DEF R!Next
  <1>4. CASE st'[t] = "sleep"
    BY <1>1, <1>4, SeenValues, Stutters
  <1> QED  BY <1>1, <1>3, <1>4

LEMMA StartRefines ==
  ASSUME ZmqInv, NEW c \in Clients, Start(c)
  PROVE  R!Next
  <1> DEFINE T == {t \in Tasks : t[1] = c}
  <1>1. \A t \in T : Call[t] = "new"
    BY SeenValues DEF Call, Start
  <1>2. \A t \in Tasks : st'[t] = IF t \in T THEN "ready" ELSE st[t]
    BY DEF Start
  <1>3. Call' = [t \in Tasks |-> IF t \in T THEN "pending" ELSE Call[t]]
    BY <1>2, SeenValues DEF Call
  <1>4. R!Invoke(T)
    BY <1>1, <1>3 DEF R!Invoke, Start
  <1> QED  BY <1>4 DEF R!Next

LEMMA RecvAnswerRefines ==
  ASSUME ZmqInv, NEW t \in Tasks, RecvAnswer(t)
  PROVE  R!Next
  <1>1. ran[t] > 0 /\ got' = [got EXCEPT ![t] = t]
    BY RecvAnswerStep
  <1>2. /\ st[t] = "wait" /\ st'[t] = "ok" /\ \A u \in Tasks \ {t} : st'[u] = st[u]
        /\ UNCHANGED ran
    BY DEF RecvAnswer, ZmqInv, TypeOK, RpcTypeOK
  <1>3. Call[t] = "pending" /\ Call' = [Call EXCEPT ![t] = "ok"]
    BY <1>2, SeenValues DEF Call
  <1>4. R!Return(t)
    BY <1>1, <1>2, <1>3 DEF R!Return
  <1> QED  BY <1>4 DEF R!Next

LEMMA CallAgentRefines ==
  ASSUME ZmqInv, NEW s \in Senders, CallAgent(s)
  PROVE  R!Next
  <1>1. PICK u \in Tasks :
          /\ ran' = [ran EXCEPT ![u] = @ + 1]
          /\ ran[u] = 0 /\ (st[u] = "wait" \/ Troubled(u))
    BY CallAgentStep
  <1>2. st[u] # "new"
    BY <1>1 DEF Troubled, ZmqInv, TryInv
  <1>3. Call[u] # "new"
    BY <1>2, SeenValues DEF Call, ZmqInv, TypeOK, RpcTypeOK
  <1>4. UNCHANGED <<Call, got>>
    BY DEF CallAgent, Call
  <1>5. R!Execute(u)
    BY <1>1, <1>3, <1>4 DEF R!Execute
  <1> QED  BY <1>5 DEF R!Next

LEMMA StepRefines ==
  ASSUME ZmqInv, NEW t \in Tasks, Step(t)
  PROVE  [R!Next]_R!rpcVars
  <1>1. CASE Send(t) \/ Retry(t)
    <2>1. /\ st[t] \in {"ready", "sleep"} /\ st'[t] \in {"wait", "ready"}
          /\ \A u \in Tasks \ {t} : st'[u] = st[u]
          /\ UNCHANGED <<ran, got>>
      BY <1>1 DEF Send, Retry, ZmqInv, TypeOK, RpcTypeOK
    <2>2. \A u \in Tasks : Seen(st'[u]) = Seen(st[u])
      BY <2>1, SeenValues
    <2> QED  BY <2>1, <2>2, Stutters
  <1>2. CASE SendRefused(t)
    BY <1>2, RaiseRefines DEF SendRefused
  <1>3. CASE RecvTimeout(t)
    BY <1>3, RaiseRefines DEF RecvTimeout
  <1>4. CASE RecvAnswer(t)
    BY <1>4, RecvAnswerRefines
  <1> QED  BY <1>1, <1>2, <1>3, <1>4 DEF Step

(* The ZeroMQ transport implements Rpc with a single run per message: no    *)
(* message is run twice and no caller is given another's answer, whatever   *)
(* times out, breaks or restarts (zeromq_rpc.py under call_method).         *)
THEOREM ZmqRefinesRpc == Spec => RefinesRpc
  <1>1. Init => R!Init
    BY SeenValues DEF Init, RpcInit, R!Init, Call
  <1>2. ZmqInv /\ [Next]_vars => [R!Next]_R!rpcVars
    <2> SUFFICES ASSUME ZmqInv, [Next]_vars
                 PROVE  [R!Next]_R!rpcVars
      OBVIOUS
    <2>1. ASSUME NEW c \in Clients, Start(c) PROVE R!Next
      BY <2>1, StartRefines
    <2>2. ASSUME NEW t \in Tasks, Step(t) PROVE [R!Next]_R!rpcVars
      BY <2>2, StepRefines
    <2>3. ASSUME NEW s \in Senders, CallAgent(s) PROVE R!Next
      BY <2>3, CallAgentRefines
    <2>4. ASSUME UNCHANGED <<st, ran, got>> PROVE UNCHANGED R!rpcVars
      BY <2>4, Stutters
    <2>5. ASSUME NEW s \in Senders, Disconnect(s) PROVE UNCHANGED R!rpcVars
      BY <2>4, <2>5 DEF Disconnect
    <2>6. ASSUME NEW v \in Vms, Answer(v) \/ VmRestart(v)
          PROVE  UNCHANGED R!rpcVars
      BY <2>4, <2>6 DEF Answer, VmRestart
    <2>7. CASE UNCHANGED vars
      BY <2>4, <2>7 DEF vars
    <2> QED  BY <2>1, <2>2, <2>3, <2>5, <2>6, <2>7 DEF Next
  <1> QED  BY <1>1, <1>2, SpecInv, PTL DEF Spec, RefinesRpc, R!Spec
=============================================================================
