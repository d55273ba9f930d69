------------------------------ MODULE AsyncTcp ------------------------------
(***************************************************************************)
(* The asyncore transport (rpc/asynctcp_rpc.py) under the retry loop of     *)
(* rpc/bambuk_rpc.py.  Every attempt has a connection of its own; a message *)
(* and an answer are Size units, the last of which completes the separator, *)
(* and TCP hands them over in pieces of any length.  There is no time limit.*)
(***************************************************************************)
EXTENDS BambukRpc, FiniteSets

CONSTANT Size

ASSUME TcpAssumption == Size \in Nat \ {0}

VARIABLES conn,   \* conn[t][n]: the connection of t's n-th attempt
          off     \* VMs that lost power: their peers are told nothing

tcpVars == <<conn, off>>

vars == <<st, nr, got, ran, conn, off>>

(* The two ends; the units of the message the client has written and the VM *)
(* has read; the units of the answer the VM has written and the client has  *)
(* read.  "raised" is a client that was left to asyncore by an exception.   *)
Conn == [client : {"none", "open", "closed", "raised"},
         server : {"none", "open", "closed"},
         out : 0..Size, in : 0..Size, answer : 0..Size, result : 0..Size]

NoConn == [client |-> "none", server |-> "none",
           out |-> 0, in |-> 0, answer |-> 0, result |-> 0]

Attempts == 1..MaxTry

TypeOK ==
  /\ RpcTypeOK
  /\ conn \in [Tasks -> [Attempts -> Conn]]
  /\ off \subseteq Vms

Init ==
  /\ RpcInit
  /\ conn = [t \in Tasks |-> [n \in Attempts |-> NoConn]]
  /\ off = {}

Cur(t) == conn[t][nr[t] + 1]

SetConn(t, n, c) == conn' = [conn EXCEPT ![t][n] = c]
-----------------------------------------------------------------------------
(* A bulk asks for its senders without send_id, so the clients are not in   *)
(* the map the loop runs: the loop ends at once and nothing is ever sent.   *)
(* That a connect may raise and be retried first makes no difference.       *)
BulkNotSent(t) ==
  /\ st[t] = "ready"
  /\ t[1] \in Bulk
  /\ st' = [st EXCEPT ![t] = "failed"]
  /\ UNCHANGED <<nr, got, ran, conn, off>>

Connect(t) ==
  /\ st[t] = "ready"
  /\ t[1] \notin Bulk
  /\ t[2] \notin off
  /\ st' = [st EXCEPT ![t] = "wait"]
  /\ SetConn(t, nr[t] + 1, [NoConn EXCEPT !.client = "open", !.server = "open"])
  /\ UNCHANGED <<nr, got, ran, off>>

(* The VM refuses or does not answer: handle_error raises out of the loop.  *)
ConnectError(t) ==
  /\ st[t] = "ready"
  /\ t[1] \notin Bulk
  /\ Raise(t)
  /\ UNCHANGED <<got, ran, conn, off>>

HandleWrite(t) ==
  /\ st[t] = "wait"
  /\ \E k \in (Cur(t).out + 1)..Size :
       SetConn(t, nr[t] + 1, [Cur(t) EXCEPT !.out = k])
  /\ UNCHANGED <<st, nr, got, ran, off>>

(* A piece of the answer; with the last one the client closes and its loop  *)
(* ends.                                                                    *)
HandleRead(t) ==
  /\ st[t] = "wait"
  /\ \E k \in (Cur(t).result + 1)..Cur(t).answer :
       IF k = Size
       THEN /\ SetConn(t, nr[t] + 1, [Cur(t) EXCEPT !.result = k, !.client = "closed"])
            /\ st' = [st EXCEPT ![t] = "ok"]
            /\ got' = [got EXCEPT ![t] = t]
       ELSE /\ SetConn(t, nr[t] + 1, [Cur(t) EXCEPT !.result = k])
            /\ UNCHANGED <<st, got>>
  /\ UNCHANGED <<nr, ran, off>>

(* Mutant of HandleClose: what was read is taken for the answer.            *)
HandleCloseTakesAll(t) ==
  /\ st[t] = "wait"
  /\ Cur(t).server = "closed"
  /\ SetConn(t, nr[t] + 1, [Cur(t) EXCEPT !.client = "closed"])
  /\ st' = [st EXCEPT ![t] = "ok"]
  /\ got' = [got EXCEPT ![t] = t]
  /\ UNCHANGED <<nr, ran, off>>

(* Mutant of HandleClose: a truncated answer is tried again.                *)
HandleCloseRetried(t) ==
  /\ st[t] = "wait"
  /\ Cur(t).server = "closed"
  /\ SetConn(t, nr[t] + 1, [Cur(t) EXCEPT !.client = "closed"])
  /\ Raise(t)
  /\ UNCHANGED <<got, ran, off>>

(* The connection ends early: the loop returns what was read, without its   *)
(* last units, and json.loads raises outside the retry loop.                *)
HandleClose(t) ==
  /\ st[t] = "wait"
  /\ Cur(t).server = "closed"
  /\ SetConn(t, nr[t] + 1, [Cur(t) EXCEPT !.client = "closed"])
  /\ st' = [st EXCEPT ![t] = "failed"]
  /\ UNCHANGED <<nr, got, ran, off>>

(* What was written stays unacknowledged: an error that asyncore does not   *)
(* take for a close comes out of the loop and is retried, whether or not    *)
(* the VM has got the message.                                              *)
HandleError(t) ==
  /\ st[t] = "wait"
  /\ Cur(t).out > 0
  /\ SetConn(t, nr[t] + 1, [Cur(t) EXCEPT !.client = "raised"])
  /\ Raise(t)
  /\ UNCHANGED <<got, ran, off>>
-----------------------------------------------------------------------------
Serving(t, n) == conn[t][n].server = "open" /\ t[2] \notin off

(* ReceiverHandler.handle_read: a piece of the message; with the last one   *)
(* the agent runs it and the answer is ready.                               *)
ReceiverRead(t, n) ==
  /\ Serving(t, n)
  /\ \E k \in (conn[t][n].in + 1)..conn[t][n].out :
       /\ SetConn(t, n, [conn[t][n] EXCEPT !.in = k])
       /\ ran' = [ran EXCEPT ![t] = IF k = Size THEN @ + 1 ELSE @]
  /\ UNCHANGED <<st, nr, got, off>>

(* Mutant of ReceiverWrite: what the first send did not take is dropped.    *)
ReceiverWriteOnce(t, n) ==
  /\ Serving(t, n)
  /\ conn[t][n].in = Size
  /\ conn[t][n].answer = 0
  /\ \E k \in 1..Size : SetConn(t, n, [conn[t][n] EXCEPT !.answer = k])
  /\ UNCHANGED <<st, nr, got, ran, off>>

(* ReceiverHandler.handle_write.                                            *)
ReceiverWrite(t, n) ==
  /\ Serving(t, n)
  /\ conn[t][n].in = Size
  /\ \E k \in (conn[t][n].answer + 1)..Size :
       SetConn(t, n, [conn[t][n] EXCEPT !.answer = k])
  /\ UNCHANGED <<st, nr, got, ran, off>>

(* ReceiverHandler.handle_close: the client has closed, the agent restarts, *)
(* or the connection is reset.                                              *)
ReceiverClose(t, n) ==
  /\ Serving(t, n)
  /\ SetConn(t, n, [conn[t][n] EXCEPT !.server = "closed"])
  /\ UNCHANGED <<st, nr, got, ran, off>>

PowerOff(v) ==
  /\ v \notin off
  /\ off' = off \cup {v}
  /\ UNCHANGED <<st, nr, got, ran, conn>>
-----------------------------------------------------------------------------
Step(t) ==
  \/ BulkNotSent(t) \/ Connect(t) \/ ConnectError(t) \/ HandleWrite(t)
  \/ HandleRead(t) \/ HandleClose(t)
  \/ Retry(t) /\ UNCHANGED tcpVars

Receive(t, n) == ReceiverRead(t, n) \/ ReceiverWrite(t, n)

(* All calls have ended, or wait for a VM without power.                    *)
Rest ==
  /\ \A t \in Tasks : Ended(t) \/ t[2] \in off
  /\ UNCHANGED vars

Next ==
  \/ \E c \in Clients : Start(c) /\ UNCHANGED tcpVars
  \/ \E t \in Tasks : Step(t) \/ HandleError(t)
  \/ \E t \in Tasks, n \in Attempts : Receive(t, n) \/ ReceiverClose(t, n)
  \/ \E v \in Vms : PowerOff(v)
  \/ Rest

Spec == Init /\ [][Next]_vars

(* Both ends run their loop, and TCP delivers what was written to a VM that *)
(* has power.                                                               *)
FairSpec ==
  /\ Spec
  /\ \A t \in Tasks : WF_vars(Step(t))
  /\ \A t \in Tasks, n \in Attempts : WF_vars(Receive(t, n))
-----------------------------------------------------------------------------
R == INSTANCE Rpc WITH call <- Call, MaxRuns <- MaxTry

(* For every message the transport does what Rpc promises, with up to       *)
(* MaxTry runs: whatever the pieces are and wherever a connection ends, a   *)
(* caller that is given an answer is given the whole one, to its own        *)
(* message, and only after the VM has run it.                               *)
RefinesRpc == R!Spec

(* A message runs a second time only if an attempt before was lost to an    *)
(* error after its connect: neither a refused connection nor an answer cut  *)
(* short makes call_method repeat what the VM has already run.              *)
OnlyErrorsRepeat ==
  \A t \in Tasks :
    ran[t] <= 1 + Cardinality({n \in Attempts : conn[t][n].client = "raised"})

(* Every call and every bulk send ends, unless the VM loses power while the *)
(* call waits for it: then nothing ends it.                                 *)
CallsEnd == \A t \in Tasks : st[t] = "ready" ~> Ended(t) \/ t[2] \in off
=============================================================================
