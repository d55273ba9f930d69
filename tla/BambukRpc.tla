----------------------------- MODULE BambukRpc -----------------------------
(***************************************************************************)
(* The part of a send that both transports share (rpc/bambuk_rpc.py): the   *)
(* clients' calls and bulk sends, and the retry loop of call_method.  A     *)
(* task is the sending of one client's message to one VM.                   *)
(***************************************************************************)
EXTENDS Naturals, Sequences

CONSTANTS Clients,   \* handlers, each with one call or one bulk send to make
          Vms,
          To,        \* the VMs a client sends to
          Bulk,      \* the clients that use the bulk interface
          MaxTry,    \* attempts of call_method: 10 in the code
          None

ASSUME RpcAssumption ==
  /\ To \in [Clients -> SUBSET Vms]
  /\ Bulk \subseteq Clients
  /\ \A c \in Clients \ Bulk : \E v \in Vms : To[c] = {v}
  /\ MaxTry \in Nat \ {0}
  /\ \A c \in Clients : \A v \in Vms : None # <<c, v>>

Tasks == {t \in Clients \X Vms : t[2] \in To[t[1]]}

VARIABLES st,    \* st[t]: how far the sending of t is
          nr,    \* nr[t]: attempts of t that raised
          got,   \* got[t]: the message whose answer t was given
          ran    \* ran[t]: how often the VM has run t

States == {"new", "ready", "wait", "sleep", "ok", "failed"}

RpcTypeOK ==
  /\ st \in [Tasks -> States]
  /\ nr \in [Tasks -> 0..MaxTry]
  /\ got \in [Tasks -> Tasks \cup {None}]
  /\ ran \in [Tasks -> Nat]

RpcInit ==
  /\ st = [t \in Tasks |-> "new"]
  /\ nr = [t \in Tasks |-> 0]
  /\ got = [t \in Tasks |-> None]
  /\ ran = [t \in Tasks |-> 0]

(* A client makes its call; a bulk starts the sends to all its VMs before   *)
(* the first of them runs.                                                  *)
Start(c) ==
  /\ \A t \in Tasks : t[1] = c => st[t] = "new"
  /\ st' = [t \in Tasks |-> IF t[1] = c THEN "ready" ELSE st[t]]
  /\ UNCHANGED <<nr, got, ran>>

(* Mutant of Raise: one attempt too many.                                   *)
RaiseOneMore(t) ==
  IF t[1] \in Bulk
  THEN st' = [st EXCEPT ![t] = "failed"] /\ UNCHANGED nr
  ELSE /\ nr' = [nr EXCEPT ![t] = @ + 1]
       /\ st' = [st EXCEPT ![t] = IF nr[t] = MaxTry THEN "failed" ELSE "sleep"]

(* An exception in a bulk send ends its greenthread, unseen; call_method    *)
(* sleeps and tries again, and in the end lets the exception pass.          *)
Raise(t) ==
  IF t[1] \in Bulk
  THEN st' = [st EXCEPT ![t] = "failed"] /\ UNCHANGED nr
  ELSE /\ nr' = [nr EXCEPT ![t] = @ + 1]
       /\ st' = [st EXCEPT ![t] = IF nr[t] + 1 = MaxTry THEN "failed" ELSE "sleep"]

(* eventlet.sleep(2) is over.                                               *)
Retry(t) ==
  /\ st[t] = "sleep"
  /\ st' = [st EXCEPT ![t] = "ready"]
  /\ UNCHANGED <<nr, got, ran>>

Ended(t) == st[t] \in {"ok", "failed"}

(* The state of a task as a caller sees it.                                 *)
Seen(x) == CASE x \in {"new", "ok", "failed"}    -> x
             [] x \in {"ready", "wait", "sleep"} -> "pending"

Call == [t \in Tasks |-> Seen(st[t])]
=============================================================================
