-------------------------- MODULE BambukRpcProofs --------------------------
(* Facts about the retry loop that the proofs of both transports use.       *)
EXTENDS BambukRpc, TLAPS

LEMMA NoneIsNoTask == None \notin Tasks
  BY RpcAssumption DEF Tasks

(* What an attempt that raises does to its task, and that it touches no     *)
(* other: call_method counts it and sleeps, unless it was the last one; a   *)
(* bulk send fails at once.                                                 *)
LEMMA RaiseFacts ==
  ASSUME RpcTypeOK, NEW t \in Tasks, nr[t] < MaxTry, Raise(t)
  PROVE  /\ st' \in [Tasks -> States] /\ nr' \in [Tasks -> 0 .. MaxTry]
         /\ st'[t] \in {"sleep", "failed"}
         /\ st'[t] = "sleep" => nr'[t] \in 1 .. (MaxTry - 1)
         /\ nr'[t] = IF t[1] \in Bulk THEN nr[t] ELSE nr[t] + 1
         /\ \A u \in Tasks \ {t} : st'[u] = st[u] /\ nr'[u] = nr[u]
  <1>1. /\ nr \in [Tasks -> 0 .. MaxTry] /\ st \in [Tasks -> States]
        /\ MaxTry \in Nat /\ nr[t] \in 0 .. MaxTry
    BY RpcAssumption DEF RpcTypeOK
  <1>2. CASE t[1] \in Bulk
    BY <1>1, <1>2 DEF Raise, States
  <1>3. CASE t[1] \notin Bulk
    <2>1. /\ nr'[t] = nr[t] + 1 /\ nr'[t] \in 1 .. MaxTry
          /\ nr' \in [Tasks -> 0 .. MaxTry]
          /\ \A u \in Tasks \ {t} : nr'[u] = nr[u]
      BY <1>1, <1>3 DEF Raise
    <2>2. /\ st'[t] = IF nr'[t] = MaxTry THEN "failed" ELSE "sleep"
          /\ st' \in [Tasks -> States]
          /\ \A u \in Tasks \ {t} : st'[u] = st[u]
      BY <1>1, <1>3, <2>1 DEF Raise, States
    <2> QED  BY <1>1, <1>3, <2>1, <2>2
  <1> QED  BY <1>2, <1>3

LEMMA SeenValues ==
  /\ Seen("new") = "new" /\ Seen("ok") = "ok" /\ Seen("failed") = "failed"
  /\ \A x \in {"ready", "wait", "sleep"} : Seen(x) = "pending"
  /\ \A x \in States : Seen(x) = "new" => x = "new"
  BY DEF Seen, States
=============================================================================
