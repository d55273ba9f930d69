-------------------------------- MODULE Rpc --------------------------------
(***************************************************************************)
(* What a transport promises for a message to a VM's agent, whichever of    *)
(* the two in rpc/ carries it: the agent runs it at most MaxRuns times, the *)
(* sender is only ever given the answer to its own message, and a message   *)
(* whose sender was told of a failure may have been run, may never be, or   *)
(* may still be run later.                                                  *)
(***************************************************************************)
EXTENDS Naturals

CONSTANTS Tasks,     \* a message to one VM
          MaxRuns,   \* how often the VM may run it
          None       \* no answer

VARIABLES call,   \* call[t]: "new", "pending", "ok" or "failed"
          ran,    \* ran[t]: how often the VM has run t
          got     \* got[t]: the message whose answer t's sender was given

rpcVars == <<call, ran, got>>

Init ==
  /\ call = [t \in Tasks |-> "new"]
  /\ ran = [t \in Tasks |-> 0]
  /\ got = [t \in Tasks |-> None]

Invoke(S) ==
  /\ \A t \in S : call[t] = "new"
  /\ call' = [t \in Tasks |-> IF t \in S THEN "pending" ELSE call[t]]
  /\ UNCHANGED <<ran, got>>

Execute(t) ==
  /\ call[t] # "new"
  /\ ran[t] < MaxRuns
  /\ ran' = [ran EXCEPT ![t] = @ + 1]
  /\ UNCHANGED <<call, got>>

Return(t) ==
  /\ call[t] = "pending"
  /\ ran[t] > 0
  /\ call' = [call EXCEPT ![t] = "ok"]
  /\ got' = [got EXCEPT ![t] = t]
  /\ UNCHANGED ran

Fail(S) ==
  /\ \A t \in S : call[t] = "pending"
  /\ call' = [t \in Tasks |-> IF t \in S THEN "failed" ELSE call[t]]
  /\ UNCHANGED <<ran, got>>

Next ==
  \/ \E S \in SUBSET Tasks : Invoke(S) \/ Fail(S)
  \/ \E t \in Tasks : Execute(t) \/ Return(t)

Spec == Init /\ [][Next]_rpcVars
=============================================================================
