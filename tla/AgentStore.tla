----------------------------- MODULE AgentStore -----------------------------
(***************************************************************************)
(* What the log agent relies on in a VM's database, whichever driver keeps  *)
(* it: one message is one operation; what was answered True survives the    *)
(* agent; an operation cut short by a crash leaves a part of its own effect *)
(* and touches nothing else.  Removals that were answered False may be      *)
(* undone by a restart: those entries are loose.                            *)
(***************************************************************************)
EXTENDS Naturals, Sequences

CONSTANTS Entries,   \* a table and a key in it
          Vals,
          NoVal,     \* the database has no such entry
          MaxKeys    \* entries of one message

VARIABLES store,    \* store[e]: the value get_key returns
          loose,    \* loose[e]: the value a restart may bring back
          op,       \* the message being processed, or NoOp
          answer    \* what the last message was answered: "none" after a crash

storeVars == <<store, loose, op, answer>>

Keys == UNION {[1..n -> Entries] : n \in 1..MaxKeys}

Listed(k) == {k[i] : i \in DOMAIN k}

(* The value of an entry is a function of its key.  A message can list an   *)
(* entry twice: a chassis, once for each port of its host.  That it gives   *)
(* the same value twice is an assumption about the deployment, one tunnel   *)
(* address per host; the code takes the address from each port's profile    *)
(* and does not compare them.                                               *)
Writes == UNION {[kind : {"apply", "update"}, keys : {k},
                  value : [Listed(k) -> Vals]] : k \in Keys}

Deletes == [kind : {"delete"}, keys : Keys, value : [{} -> Vals]]

NoOp == [kind |-> "none", keys |-> <<>>, value |-> [e \in {} |-> NoVal]]

Nothing == [e \in Entries |-> NoVal]

Init ==
  /\ store = Nothing
  /\ loose = Nothing
  /\ op = NoOp
  /\ answer = "none"

Request ==
  /\ op = NoOp
  /\ op' \in Writes \cup Deletes
  /\ answer' = "none"
  /\ UNCHANGED <<store, loose>>

Written(base) ==
  [e \in Entries |-> IF e \in Listed(op.keys) THEN op.value[e] ELSE base[e]]

(* The entry list of a delete up to its first n.                            *)
Without(n) ==
  [e \in Entries |-> IF \E i \in 1..n : op.keys[i] = e THEN NoVal ELSE store[e]]

Answer(a) == answer' = a /\ op' = NoOp

(* An operation that is answered True has all its effect, and for good.     *)
Done ==
  /\ op # NoOp
  /\ store' = CASE op.kind = "apply"  -> Written(Nothing)
                [] op.kind = "update" -> Written(store)
                [] op.kind = "delete" -> Without(Len(op.keys))
  /\ loose' = Nothing
  /\ Answer("true")

(* A delete may stop at the first entry there is not.                       *)
Stopped ==
  /\ op.kind = "delete"
  /\ \E n \in 0..(Len(op.keys) - 1) :
       /\ Without(n)[op.keys[n + 1]] = NoVal
       /\ store' = Without(n)
       /\ \A e \in Entries : loose'[e] \in {NoVal, loose[e]} \cup
            (IF store'[e] = NoVal THEN {store[e]} ELSE {})
  /\ loose' \in [Entries -> Vals \cup {NoVal}]
  /\ Answer("false")

(* What an entry nobody has written to is after a restart.                  *)
Back(e) == IF store[e] = NoVal THEN {NoVal, loose[e]} ELSE {store[e]}

(* The agent dies.  A crash inside an apply leaves some of the old entries  *)
(* or some of the new ones, never a mixture.                                *)
Crash ==
  /\ store' \in [Entries -> Vals \cup {NoVal}]
  /\ CASE op.kind = "none" ->
            \A e \in Entries : store'[e] \in Back(e)
       [] op.kind = "apply" ->
            \/ \A e \in Entries : store'[e] \in Back(e) \cup {NoVal}
            \/ \A e \in Entries : store'[e] \in {NoVal, Written(Nothing)[e]}
       [] op.kind = "update" ->
            \A e \in Entries : store'[e] \in Back(e) \cup {Written(store)[e]}
       [] op.kind = "delete" ->
            \A e \in Entries :
              store'[e] \in Back(e) \cup {Without(Len(op.keys))[e]}
  /\ loose' = Nothing
  /\ Answer("none")

(* A removal reaches the disk on its own.                                   *)
Settle ==
  /\ op = NoOp
  /\ \E e \in Entries : loose' = [loose EXCEPT ![e] = NoVal]
  /\ UNCHANGED <<store, op, answer>>

Next ==
  \/ Request \/ Done \/ Stopped \/ Crash \/ Settle

Spec == Init /\ [][Next]_storeVars
=============================================================================
