----------------------------- MODULE NeutronApi -----------------------------
(***************************************************************************)
(* The Neutron server: the tables the log agent reads, and the API requests *)
(* that change them.  Every request runs in a database transaction; inside  *)
(* it the mechanism driver, the L3 plugin or a security group callback calls*)
(* create_bambuk_update_log, which adds a row to the transaction AND casts  *)
(* the log to the agents at once.  The cast is therefore on its way while   *)
(* the transaction is still open, and stays so if it rolls back.            *)
(*                                                                         *)
(* One router, one subnet per network.  Adding a router interface also      *)
(* creates the interface's own port and so one more port log, whose handler *)
(* finds no provider profile and returns: it is left out.                   *)
(***************************************************************************)
EXTENDS ConnectDb

CONSTANTS Kinds,      \* the kinds of request the environment makes
          InitPorts,  \* the ports that exist at the start
          Warm,       \* start with these ports bound, routed and distributed
          MaxReq      \* bound on the number of requests

PortKinds == {"create_port", "bind_port", "unbind_port", "delete_port"}

LegKinds == {"attach", "detach"}

AllKinds == PortKinds \cup LegKinds \cup {"update_sg", "update_router"}

Router == "router"

ASSUME ApiAssumption ==
  /\ Kinds \subseteq AllKinds
  /\ InitPorts \subseteq Ports
  /\ Warm \in BOOLEAN
  /\ MaxReq \in Nat

VARIABLES port,     \* the ports table with its bindings, committed
          legs,     \* networks with an interface on the router, committed
          up,       \* admin_state_up of the router, committed
          rules,    \* rules[g] counts the committed rule changes of group g
          tx,       \* requests whose transaction is open
          logs,     \* casts no worker has received yet
          rows,     \* bambukupdatelogs: committed rows; nothing removes one
          reqs      \* requests made so far

apiVars == <<port, legs, up, rules, tx, logs, rows, reqs>>

ObjectsOf(kind) ==
  CASE kind \in PortKinds      -> Ports
    [] kind \in LegKinds       -> Nets
    [] kind = "update_sg"      -> Groups
    [] kind = "update_router"  -> {Router}

(* A BambukUpdateLog: which object it is about and what was done to it.    *)
Request ==
  {t \in [id : Nat, kind : AllKinds,
          obj : Ports \cup Nets \cup Groups \cup {Router}] :
     t.obj \in ObjectsOf(t.kind)}

ApiTypeOK ==
  /\ port \in Table
  /\ legs \subseteq Nets
  /\ up \in BOOLEAN
  /\ rules \in [Groups -> Nat]
  /\ tx \subseteq Request
  /\ logs \subseteq Request
  /\ rows \subseteq Request
  /\ reqs \in Nat

ApiInit ==
  /\ port = [p \in Ports |-> IF p \in InitPorts
                             THEN [ver |-> 1, bound |-> Warm] ELSE Absent]
  /\ legs = IF Warm THEN Nets ELSE {}
  /\ up = TRUE
  /\ rules = [g \in Groups |-> 1]
  /\ tx = {} /\ logs = {} /\ rows = {}
  /\ reqs = 0
-----------------------------------------------------------------------------
(* Port ids are never used again.                                          *)
NeverCreated(p) ==
  p \notin InitPorts /\ \A r \in rows : ~(r.kind = "create_port" /\ r.obj = p)

(* What the API accepts: the checks made before anything is written.       *)
Valid(kind, obj) ==
  CASE kind = "create_port"                  -> NeverCreated(obj)
    [] kind \in {"bind_port", "delete_port"} -> obj \in Present(port)
    [] kind = "unbind_port"                  -> obj \in Bound(port)
    [] kind = "attach"                       -> obj \notin legs
    [] kind = "detach"                       -> obj \in legs
    [] OTHER                                 -> TRUE

(* Two requests on one row exclude each other; a rule is a row of its own, *)
(* so rule changes of one group run side by side.                          *)
RowFree(kind, obj) == kind = "update_sg" \/ \A t \in tx : t.obj # obj

CreateUpdateLog(t) ==
  /\ tx' = tx \cup {t}
  /\ logs' = logs \cup {t}

(* A request up to the end of its precommit handlers.                      *)
BeginRequest(kind, obj) ==
  /\ reqs < MaxReq
  /\ Valid(kind, obj)
  /\ RowFree(kind, obj)
  /\ reqs' = reqs + 1
  /\ CreateUpdateLog([id |-> reqs + 1, kind |-> kind, obj |-> obj])
  /\ UNCHANGED <<port, legs, up, rules, rows>>

Begin == \E kind \in Kinds : \E obj \in ObjectsOf(kind) : BeginRequest(kind, obj)

WrittenPort(t) ==
  CASE t.kind = "bind_port"   -> [ver |-> port[t.obj].ver + 1, bound |-> TRUE]
    [] t.kind = "unbind_port" -> [ver |-> port[t.obj].ver + 1, bound |-> FALSE]
    [] t.kind = "create_port" -> [ver |-> 1, bound |-> FALSE]
    [] t.kind = "delete_port" -> Absent

(* The transaction of request t commits: its change and its row appear.    *)
Commit(t) ==
  /\ t \in tx
  /\ tx' = tx \ {t}
  /\ rows' = rows \cup {t}
  /\ port' = IF t.kind \in PortKinds
             THEN [port EXCEPT ![t.obj] = WrittenPort(t)] ELSE port
  /\ legs' = CASE t.kind = "attach" -> legs \cup {t.obj}
               [] t.kind = "detach" -> legs \ {t.obj}
               [] OTHER             -> legs
  /\ up' = IF t.kind = "update_router" THEN ~up ELSE up
  /\ rules' = IF t.kind = "update_sg"
              THEN [rules EXCEPT ![t.obj] = @ + 1] ELSE rules
  /\ UNCHANGED <<logs, reqs>>

(* The transaction fails: nothing is written, but the cast is out.         *)
Rollback(t) ==
  /\ t \in tx
  /\ tx' = tx \ {t}
  /\ UNCHANGED <<port, legs, up, rules, logs, rows, reqs>>

ApiNext == Begin \/ \E t \in tx : Commit(t) \/ Rollback(t)
=============================================================================
