--------------------------- MODULE LogAgentRoutes ---------------------------
(***************************************************************************)
(* Over which routes a VM comes to hold ports of other networks.  Two       *)
(* history variables record what the router had; they restrict nothing.     *)
(*                                                                         *)
(* The handler of a port asks twice: whether the port's network is on the   *)
(* router (get_routers_for_net), then what else is there                    *)
(* (get_ports_from_router), and adds the port's network to the answer.  If  *)
(* that network leaves the router between the two queries, the handler      *)
(* joins it to networks attached after it left.                             *)
(***************************************************************************)
EXTENDS LogAgentProperties

VARIABLES met,    \* every set of networks the router has had
          torn,   \* networks that have left the router while a handler of
                  \* one of their ports is between its two queries
          mixed   \* the pairs of a torn network and one on the router then

routeVars == <<vars, met, torn, mixed>>

(* A handler of a port of n has found the router and not yet asked for its  *)
(* ports.                                                                   *)
Asking(n) ==
  \E w \in Workers :
    At(w, "router_ports") /\ job[w].log.kind \in PortKinds /\ NetOf[Obj(w)] = n

Mixed == {{n, m} : n \in torn, m \in legs}

Recorded ==
  /\ met' = met \cup {legs'}
  /\ torn' = {n \in (torn \cup legs) \ legs' : Asking(n)'}
  /\ mixed' = mixed \cup Mixed'

RoutesInit == Init /\ met = {legs} /\ torn = {} /\ mixed = {}

RoutesNext == Next /\ Recorded

RoutesSpec == RoutesInit /\ [][RoutesNext]_routeVars

(* Networks that were on the router together, at one moment.               *)
Together(n, m) == \E s \in met : {n, m} \subseteq s

(* A VM holds a port of another network only if its own network and that    *)
(* one were on the router together at some moment.  The one exception: one  *)
(* of them left the router between the two queries of a handler of one of   *)
(* its ports, and the other was there while this handler was still between  *)
(* them.  Nothing else combines two routes into one that never was: not the *)
(* later queries, one per network, not the time until the sends, not a      *)
(* request that rolls back, not a message that comes late.                  *)
OnlyRoutedNeighbours ==
  \A v \in Vms : \A q \in Present(vm[v].lport) :
    \E p \in Ports :
      /\ VmOf[p] = v
      /\ \/ NetOf[p] = NetOf[q]
         \/ Together(NetOf[p], NetOf[q])
         \/ {NetOf[p], NetOf[q]} \in mixed
=============================================================================
