# Verification of networking-bambuk

networking-bambuk connects VMs of a provider cloud to Neutron networks. Each VM
runs its own Dragonflow controller over a small local database, the *connect
db*; the Neutron server pushes to every VM the part of its tables that the VM
needs. This directory holds TLA+ models of that machinery, the TLC runs that
check them and TLAPS proofs of their main safety properties. All paths below
are relative to `src/networking_bambuk/`.

## 1. Inventory

| Part | State it keeps | Operations | Interacts with |
|---|---|---|---|
| Update log producer: `db/bambuk/`, `ml2/mech_driver.py`, `l3/l3_bambuk.py` | Neutron's tables, `bambukupdatelogs` | API requests; each writes a row and casts it *inside* its transaction | log agent (RPC cast) |
| Log agent: `cmd/log_agent.py` | none but its handlers' locals | `process_log`; several worker processes and greenthreads, no lock | update actions |
| Update actions: `common/update_actions.py` | locals of five handlers | read tables query by query, build messages, send them | Neutron's tables, RPC client |
| Messages: `common/port_infos.py` | none | `to_db`, `port_db`, `chassis_db` | update actions |
| RPC client: `rpc/bambuk_rpc.py` | retries of a call | `state`, `apply`, bulk `update` and `delete`, retry | a transport |
| ZeroMQ transport: `rpc/zeromq_rpc.py` | REQ socket and lock per process and VM, REP socket of a VM, greenthread pool per bulk | send, receive with a time limit | VM |
| Async TCP transport: `rpc/asynctcp_rpc.py` | buffers of the two ends of a connection | a connection per attempt, asyncore callbacks | VM |
| Agent database: `agent/df/` | tables of the connect db, in memory and on disk | `apply` (clear and create), `update` (set), `delete`; two drivers | Dragonflow controller |
| Provider ports: `services/bambuk/bambuk_plugin.py`, `extensions/bambuk.py` | `providerports` rows, `binding:profile` | create, update, delete; call the VM inside the transaction | VM startup, Neutron ports |
| VM startup: `cmd/startup.py`, `cmd/plug_vif.py` | configuration file, bridge and its interfaces | receive thread, boot path | provider ports |
| Type driver, L2 population: `ml2/` | VXLAN endpoints | `add_endpoint` | update actions |
| Configuration, client, migrations, devstack, virsh | - | - | - |

**What is hard here.** A log is cast before the change it announces is
committed. Handlers of several workers interleave between any two queries and
any two sends. What a handler sends was read many steps before. Bulk sends are
neither retried nor reported; rows of the log table are never read again. A
message whose sender timed out may be executed later, and the socket that timed
out is useless afterwards. A call is retried although the VM may have run it. A
delete in a VM stops at the first unknown key, and the agent may be killed
between any two entries, with writes still in a cache. A provider port request waits
for a VM with a row lock in its hands. `PROJECT.json` lists these hazards line
by line.

**What makes the parts correct.** At every moment: a VM that holds a remote
port can reach it (`TunnelKnown`), keeps its own port (`OwnPortKept`), holds
ports of another network only if both networks were on the router together at
some moment (`OnlyRoutedNeighbours`, with one exception the code makes; see the
limits in section 3) and nothing older than what it held (`VersionsMonotone`). When all is handled: it holds
everything it can reach (`Complete`), the current rules
(`SecurityGroupsCurrent`) and nothing beyond (`Isolated`). Every log is handled
(`LogsDrain`). A transport runs a message as often as it may, gives a caller
only the answer to its own message (`RefinesRpc`, `OnlyErrorsRepeat`) and ends
every call (`CallsEnd`); after a time out nothing new overtakes what is late
(`CutForGood`). A VM's database keeps what it acknowledged (`RefinesStore`) and
tells all its readers the same (`CopiesAgree`). Provider port requests exclude each other on a row
(`Exclusive`, `AddressStable`), get their own answers (`Awaited`), end
(`RequestsEnd`), and leave the VM with all its ports (`AllPortsPlugged`).

## 2. Modules

```
ConnectDb <- NeutronApi <- LogAgent <- LogAgentProperties
LogAgentProperties <- MCLogAgent, LogAgentRoutes, LogAgentProofs
MCLogAgent, LogAgentRoutes <- MCLogAgentRoutes
LogAgentRoutes, LogAgentProofs <- LogAgentHistory
LogAgentProofs <- LogAgentSerial
ProviderPort <- MCProviderPort
      ^- ProviderPortProofs
BambukRpc <- ZmqRpc <- MCZmqRpc        ZmqRpc, AsyncTcp  implement  Rpc
      ^- AsyncTcp <- MCAsyncTcp
ZmqRpc, BambukRpcProofs <- ZmqRpcProofs
AsyncTcp, BambukRpcProofs <- AsyncTcpProofs
AgentDb <- MCAgentDb                   AgentDb  implements  AgentStore
      ^- AgentDbProofs
```

**ConnectDb** - the connect db and messages (one record type for both), what
the server puts in a message (`ToDb`, `PortToDb`, `PortDb`, `SecGroupDb`) and
what the agent makes of it (`ApplyDb`, `UpdateDb`, `DeleteDb`). An entry's
value is abstracted to a *version*, the number of committed changes of the
object it shows: this is what lets properties speak of stale and current
entries. `DeleteDb` is a set of outcomes: the BSD driver raises at the first
missing key, and which entries went before it depends on the order of the
server's queries.

**NeutronApi** - committed tables (`port`, `legs`, `up`, `rules`), open
transactions `tx`, casts under way `logs`, and rows. `BeginRequest` is a
request up to its precommit handlers: it opens the transaction and casts.
`Commit` makes the change visible, `Rollback` does not, and neither touches the
cast. Casts are a set: workers may take them in any order.

**LogAgent** - per worker the handler it runs and its locals (`job[w]`), per VM
its database (`vm[v]`). Each query and each send of a handler is an action of
its own. The failures: a send that gets no answer in time (`CallFails`,
`BulkLost`) leaves its message in `late`, to be executed at any later moment or
never (`LateDelivery`), and puts its socket in `cut`, from where every later send
of that worker to that VM raises at once; `WorkerDies` starts a worker again
with new sockets. A message that was executed before its sender gave up is one
whose late delivery comes first. `late` and `cut` are what `ZmqRpc!CutForGood`
says of the default transport. Workers stand for processes and for their
greenthreads; giving each greenthread sockets of its own allows more than the
code does, where those of one process share them. A VM takes a message in one
step; its agent dying in the middle of an apply, or answering False, is
`AgentDb`'s subject. `SerialSpec` is the same system under an operator who makes one
request at a time and waits until it is committed and handled.

**LogAgentProperties** - the properties, each with the code it is about.

**LogAgentRoutes** - `LogAgent` with three history variables that restrict nothing:
`met`, every set of networks the router has had; `torn`, the networks that have
left the router while a handler of one of their ports is between
`_get_routers_for_net` and `_get_ports_from_router`; and `mixed`, the pairs of a
torn network and one on the router at that time. `OnlyRoutedNeighbours` needs the
past of the router as a whole: that each of two networks was on it at some time
does not make a route.

**ProviderPort** - API threads (`req[r]`), rows, profiles, and per VM the socket
queue, the plugged ports, the configuration file and the boot thread. A
transaction takes its row's lock when it flushes (`Flush`), sends the list of
the VM's ports, waits, and writes profile and row together (`UpdatePort`). A
`touch` is an update whose values the row already has: SQLAlchemy emits no
UPDATE, so it takes no lock and runs beside any other request on its port.
`PerVmSpec` restricts the caller to one request per VM. What
`UpdatePort` does to a Neutron port is a `bind_port` or `unbind_port` request
of NeutronApi; the two models share no other state.

**Rpc** - what a transport promises the caller of a message: at most `MaxRuns`
executions, an answer only after an execution and only to the message it
belongs to, and nothing about a message whose sender was told of a failure.

**BambukRpc** - what both transports share: a *task* is the sending of one
client's message to one VM; `Start` is a call or a bulk of `BambukAgentClient`,
`Raise` and `Retry` the loop of `call_method`.

**ZmqRpc** - per process and VM the sender's lock, the state of its REQ socket
and what is on its way in both directions; per VM what its REP socket has run
and not answered. `Send`, `SendRefused`, `RecvAnswer`, `RecvTimeout` are the four
ways through `_send`, `CallAgent` and `Answer` the loop of `receive`. A broken
connection (`Disconnect`) loses what is under way and does not reset the REQ
socket; `VmRestart` loses an answer.

**AsyncTcp** - per attempt of a task a connection with its two ends and the units
of message and answer that were written and read; `Size` units make a message,
so that every callback can move a part of it. A bulk is never sent: its clients
are not in the map its loop runs (`BulkNotSent`).

**AgentStore** - what the log agent may rely on in a VM's database: one message
is one step; what was answered True stays; a crash leaves a part of the
operation it met, and an interrupted apply never old entries beside new ones;
what a failed delete removed may come back (`loose`).

**AgentDb** - the loops of `df_agent_db.py` over one of the two drivers, entry by
entry: `mem` is what the agent sees, `disk` what the files hold. The BSD driver
writes to a cache (`Flush` writes parts of it at any time), removes its files one
by one in `clear_all`, and raises for an unknown key; TinyDB inserts duplicates
and deletes silently. `before` is a history variable: the database at the start
of the operation, which is what AgentStore shows until the operation ends.
ConnectDb's `ApplyDb`, `UpdateDb` and `DeleteDb` are AgentStore's `Done` and
`Stopped` on whole messages.

Simplifications: one router and one subnet per network (the code says it
supports one router per network); the port of a router interface has no
profile, so its log is handled with no effect and is left out;
the VM of a port is fixed (`VmOf`); `SecurityGroupUpdateAction`'s port filter
is taken to return the members of the group; a five-millisecond socket timeout
is taken to fire (`MaxCut > 0`); in AgentStore and AgentDb a message that lists a
key twice gives it one value, that is, all ports of a host carry one tunnel
address (`port_infos.py:199` takes it from each port and compares nothing; if
they differ, a TinyDB apply keeps both documents and BSD the last); a router
that is not distributed is not found at all, since `ROUTER_INTERFACE_OWNERS`
(`update_actions.py:27`) lacks its interfaces, and all runs have a distributed
one. The value of a message that Dragonflow reads is out
of scope.

## 3. Runs

Passing:

| Run | Specification and bounds | Checks |
|---|---|---|
| races | `Spec`, 3 ports on 2 networks, warm start, 2 workers, one socket useless at a time, dying workers, 2 requests | `TypeOK`, `TunnelKnown`, `OwnPortKept` |
| routes | `RoutesSpec`, cold start, 2 ports on 2 networks, 1 worker, 4 requests (bind, attach, detach) | `OnlyRoutedNeighbours` |
| one_worker | `FairSpec`, 1 worker, 2 VMs, both sockets may become useless, L2 population, 2 requests of 7 kinds | `VersionsMonotone`, `LogsDrain` |
| serial | `SerialSpec`, warm, every kind of request, 5 requests | `Complete`, `SecurityGroupsCurrent` |
| bring_up | `SerialSpec`, cold, 3 networks, 7 requests | `Complete`, `Isolated` |
| provider_faults | `FairSpec`, 2 ports, 2 VMs, 2 threads, failing VMs, 3 requests of 4 kinds | `TypeOK`, `Exclusive`, `Awaited`, `AddressStable`, `RequestsEnd` |
| provider_per_vm | `PerVmSpec`, 3 ports, 2 VMs, 4 requests | `AllPortsPlugged` |
| zmq | `FairSpec`, 3 clients in 2 processes, 2 VMs, 3 attempts | `TypeOK`, `RefinesRpc`, `CutForGood`, `CallsEnd` |
| tcp | `FairSpec`, a call and a bulk, 3 attempts, messages of 2 units | `TypeOK`, `OnlyErrorsRepeat`, `RefinesRpc`, `CallsEnd` |
| agent_db | `Spec`, both drivers, 3 entries in 2 tables, messages of up to 3 entries | `TypeOK`, `CopiesAgree`, `RefinesStore` |

*Bounds.* Two concurrent requests with two workers are the smallest instance in
which one handler reads before and sends after another; a third request lets a
rollback or a second read join. Two ports on one network and one on another
give neighbours of both kinds; the third network of `bring_up` leaves a route
that must survive a detach, and its seventh request is that detach. `MaxCut = 1` in `races` bounds the useless
sockets at a time, not the late messages: a worker that dies has new sockets and
may time out again. In `routes` four requests
reach the schedule that joins two networks which were never routed together -
attach, bind, detach and attach: without the last disjunct of
`OnlyRoutedNeighbours` TLC gives it in this same configuration - so what the
disjunct leaves is checked where it matters. A handler's own locals and the
tables decide what it joins, so one worker suffices there; the theorem has any
number, with late messages and deaths. In `one_worker` two requests suffice for what is late to meet
what is newer. `Warm` starts a system that has run for a while, so that the
two or three requests are all spent on the race. The five requests of `serial`
cover detach, disable, attach, enable and rebind in any order. The clients of `zmq` are two of one process and
one of another, with a VM each process uses, so that a lock, a REP socket and a
useless socket are each contended; three attempts stand for ten, since from the
second on all are alike. Two units are a message that can arrive in one piece or
in two, the separator last. Three entries in two tables let a message repeat an
entry, stop in the middle and cross a table. Worker and
thread symmetry is used in runs of safety properties only.

*Deadlock* is checked everywhere but in `provider_faults`: there a request whose
VM restarted really waits for ever. `Rest` lets the finished system idle; in
AsyncTcp it also covers calls that wait for a VM without power.

*Fairness.* `FairSpec` of LogAgent: a transaction ends, and a free worker takes
a log and does its handler's next step - every call a handler makes is a
database query or a send with a time limit. It does not assume that sends
succeed. `FairSpec` of ProviderPort: threads and VMs go on; it says nothing of
VMs that fail, and `RequestsEnd` says exactly which requests such a VM may keep
waiting: its own, and those on the same port. `FairSpec` of ZmqRpc: a greenthread
takes its next step, since `RCVTIMEO` and the sleep have a limit; nothing is
assumed of VMs or of the network. `FairSpec` of AsyncTcp: both ends run their
asyncore loop and TCP delivers to a VM that has power - without a time limit in
the code, less would not do, and `CallsEnd` excepts the VMs that lose power.

*Refinement.* `zmq` and `tcp` check `R!Spec`, with `R == INSTANCE Rpc WITH
call <- Call, MaxRuns <- 1` or `<- MaxTry`: the retry loop is the same, yet the
ZeroMQ transport runs a message once at most, because the socket refuses the
second attempt, while over TCP it may run as often as it was sent. `agent_db`
checks `S!Spec` of AgentStore.

Violations, each a disagreement between the code and what the repository says
of it (quoted in `PROJECT.json`):

| Run | What happens |
|---|---|
| stale_rules | A rule change is handled before it commits; the VM keeps the old rules. |
| lost_port | Two concurrent creates for one VM: one port is not plugged. |

The passing runs stay inside what the code does guarantee. Its limits, each a
counterexample TLC gives at once when a configuration leaves them:

* `OnlyRoutedNeighbours` without its last disjunct, in `Routes.cfg`: a handler of a
  port of n1 finds the router through n1 (`update_actions.py:399`); n1 is
  detached and n2 attached; the handler reads the router's ports, which are n2's
  (`update_actions.py:440`), adds n1 (`update_actions.py:410`), and makes
  neighbours of VMs that no router ever joined, although
  `doc/source/requierements.rst:42` gives a VM the VMs "connected to other legs of
  the routers".
* `Complete` with two ports on one VM (`VmOf <- VmOf11`, two `bind_port`
  requests, `SerialSpec`): the apply for the second port clears the database of
  the first (`df_agent_db.py:65`), while `doc/source/spawn_vm.puml` loops over
  the ports of a VM.
* `Complete` under `Spec` with one `detach`: its transaction fails, its cast is
  handled, and the VMs forget each other (`l3_bambuk.py:117`).
* `Isolated` under `Spec` with one `bind_port`, one `detach` and two workers: the
  bind applies after the detach what it read before it (`update_actions.py:375`).
* `Isolated` under `SerialSpec` with one `create_port` and one `detach`: the
  delete stops at the new port, which no VM was told of (`df_bsd_db.py:158`).
* `update_providerport` loads its row before its transaction: when the port is
  deleted and created on another VM in between, the update sends the list to the
  old VM and writes the old address to the Neutron port (`bambuk_plugin.py:167`).
* A disabled router: `RouterUpdateAction` calls `_get_endpoints` without its
  context (`update_actions.py:527`) and raises before it sends a delete, although
  its docstring (`update_actions.py:482`) says the VMs are told that they no
  longer reach each other. In the model `RouterUpdate` ends the handler, so that
  after a disable the VMs still hold the other networks' ports.
* `VersionsMonotone` with `Crashes` or two workers: a restarted worker has a new
  socket, and what it sends can be overtaken by what was late before
  (`zeromq_rpc.py:101`).
* A VM that is late once is cut off from the worker until the process restarts
  (`zeromq_rpc.py:100`): `Complete` and `SecurityGroupsCurrent` fail with
  `MaxCut > 0`.
* Over the Async TCP transport no bulk message is ever sent
  (`asynctcp_rpc.py:144`); the caller is told nothing. `RefinesRpc` and `CallsEnd`
  of `tcp` hold all the same: `Rpc` promises nothing of a bulk, and one that
  sends nothing ends.
* A VM that restarts rebuilds its bridge and plugs nothing (`startup.py:158`), so
  `AllPortsPlugged` fails with `Faulty`.

Two things the serial runs cannot show: under `SerialSpec` a cast is handled after
its commit, so `Complete` and `SecurityGroupsCurrent` say nothing of the early cast
(`create_update_log.py:36`), which only `stale_rules` shows; and with one port per
VM `Complete` says nothing of `df_agent_db.py:65`.

Each property of a passing run has a mutant: an operator next to the original
that makes a plausible mistake (a guard dropped, entries in another order, one
of two sides not told), under which TLC finds the property violated.

## 4. Proofs

For every topology, number of workers, threads, requests, clients, attempts and
VMs. Each proof has the same shape: an invariant that is inductive, the lemma
that the initial states have it, one lemma per action that the action keeps it,
and the property from it.

**The log agent at every moment** (`LogAgentProofs`, `Spec`)

* `TypeCorrect`: `[]TypeOK`. `TypeOK` is not inductive: `PortInfo` indexes
  tables with the object of its log, which must be a port. `TypeInv` adds
  `JobOK`, which ties each step of a handler to the kind of log it works on.
* `TunnelsAlwaysKnown`: `[]TunnelKnown` if a VM holds one port. `TunnelInv` adds
  that every *message* a handler is about to send is closed in the same way (each
  bound port in `info` or in an update comes with its chassis), also once it is
  late, and that a delete names a chassis only together with the port. A delete
  that stops half way is safe because ports go before chassis.
* `OwnPortAlwaysKept`: `[]OwnPortKept` under the same assumption. `OwnInv` adds
  that a message to be applied to a VM holds the VM's own port and switch, and
  that no delete addressed to a VM names them: the detached network is left out
  of what its own VMs are told to delete. The same is kept of the messages in
  `late`, which outlive the handler that made them.

**The log agent against the past of the tables** (`LogAgentHistory`, `RoutesSpec`
and `Spec`)

* `OnlyRoutesThatWere`: `RoutesSpec => []OnlyRoutedNeighbours`, with no assumption:
  several ports on a VM, workers that die and late messages included. `RouteInv`
  says of every handler that any two networks it has read or will read were on
  the router together, are the same, or are a pair in `mixed`; and that between
  its two router queries its own network is on the router or torn. That is what
  the second query needs: all it reads is on the router at one moment (`legs \in
  met`), and its own network is either among it, or torn and then a mixed pair
  with each (`Mixed \subseteq mixed`). What a handler holds or has given up on
  follows the same rule. `RoutesSpec` implies `Spec`, whose type invariant it uses.
* `VersionsNeverFall`: `VersionsMonotone` with one worker that does not die, for
  any limit of useless sockets. `VersionInv` is a chain of comparisons: what a
  VM *that can be sent to* holds is not newer than the tables (`Behind`); what
  the handler has read lies between the two (`FreshJob`); a VM with a late
  message has only that one and a useless socket, and the message does not take
  it back (`LateInv`), since nothing newer can be sent past it. `TxInv` is
  needed for the tables themselves: two open transactions on one port, or a
  second creation, would take its version back. Where `FreshJob` fails - a second
  worker, or a restarted one with new sockets - so does the property.

**The log agent when all is handled** (`LogAgentSerial`, `SerialSpec`)

* `RulesReachTheirVms`: `[]SecurityGroupsCurrent` if a VM holds one port and
  `NothingFails`: no socket becomes useless, no worker dies and, with L2
  population, the agents table names every host that is looked for. Each of
  these is necessary: `BulkLost`, `WorkerDies` and an unnamed host end a handler
  before it has sent. `RulesInv` says that the rules a VM needs are there or
  *due* (`Due`): the request that changed them is committed and not yet handled,
  or its handler still has them to send, with the content that is committed now.
  `OneAtATime` gives that nothing changes under the handler.
* `NeighboursReachVms`: `[]Complete` under the same assumptions. `ReadInv` says
  exactly what a handler has read: since nothing changes under it, the ports in
  `snap` are the committed ones of its own and the router's networks, no more and
  no less. `CompleteInv` says that each VM holds the ports its own port can reach
  (`Knows`) and the router between them (`Routes`), or that this is *due* from the
  committed request or from its handler (`Untold`), and that what a handler sends
  is so (`TellsJob`): an update repeats the committed tables (`Honest`), an apply
  holds all its port can reach, and a delete names nothing the VM it goes to
  still needs (`Spared`), which is where a VM with one port matters: an address
  of the detached network and one that is still routed are never the same chassis.
* `DetachesIsolate`: `[]Isolated` if also no port is created or deleted and the
  router is not disabled (`PortsStay`); TLC refutes `Isolated` with any one of the
  three kinds of request. The BSD driver stops a delete at the first key it does
  not hold, so a VM must hold *all* that a delete names: `IsolatedInv` says that
  the VM of a port holds exactly the ports, bound or not, which that port reaches,
  up to what the committed request or its handler has still to bring (`Filled`),
  to replace or to remove (`Clean`), and that what is still to be removed is there
  with its chassis and switches (`Removable`), so that `DeleteDb` takes its last
  branch.

**Provider ports** (`ProviderPortProofs`)

* `ProviderInv == TypeOK /\ Exclusive /\ Awaited` is inductive. `Exclusive`
  needs `Awaited`, because an answer moves on the request it names and must not
  let another one into the locked part; `Awaited` needs that a queue holds one
  list per request, so that what is left after an answer is of others. It gives
  `ProviderTypes`, `TransactionsExclusive`, `AnswersAwaited`, and with them
  `AddressNeverMoves: Spec => AddressStable`.
* `PortsAlwaysPlugged`: `PerVmSpec => []AllPortsPlugged` if VMs do not fail
  (`~Faulty`). `PlugInv` adds that requests under way are on different VMs
  (`Alone`), that a list which waits at a VM names all the ports of its rows and
  the new one (`Current`, `Listed`), and that a row's port is plugged *at all
  times* (`RowsPlugged`): a row is inserted only after its VM answered, so the
  condition that nobody is running is not even needed.

**The transports** (`BambukRpcProofs`, `ZmqRpcProofs`, `AsyncTcpProofs`)

* `ZmqTypeCorrect`, `ZmqCutForGood` and `ZmqRefinesRpc` rest on `ZmqInv`: a task
  waits exactly while it holds the lock of its sender (`LockInv`); an attempt
  that raised leaves a socket without holder that expects an answer (`TryInv`); a
  sender has one message under way at most, to the VM, in it or back (`WireInv`),
  which is of the task that waits or of one that was told of a failure (`RunInv`);
  and while it is on its way nothing that raised on this socket has been run
  (`LastInv`).
* `TcpTypeCorrect`, `TcpOnlyErrorsRepeat` and `TcpRefinesRpc` rest on `TcpInv`:
  only the current attempt of a task has an open connection, earlier ones were
  refused or lost to an error (`ConnInv`), and a task was run as many times as it
  has attempts whose message the VM read to the end (`CountInv`). That gives both
  the bound on the runs, by the cardinality of those sets, and that a whole
  answer is of a message that was run.
* The refinements are step simulations: `Init => R!Init`, and under the invariant
  every step is a step of `Rpc` or leaves `Call` and `ran` alone.

**The agent's database** (`AgentDbProofs`)

* `DbTypeCorrect`, `DbCopiesAgree` and `DbRefinesStore` rest on `DbInv`:
  documents under a key are equal in memory and in the files (`SameInv`); inside
  the loop the agent sees the new value of the entries it has come past and the
  old one of the others, while a file holds either (`LoopInv`); `clear_all` only
  removes (`ClearInv`); and between operations files differ from memory only by
  entries that were removed (`LooseInv`). AgentStore sees the whole operation at
  once, when it returns, fails or is cut off by a crash; until then it is shown
  `before`. What a crash leaves of a cache is the hard case (`CrashStore`).

*Assumptions.* `TopologyAssumption`, `ApiAssumption`, `AgentAssumption`,
`ProviderAssumption`, `RpcAssumption`, `ZmqAssumption`, `TcpAssumption`,
and `DbAssumption` (types of the constants; a warm system has a distributed
router), and, only where stated above, `OnePortPerVm`, `OneWorker`, `~Crashes`,
`~Faulty`, `NothingFails` and `PortsStay`. Finiteness of ports, VMs, workers, threads, clients
and entries is not assumed. Each assumption that is not a type is met by a
passing run that checks the same property.

*Only model-checked.* The liveness properties `LogsDrain`, `CallsEnd` and
`RequestsEnd`: fairness and `ENABLED` are outside the prover. Every invariant,
action property and refinement that a passing run checks is a theorem.

## 5. Not modelled

* The election of the process that receives for a VM (`initialize` and
  `_already_started` of the drivers): it depends on what `lsof` lists and on
  which of two processes binds first.
* A second process, the Dragonflow controller, that reads the database files
  while the agent removes them; its code is not in the repository.
* A JSON or Berkeley DB file cut off in the middle of a write, full disks and
  other I/O errors.
* The limit of 600 greenthreads of a bulk's pool: a bulk that large waits for its
  own sends, each of which has a time limit.
* In ZmqRpc the death of a log agent process: its senders go with it, and what
  was sent can still be executed; LogAgent has it (`WorkerDies`, `late`).
* In AsyncTcp what asyncore keeps of a socket whose connect raised at once.
* The zone column of the type driver, BambukL2Pop (it logs and returns), the
  shell commands of the startup process, configuration, client, migrations and
  deployment scripts: no control of their own, or pure I/O.

## 6. Plan

1. `Complete` and `Isolated` when sends fail: of the VMs no worker has been cut
   off from, with the invariants of `LogAgentSerial` restricted to them.
2. The log agent's sends as calls of `Rpc`: what `GivesUp` and `late` allow is
   what `ZmqRpc` was shown to implement.
