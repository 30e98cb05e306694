# TLA+ models of the GART routing suite

The repository is a hierarchical SDN: several Ryu controllers each run a domain
of OpenFlow switches, one root server joins their reports into a global graph and
computes paths across domains, and a path service walks a learned model (GART) hop
by hop to choose them. This directory holds TLA+ models of that code, TLC
configurations that check them, and theorems about them that TLAPS checks.

All paths below are relative to the repository's root.

## 1. Inventory

| Component | Files | State | Operations | Hard behaviour |
|---|---|---|---|---|
| Cross-domain path installation | `packetin_ip.py`, `controller.py` (`_process_path`), `server_message_handlers.py` (`process_message`), `server_agent.py` (targets, acks, sends) | `_path_requested`, `_pending_path_packets`, `pending_path_installs`, `clients`, two byte streams per controller | request, route, fan out, install, barrier, ack, answer, release | two processes and several threads; re-requests; a 2 s wait that two threads can spend on each other; broken connections |
| Route sessions and local routing | `controller.py` 80-512, 1091-1338 | `route_sessions`, `session_flows`, `session_counter`, `_active_flow_tracking`, the switches' flows | record, reroute, expire, evict, local path, server path | greenlets yield in the barrier wait while one tracking list is shared; session ids of several controllers |
| Topology and host learning | `controller.py` 943-1552, `packetin_arp.py`, `packetin_lldp.py`, `external_host_guard.py` | `dpid_to_switch`, `topo_inter_link`, `topo_access_link`, `graph`, `host_to_sw_port`, permanent link ports, external sources | Ryu events, LLDP, ARP, timeouts | events about one link come in any order and from two sources |
| Membership and global graph | `server_agent.py` 91-430, 571-752, `server_message_handlers.py` | `clients`, `client_last_heartbeat`, `topo`, `controller_to_switches`, `host`, `G` | accept, report, heartbeat, expire, clean up, rebuild | one thread per client and a heartbeat thread over tables without locks |
| Route choice | `server_agent.py` 794-1048, `server_path_service.py`, `routing_policy.py` | `link_down_set`, `path_service_sock`, `path_service_lock` | request, fallback, link_down, link_up, expiry | one connection to the service shared by all threads; unlocked reads of the graph |
| GART path service | `gart/path_service.py`, `gart/observation.py` | the walk, `_last_model_confidence` | compute a path, answer | a model may choose anything the mask allows; threads share one service object |
| GART training | `gart/train.py`, `gart/topology_env.py`, `gart/rollout.py`, `gart/ppo.py` | environment, rollout buffer, weights | act, step, learn, save | rollouts that end inside a flow, several agents in one flow, links that vanish |
| Flow tables and manual flows | `server_agent.py` 154-273, `web_api.py`, `controller.py` 478-559, 1596-1674, 1816-1890 | `switch_flow_tables`, `switch_flow_stats`, the switches | add, delete, statistics, removal | web threads race client threads; ids change |
| Web state cache | `web_state_store.py`, `web_api.py` | cached payload, versions | mark dirty, build, read | a build races the change that made it stale |
| Controller-server connection | `controller.py` 1573-1729, `server_agent.py` 315-380, 558-569, `server_message_handlers.py` | socket, receive greenlet, send lock; `clients`, `client_lock` | connect, reconnect, send, receive, heartbeat; accept, read, reply, forward, clean up | an old greenlet meets the new socket; a native lock in an event loop; a lock held while a slow reader's buffer is full |
| Process manager | `start_controllers.py` | processes, pid file | start, stop, restart, monitor | two commands overlap; process ids are reused |
| ARP relay and flooding | `packetin_arp.py`, `hybrid_gateway.py`, `controller_helpers.py`, `external_host_guard.py`, `controller.py` 998-1023, 1523-1552 | `mac_to_port`, `_arp_seen`, shortcut flows | drop, learn, flood, forward, answer for the gateway | floods over rings without a spanning tree; entries that expire under a flood; hosts that ask again or move |
| Measurement | `controller.py` monitor, detector, LLDP delay | counters | poll | arithmetic only |
| GART network and rewards | `gart/model.py`, `gart/rewards.py`, `gart/config.py` | tensors | forward, loss | arithmetic only |
| Web page, scripts, testbed | `web_ui_html.py`, `start_suite.sh`, `testbed/`, `tools/` | - | - | - |

Who talks to whom:

    switches <-- OpenFlow --> controller <-- JSON lines --> root server <-- JSON lines --> path service
                              (greenlets)    heartbeat,     (threads)      path_request    (threads)
                                             topology,         |
                                             path_request,     +-- Flask threads (web API)
                                             acks, paths

A controller runs on one event loop: its greenlets interleave only where they yield
(`hub.sleep`, socket operations, the barrier wait). The server runs native threads: its
threads interleave anywhere.

What makes each part correct, in a sentence: *path installation* forwards no packet
before its path is installed and never waits for ever; *sessions* name one key each and
hold flows that are there; *host learning* never mistakes a link for a host; *membership*
forgets who is gone and nobody else; *route choice* answers each request with a path of
its own that is up; the *walk* of the model ends, simple, at its destination or
for a reason; the *connection* comes back after it broke, with one reader, and carries whole lines to the server;
*ARP* ends every flood and answers every host that keeps asking; *training* never stands where it cannot move and credits a decision with
its own flow only.

## 2. Modules

| Module | Models | Composed of |
|---|---|---|
| `PathInstall` | the request / install / ack / release handshake between controllers and server | - |
| `InstallPromise` | what that handshake promises the requester | implemented by `PathInstall` |
| `RouteSessions` | one controller's sessions, local routing and flows | - |
| `Membership` | the server's threads, tables and graph | - |
| `RouteChoice` | `handle_path_request`, the shared connection, `link_down_set` | - |
| `FlowTables` | one switch's flow table at switch, controller and server | - |
| `WebState` | the cached graph payload and the rebuilds that race it | - |
| `HostTable` | what a controller learns of links and hosts | - |
| `ControllerLink` | the connection between a controller and the server, both ends | - |
| `ArpFlood` | ARP over the switches of a controller, hosts and wires included | - |
| `GartObservation` | the mask of next hops | pure operators |
| `GartPath` | the path service | `GartObservation` |
| `GartTraining` | the training loop | `GartObservation` |

`MC<Module>` instantiates a module for TLC, `<Module>_proofs` holds its theorems. `Gart_proofs` holds those of
`GartPath` and `GartTraining`, which share the lemmas about the mask, and `Tables_proofs` those of `FlowTables` and
`HostTable`, the two halves of what a controller knows, and `ServerState_proofs` those of `Membership` and `WebState`, what
the server's threads share; so that both can be extended, the names of one
specification carry a prefix (`TrainInit`, `HostInit`, `WebInit`), the environment's `path` goes by its other name, `visited`, and
in `WebState` the graph's state `G` is `graph_writes` and a thread's label is `doing`.
Definitions keep the names of the code; an action stands for the code between
two points where another thread or greenlet can come between, as far as that can be seen.

### PathInstall
A *controller* is one connection of a controller process: a process that reconnects
comes from a new port, so it is another member of `Controllers`. Each has a receive
greenlet (`greenlet[c]`: `recv`, `barrier`, `ack`, `release`) and, in the server, a thread
(`thread[c]`: `recv`, `route`, `send`). `up[c]` and `down[c]` are the two directions of its
socket. `asked[k]` is the age of `_path_requested[k]` in the steps the code tells apart
(fresh: packets are queued; stale after 10 s: asked again; expired: swept).
A path is identified as in the code, by requester and `time_ns`. `log[p]` is history:
which controllers were to install, have installed, and whether the wait was settled.
`InstallPromise` keeps of all this what was decided, installed, excused and forwarded; a path that nobody needs
any more, or a controller that installs one twice, is a stutter there.

### RouteSessions
One controller; a flow is switch, key, direction, output and session. The steps are the
pieces between yields: a server path is recorded after its barrier wait, local
routing is one step. Ids that other controllers issued come in as `ForeignSids`. Routes are simple paths
(`nx.shortest_path`, here and in the server, gives no other, nor does the path service's walk: **WalkCorrect**).

### Membership
Each thread of the server is at a label (`recv`, `report`, `pop`, `topo`, `switches`,
`update`, `iterate`, `walk`...) and does between two labels what the code does between two
accesses that another thread can separate. A dictionary that changes size
while it is iterated raises, as in CPython, and ends the rebuild. CPython notices only a changed size, so
`size` and the finite set of clients are what decides whether a rebuild goes on.

### RouteChoice
A path is the set of the switch links it uses. `torn` holds the threads whose fallback
reads the graph while another thread changes it: the outcome is then an exception (an
error response) or a mixture of old and new links. What the service answers is `Search`, the
interface that `GartPath` describes in detail. `downThroughout` and `upThroughout`
are history variables, and so is `blind` in an answer: the request found no link up, and the service fell back to its
topology file (`topo_edges or self._static_topology_edges`). `AnswerSound` leaves such an answer out,
which takes more changes of the links than the run's instance has.

### HostTable
One action per Ryu event, LLDP packet, ARP packet or timeout. Ryu's promises are in the guards:
a switch enters after all the LinkDeletes of its last life.

### FlowTables
One switch, its controller and the server, with the three queues between them. The server's table counts
entries per key, since a manual addition appends an entry even if one is there. A web thread
reads the table (`BeginAdd`, `BeginDelete`), writes the changed copy (`Write`) and sends (`Send`); the
client's thread does the same for a `flow_removed`. `deleted` is history: keys whose deletion was
sent and that nobody adds again.

### WebState
A graph is the number of writes that made it, a payload the graph its walk began with, and whether a
write came in between (`torn`). A rebuild is `ClearGraph`, some `Draw`s, then `Drawn` and
`MarkTopology`, or `Raise`. `settled` and `asked` are history: the graph at the last mark, and at the mark
before a request. After a rebuild that raised there has been no mark, and an entry from before it may be
used until there is one: `CacheFresh` leaves that case out (`unmarked`). That the graph itself
may show a departed link is `Membership`'s subject.

### ControllerLink
The controller's greenlets interleave where they yield: `pc[g]` is `recv` or `sending` while `g` waits for the
socket `at[g]`; a sender is anything that calls `_send_to_server` and is not the receive greenlet. `connector` is
where `_connect_to_server` is: `hub.kill` switches to the hub, so the old greenlet's end and the new one's start are
two steps. `stalled` is the state in which the event loop waits for the native `_send_lock` whose holder it
would have to run. A line is two chunks, so that it can be cut; `Raises` is a socket
of the server whose buffer stays full for its time limit (6 s, `settimeout`). `Woken` is eventlet's: a greenlet that waits for
a descriptor another has closed is woken with an error when the number is used again, or not at
all. `ProcessMessage` chooses what a line asks for: nothing, a reply written without `client_lock`, or an answer with it.
A cable that goes silent without an error, and lines the greenlet holds when its socket is closed, are left out.

### ArpFlood
A frame on `wire` is named by where it will arrive. `PacketIn` is both handlers of a packet-in, in Ryu's order
(the host handler, then the switch handler), `Shortcut` a switch whose flow takes the frame past the
controller. Deduplication entries and shortcut flows both live five seconds, so one queue, `timers`,
holds them in the order they expire. A host asks again when nothing of its last question is on the wire (hosts wait a
second, frames take milliseconds), and an entry expires under frames on the wire only as
a counted event. Copies that are alike at one place count as one. `moved` is history: what a switch has learned of a host
that moved may be wrong for as long as the host is silent, so `LearnedLeadsHome` speaks of the others. That some chain of learned ports
leads from `s` to `t` is said without the chain (`Leads`): no set of switches without `t` holds `s` and all that its learned ports lead to. Buffered packets (`buffer_id`), the IP branch and the capture
mode are left out.

### GartObservation, GartPath, GartTraining
The network is an arbitrary choice among the hops the mask allows: what is
checked holds for every checkpoint. A node may lack an agent.

## 3. Runs

Every run finishes within four minutes on two workers, and passes. What the code, as modelled,
does not keep is in section 6.

| cfg | Shows | Instance |
|---|---|---|
| `PathInstallMutual` | the inductive invariant; an awaited ack is on its way; every request is answered and every answer releases | 2 controllers, each asks for a path through the other, one connection may break |
| `PathInstallRetry` | install before forward, order, newest path last, bounded queue; `PathInstall` implements `InstallPromise` | repeated requests for one key, which become stale and expire |
| `RouteSessions` | one session per key, ids keep their key, live local paths, real flows; a failed link leaves no flow that a session holds for a path over it | ring of 3 switches, a local and two remote keys, 2 sessions kept, a foreign id, 2 server paths, one event (failure, timed-out flow or flow of no session) |
| `Membership` | the dead leave nothing; no link is lost | 2 controllers, one mortal, 2 reports |
| `RouteChoice` | the connection belongs to the lock's holder; sound answers; undisturbed fallback; every request ends | 2 threads, 1 change of the links or the graph with the expiry that follows it, 2 failures of the service |
| `FlowTables` | old statistics revive no flow; a deleted flow stays deleted; the server's table follows the switch | 2 keys, 2 web threads, 2 operations, 1 route or expiry, 1 lost connection |
| `HostTable` | no host on a link port, one place, external hosts, graph | 2 switches, 2 ports, 2 hosts, 2 connections per switch |
| `WebState` | a payload from before or during a rebuild is not used after it; no answer is older than the last rebuild that had ended | 2 client threads, 2 web threads, 3 reports, 2 draws, 1 other mark |
| `ControllerLink` | one receive greenlet, a lock held only while writing; the server parses whole lines; a late greenlet spares an open connection; the link heals; no slow reader keeps the server's lock | 2 sockets, 2 names for receive greenlets, 1 other sender, buffers of 3 chunks, 1 connection refused, reset or given up |
| `ArpFlood` | learned ports lead to a host at rest; floods end; who keeps asking is answered | a triangle and an edge switch, 3 hosts, one outside, a gateway; 2 of: addresses wanted, moves, lost frames, expiries under way |
| `GartPath` | simple walks, valid answers, given up only when stuck, a path if there is one, an answer always | 4 nodes, four topologies, one node without a model, 1 thread |
| `GartTraining` | a next hop always exists, no loop, credit stays in its flow | ring of 3 with a branch, rollouts of 3, 5 interactions |

Why the bounds are enough: each instance is the smallest in which the actors that can
disturb each other all exist. Two controllers are needed for the mutual wait and a third adds
none, since a thread waits for the controllers of one path; two requests per key for
a response that is overtaken; one change of the links between two steps of a request, since a request
reads them once for the service and once for the fallback; two keys and two
operators for an update that is lost; a
ring of three with a branch for a dead end that was visited; a rollout of three for one that
ends inside a flow and one that holds the end of a flow and the start of the next. The
threads of the path service share only the confidence, which no checked property reads:
one thread shows what they do. `RouteSessions` keeps two sessions of three keys, so that it
evicts and "one session per key" still says something; one failure can hit both remote ones. `ControllerLink` needs the old socket and the new one and a buffer
that a line does not fill and two lines do; with two failures its safety properties hold as well (971,000 states), as
does everything with two failures and buffers of two. `ArpFlood` needs a ring, so that copies meet, a switch off the ring, and a
host that can move across it. The
numbers of the code (20 packets, 500 sessions, rollouts of 2048) are constants here.

**Fairness.** `PathInstall!FairSpec`: weak fairness of each controller's greenlet and each server
thread; every wait in them is bounded in the code (0.5 s for barriers, 2 s for acks, 10 s for the
path service). `Membership!FairSpec`, for `SilentRemoved` of section 6: weak fairness of each thread and of the clock. `RouteChoice!FairSpec`: of each thread and of the
service, which answers or whose silence ends at the 10 s limit. `GartPath`: of each connection's
thread, which never waits for another. `FlowTables`: threads, greenlets and the switch go on, the two
loops (1.2 s, 10 s) repeat and a lost connection comes back (`_connect_to_server` tries every 5 s). `ControllerLink`: each greenlet and the connect loop (which sleeps and tries again)
weakly, each server thread strongly, since `client_lock` is free again and again; nothing has to fail, and no greenlet has to be woken for a
socket closed under it. `ArpFlood`: frames arrive, hosts ask again and time passes. None assumes that packets, links or operators do
anything else.

**Deadlock checking** is off where a bound stops the model, or the program may
rest with nothing to do.

**Mutants.** Each property of a passing run has a variant of one definition (named after it, just
before it: a guard dropped, a reset missing, an order swapped) under which it fails.

## 4. Proofs

TLAPS proves the following for all values of the constants that satisfy the named
assumptions (paths with owners, bounds that are numbers, and the like).

* `PathInstall_proofs`: **HandshakeCorrect**, `Spec => []HandshakeInv`. The invariant is inductive: types; what
  each thread's label says of `pending_path_installs`; that a path sent, installed or
  acknowledged is one some thread has begun; that the sets of `log[p]` grow
  in order. **InstallBeforeForwardHolds** follows: a packet is released only in `release`, which follows
  `Install` in the greenlet, and its response was sent only after the wait ended.
  Neither holds by its own: the response in a socket must be tied to the state of
  the thread that sent it. **QueueInvHolds** is inductive with one more fact, that no packet forwarded or queued
  is younger than the last that was punted. **AcksInvHolds** adds that a thread sends a path for the key it
  logged, and that keys in the log never change (path ids are fresh); then each ack moves
  from the targets still to be sent to the channel down, the greenlet and the channel up.
  **NewestPathLastHolds**: a requester's paths get numbers in the order they are decided, a thread sends only the last
  path of its client, and the one stream to each controller keeps that order, with what it installed before what is in flight.
  **PromiseKeptHolds** is the refinement, step by step: each step of the handshake is `Decide`, `Install`, `Excuse`
  or `Move` of `InstallPromise`, or a stutter. It needs that only controllers a path needs are sent it, awaited for it
  or missed, that its requester is not one of them (`Addressed`), and the order of packets of `QueueInv`: a packet
  that leaves the queue has not been forwarded.
* `RouteSessions_proofs`: **OneSessionPerKeyHolds** (every way a session is stored first removes the
  sessions of its key), **LocalPathsUpHolds** (a failure removes or reroutes every local session over
  the link in the same step), **FailedLinkSweptHolds** (a flow of a session's path over the failed link makes the
  session one the failure hits, and a new path has only links that are up), **SidKeepsKeyHolds** (a sid in use
  anywhere was given out before or is foreign, so a new one is nobody's) and **SessionInvHolds**. The last says that what a
  session tracks is real. Its invariant adds that, while nothing disturbs the path that waits for its barriers, its flows are those in the
  shared tracking list and in their switches, and that no notice of a removed flow lacks its event. On a simple path no two
  flows of a session match alike in one switch, so none replaces another.
* `Tables_proofs`, `HostTable`: **HostInvHolds**, with its parts **NoHostOnLinkPortHolds**, **OnePlaceHolds**, **ExternalNotLearnedHolds**, **LinksConsistentHolds**: each
  learning step is preceded by its purge in the same handler; four independent invariants over the type
  invariant. `FlowTables`: **FlowInvHolds** and **DeletionStandsHolds**. The two connections from server to switch are taken as one queue, which a
  relayed message passes through unchanged (`WayMoves`); a deletion or an addition is added last, and what is before it keeps its
  order. A thread that is about to send an addition counts as adding, so a deletion sent meanwhile makes no promise.
* `Gart_proofs`, `GartPath`: **WalkCorrect**, **AnswerValidHolds**, **AnswerRightHolds**, **GivenUpOnlyWhenStuckHolds**. The walk is a simple path
  of its request's edges; its length is bounded by the number of endpoints (a cardinality
  argument), so the limit of `2 * |endpoints|` hops never cuts it; the mask contains every
  unvisited neighbour because its local view has radius at least one.
  `GartTraining`: **TrainingCorrect**, `TrainingInv`: `_update_dynamic_links` gives a node
  without a live link one back, so the mask is never empty. **CreditStaysWithinFlow**: `Credit` is a recursive
  function over the buffer. That a function satisfies its equations is shown by giving one that does (a
  transition's chain: the rest of its flow), and that it is the only one by the first place from the end at which two would
  differ. The rest is an invariant: two transitions in the buffer are of one flow just if none between them ended it.
* `ServerState_proofs`, `WebState`: **WebInvHolds** and **AnswerCurrentHolds**. An entry of the cache that carries the current
  version is the graph as it is, unless a rebuild is under way or has raised since the last mark, and is never older than that mark;
  a reader that builds a payload keeps the version it began with, so a mark in between makes its entry useless.
  `Membership`: **MembershipInvHolds** and **NoLinkLostHolds**. The first follows each label of a cleanup (`EndedAt`) and what the
  heartbeat thread still has to drop in the thread's place. The second: for each report whose links are not in the graph there is a
  thread that will add them, since it has yet to begin its rebuild, or has not passed the report and the size of `topo` is what it
  was; if the size changed, the rebuild raises, but then whoever changed it has yet to begin its own.
* `RouteChoice_proofs`: **ServiceInvHolds**, **AnswerSoundHolds**, **FallbackUndisturbedHolds**. Whoever holds `path_service_lock` owns
  what is on the connection; a failure closes it in the same step, so no late answer is left for the next
  request. What a thread holds (`Holds`) avoids the links that were down all along, and leaves out none that was up.
* `ControllerLink_proofs`: **LinkInvHolds**, **UpLinesWholeHolds**, **ReceiverSparesNewLinkHolds**. The invariant
  has three parts: types; sockets and greenlets (one connected socket at most, the current one; one receive
  greenlet); and streams (a line is begun on a usable connection exactly while a `sendall` is half-way, and its
  greenlet holds `_send_lock`). Each step of a greenlet is one of four kinds: it leaves the streams alone, writes, drops a line or stops.
* `ArpFlood_proofs`: **FloodInvHolds**, for any wiring. Of a host that has not moved: a frame it sent is at its own port or comes from a
  switch that knows the host, and an answer to it is at a switch that knows it (`FramesTrue`); a shortcut is at a switch that knows the
  sender and leads to one that knows the target (`FlowsTrue`), so a copy that takes it past the controller
  is as good as one the controller has seen; a learned port is the host's own or leads to a switch that knows it
  (`PortsTrue`). That is not enough for the chains to end, since switches might know a host only of each other. `WayOut` says they do not:
  in every set of switches that know it, the host's own not among them, one has a learned port out of the set. It holds
  as each switch first learns of one that knew before, and stands in for an induction over the length of a chain.

The assumptions on constants say what the code gives: a finite set of clients (each is an accepted socket), a
heartbeat thread that is no client's, a client thread that is no thread of the web server, simple routes, switches that are not the
names of hosts, links that go both ways, hosts that are at access ports, a gateway that is no host, at least one query.

Only model-checked: liveness under each `FairSpec`, for which TLAPS has no rule without `ENABLED`: `RequestIsAnswered`, `QueueIsReleased`, `RequestEnds`,
`TableSettles`, `RequestAnswered`, `LinkHeals`, `ServerReadsOn`, `FloodsEnd` and `Resolves`.

## 5. Not modelled

* Arithmetic: link weights, delays, tensors, rewards. Where they decide something the
  models leave the choice open.
* Malformed JSON, buffered lines after a close, `stop()` of the server.
* `arp_table`, which is written and never read, and the hint tables of remote hosts.
* The forwarding of IP packets by learned ports, and ARP in the packet capture mode.
* The spelling of matches in a manual flow and in a report, which may differ.
* The process manager: one operator's commands, one after the other, over processes and a pid file.
* The web page, the launchers and the generators.

## 6. Disagreements found

The modules state properties that the code, as modelled, does not have. No run
lists them; naming one as INVARIANT or PROPERTY in the module's cfg, with the
change given here, shows the trace.

| Property | What the code does instead |
|---|---|
| `PathInstall!WaitsForBarriers` | an ack that reports a barrier failure ends the wait like any other |
| `RouteSessions!FailedLinkCleared` | "affected flow tables deleted" (`controller.py` 473): the flows of a server path that still waits for its barriers, and of sessions overwritten or evicted, stay on the dead link |
| `RouteSessions!InstallComplete` (`Routes <- LineRoutes`, `Links <- Line`) | a local path of three or more switches gets flows at its ends only |
| `Membership!GraphMatchesReports` | rebuilds of the graph that overlap keep the links of a controller that has left, until the next rebuild (`server_agent.py` 571, 751) |
| `Membership!SilentRemoved` | the heartbeat thread ends at its first check |
| `Membership!DisconnectedRemoved` | a client can be registered after its own cleanup |
| `RouteChoice!FallbackGiven` (also with `Mode = "drl"`) | a disturbed fallback fails, and mode `drl` gives none |
| `RouteChoice!DynamicTopology` | an empty list of links means the static topology |
| `ControllerLink!NeverStalled` | `_send_lock` is a native lock: a greenlet that asks for it while another waits inside `sendall` stops the controller (`controller.py` 1680) |
| `ControllerLink!NeverWedged` | a receive greenlet woken late closes the socket that the connect loop is connecting, and nothing need wake that loop (`controller.py` 1727) |
| `HostTable!LinkDownTold` | a link known as both kinds loses its edge, and its failure is not reported |
| `HostTable!DatapathCurrent` | a switch that reconnects keeps its old datapath |
| `HostTable!AccessPortCurrent` | the port of a known access link is never written again |
| `GartPath!ConfidenceOwn` (`Threads = {1, 2}`) | a response may carry the confidence of another walk |
| `GartPath!VisitedMasked` | visited nodes are offered at a dead end |
| `GartTraining!CheckpointUsable` | a last rollout of one transition turns the weights into NaN |

In `ControllerLink` lines to a controller may also arrive torn: a reply is written without `client_lock`
(`server_message_handlers.py` 101) while another thread writes with it, and a send that timed out leaves half a line; the controller
drops both as bad JSON. And a *sender*, unlike a receive greenlet, that is woken late closes the connection made since
(`controller.py` 1684).

One more in `FlowTables`: a reply to a statistics request that takes two messages (`PartSize` below the
number of flows) leaves only the second in `switch_flow_stats`, and `TableSettles` fails.

And in `WebState`, without its `~unmarked`, `CacheFresh` fails: a rebuild that has written to the graph and then raises
does not mark it, so a payload read before or during those writes is served until the next mark.

## 7. Plan

Order: (1) `PathInstall`, (2) `RouteSessions`, (3) `Membership`, (4) `RouteChoice`, (5) `HostTable`,
(6) `GartPath`, (7) `GartTraining`, (8) `FlowTables`, (9) `WebState`, (10) `ControllerLink`,
(11) `ArpFlood`. All are done. `ControllerManager` (two overlapping commands of `start_controllers.py`) is
what could follow.

Abstract specifications: `InstallPromise` (done).

Every safety property that the runs check is a theorem. What stays with TLC is liveness.
