----------------------------- MODULE FlowTables -----------------------------
(***************************************************************************)
(* The flow table of one switch as the switch, its controller and the root *)
(* server have it: the operator's manual flows on their way to the switch, *)
(* the statistics and FlowRemoved messages on their way back, and the      *)
(* server's table, which web threads and the client's thread read and      *)
(* write without a lock.                                                   *)
(*                                                                         *)
(*   web_api.py       /api/flows                                           *)
(*   server_agent.py  add_manual_flow, delete_manual_flow,                 *)
(*                    handle_flow_removed, handle_topo_message             *)
(*   controller.py    _handle_manual_flow_mod, _flow_stats_reply_handler,  *)
(*                    _flow_removed_handler, _send_topo_loop, _monitor     *)
(*                                                                         *)
(* A flow is known by its priority and match, its key.  An entry of the    *)
(* server's table has an id as well; since the ids change with each report *)
(* and two may coincide, a deletion may hit any entry.  All flows have     *)
(* priority above 0 and so ask for FlowRemoved.                            *)
(***************************************************************************)
EXTENDS Integers, Sequences, FiniteSets

CONSTANTS
    Keys,        \* (priority, match) pairs
    Web,         \* threads of the web server
    PartSize,    \* flows that fit in one message of a statistics reply
    MaxQueue,    \* bound: messages under way when a periodic loop adds another
    MaxOps,      \* bound: additions and deletions by the operator
    MaxEvents,   \* bound: routes installed and flows expired
    MaxLosses    \* bound: losses of the connections to server and switch

ASSUME ConstantsAssumption ==
    /\ IsFiniteSet(Keys)
    /\ "client" \notin Web
    /\ PartSize \in Nat \ {0}
    /\ MaxQueue \in Nat /\ MaxOps \in Nat /\ MaxEvents \in Nat
    /\ MaxLosses \in Nat

VARIABLES
    \* switch
    flow_table,          \* keys of its flows
    joined,              \* it is in dpid_to_switch
    toSwitch, reports,   \* its connection to the controller
    \* controller
    switch_flow_stats,   \* keys of the last statistics
    is_connected,        \* to the server
    toServer, toController,
    \* server
    managed,             \* the switch is in controller_to_switches
    switch_flow_tables,  \* key |-> entries with that key
    pc, job,             \* of the web threads and the client's thread
    \* history
    polled,              \* statistics have come since the switch joined
    deleted,             \* keys whose deletion was sent, and that no one adds
    ops, events, breaks, leaves

switchVars == <<flow_table, joined, toSwitch, reports>>
netVars    == <<is_connected, toServer, toController>>
serverVars == <<managed, switch_flow_tables, pc, job>>
counts     == <<ops, events, breaks, leaves>>
vars == <<switchVars, switch_flow_stats, netVars, serverVars, polled, deleted, counts>>

Client  == "client"
Threads == Web \cup {Client}

Add(k)     == [op |-> "add", key |-> k]
Delete(k)  == [op |-> "delete", key |-> k]
Poll       == [op |-> "poll"]
Removed(k) == [type |-> "flow_removed", key |-> k]
Stats(S)   == [type |-> "stats", keys |-> S]
Topo(S)    == [type |-> "topo", keys |-> S, here |-> joined]

Mods  == {Add(k) : k \in Keys} \cup {Delete(k) : k \in Keys}
Jobs  == [op : {"add", "delete", "flow_removed"}, key : Keys, copy : [Keys -> Nat], conn : Nat]
NoJob == [op |-> "none"]

TypeOK ==
    /\ flow_table \subseteq Keys /\ switch_flow_stats \subseteq Keys
    /\ joined \in BOOLEAN /\ is_connected \in BOOLEAN /\ managed \in BOOLEAN
    /\ toSwitch \in Seq(Mods \cup {Poll})
    /\ reports \in Seq({Removed(k) : k \in Keys} \cup {Stats(S) : S \in SUBSET Keys})
    /\ toController \in Seq(Mods)
    /\ toServer \in Seq({Removed(k) : k \in Keys}
                        \cup [type : {"topo"}, keys : SUBSET Keys, here : BOOLEAN])
    /\ switch_flow_tables \in [Keys -> Nat]
    /\ pc \in [Threads -> {"idle", "write", "send"}]
    /\ job \in [Threads -> Jobs \cup {NoJob}]
    /\ polled \in BOOLEAN /\ deleted \subseteq Keys

Init ==
    /\ flow_table = {} /\ joined = TRUE /\ toSwitch = <<>> /\ reports = <<>>
    /\ switch_flow_stats = {}
    /\ is_connected = TRUE /\ toServer = <<>> /\ toController = <<>>
    /\ managed = FALSE
    /\ switch_flow_tables = [k \in Keys |-> 0]
    /\ pc = [t \in Threads |-> "idle"] /\ job = [t \in Threads |-> NoJob]
    /\ polled = FALSE /\ deleted = {}
    /\ ops = 0 /\ events = 0 /\ breaks = 0 /\ leaves = 0

-----------------------------------------------------------------------------
(* The web server's threads *)

\* add_manual_flow: without a controller for the switch nothing is done.
BeginAdd(t, k) ==
    /\ pc[t] = "idle"
    /\ ops < MaxOps /\ ops' = ops + 1
    /\ managed
    /\ job' = [job EXCEPT ![t] =
                 [op |-> "add", key |-> k, conn |-> breaks,
                  copy |-> [switch_flow_tables EXCEPT ![k] = @ + 1]]]
    /\ pc' = [pc EXCEPT ![t] = "write"]
    /\ deleted' = deleted \ {k}
    /\ UNCHANGED <<switchVars, switch_flow_stats, netVars, managed, switch_flow_tables,
                   polled, events, breaks, leaves>>

\* delete_manual_flow, of any entry.
BeginDelete(t, k) ==
    /\ pc[t] = "idle"
    /\ ops < MaxOps /\ ops' = ops + 1
    /\ switch_flow_tables[k] > 0
    /\ job' = [job EXCEPT ![t] =
                 [op |-> "delete", key |-> k, conn |-> breaks,
                  copy |-> [switch_flow_tables EXCEPT ![k] = @ - 1]]]
    /\ pc' = [pc EXCEPT ![t] = "write"]
    /\ UNCHANGED <<switchVars, switch_flow_stats, netVars, managed, switch_flow_tables,
                   polled, deleted, events, breaks, leaves>>

\* _set_switch_flow_table stores the table read before, with the change.  If
\* another thread is rebuilding the graph, it may raise after that, and the
\* request ends there.
Write(t) ==
    /\ pc[t] = "write"
    /\ switch_flow_tables' = job[t].copy
    /\ \/ t \in Web /\ pc' = [pc EXCEPT ![t] = "send"] /\ UNCHANGED job
       \/ pc' = [pc EXCEPT ![t] = "idle"] /\ job' = [job EXCEPT ![t] = NoJob]
    /\ UNCHANGED <<switchVars, switch_flow_stats, netVars, managed, polled, deleted, counts>>

\* An addition goes to the connection found at first, a deletion to the one that
\* is found now.  If it has gone, a warning is all that comes of it.
Reaches(j) == is_connected /\ IF j.op = "add" THEN j.conn = breaks ELSE managed

AddedBy(k) == {t \in Web : pc[t] # "idle" /\ job[t].op = "add" /\ job[t].key = k}

Send(t) ==
    LET j == job[t] IN
    /\ t \in Web
    /\ pc[t] = "send"
    /\ IF Reaches(j)
       THEN /\ toController' = Append(toController, [op |-> j.op, key |-> j.key])
            /\ deleted' = IF j.op = "delete" /\ AddedBy(j.key) = {}
                          THEN deleted \cup {j.key} ELSE deleted
       ELSE UNCHANGED <<toController, deleted>>
    /\ pc' = [pc EXCEPT ![t] = "idle"]
    /\ job' = [job EXCEPT ![t] = NoJob]
    /\ UNCHANGED <<switchVars, switch_flow_stats, is_connected, toServer, managed,
                   switch_flow_tables, polled, counts>>

-----------------------------------------------------------------------------
(* The client's thread *)

StoredUnlessEmpty(S) ==                              \* mutant of Stored
    IF S = {} THEN switch_flow_tables ELSE [k \in Keys |-> IF k \in S THEN 1 ELSE 0]
Stored(S) == [k \in Keys |-> IF k \in S THEN 1 ELSE 0]

\* handle_topo_message.  A report from a controller that the switch has left does
\* not name the switch: its table stays.
ReadTopo ==
    /\ pc[Client] = "idle"
    /\ toServer # <<>> /\ Head(toServer).type = "topo"
    /\ toServer' = Tail(toServer)
    /\ managed' = Head(toServer).here
    /\ switch_flow_tables' = IF Head(toServer).here THEN Stored(Head(toServer).keys)
                             ELSE switch_flow_tables
    /\ UNCHANGED <<switchVars, switch_flow_stats, is_connected, toController, pc, job,
                   polled, deleted, counts>>

\* handle_flow_removed, up to the write.
ReadRemoved ==
    /\ pc[Client] = "idle"
    /\ toServer # <<>> /\ Head(toServer).type = "flow_removed"
    /\ toServer' = Tail(toServer)
    /\ LET k == Head(toServer).key IN
       job' = [job EXCEPT ![Client] =
                 [op |-> "flow_removed", key |-> k, conn |-> breaks,
                  copy |-> [switch_flow_tables EXCEPT ![k] = 0]]]
    /\ pc' = [pc EXCEPT ![Client] = "write"]
    /\ UNCHANGED <<switchVars, switch_flow_stats, is_connected, toController, managed,
                   switch_flow_tables, polled, deleted, counts>>

-----------------------------------------------------------------------------
(* The controller *)

RelayedAddsOnly(m) == IF m.op = "add" THEN <<m>> ELSE <<>>  \* mutant of Relayed
\* _handle_manual_flow_mod: a DELETE_STRICT or an ADD for the switch.
Relayed(m) == <<m>>

ReceiveMod ==
    /\ toController # <<>>
    /\ toController' = Tail(toController)
    /\ toSwitch' = IF joined THEN toSwitch \o Relayed(Head(toController)) ELSE toSwitch
    /\ deleted' = IF joined THEN deleted ELSE deleted \ {Head(toController).key}
    /\ UNCHANGED <<flow_table, joined, reports, switch_flow_stats, is_connected, toServer,
                   serverVars, polled, counts>>

\* A route is installed (add_flow).
RouteFlow(k) ==
    /\ joined
    /\ events < MaxEvents /\ events' = events + 1
    /\ toSwitch' = Append(toSwitch, Add(k))
    /\ deleted' = deleted \ {k}
    /\ UNCHANGED <<flow_table, joined, reports, switch_flow_stats, netVars, serverVars,
                   polled, ops, breaks, leaves>>

\* _monitor asks for the statistics every 1.2 s.
AskStats ==
    /\ joined
    /\ Len(toSwitch) + Len(reports) < MaxQueue
    /\ toSwitch' = Append(toSwitch, Poll)
    /\ UNCHANGED <<flow_table, joined, reports, switch_flow_stats, netVars, serverVars,
                   polled, deleted, counts>>

PrunedNot(k) == switch_flow_stats                    \* mutant of Pruned
Pruned(k) == switch_flow_stats \ {k}

\* _flow_stats_reply_handler and _flow_removed_handler
ReceiveReport ==
    /\ reports # <<>>
    /\ reports' = Tail(reports)
    /\ LET m == Head(reports) IN
       \/ /\ m.type = "stats"
          /\ switch_flow_stats' = m.keys
          /\ polled' = TRUE
          /\ UNCHANGED toServer
       \/ /\ m.type = "flow_removed"
          /\ switch_flow_stats' = Pruned(m.key)
          /\ toServer' = IF is_connected THEN Append(toServer, m) ELSE toServer
          /\ UNCHANGED polled
    /\ UNCHANGED <<flow_table, joined, toSwitch, is_connected, toController, serverVars,
                   deleted, counts>>

\* _send_topo_loop, every 10 s: all tables of the switches that are there.
SendTopo ==
    /\ is_connected
    /\ Len(toServer) < MaxQueue
    /\ toServer' = Append(toServer, Topo(IF joined THEN switch_flow_stats ELSE {}))
    /\ UNCHANGED <<switchVars, switch_flow_stats, is_connected, toController, serverVars,
                   polled, deleted, counts>>

-----------------------------------------------------------------------------
(* The switch *)

\* A flow with a key that is there is replaced without a FlowRemoved.
ApplyAdd(k) ==
    /\ toSwitch # <<>> /\ Head(toSwitch) = Add(k)
    /\ toSwitch' = Tail(toSwitch)
    /\ flow_table' = flow_table \cup {k}
    /\ UNCHANGED <<joined, reports, switch_flow_stats, netVars, serverVars, polled, deleted,
                   counts>>

ApplyDelete(k) ==
    /\ toSwitch # <<>> /\ Head(toSwitch) = Delete(k)
    /\ toSwitch' = Tail(toSwitch)
    /\ flow_table' = flow_table \ {k}
    /\ reports' = IF k \in flow_table THEN Append(reports, Removed(k)) ELSE reports
    /\ UNCHANGED <<joined, switch_flow_stats, netVars, serverVars, polled, deleted, counts>>

\* One message of the reply.  Each replaces what the one before told.
ReplyStats ==
    /\ toSwitch # <<>> /\ Head(toSwitch) = Poll
    /\ toSwitch' = Tail(toSwitch)
    /\ \E S \in SUBSET flow_table :
         /\ IF Cardinality(flow_table) <= PartSize THEN S = flow_table
            ELSE Cardinality(S) = PartSize
         /\ reports' = Append(reports, Stats(S))
    /\ UNCHANGED <<flow_table, joined, switch_flow_stats, netVars, serverVars, polled,
                   deleted, counts>>

\* A timeout, or a deletion with its session.
Expire(k) ==
    /\ k \in flow_table
    /\ events < MaxEvents /\ events' = events + 1
    /\ flow_table' = flow_table \ {k}
    /\ reports' = IF joined THEN Append(reports, Removed(k)) ELSE reports
    /\ UNCHANGED <<joined, toSwitch, switch_flow_stats, netVars, serverVars, polled, deleted,
                   ops, breaks, leaves>>

\* What is under way is lost; the flows stay, and so do the last statistics.
Leave ==
    /\ joined
    /\ breaks + leaves < MaxLosses /\ leaves' = leaves + 1
    /\ joined' = FALSE
    /\ toSwitch' = <<>> /\ reports' = <<>>
    /\ polled' = FALSE
    /\ deleted' = {}
    /\ UNCHANGED <<flow_table, switch_flow_stats, netVars, serverVars, ops, events, breaks>>

Join ==
    /\ ~joined
    /\ joined' = TRUE
    /\ UNCHANGED <<flow_table, toSwitch, reports, switch_flow_stats, netVars, serverVars,
                   polled, deleted, counts>>

-----------------------------------------------------------------------------
(* The connection between controller and server *)

\* What is under way is lost, and the server forgets what the controller managed.
Lose ==
    /\ is_connected
    /\ breaks + leaves < MaxLosses /\ breaks' = breaks + 1
    /\ is_connected' = FALSE
    /\ toServer' = <<>> /\ toController' = <<>>
    /\ managed' = FALSE
    /\ deleted' = {}
    /\ UNCHANGED <<switchVars, switch_flow_stats, switch_flow_tables, pc, job, polled, ops,
                   events, leaves>>

Reconnect ==
    /\ ~is_connected
    /\ is_connected' = TRUE
    /\ UNCHANGED <<switchVars, switch_flow_stats, toServer, toController, serverVars, polled,
                   deleted, counts>>

-----------------------------------------------------------------------------
ClientThread == ReadTopo \/ ReadRemoved \/ Write(Client)
WebThread(t) == Write(t) \/ Send(t)
Switch       == ReplyStats \/ \E k \in Keys : ApplyAdd(k) \/ ApplyDelete(k)

Next ==
    \/ \E t \in Web, k \in Keys : BeginAdd(t, k) \/ BeginDelete(t, k)
    \/ \E t \in Web : WebThread(t)
    \/ ClientThread
    \/ ReceiveMod \/ AskStats \/ ReceiveReport \/ SendTopo
    \/ Switch
    \/ \E k \in Keys : RouteFlow(k) \/ Expire(k)
    \/ Leave \/ Join \/ Lose \/ Reconnect

Spec == Init /\ [][Next]_vars

\* Threads and greenlets go on, the two loops repeat, and what is lost is
\* connected again (_connect_to_server tries every 5 s).
FairSpec ==
    /\ Spec
    /\ WF_vars(ClientThread) /\ \A t \in Web : WF_vars(WebThread(t))
    /\ WF_vars(ReceiveMod) /\ WF_vars(AskStats) /\ WF_vars(ReceiveReport)
    /\ WF_vars(SendTopo) /\ WF_vars(Switch) /\ WF_vars(Join) /\ WF_vars(Reconnect)
-----------------------------------------------------------------------------
(* Properties *)

\* A flow is in the controller's statistics only while the switch has it or the
\* notice of its removal is on its way: statistics that were taken before a
\* removal never bring the flow back after it.
StatsFresh ==
    polled => \A k \in switch_flow_stats \ flow_table :
                 \E n \in 1..Len(reports) : reports[n] = Removed(k)

\* The same of statistics still on their way.
ReportsFresh ==
    \A n \in 1..Len(reports) : reports[n].type = "stats" =>
        \A k \in reports[n].keys \ flow_table :
            \E m \in n+1..Len(reports) : reports[m] = Removed(k)

FlowInv == TypeOK /\ StatsFresh /\ ReportsFresh

\* When the operator has deleted a flow, and neither an addition nor a new route
\* puts it back, the switch has dropped it or the deletion is on its way, with no
\* addition behind it, unless a connection broke on the way.
DeletionStands ==
    LET way == toSwitch \o toController IN
    \A k \in deleted :
        /\ k \in flow_table => \E n \in 1..Len(way) : way[n] = Delete(k)
        /\ \A n \in 1..Len(way) : way[n] = Add(k) =>
              \E m \in n+1..Len(way) : way[m] = Delete(k)

\* When operator, routes and connections are quiet, the server's table becomes
\* that of the switch, whatever updates were lost before.
TableSettles ==
    <>[](\A k \in Keys : switch_flow_tables[k] = IF k \in flow_table THEN 1 ELSE 0)
=============================================================================
