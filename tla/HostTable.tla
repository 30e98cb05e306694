------------------------------ MODULE HostTable ------------------------------
(***************************************************************************)
(* What one controller knows of its switches, of the links on their ports, *)
(* and of the hosts behind the other ports.                                *)
(*                                                                         *)
(*   controller.py           switch and link events, link ports, migration,*)
(*                           timeout of inter-domain links                 *)
(*   packetin_arp.py         host learning                                 *)
(*   packetin_lldp.py        inter-domain ("access") links                 *)
(*   external_host_guard.py  sources behind the external ports             *)
(*                                                                         *)
(* Ryu gives the controller one event at a time, and no handler here yields*)
(* before it has changed its tables, so an action is a whole event.  Links *)
(* are pairs of switches, at most one link from a switch to another.  The  *)
(* L2 tables mac_to_port and arp_table are left out: what is forwarded by  *)
(* them is OtherFlow in RouteSessions.                                     *)
(***************************************************************************)
EXTENDS Integers

CONSTANTS
    Switches,       \* switches, of this controller or of another
    Ports,          \* ports of each
    Hosts,          \* (mac, ip) pairs seen as sources of packets
    Mac,            \* Mac[h]
    External,       \* EXTERNAL_LINK_PORTS, as <<switch, port>>
    Virtual,        \* switches up to VIRTUAL_SWITCH_DPID_MAX
    MaxConnections  \* bound: connections per switch

ASSUME HostConstants ==
    /\ External \subseteq Switches \X Ports
    /\ Virtual \subseteq Switches
    /\ DOMAIN Mac = Hosts
    /\ MaxConnections \in Nat

Pairs == {l \in Switches \X Switches : l[1] # l[2]}

VARIABLES
    connection,             \* s |-> number of its last OpenFlow connection
    dpid_to_switch,         \* s |-> the connection in use, for known switches
    host_to_sw_port,        \* records <<switch, port, host>>
    permanent_link_ports,   \* <<switch, port>>
    topo_inter_link,        \* l |-> port of its first switch, for known links
    topo_access_link,       \* l |-> port, for links to other controllers
    overdue,                \* access links without LLDP for 70 s
    graph,                  \* edges
    external_host_sources,
    lldp_port,              \* history: l |-> port where LLDP last came in
    untold                  \* history: links deleted without link_down

linkVars == <<topo_inter_link, topo_access_link, overdue, graph>>
hostVars == <<host_to_sw_port, permanent_link_ports, external_host_sources>>
history  == <<lldp_port, untold>>
tableVars == <<connection, dpid_to_switch, hostVars, linkVars, history>>

\* A partial function changed, or left undefined, at x.
With(f, x, y) == [z \in DOMAIN f \cup {x} |-> IF z = x THEN y ELSE f[z]]
Without(f, x) == [z \in DOMAIN f \ {x} |-> f[z]]

IsPartial(f, S, T) == DOMAIN f \subseteq S /\ \A x \in DOMAIN f : f[x] \in T

HostTypeOK ==
    /\ connection \in [Switches -> 0..MaxConnections]
    /\ IsPartial(dpid_to_switch, Switches, 1..MaxConnections)
    /\ host_to_sw_port \subseteq Switches \X Ports \X Hosts
    /\ \A r \in host_to_sw_port : r[1] \in DOMAIN dpid_to_switch
    /\ permanent_link_ports \subseteq Switches \X Ports
    /\ IsPartial(topo_inter_link, Pairs, Ports)
    /\ IsPartial(topo_access_link, Pairs, Ports)
    /\ overdue \subseteq DOMAIN topo_access_link
    /\ graph \subseteq Pairs
    /\ external_host_sources \subseteq Hosts
    /\ IsPartial(lldp_port, Pairs, Ports)
    /\ untold \subseteq Pairs

Nothing == [x \in {} |-> 0]

HostInit ==
    /\ connection = [s \in Switches |-> 0]
    /\ dpid_to_switch = Nothing
    /\ host_to_sw_port = {}
    /\ permanent_link_ports = External
    /\ topo_inter_link = Nothing /\ topo_access_link = Nothing
    /\ overdue = {} /\ graph = {}
    /\ external_host_sources = {}
    /\ lldp_port = Nothing /\ untold = {}

-----------------------------------------------------------------------------
(* Helpers *)

PortsOf(table) == {<<l[1], table[l]>> : l \in DOMAIN table}

is_link_port(s, p) ==
    <<s, p>> \in permanent_link_ports \cup PortsOf(topo_inter_link)
                                      \cup PortsOf(topo_access_link)

PurgedNot(ports) == host_to_sw_port                   \* mutant of Purged
\* _purge_host_records_on_link_port
Purged(ports) == {r \in host_to_sw_port : <<r[1], r[2]>> \notin ports}

\* _mark_permanent_link_port
Mark(ports) ==
    /\ permanent_link_ports' = permanent_link_ports \cup ports
    /\ host_to_sw_port' = Purged(ports)

-----------------------------------------------------------------------------
(* Switches *)

\* EventSwitchEnter, or EventSwitchReconnected for a switch already deleted.
Known(s) ==
    /\ dpid_to_switch' = With(dpid_to_switch, s, connection'[s])
    /\ Mark({x \in External : x[1] = s})

Connects(s) ==
    /\ connection[s] < MaxConnections
    /\ connection' = [connection EXCEPT ![s] = @ + 1]
    /\ UNCHANGED <<external_host_sources, linkVars, history>>

SwitchEnter(s) ==
    /\ s \notin DOMAIN dpid_to_switch
    /\ \A l \in DOMAIN topo_inter_link : s \notin {l[1], l[2]}
    /\ Connects(s)
    /\ Known(s)

\* The switch connects again before the old connection was seen to end.
SwitchReconnected(s) ==
    /\ s \in DOMAIN dpid_to_switch
    /\ Connects(s)
    /\ UNCHANGED <<dpid_to_switch, host_to_sw_port, permanent_link_ports>>

LeaveKeepsHosts(s) == host_to_sw_port                 \* mutant of LeaveHosts
LeaveHosts(s) == {r \in host_to_sw_port : r[1] # s}

SwitchLeave(s) ==
    /\ s \in DOMAIN dpid_to_switch
    /\ dpid_to_switch' = Without(dpid_to_switch, s)
    /\ host_to_sw_port' = LeaveHosts(s)
    /\ permanent_link_ports' = {x \in permanent_link_ports : x[1] # s}
    /\ UNCHANGED <<connection, external_host_sources, linkVars, history>>

-----------------------------------------------------------------------------
(* Links between the controller's own switches, found by Ryu *)

Rivals(l) == {l, <<l[2], l[1]>>}

\* add_link.  _remove_access_link_pair takes its edges out of the graph, which
\* may be the edge that has just been added.
LinkAdd(l, p) ==
    LET access == Rivals(l) \cap DOMAIN topo_access_link IN
    /\ l[1] \in DOMAIN dpid_to_switch /\ l[2] \in DOMAIN dpid_to_switch
    /\ l \notin DOMAIN topo_inter_link
    /\ topo_inter_link' = With(topo_inter_link, l, p)
    /\ Mark({<<l[1], p>>})
    /\ topo_access_link' = [a \in DOMAIN topo_access_link \ access |-> topo_access_link[a]]
    /\ overdue' = overdue \ access
    /\ graph' = (graph \cup {l}) \ access
    /\ UNCHANGED <<connection, dpid_to_switch, external_host_sources, history>>

GraphWithoutNot(l) == graph                           \* mutant of GraphWithout
GraphWithout(l) == graph \ {l}

\* delete_link.  Removing an edge that is not there raises, and the rest of the
\* handler, which tells the root server, is skipped.
LinkDelete(l) ==
    /\ l \in DOMAIN topo_inter_link
    /\ topo_inter_link' = Without(topo_inter_link, l)
    /\ graph' = GraphWithout(l)
    /\ untold' = IF l \in graph THEN untold ELSE untold \cup {l}
    /\ UNCHANGED <<connection, dpid_to_switch, hostVars, topo_access_link, overdue,
                   lldp_port>>

-----------------------------------------------------------------------------
(* Links to switches of other controllers, found by LLDP packets *)

\* An LLDP packet of switch src comes in at s.  Those of known switches, and of
\* links that Ryu still has, change nothing.
LldpIn(s, p, src) ==
    LET l == <<s, src>> IN
    /\ s # src
    /\ src \notin DOMAIN dpid_to_switch
    /\ Rivals(l) \cap DOMAIN topo_inter_link = {}
    /\ Mark({<<s, p>>})
    /\ IF l \in DOMAIN topo_access_link
       THEN UNCHANGED <<topo_access_link, graph>>
       ELSE topo_access_link' = With(topo_access_link, l, p) /\ graph' = graph \cup {l}
    /\ overdue' = overdue \ {l}
    /\ lldp_port' = With(lldp_port, l, p)
    /\ UNCHANGED <<connection, dpid_to_switch, external_host_sources, topo_inter_link,
                   untold>>

Silence(l) ==
    /\ l \in DOMAIN topo_access_link
    /\ overdue' = overdue \cup {l}
    /\ UNCHANGED <<connection, dpid_to_switch, hostVars, topo_inter_link,
                   topo_access_link, graph, history>>

\* link_timeout_detection
Timeout(l) ==
    /\ l \in overdue
    /\ topo_access_link' = Without(topo_access_link, l)
    /\ overdue' = overdue \ {l}
    /\ graph' = GraphWithout(l)
    /\ UNCHANGED <<connection, dpid_to_switch, hostVars, topo_inter_link, history>>

-----------------------------------------------------------------------------
(* Packets: handle_switch_packet_in, then handle_host_arp_packet_in *)

\* remember_external_host_source
Remember(h) ==
    /\ external_host_sources' = external_host_sources \cup {h}
    /\ host_to_sw_port' = {r \in host_to_sw_port : r[3] # h \/ r[1] \notin Virtual}

\* A port for external links.  A request for the gateway's address is answered
\* before the source is remembered; no port of this kind learns hosts.
ExternalPacketIn(s, p, h) ==
    /\ <<s, p>> \in External
    /\ Remember(h)
    /\ UNCHANGED <<connection, dpid_to_switch, permanent_link_ports, linkVars, history>>

SkipNever(s, h) == FALSE                              \* mutant of Skip
\* should_skip_external_host_learning
Skip(s, h) == h \in external_host_sources /\ s \in Virtual

MovedNot(s, p, h) == {}                               \* mutant of Moved
\* _check_host_migration: the first other place of the host.
Moved(s, p, h) == {r \in host_to_sw_port : r[3] = h /\ <<r[1], r[2]>> # <<s, p>>}

\* The port's record for the MAC is replaced.
Learned(s, p, h, gone) ==
    {r \in host_to_sw_port \ gone :
        <<r[1], r[2]>> # <<s, p>> \/ Mac[r[3]] # Mac[h]} \cup {<<s, p, h>>}

Learn(s, p, h) ==
    /\ s \in DOMAIN dpid_to_switch
    /\ ~is_link_port(s, p)
    /\ ~Skip(s, h)
    /\ \/ \E gone \in Moved(s, p, h) : host_to_sw_port' = Learned(s, p, h, {gone})
       \/ Moved(s, p, h) = {} /\ host_to_sw_port' = Learned(s, p, h, {})
    /\ UNCHANGED <<connection, dpid_to_switch, permanent_link_ports,
                   external_host_sources, linkVars, history>>

-----------------------------------------------------------------------------
HostNext ==
    \/ \E s \in Switches : SwitchEnter(s) \/ SwitchReconnected(s) \/ SwitchLeave(s)
    \/ \E l \in Pairs :
         \/ LinkDelete(l) \/ Silence(l) \/ Timeout(l)
         \/ \E p \in Ports : LinkAdd(l, p) \/ LldpIn(l[1], p, l[2])
    \/ \E s \in Switches, p \in Ports, h \in Hosts :
         ExternalPacketIn(s, p, h) \/ Learn(s, p, h)

HostSpec == HostInit /\ [][HostNext]_tableVars
-----------------------------------------------------------------------------
(* Properties *)

\* No host is recorded on a port that is known to lead to a switch, in whatever
\* order the ARP packets that pass over the link, the LLDP packets and the
\* events of the switches come.
NoHostOnLinkPort ==
    \A r \in host_to_sw_port : ~is_link_port(r[1], r[2])

\* A host is in one place at a time, and a port has one record for each MAC.
OnePlace ==
    \A r, q \in host_to_sw_port :
        (r[3] = q[3] \/ (<<r[1], r[2]>> = <<q[1], q[2]>> /\ Mac[r[3]] = Mac[q[3]]))
            => r = q

\* A source that was once seen on an external port has no record on a virtual
\* switch, whether it was learned there before or after.
ExternalNotLearned ==
    \A r \in host_to_sw_port : r[3] \in external_host_sources => r[1] \notin Virtual

\* The records of hosts, in whatever order what they follow from is seen.
HostInv == HostTypeOK /\ NoHostOnLinkPort /\ OnePlace /\ ExternalNotLearned

\* Paths are computed over known links only, and no two switches are at once
\* joined by a link of the controller's own and one to another controller: the
\* timeout of the latter can not take the former's edge away.
LinksConsistent ==
    /\ graph \subseteq DOMAIN topo_inter_link \cup DOMAIN topo_access_link
    /\ \A l \in DOMAIN topo_inter_link : Rivals(l) \cap DOMAIN topo_access_link = {}

\* tests/test_controller_flow_lifecycle.py, test_link_delete_notifies_root_
\* before_reroute: a link that is deleted is reported to the root server.
LinkDownTold == untold = {}

\* The message of _switch_reconnected_handle, "reconnected the switch": a known
\* switch is reached over its last connection.
DatapathCurrent ==
    \A s \in DOMAIN dpid_to_switch : dpid_to_switch[s] = connection[s]

\* packetin_lldp.py is for "inter-domain link updates": the port of an access
\* link is the one where its LLDP packets come in.
AccessPortCurrent ==
    \A l \in DOMAIN topo_access_link : topo_access_link[l] = lldp_port[l]
=============================================================================
