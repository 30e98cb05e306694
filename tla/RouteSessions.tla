--------------------------- MODULE RouteSessions ---------------------------
(***************************************************************************)
(* A controller's route sessions: which flows it installed for which path, *)
(* so that it can delete and re-route them when a link of the path fails.  *)
(*                                                                         *)
(*   controller.py     _record_route_session, flow tracking, FlowRemoved,  *)
(*                     add_link / delete_link, _reroute_session            *)
(*   packetin_ip.py    the local route of a packet-in                      *)
(*                                                                         *)
(* Event handlers run one after the other in the event loop; the receive   *)
(* greenlet handles a path of the server beside them and gives way to them *)
(* while it waits for barriers.  Switches apply flow-mods in order and     *)
(* report the flows they remove later, as FlowRemoved events.              *)
(***************************************************************************)
EXTENDS Integers, Sequences, FiniteSets

CONSTANTS
    Switches,       \* local switches
    Keys,           \* session keys: src_ip, dst_ip, task, policy, L4 ports
    LocalKeys,      \* those whose two hosts are both local
    Routes,         \* Routes[k]: the paths k may get, of local and other switches
    Links,          \* directed links <<u, v>> between local switches
    L2,             \* "key" of flows that belong to no session
    AccessSwitches, \* switches where traffic for such flows arrives
    ForeignSids,    \* session ids of other controllers, on paths they asked for
    MaxSessions,    \* sessions kept (500)
    MaxEvents,      \* bound: link failures, flows that time out, flows of no session
    MaxServerPaths  \* bound: paths received from the server

\* Paths are shortest paths, or walks that visit no switch twice; those between
\* two hosts of one switch do not become sessions.
SimplePath(p) ==
    /\ Len(p) \in Nat \ {0}
    /\ \A i, j \in 1..Len(p) : p[i] = p[j] => i = j

ASSUME ConstantsAssumption ==
    /\ LocalKeys \subseteq Keys
    /\ AccessSwitches \subseteq Switches
    /\ "src" \notin Switches /\ "dst" \notin Switches    \* the two hosts of a path
    /\ Links \subseteq Switches \X Switches
    /\ \A k \in Keys : \A p \in Routes[k] : SimplePath(p)
    /\ \A k \in LocalKeys : \A p \in Routes[k] : Len(p) >= 2
    /\ L2 \notin Keys
    /\ ForeignSids \subseteq Nat \ {0}
    /\ MaxSessions \in Nat \ {0}
    /\ MaxEvents \in Nat /\ MaxServerPaths \in Nat

VARIABLES
    graph,              \* links of self.graph and topo_inter_link
    table,              \* flows in the switches
    notices,            \* match |-> FlowRemoved events not yet handled
    route_sessions,     \* sid |-> session
    next_sid,           \* _next_route_session_id
    hints,              \* key |-> sid, _route_session_sid_hints
    tracking,           \* _active_flow_tracking: {} for None, {S} for the list S
    asked,              \* <<key, session_id>> of open path requests (0: none)
    install,            \* the server path that waits for barriers, as a set
    \* history
    disturbed,          \* the event loop acted while install was waiting
    events, serverPaths

histVars == <<disturbed, events, serverPaths>>
vars == <<graph, table, notices, route_sessions, next_sid, hints, tracking,
          asked, install, histVars>>

\* A match: switch, addresses and in_port (by what lies behind it).  A flow adds
\* the output, and a new flow replaces one of the same match.
Match(f) == [sw |-> f.sw, key |-> f.key, dir |-> f.dir, from |-> f.from]
Matches(fs) == {Match(f) : f \in fs}

FlowsAt(k, p, i) ==
    LET prev == IF i = 1 THEN "src" ELSE p[i - 1]
        next == IF i = Len(p) THEN "dst" ELSE p[i + 1]
    IN  {[sw |-> p[i], key |-> k, dir |-> "fwd", from |-> prev, to |-> next],
         [sw |-> p[i], key |-> k, dir |-> "rev", from |-> next, to |-> prev]}

\* _process_path: flows at every local switch.
AllFlows(k, p) == UNION {FlowsAt(k, p, i) : i \in {j \in 1..Len(p) : p[j] \in Switches}}

\* install_flow_entry: flows at the first and the last switch only, and at the
\* last one only if it knows the port back.  Without that port a path of two
\* switches gets a single flow.
EndFlows(k, p, g) ==
    LET n     == Len(p)
        first == FlowsAt(k, p, 1)
    IN  IF <<p[n], p[n - 1]>> \in g THEN first \cup FlowsAt(k, p, n)
        ELSE IF n = 2 THEN {f \in first : f.dir = "fwd"}
        ELSE first

OtherFlow(w) == [sw |-> w, key |-> L2, dir |-> "fwd", from |-> "src", to |-> "dst"]

AllMatches == Matches((UNION {UNION {AllFlows(k, p) : p \in Routes[k]} : k \in Keys})
                        \cup {OtherFlow(w) : w \in AccessSwitches})

InstalledBeside(t, fs) == t \cup fs                  \* mutant of Installed
Installed(t, fs) == {f \in t : Match(f) \notin Matches(fs)} \cup fs

HopsOf(p) == {<<p[i], p[i + 1]>> : i \in 1..(Len(p) - 1)}

UsesReversed(p, u, v) == <<v, u>> \in HopsOf(p)      \* mutant of Uses
\* 'links' of a session has no direction.
Uses(p, u, v) == <<u, v>> \in HopsOf(p) \/ <<v, u>> \in HopsOf(p)

\* get_path: a shortest path, if any.
Shortest(k, g) ==
    LET live == {p \in Routes[k] : HopsOf(p) \subseteq g}
    IN  {p \in live : \A q \in live : Len(p) <= Len(q)}

Session(k, p, ms, d) == [key |-> k, path |-> p, flows |-> ms, disturbed |-> d]

\* Session ids that this controller has not given out may be foreign.
Sids == (1..(next_sid - 1)) \cup ForeignSids

OnePerMatch(fs) == \A f, g \in fs : Match(f) = Match(g) => f = g

FlowsTyped ==
    /\ graph \subseteq Links
    /\ Matches(table) \subseteq AllMatches /\ OnePerMatch(table)
    /\ notices \in [AllMatches -> 0..MaxEvents]

SessionsTyped ==
    /\ next_sid \in Nat \ {0}
    /\ DOMAIN route_sessions \subseteq Sids
    /\ \A s \in DOMAIN route_sessions :
         /\ route_sessions[s].key \in Keys
         /\ route_sessions[s].path \in Routes[route_sessions[s].key]
         /\ route_sessions[s].flows \subseteq AllMatches
         /\ route_sessions[s].disturbed \in BOOLEAN
    /\ DOMAIN hints \subseteq Keys
    /\ \A k \in DOMAIN hints : hints[k] \in Sids

InstallTyped ==
    /\ UNION tracking \subseteq AllMatches /\ \A S, T \in tracking : S = T
    /\ asked \subseteq (Keys \ LocalKeys) \X (Sids \cup {0})
    /\ \A i \in install : /\ i.key \in Keys \ LocalKeys
                          /\ i.path \in Routes[i.key]
                          /\ i.sid \in Sids \cup {0}
    /\ \A i, j \in install : i = j
    /\ disturbed \in BOOLEAN

TypeOK == FlowsTyped /\ SessionsTyped /\ InstallTyped

Init ==
    /\ graph = Links
    /\ table = {}
    /\ notices = [m \in AllMatches |-> 0]
    /\ route_sessions = [s \in {} |-> {}]
    /\ next_sid = 1
    /\ hints = [k \in {} |-> 0]
    /\ tracking = {}
    /\ asked = {}
    /\ install = {}
    /\ disturbed = FALSE
    /\ events = 0 /\ serverPaths = 0

-----------------------------------------------------------------------------
(* _record_route_session *)

SidsOf(k) == {s \in DOMAIN route_sessions : route_sessions[s].key = k}

SidForUnused(k, preferred) ==                        \* mutant of SidFor
    IF SidsOf(k) # {} THEN CHOOSE s \in SidsOf(k) : TRUE
    ELSE IF preferred # 0 THEN preferred
    ELSE IF k \in DOMAIN hints THEN hints[k]
    ELSE Cardinality(DOMAIN route_sessions) + 1
SidForAnew(k, preferred) ==                          \* mutant of SidFor
    IF preferred # 0 THEN preferred
    ELSE IF k \in DOMAIN hints THEN hints[k]
    ELSE next_sid
\* The session of the key, the preferred sid, a hint left by a link failure, or
\* a new one, in this order.
SidFor(k, preferred) ==
    IF SidsOf(k) # {} THEN CHOOSE s \in SidsOf(k) : TRUE
    ELSE IF preferred # 0 THEN preferred
    ELSE IF k \in DOMAIN hints THEN hints[k]
    ELSE next_sid

\* With more than MaxSessions the one of smallest sid goes; its flows stay.
Kept(sids) ==
    IF Cardinality(sids) > MaxSessions
    THEN sids \ {CHOOSE s \in sids : \A r \in sids : s <= r}
    ELSE sids

Record(k, p, ms, preferred, d) ==
    IF ms = {} \/ HopsOf(p) = {}
    THEN UNCHANGED <<route_sessions, next_sid, hints>>
    ELSE LET sid == SidFor(k, preferred) IN
         /\ route_sessions' =
              [s \in Kept(DOMAIN route_sessions \cup {sid}) |->
                 IF s = sid THEN Session(k, p, ms, d) ELSE route_sessions[s]]
         /\ next_sid' = IF SidsOf(k) = {} /\ preferred = 0 /\ k \notin DOMAIN hints
                        THEN next_sid + 1 ELSE next_sid
         /\ hints' = IF SidsOf(k) = {} /\ preferred = 0
                     THEN [j \in DOMAIN hints \ {k} |-> hints[j]]
                     ELSE hints

\* The event loop acts while the receive greenlet waits for barriers.
Disturb == disturbed' = (disturbed \/ install # {})

-----------------------------------------------------------------------------
(* Event loop *)

\* Packet-in between two local hosts: begin tracking, install, end, record.
\* With no path the "direct" one is tried, which installs nothing.
LocalRoute(k) ==
    /\ k \in LocalKeys
    /\ IF Shortest(k, graph) = {}
       THEN UNCHANGED <<table, route_sessions, next_sid, hints>>
       ELSE \E p \in Shortest(k, graph) :
              LET fs == EndFlows(k, p, graph) IN
              /\ table' = Installed(table, fs)
              /\ Record(k, p, Matches(fs), 0, FALSE)
    /\ tracking' = {}
    /\ Disturb
    /\ UNCHANGED <<graph, notices, asked, install, events, serverPaths>>

\* Packet-in for a host of another controller: ask the server.
RemoteRoute(k) ==
    /\ k \in Keys \ LocalKeys
    /\ <<k, 0>> \notin asked
    /\ asked' = asked \cup {<<k, 0>>}
    /\ UNCHANGED <<graph, table, notices, route_sessions, next_sid, hints, tracking,
                   install, histVars>>

\* Packet-in at switch w: the L2 learning switch adds flows, or the two hosts
\* hang at w and get flows, with no tracking of their own.
OtherRoute(w) ==
    /\ OtherFlow(w) \notin table
    /\ events < MaxEvents /\ events' = events + 1
    /\ table' = Installed(table, {OtherFlow(w)})
    /\ tracking' = {S \cup {Match(OtherFlow(w))} : S \in tracking}
    /\ Disturb
    /\ UNCHANGED <<graph, notices, route_sessions, next_sid, hints, asked, install,
                   serverPaths>>

HasFlowNot(s, m) == FALSE                            \* mutant of HasFlow
HasFlow(s, m) == m \in route_sessions[s].flows

\* EventOFPFlowRemoved: every session with that flow goes, with no look at its
\* other flows or at whether the flow was installed anew.
FlowRemoved(m) ==
    /\ notices[m] > 0
    /\ notices' = [notices EXCEPT ![m] = @ - 1]
    /\ route_sessions' =
         [s \in {r \in DOMAIN route_sessions : ~HasFlow(r, m)} |-> route_sessions[s]]
    /\ UNCHANGED <<graph, table, next_sid, hints, tracking, asked, install, histVars>>

LinkAdd(u, v) ==
    /\ <<u, v>> \in Links \ graph
    /\ graph' = graph \cup {<<u, v>>}
    /\ UNCHANGED <<table, notices, route_sessions, next_sid, hints, tracking, asked,
                   install, histVars>>

\* _invalidate_sessions_on_link_failure and _reroute_session, for the sessions
\* 'hit' by the failure: they lose their flows and go, each leaving its sid as
\* a hint.  'new' gives those between local hosts that still have a path their
\* new one, recorded under the old sid.  For other keys the server is asked,
\* with the sid.
Reroute(hit, new) ==
    LET key(s)   == route_sessions[s].key
        local    == {s \in hit : key(s) \in LocalKeys}
        dead     == {f \in table : \E s \in hit : HasFlow(s, Match(f))}
        flows(s) == EndFlows(key(s), new[s], graph')
    IN
    /\ table' = Installed(table \ dead, UNION {flows(s) : s \in DOMAIN new})
    /\ notices' = [m \in AllMatches |-> notices[m] + IF m \in Matches(dead) THEN 1 ELSE 0]
    /\ route_sessions' =
         [s \in (DOMAIN route_sessions \ hit) \cup DOMAIN new |->
            IF s \in DOMAIN new THEN Session(key(s), new[s], Matches(flows(s)), FALSE)
            ELSE route_sessions[s]]
    /\ hints' = [k \in DOMAIN hints \cup {key(s) : s \in hit} |->
                   IF \E s \in hit : key(s) = k
                   THEN CHOOSE s \in hit : key(s) = k
                   ELSE hints[k]]
    /\ asked' = asked \cup {<<key(s), s>> : s \in hit \ local}
    /\ tracking' = IF local = {} THEN tracking ELSE {}
    /\ IF hit = {} THEN UNCHANGED disturbed ELSE Disturb

\* EventLinkDelete, of one direction.
LinkDelete(u, v) ==
    /\ <<u, v>> \in graph
    /\ events < MaxEvents
    /\ events' = events + 1
    /\ graph' = graph \ {<<u, v>>}
    /\ LET hit      == {s \in DOMAIN route_sessions : Uses(route_sessions[s].path, u, v)}
           routable == {s \in hit : /\ route_sessions[s].key \in LocalKeys
                                    /\ Shortest(route_sessions[s].key, graph') # {}}
       IN  \E new \in [routable -> UNION {Routes[k] : k \in LocalKeys}] :
             /\ \A s \in routable : new[s] \in Shortest(route_sessions[s].key, graph')
             /\ Reroute(hit, new)
    /\ UNCHANGED <<next_sid, install, serverPaths>>

-----------------------------------------------------------------------------
(* Receive greenlet *)

\* Paths the server may send: answers to our requests, and paths that others
\* asked for, with or without their session id.
Incoming == asked \cup ((Keys \ LocalKeys) \X (IF ForeignSids = {} THEN {}
                                              ELSE ForeignSids \cup {0}))

\* _handle_server_msg with a path: begin tracking, send the flow-mods, and wait
\* for the barriers.  The path may be out of date.
ServerPath ==
    /\ install = {}
    /\ serverPaths < MaxServerPaths
    /\ serverPaths' = serverPaths + 1
    /\ \E r \in Incoming : \E p \in Routes[r[1]] :
         /\ asked' = asked \ {r}
         /\ install' = {[key |-> r[1], path |-> p, sid |-> r[2]]}
         /\ table' = Installed(table, AllFlows(r[1], p))
         /\ tracking' = {Matches(AllFlows(r[1], p))}
    /\ disturbed' = FALSE
    /\ UNCHANGED <<graph, notices, route_sessions, next_sid, hints, events>>

\* Whatever is tracked by now, or nothing, becomes the session.
ServerPathDone ==
    /\ \E i \in install : Record(i.key, i.path, UNION tracking, i.sid, disturbed)
    /\ install' = {}
    /\ tracking' = {}
    /\ UNCHANGED <<graph, table, notices, asked, histVars>>

-----------------------------------------------------------------------------
(* Switches *)

\* Idle or hard time-out, or a deletion from outside.  Timeouts of a flow being
\* installed are far longer (120 s) than the barrier wait (0.5 s).
Expire(f) ==
    /\ events < MaxEvents
    /\ \A i \in install : f.key # i.key
    /\ events' = events + 1
    /\ table' = table \ {f}
    /\ notices' = [notices EXCEPT ![Match(f)] = @ + 1]
    /\ UNCHANGED <<graph, route_sessions, next_sid, hints, tracking, asked, install,
                   disturbed, serverPaths>>

-----------------------------------------------------------------------------
Next ==
    \/ \E k \in Keys : LocalRoute(k) \/ RemoteRoute(k)
    \/ \E w \in AccessSwitches : OtherRoute(w)
    \/ \E m \in AllMatches : FlowRemoved(m)
    \/ \E f \in table : Expire(f)
    \/ \E u, v \in Switches : LinkAdd(u, v) \/ LinkDelete(u, v)
    \/ ServerPath
    \/ ServerPathDone

Spec == Init /\ [][Next]_vars
-----------------------------------------------------------------------------
(* Properties *)

\* At most one session has a given key, whatever the order of packet-ins, late
\* FlowRemoved events, link failures and the server's answers to old requests
\* (_find_existing_session_id, preferred_sid and the sid hints).
OneSessionPerKey ==
    \A r, s \in DOMAIN route_sessions :
        route_sessions[r].key = route_sessions[s].key => r = s

\* The server and the web interface follow a session by its sid: wherever a sid
\* of this controller survives its session (a hint, a request, a path being
\* installed), it never comes back as the sid of another key.  A path that another
\* controller asked for carries that one's session id, which may be a sid of this
\* controller too: of those nothing is said.
Claims ==   \* <<key, sid>> pairs the controller may still use
    {<<route_sessions[s].key, s>> : s \in DOMAIN route_sessions}
        \cup {<<k, hints[k]>> : k \in DOMAIN hints}
        \cup {r \in asked : r[2] # 0}
        \cup {<<i.key, i.sid>> : i \in {j \in install : j.sid # 0}}

SidKeepsKey ==
    \A c, d \in Claims : c[2] = d[2] /\ c[2] \notin ForeignSids => c[1] = d[1]

\* A local session's path runs over links that are up: no link failure passes it
\* by (_invalidate_sessions_on_link_failure), and no re-route brings it back.
LocalPathsUp ==
    \A s \in DOMAIN route_sessions :
        LET x == route_sessions[s] IN
        x.key \in LocalKeys => HopsOf(x.path) \subseteq graph

\* Unless the event loop acted during its barrier wait, a session holds flows of
\* its own path only, and each is in its switch or reported as removed.
TrackedFlowsReal ==
    \A s \in DOMAIN route_sessions :
        LET x == route_sessions[s] IN
        ~x.disturbed => \A m \in x.flows :
            /\ m \in Matches(AllFlows(x.key, x.path))
            /\ m \in Matches(table) \/ notices[m] > 0

\* The sessions have their types, and what they track is real.
SessionInv == TypeOK /\ TrackedFlowsReal

\* When a link fails, in either direction, no flow over it that a session holds for its
\* own path survives the handling of the failure, whether the session is re-routed here,
\* asked for again or given up, and whatever path is being installed meanwhile.
FailedLinkSwept ==
    [][\A l \in graph \ graph', s \in DOMAIN route_sessions, f \in table' :
         LET x == route_sessions[s] IN
         HasFlow(s, Match(f)) /\ f \in AllFlows(x.key, x.path) => <<f.sw, f.to>> # l]_vars

\* Stated as the log line of _invalidate_sessions_on_link_failure reports it, and false:
\* the flow entries a failed link affects are deleted.  Those of a path that is not yet
\* recorded, or never is, stay.
FailedLinkCleared ==
    [][\A l \in graph \ graph' : \A f \in table' : <<f.sw, f.to>> # l]_vars

\* What install_flow_entry logs, "multi-switch flow table installation complete":
\* every switch of a local session's path has a flow of it.
InstallComplete ==
    \A s \in DOMAIN route_sessions :
        LET x == route_sessions[s] IN
        x.key \in LocalKeys =>
            \A i \in 1..Len(x.path) : \E m \in x.flows : m.sw = x.path[i]
=============================================================================
