------------------------------- MODULE ArpFlood -------------------------------
(***************************************************************************)
(* How ARP crosses the switches of a controller: there is no spanning      *)
(* tree, every switch floods a request once and forwards a reply over the  *)
(* ports it has learned.                                                   *)
(*                                                                         *)
(*   packetin_arp.py         handle_switch_packet_in and the part of       *)
(*                           handle_host_arp_packet_in it depends on       *)
(*   controller.py           _arp_dedup_should_drop, _check_host_migration *)
(*   controller_helpers.py   get_loop_safe_arp_flood_ports                 *)
(*   hybrid_gateway.py, external_host_guard.py                             *)
(*                                                                         *)
(* A request is flooded again only after five seconds, and the shortcut    *)
(* flows that take a frame past the controller live five seconds too: one  *)
(* queue, timers, holds both in the order they expire.                     *)
(*                                                                         *)
(* A frame is where it will arrive next.  Hosts answer at once, and ask    *)
(* again until they are answered.                                          *)
(***************************************************************************)
EXTENDS Integers, Sequences, FiniteSets, SequencesExt

CONSTANTS
    Switches,    \* and the names of the ports that lead to them
    Links,       \* pairs <<s, t>>, both ways
    Access,      \* Access[s]: the other ports of s
    External,    \* those <<s, p>> that lead to the outside, EXTERNAL_LINK_PORTS
    Allowed,     \* targets the outside may ask for, EXTERNAL_ARP_ALLOWED_PREFIXES
    Hosts, Home, \* Home[h]: where h is at first, <<s, p>>
    Gateway,     \* HYBRID_GATEWAY_IP, no host
    Pairs,       \* <<h, d>>: h may want the address of d
    Moves,       \* <<h, s, p>>: h may move there
    None, Broadcast,
    MaxEvents    \* bound: addresses wanted, hosts moved, frames lost, and entries
                 \* that expire while frames are under way

Neighbours(s) == {t \in Switches : <<s, t>> \in Links}
Ports(s)      == Neighbours(s) \cup Access[s]

AllPorts      == UNION {Ports(s) : s \in Switches}
AccessPorts   == {x \in Switches \X AllPorts : x[2] \in Access[x[1]]}
Senders       == Hosts \cup {Gateway}

ASSUME ConstantsAssumption ==
    /\ Links \subseteq Switches \X Switches
    /\ \A l \in Links : <<l[2], l[1]>> \in Links
    /\ \A s \in Switches : Access[s] \cap Switches = {}
    /\ Gateway \notin Hosts /\ Broadcast \notin Senders /\ None \notin AccessPorts
    /\ Home \in [Hosts -> AccessPorts]
    /\ Pairs \subseteq Hosts \X Senders
    /\ \A m \in Moves : m[1] \in Hosts /\ <<m[2], m[3]>> \in AccessPorts
    /\ MaxEvents \in Nat

VARIABLES
    mac_to_port,     \* switch |-> host |-> ports
    host_to_sw_port, \* host |-> the access port it was learned on, or None
    timers,          \* entries of _arp_seen and shortcut flows, oldest first
    wire,            \* frames
    place,           \* host |-> where it is
    moved,           \* history: the hosts that have moved
    wanted,          \* pairs not yet answered
    events

vars == <<mac_to_port, host_to_sw_port, timers, wire, place, moved, wanted, events>>

Frame(s, p, h, d, op) == [at |-> s, in |-> p, src |-> h, dst |-> d, op |-> op]
Frames == {f \in [at : Switches, in : AllPorts, src : Senders, dst : Senders,
                  op : {"request", "reply"}] : f.in \in Ports(f.at)}

Eth(f)     == IF f.op = "request" THEN Broadcast ELSE f.dst
Key(f)     == <<f.at, f.src, f.dst, f.op>>
Seen(key)  == [type |-> "seen", of |-> key]
Flow(s, p, src, eth, out) == [type |-> "flow", of |-> <<s, p, src, eth>>, out |-> out]
Timers ==
    [type : {"seen"}, of : Switches \X Senders \X Senders \X {"request", "reply"}]
    \cup {x \in [type : {"flow"}, of : Switches \X AllPorts \X Senders \X (Senders \cup {Broadcast}),
                 out : AllPorts] : {x.of[2], x.out} \subseteq Ports(x.of[1])}
SameEntry(x, y) == x.type = y.type /\ x.of = y.of

TypeOK ==
    /\ mac_to_port \in [Switches -> [Senders -> SUBSET AllPorts]]
    /\ \A s \in Switches, h \in Senders : mac_to_port[s][h] \subseteq Ports(s)
    /\ host_to_sw_port \in [Hosts -> AccessPorts \cup {None}]
    /\ timers \in Seq(Timers)
    /\ \A i, j \in DOMAIN timers : SameEntry(timers[i], timers[j]) => i = j
    /\ wire \subseteq Frames
    /\ place \in [Hosts -> AccessPorts]
    /\ moved \subseteq Hosts
    /\ wanted \subseteq Pairs
    /\ events \in 0..MaxEvents

Init ==
    /\ mac_to_port = [s \in Switches |-> [h \in Senders |-> {}]]
    /\ host_to_sw_port = [h \in Hosts |-> None]
    /\ timers = <<>> /\ wire = {} /\ place = Home /\ moved = {} /\ wanted = {}
    /\ events = 0

-----------------------------------------------------------------------------
(* Hosts *)

\* A host wants one address after the other.
Want(h, d) ==
    /\ <<h, d>> \in Pairs \ wanted
    /\ \A x \in wanted : x[1] # h
    /\ events < MaxEvents /\ events' = events + 1
    /\ wanted' = wanted \cup {<<h, d>>}
    /\ UNCHANGED <<mac_to_port, host_to_sw_port, timers, wire, place, moved>>

\* The first request or, a second later, the next: of the last one nothing is under way.
Ask(h, d) ==
    /\ <<h, d>> \in wanted
    /\ \A f \in wire : {f.src, f.dst} # {h, d}
    /\ wire' = wire \cup {Frame(place[h][1], place[h][2], h, d, "request")}
    /\ UNCHANGED <<mac_to_port, host_to_sw_port, timers, place, moved, wanted, events>>

Move(h, s, p) ==
    /\ <<h, s, p>> \in Moves /\ place[h] # <<s, p>>
    /\ events < MaxEvents /\ events' = events + 1
    /\ place' = [place EXCEPT ![h] = <<s, p>>] /\ moved' = moved \cup {h}
    /\ UNCHANGED <<mac_to_port, host_to_sw_port, timers, wire, wanted>>

\* The switch s sends a frame out by ports.  The target of a request answers, the
\* asker takes the answer.
Transmit(f, s, ports, src, dst, op) ==
    LET here == dst \in Hosts /\ place[dst][1] = s /\ place[dst][2] \in ports
    IN  /\ wire' = (wire \ {f})
             \cup {Frame(p, s, src, dst, op) : p \in ports \cap Switches}
             \cup (IF here /\ op = "request"
                   THEN {Frame(s, place[dst][2], dst, src, "reply")} ELSE {})
        /\ wanted' = IF here /\ op = "reply" THEN wanted \ {<<dst, src>>} ELSE wanted

\* A switch never sends a frame back by the port it came in by.
Forward(f, outs) == Transmit(f, f.at, outs \ {f.in}, f.src, f.dst, f.op)

-----------------------------------------------------------------------------
(* The switches and the controller *)

ShortcutOf(f) == {i \in DOMAIN timers :
                    timers[i].type = "flow" /\ timers[i].of = <<f.at, f.in, f.src, Eth(f)>>}

\* A flow that matches forwards the frame; the controller does not see it.
Shortcut(f) ==
    /\ f \in wire /\ ShortcutOf(f) # {}
    /\ Forward(f, {timers[i].out : i \in ShortcutOf(f)})
    /\ UNCHANGED <<mac_to_port, host_to_sw_port, timers, place, moved, events>>

\* handle_host_arp_packet_in: a frame on an access port tells where its sender is,
\* and the port it was learned on before is forgotten at that switch.
Inside(f) == f.in \in Access[f.at] /\ <<f.at, f.in>> \notin External

Learned(f) == IF Inside(f) THEN [host_to_sw_port EXCEPT ![f.src] = <<f.at, f.in>>]
              ELSE host_to_sw_port

Purged(f) ==
    LET old == host_to_sw_port[f.src]
    IN  IF Inside(f) /\ old \notin {None, <<f.at, f.in>>}
        THEN [mac_to_port EXCEPT ![old[1]][f.src] = @ \ {old[2]}]
        ELSE mac_to_port

RefusedBySender(f) ==                                \* mutant of Refused
    <<f.at, f.in>> \in External /\ f.src \notin Allowed
\* should_drop_external_arp
Refused(f) == <<f.at, f.in>> \in External /\ f.dst \notin Allowed

\* _arp_dedup_should_drop: a frame that is not dropped is recorded.
Dropped(f) == \E i \in DOMAIN timers : timers[i] = Seen(Key(f))
RecordedNot(f) == timers                             \* mutant of Recorded
Recorded(f) == Append(timers, Seen(Key(f)))

TableEager(f) == [Purged(f) EXCEPT ![f.at][f.src] = {f.in}]  \* mutant of Table
\* mac_to_port when f has been looked at: a frame that is dropped teaches nothing.
Table(f) ==
    IF Refused(f) \/ Dropped(f) THEN Purged(f)
    ELSE [Purged(f) EXCEPT ![f.at][f.src] = @ \cup {f.in}]

\* Every port but the ingress, or those the target was learned on.
FloodPorts(f) == Ports(f.at) \ {f.in}
OutPorts(f) ==
    IF Eth(f) # Broadcast /\ Table(f)[f.at][f.dst] # {} THEN Table(f)[f.at][f.dst]
    ELSE FloodPorts(f)

Without(t, x) ==
    LET old == {i \in DOMAIN t : SameEntry(t[i], x)}
    IN  IF old = {} THEN t ELSE RemoveAt(t, CHOOSE i \in old : TRUE)

\* With one port out, flows for the frame and for the way back.  The one back from
\* a broadcast is left out: no frame comes from that address.  A frame that the
\* controller sees has no flow yet; the one back may be there and is replaced.
WithShortcuts(t, f) ==
    LET out   == CHOOSE p \in OutPorts(f) : TRUE
        there == Flow(f.at, f.in, f.src, Eth(f), out)
        back  == Flow(f.at, out, f.dst, f.src, f.in)
    IN  IF Cardinality(OutPorts(f)) # 1 THEN t
        ELSE IF f.op = "request" THEN Append(t, there)
        ELSE Append(Without(Append(t, there), back), back)

\* is_gateway_arp_request
ForGateway(f) == f.op = "request" /\ f.dst = Gateway

\* The packet-in of f: the host handler, then the switch handler.
PacketIn(f) ==
    /\ f \in wire /\ ShortcutOf(f) = {} /\ ~ForGateway(f)
    /\ host_to_sw_port' = Learned(f)
    /\ mac_to_port' = Table(f)
    /\ IF Refused(f) \/ Dropped(f)
       THEN wire' = wire \ {f} /\ UNCHANGED <<timers, wanted>>
       ELSE /\ timers' = WithShortcuts(Recorded(f), f)
            /\ Forward(f, OutPorts(f))
    /\ UNCHANGED <<place, moved, events>>

\* A request for the gateway is answered by the first switch whose flows do not take
\* it further, to the port it came from.
GatewayPacketIn(f) ==
    /\ f \in wire /\ ShortcutOf(f) = {} /\ ForGateway(f)
    /\ host_to_sw_port' = Learned(f)
    /\ mac_to_port' = Purged(f)
    /\ Transmit(f, f.at, {f.in}, Gateway, f.src, "reply")
    /\ UNCHANGED <<timers, place, moved, events>>

\* Frames of a flood that are past their first switch.
Relayed == {f \in wire : f.in \in Switches}

\* Five seconds are over.  Frames are faster, but for MaxEvents times: then an entry
\* expires under a flood that still has copies under way, or a flow under a reply.
Expire ==
    /\ timers # <<>>
    /\ IF wire = {} THEN UNCHANGED events
       ELSE events < MaxEvents /\ events' = events + 1
    /\ timers' = Tail(timers)
    /\ UNCHANGED <<mac_to_port, host_to_sw_port, wire, place, moved, wanted>>

Lose(f) ==
    /\ f \in wire
    /\ events < MaxEvents /\ events' = events + 1
    /\ wire' = wire \ {f}
    /\ UNCHANGED <<mac_to_port, host_to_sw_port, timers, place, moved, wanted>>

-----------------------------------------------------------------------------

Network(f) == Shortcut(f) \/ PacketIn(f) \/ GatewayPacketIn(f)

Next ==
    \/ \E x \in Pairs : Want(x[1], x[2]) \/ Ask(x[1], x[2])
    \/ \E m \in Moves : Move(m[1], m[2], m[3])
    \/ \E f \in wire : Network(f) \/ Lose(f)
    \/ Expire

Spec == Init /\ [][Next]_vars

\* The frames of every conversation arrive, time passes, and a host asks until it is
\* answered.  Nobody has to want an address or to move, and nothing has to be lost.
FairSpec ==
    /\ Spec
    /\ \A x \in Pairs :
          /\ WF_vars(\E f \in wire : {f.src, f.dst} = {x[1], x[2]} /\ Network(f))
          /\ WF_vars(Ask(x[1], x[2]))
    /\ SF_vars(Expire)

-----------------------------------------------------------------------------
(* Properties *)

\* The ports learned for h lead from s to t: no set of switches without t holds s and
\* whatever they lead to.
Closed(S, h)   == \A s \in S : mac_to_port[s][h] \cap Switches \subseteq S
Leads(s, h, t) == \A S \in SUBSET (Switches \ {t}) : s \in S => ~Closed(S, h)

\* A switch that has learned where a host is leads to it: of the ports learned for a
\* host that has not moved some chain ends at its own port, though every flood comes
\* another way and frames are lost.
LearnedLeadsHome ==
    \A h \in Hosts \ moved, s \in Switches : mac_to_port[s][h] # {} =>
        Leads(s, h, Home[h][1]) /\ Home[h][2] \in mac_to_port[Home[h][1]][h]
FloodInv == TypeOK /\ LearnedLeadsHome

\* No storm: whatever is asked, moved and lost, the switches have in the end passed on
\* or dropped all there is, again and again, and keep nothing in circulation.
FloodsEnd == []<>(Relayed = {})

\* A host that keeps asking is answered, though its request is dropped as already seen
\* for five seconds, wherever it has moved and whatever old shortcuts do.
Resolves ==
    \A x \in Pairs : (x[2] = Gateway \/ Home[x[1]] \notin External \/ x[2] \in Allowed)
                         => (x \in wanted ~> x \notin wanted)
=============================================================================
