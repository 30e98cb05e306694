---------------------------- MODULE ArpFlood_proofs ----------------------------
(***************************************************************************)
(* Proofs about ArpFlood for any switches, links, hosts and bounds: where  *)
(* a host that has not moved was learned, the ports learned lead home.     *)
(***************************************************************************)
EXTENDS ArpFlood, FiniteSetTheorems, SequenceTheorems, TLAPS

Settled     == Hosts \ moved
Knows(s, h) == mac_to_port[s][h] # {}

\* Nobody has seen a settled host but at home.
AtHome == \A h \in Settled : place[h] = Home[h] /\ host_to_sw_port[h] \in {None, Home[h]}

\* A frame of a settled host comes from home or from a switch that knows the host; a
\* reply to one is at a switch that knows it.
FrameTrue(f) ==
    /\ f.in \notin Switches => f.src \in Hosts
    /\ f.src \in Settled => IF f.in \in Switches THEN Knows(f.in, f.src)
                            ELSE <<f.at, f.in>> = Home[f.src]
    /\ f.op = "reply" /\ f.dst \in Settled => Knows(f.at, f.dst)
FramesTrue == \A f \in wire : FrameTrue(f)

\* A shortcut is for a source that its switch knows, and leads to switches that know
\* the target.
FlowTrue(x) ==
    x.type = "flow" =>
        /\ x.of[3] \in Settled => Knows(x.of[1], x.of[3])
        /\ x.of[4] \in Settled /\ x.out \in Switches => Knows(x.out, x.of[4])
FlowsTrue == \A i \in DOMAIN timers : FlowTrue(timers[i])

\* A port learned is the host's own or leads to a switch that knows the host, and the
\* switch at home was the first to learn it.
PortsTrue ==
    \A h \in Settled, s \in Switches :
        /\ \A p \in mac_to_port[s][h] : IF p \in Switches THEN Knows(p, h) ELSE <<s, p>> = Home[h]
        /\ Knows(s, h) => Home[h][2] \in mac_to_port[Home[h][1]][h]

\* No switches away from home know a host only of each other: each was the last of them
\* to learn it once, and learned it of another.
WayOut ==
    \A h \in Settled : \A S \in SUBSET (Switches \ {Home[h][1]}) :
        S # {} /\ (\A s \in S : Knows(s, h)) => ~Closed(S, h)

FInv == TypeOK /\ AtHome /\ FramesTrue /\ FlowsTrue /\ PortsTrue /\ WayOut

\* What a step may do to the tables: a settled host is learned further, not forgotten.
Kept ==
    /\ Settled' \subseteq Settled
    /\ \A h \in Settled', s \in Switches : mac_to_port[s][h] \subseteq mac_to_port'[s][h]

-----------------------------------------------------------------------------
(* What the invariant says of the property *)

LEMMA InvLeadsHome == FInv => LearnedLeadsHome
<1> SUFFICES ASSUME FInv, NEW h \in Hosts \ moved, NEW s \in Switches, Knows(s, h)
             PROVE  Leads(s, h, Home[h][1]) /\ Home[h][2] \in mac_to_port[Home[h][1]][h]
  BY DEF LearnedLeadsHome, Knows
<1>1. h \in Settled
  BY DEF Settled
<1>2. Home[h][2] \in mac_to_port[Home[h][1]][h]
  BY <1>1 DEF FInv, PortsTrue
<1>3. ASSUME NEW S \in SUBSET (Switches \ {Home[h][1]}), s \in S, Closed(S, h)
      PROVE  FALSE
  <2> DEFINE K == {t \in S : Knows(t, h)}
  <2>1. K \in SUBSET (Switches \ {Home[h][1]}) /\ K # {} /\ \A t \in K : Knows(t, h)
    BY <1>3
  <2>2. Closed(K, h)
    <3> SUFFICES ASSUME NEW t \in K, NEW p \in mac_to_port[t][h] \cap Switches
                 PROVE  p \in K
      BY DEF Closed
    <3>1. p \in S
      BY <1>3 DEF Closed
    <3>2. Knows(p, h)
      BY <1>1, <2>1 DEF FInv, PortsTrue
    <3>3. QED
      BY <3>1, <3>2
  <2>3. QED
    BY <1>1, <2>1, <2>2 DEF FInv, WayOut
<1>4. QED
  BY <1>2, <1>3 DEF Leads

-----------------------------------------------------------------------------
(* The tables after a frame was looked at *)

LEMMA FrameTyped ==
    ASSUME TypeOK, NEW f \in wire
    PROVE  /\ f.at \in Switches /\ f.in \in Ports(f.at) /\ f.in \in AllPorts
           /\ f.src \in Senders /\ f.dst \in Senders /\ f.op \in {"request", "reply"}
           /\ f = Frame(f.at, f.in, f.src, f.dst, f.op)
  BY DEF TypeOK, Frames, Frame

\* A frame on an access port comes from a host, a settled one from its home.
LEMMA InsideIsHome ==
    ASSUME FInv, NEW f \in wire, Inside(f)
    PROVE  /\ f.src \in Hosts /\ <<f.at, f.in>> \in AccessPorts
           /\ f.src \in Settled => <<f.at, f.in>> = Home[f.src]
<1>1. f.at \in Switches /\ f.in \in AllPorts /\ f.in \in Access[f.at]
  BY FrameTyped DEF FInv, Inside
<1>2. f.in \notin Switches
  BY <1>1, ConstantsAssumption
<1>3. QED
  BY <1>1, <1>2 DEF FInv, FramesTrue, FrameTrue, AccessPorts

LEMMA LearnedTyped ==
    ASSUME FInv, NEW f \in wire
    PROVE  /\ Learned(f) \in [Hosts -> AccessPorts \cup {None}]
           /\ \A h \in Settled : Learned(f)[h] \in {None, Home[h]}
<1>1. CASE Inside(f)
  BY <1>1, InsideIsHome DEF FInv, TypeOK, AtHome, Learned, Settled
<1>2. CASE ~Inside(f)
  BY <1>2 DEF FInv, TypeOK, AtHome, Learned
<1>3. QED
  BY <1>1, <1>2

LEMMA PurgedTyped ==
    ASSUME FInv, NEW f \in wire
    PROVE  /\ Purged(f) \in [Switches -> [Senders -> SUBSET AllPorts]]
           /\ \A s \in Switches, h \in Senders : Purged(f)[s][h] \subseteq mac_to_port[s][h]
           /\ \A s \in Switches, h \in Settled : Purged(f)[s][h] = mac_to_port[s][h]
<1>1. CASE Inside(f) /\ host_to_sw_port[f.src] \notin {None, <<f.at, f.in>>}
  <2> DEFINE old == host_to_sw_port[f.src]
  <2>1. f.src \in Hosts /\ f.src \notin Settled
    BY <1>1, InsideIsHome DEF FInv, AtHome
  <2>2. old \in AccessPorts
    BY <1>1, <2>1 DEF FInv, TypeOK
  <2>3. old[1] \in Switches /\ f.src \in Senders
    BY <2>1, <2>2 DEF AccessPorts, Senders
  <2>4. Purged(f) = [mac_to_port EXCEPT ![old[1]][f.src] = @ \ {old[2]}]
    BY <1>1 DEF Purged
  <2> HIDE DEF old
  <2>5. mac_to_port \in [Switches -> [Senders -> SUBSET AllPorts]]
    BY DEF FInv, TypeOK
  <2>6. QED
    BY <2>1, <2>3, <2>4, <2>5
<1>2. CASE ~(Inside(f) /\ host_to_sw_port[f.src] \notin {None, <<f.at, f.in>>})
  <2>1. Purged(f) = mac_to_port
    BY <1>2 DEF Purged
  <2>2. QED
    BY <2>1 DEF FInv, TypeOK
<1>3. QED
  BY <1>1, <1>2

LEMMA TableTyped ==
    ASSUME FInv, NEW f \in wire
    PROVE  /\ Table(f) \in [Switches -> [Senders -> SUBSET AllPorts]]
           /\ \A s \in Switches, h \in Senders :
                 Table(f)[s][h] \subseteq mac_to_port[s][h] \cup (IF s = f.at /\ h = f.src THEN {f.in} ELSE {})
           /\ \A s \in Switches, h \in Senders : Table(f)[s][h] \subseteq Ports(s)
           /\ \A s \in Switches, h \in Settled : mac_to_port[s][h] \subseteq Table(f)[s][h]
           /\ ~(Refused(f) \/ Dropped(f)) => f.in \in Table(f)[f.at][f.src]
<1> DEFINE P == Purged(f)
<1>1. /\ P \in [Switches -> [Senders -> SUBSET AllPorts]]
      /\ \A s \in Switches, h \in Senders : P[s][h] \subseteq mac_to_port[s][h]
      /\ \A s \in Switches, h \in Settled : P[s][h] = mac_to_port[s][h]
  BY PurgedTyped
<1>2. f.at \in Switches /\ f.in \in Ports(f.at) /\ f.in \in AllPorts /\ f.src \in Senders
  BY FrameTyped DEF FInv
<1>3. \A s \in Switches, h \in Senders : mac_to_port[s][h] \subseteq Ports(s)
  BY DEF FInv, TypeOK
<1>4. Table(f) = IF Refused(f) \/ Dropped(f) THEN P ELSE [P EXCEPT ![f.at][f.src] = @ \cup {f.in}]
  BY DEF Table
<1>5. Settled \subseteq Senders
  BY DEF Settled, Senders
<1> HIDE DEF P
<1>6. QED
  BY <1>1, <1>2, <1>3, <1>4, <1>5
-----------------------------------------------------------------------------
(* The parts of the invariant that a step may disturb *)

\* With one port more for one host the ports learned still lead home.
LEMMA WayKept ==
    ASSUME FInv, NEW f \in wire, Kept, moved' = moved,
           \A s \in Switches, h \in Senders :
              mac_to_port'[s][h] \subseteq
                 mac_to_port[s][h] \cup (IF s = f.at /\ h = f.src THEN {f.in} ELSE {})
    PROVE  PortsTrue' /\ WayOut'
<1>1. Settled' = Settled /\ Settled \subseteq Senders
  BY DEF Settled, Senders
<1>2. /\ f.at \in Switches
      /\ f.src \in Settled => IF f.in \in Switches THEN Knows(f.in, f.src)
                              ELSE <<f.at, f.in>> = Home[f.src]
  BY FrameTyped DEF FInv, FramesTrue, FrameTrue
<1>3. \A s \in Switches, h \in Settled : Knows(s, h) => Knows(s, h)'
  BY <1>1 DEF Kept, Knows
<1>4. PortsTrue'
  <2> SUFFICES ASSUME NEW h \in Settled, NEW s \in Switches
               PROVE  /\ \A p \in mac_to_port'[s][h] :
                            IF p \in Switches THEN Knows(p, h)' ELSE <<s, p>> = Home[h]
                      /\ Knows(s, h)' => Home[h][2] \in mac_to_port'[Home[h][1]][h]
    BY <1>1 DEF PortsTrue
  <2>1. ASSUME NEW p \in mac_to_port'[s][h]
        PROVE  IF p \in Switches THEN Knows(p, h)' ELSE <<s, p>> = Home[h]
    <3>1. CASE p \in mac_to_port[s][h]
      BY <3>1, <1>3 DEF FInv, PortsTrue
    <3>2. CASE s = f.at /\ h = f.src /\ p = f.in
      BY <3>2, <1>2, <1>3
    <3>3. QED
      BY <3>1, <3>2, <1>1
  <2>2. ASSUME Knows(s, h)' PROVE Home[h][2] \in mac_to_port'[Home[h][1]][h]
    <3>1. Home[h][1] \in Switches
      BY ConstantsAssumption DEF Settled, AccessPorts
    <3>2. ASSUME NEW t \in Switches, Knows(t, h) PROVE Home[h][2] \in mac_to_port'[Home[h][1]][h]
      BY <3>1, <3>2, <1>1 DEF FInv, PortsTrue, Kept
    <3>3. CASE ~Knows(s, h)
      <4>1. s = f.at /\ h = f.src /\ f.in \in mac_to_port'[s][h]
        BY <3>3, <2>2, <1>1 DEF Knows
      <4>2. CASE f.in \in Switches
        BY <4>1, <4>2, <3>2, <1>2
      <4>3. CASE f.in \notin Switches
        BY <4>1, <4>3, <1>2
      <4>4. QED
        BY <4>2, <4>3
    <3>4. QED
      BY <3>2, <3>3
  <2>3. QED
    BY <2>1, <2>2
<1>5. WayOut'
  <2> SUFFICES ASSUME NEW h \in Settled, NEW S \in SUBSET (Switches \ {Home[h][1]}), S # {},
                      \A s \in S : Knows(s, h)', Closed(S, h)'
               PROVE  FALSE
    BY <1>1 DEF WayOut
  <2>1. \A s \in S : \A p \in mac_to_port'[s][h] \cap Switches : p \in S
    BY DEF Closed
  <2>2. ASSUME NEW R \in SUBSET S, R # {}, \A s \in R : Knows(s, h)
        PROVE  \E s \in R : \E p \in (mac_to_port[s][h] \cap Switches) \ R : Knows(p, h) /\ p \in S
    <3>1. ~Closed(R, h)
      BY <2>2 DEF FInv, WayOut
    <3>2. PICK s \in R, p \in Switches : p \in mac_to_port[s][h] \ R
      BY <3>1 DEF Closed
    <3>3. Knows(p, h)
      BY <3>2 DEF FInv, PortsTrue
    <3>4. p \in S
      BY <3>2, <2>1, <1>1 DEF Kept
    <3>5. QED
      BY <3>2, <3>3, <3>4
  <2>3. PICK s \in S : ~Knows(s, h)
    BY <2>2
  <2>4. s = f.at /\ h = f.src /\ f.in \in mac_to_port'[s][h]
    BY <2>3, <1>1 DEF Knows
  <2>5. f.in \in S /\ Knows(f.in, h)
    BY <2>1, <2>3, <2>4, <1>2
  <2>6. \A t \in S \ {s} : Knows(t, h)
    BY <2>4, <1>1 DEF Knows
  <2>7. S \ {s} # {}
    BY <2>3, <2>5
  <2>8. PICK t \in S \ {s}, p \in Switches : p \notin S \ {s} /\ Knows(p, h) /\ p \in S
    BY <2>2, <2>6, <2>7
  <2>9. QED
    BY <2>3, <2>8
<1>6. QED
  BY <1>4, <1>5

\* The frames that are still under way, and what else does not depend on the frame.
LEMMA FramesKept ==
    ASSUME FInv, Kept, NEW f \in wire PROVE FrameTrue(f)'
<1>1. f.at \in Switches /\ FrameTrue(f)
  BY FrameTyped DEF FInv, FramesTrue
<1>2. QED
  BY <1>1 DEF FrameTrue, Knows, Kept

LEMMA TablesKept ==
    ASSUME FInv, UNCHANGED <<mac_to_port, moved>>
    PROVE  Kept /\ PortsTrue' /\ WayOut'
<1>1. Settled' = Settled
  BY DEF Settled
<1>2. PortsTrue'
  BY <1>1 DEF FInv, PortsTrue, Knows
<1>3. WayOut'
  <2> SUFFICES ASSUME NEW h \in Settled, NEW S \in SUBSET (Switches \ {Home[h][1]}), S # {},
                      \A s \in S : Knows(s, h)', Closed(S, h)'
               PROVE  FALSE
    BY <1>1 DEF WayOut
  <2>1. (\A s \in S : Knows(s, h)) /\ Closed(S, h)
    BY DEF Knows, Closed
  <2>2. QED
    BY <2>1 DEF FInv, WayOut
<1>4. QED
  BY <1>1, <1>2, <1>3 DEF Kept

LEMMA FlowsKept ==
    ASSUME FInv, Kept, NEW x \in Timers, FlowTrue(x) PROVE FlowTrue(x)'
BY DEF FlowTrue, Knows, Kept, Timers

\* What a switch sends out is true if it knows the source, and for a reply if those it
\* sends it to know the target.
LEMMA TransmitTrue ==
    ASSUME FInv, Kept, UNCHANGED <<place, moved>>,
           NEW f \in wire, NEW ports \in SUBSET Ports(f.at),
           NEW src \in Senders, NEW dst \in Senders, NEW op \in {"request", "reply"},
           Transmit(f, f.at, ports, src, dst, op),
           src \in Settled => Knows(f.at, src)',
           op = "reply" /\ dst \in Settled => \A p \in ports \cap Switches : Knows(p, dst)'
    PROVE  wire' \subseteq Frames /\ FramesTrue' /\ wanted' \subseteq Pairs
<1> DEFINE s    == f.at
           here == dst \in Hosts /\ place[dst][1] = s /\ place[dst][2] \in ports
<1>1. s \in Switches
  BY FrameTyped DEF FInv
<1>2. Settled' = Settled
  BY DEF Settled
<1>3. ASSUME NEW g \in wire' PROVE g \in Frames /\ FrameTrue(g)'
  <2>1. CASE g \in wire
    BY <2>1, FramesKept DEF FInv, TypeOK
  <2>2. CASE \E p \in ports \cap Switches : g = Frame(p, s, src, dst, op)
    <3>1. PICK p \in ports \cap Switches : g = Frame(p, s, src, dst, op)
      BY <2>2
    <3>2. p \in Neighbours(s) /\ s \in Neighbours(p)
      BY <3>1, <1>1, ConstantsAssumption DEF Ports, Neighbours
    <3>3. s \in Ports(p) /\ s \in AllPorts
      BY <3>1, <3>2 DEF Ports, AllPorts
    <3>4. g \in Frames
      BY <3>1, <3>3 DEF Frames, Frame
    <3>5. g.at = p /\ g.in = s /\ g.src = src /\ g.dst = dst /\ g.op = op
      BY <3>1 DEF Frame
    <3>6. FrameTrue(g)'
      BY <3>5, <3>1, <1>1, <1>2 DEF FrameTrue
    <3>7. QED
      BY <3>4, <3>6
  <2>3. CASE here /\ g = Frame(s, place[dst][2], dst, src, "reply")
    <3>1. place[dst] \in AccessPorts /\ place[dst] = <<s, place[dst][2]>>
      BY <2>3 DEF FInv, TypeOK, AccessPorts
    <3>2. place[dst][2] \in AllPorts /\ place[dst][2] \in Access[s]
      BY <3>1 DEF AccessPorts
    <3>3. place[dst][2] \in Ports(s) /\ place[dst][2] \notin Switches
      BY <3>2, <1>1, ConstantsAssumption DEF Ports
    <3>4. g \in Frames
      BY <2>3, <3>2, <3>3, <1>1 DEF Frames, Frame
    <3>5. g.at = s /\ g.in = place[dst][2] /\ g.src = dst /\ g.dst = src /\ g.op = "reply"
      BY <2>3 DEF Frame
    <3>6. dst \in Settled => <<s, place[dst][2]>> = Home[dst]
      BY <3>1 DEF FInv, AtHome
    <3>7. FrameTrue(g)'
      BY <2>3, <3>3, <3>5, <3>6, <1>2 DEF FrameTrue
    <3>8. QED
      BY <3>4, <3>7
  <2>4. QED
    BY <1>3, <2>1, <2>2, <2>3 DEF Transmit
<1>4. wanted' \subseteq Pairs
  BY DEF Transmit, FInv, TypeOK
<1>5. QED
  BY <1>3, <1>4 DEF FramesTrue
-----------------------------------------------------------------------------
(* The queue of timers *)

NoTwice(t) == \A i, j \in DOMAIN t : SameEntry(t[i], t[j]) => i = j

LEMMA AppendTyped ==
    ASSUME NEW T, NEW t \in Seq(T), NEW x \in T, NoTwice(t),
           \A i \in DOMAIN t : ~SameEntry(t[i], x)
    PROVE  /\ Append(t, x) \in Seq(T) /\ NoTwice(Append(t, x))
           /\ \A i \in DOMAIN Append(t, x) : Append(t, x)[i] = x \/ \E j \in DOMAIN t : Append(t, x)[i] = t[j]
<1> DEFINE a == Append(t, x)
<1>1. /\ a \in Seq(T) /\ DOMAIN a = 1..(Len(t) + 1) /\ DOMAIN t = 1..Len(t) /\ Len(t) \in Nat
      /\ \A i \in 1..Len(t) : a[i] = t[i]
      /\ a[Len(t) + 1] = x
  OBVIOUS
<1> HIDE DEF a
<1>2. \A i \in DOMAIN a : i = Len(t) + 1 \/ i \in DOMAIN t
  BY <1>1
<1>3. NoTwice(a)
  BY <1>1, <1>2 DEF NoTwice, SameEntry
<1>4. QED
  BY <1>1, <1>2, <1>3 DEF a

LEMMA WithoutTyped ==
    ASSUME NEW T, NEW t \in Seq(T), NEW x, NoTwice(t)
    PROVE  /\ Without(t, x) \in Seq(T) /\ NoTwice(Without(t, x))
           /\ \A i \in DOMAIN Without(t, x) :
                 /\ ~SameEntry(Without(t, x)[i], x)
                 /\ \E j \in DOMAIN t : Without(t, x)[i] = t[j]
<1> DEFINE old == {i \in DOMAIN t : SameEntry(t[i], x)}
<1>1. CASE old = {}
  BY <1>1 DEF Without
<1>2. CASE old # {}
  <2> DEFINE k == CHOOSE i \in old : TRUE
             r == RemoveAt(t, k)
  <2>1. k \in DOMAIN t /\ SameEntry(t[k], x) /\ Without(t, x) = r
    BY <1>2 DEF Without
  <2>2. \A i \in DOMAIN t : SameEntry(t[i], x) => i = k
    BY <2>1 DEF NoTwice, SameEntry
  <2>3. DOMAIN t = 1..Len(t) /\ Len(t) \in Nat /\ k \in 1..Len(t)
    BY <2>1
  <2> HIDE DEF k
  <2>4. /\ r \in Seq(T) /\ DOMAIN r = 1..(Len(t) - 1)
        /\ \A i \in 1..(Len(t) - 1) : r[i] = t[IF i < k THEN i ELSE i + 1]
    <3> DEFINE u == SubSeq(t, 1, k - 1)
               v == SubSeq(t, k + 1, Len(t))
    <3>0. \A i \in 1..Len(t) : t[i] \in T
      BY <2>3
    <3>1. u \in Seq(T) /\ Len(u) = k - 1 /\ \A i \in 1..(k - 1) : u[i] = t[i]
      <4>1. /\ u \in Seq(T) /\ Len(u) = IF 1 <= k - 1 THEN (k - 1) - 1 + 1 ELSE 0
            /\ \A i \in 1..((k - 1) - 1 + 1) : u[i] = t[1 + i - 1]
        <5>1. 1 \in Int /\ k - 1 \in Int /\ \A i \in 1..(k - 1) : t[i] \in T
          BY <2>3, <3>0
        <5>2. QED
          BY <5>1, SubSeqProperties
      <4> HIDE DEF u
      <4>2. QED
        BY <4>1, <2>3
    <3>2. v \in Seq(T) /\ Len(v) = Len(t) - k /\ \A i \in 1..(Len(t) - k) : v[i] = t[k + i]
      <4>1. /\ v \in Seq(T) /\ Len(v) = IF k + 1 <= Len(t) THEN Len(t) - (k + 1) + 1 ELSE 0
            /\ \A i \in 1..(Len(t) - (k + 1) + 1) : v[i] = t[k + 1 + i - 1]
        <5>1. k + 1 \in Int /\ Len(t) \in Int /\ \A i \in (k + 1)..Len(t) : t[i] \in T
          BY <2>3, <3>0
        <5>2. QED
          BY <5>1, SubSeqProperties
      <4> HIDE DEF v
      <4>2. Len(v) = Len(t) - k
        <5>1. Len(v) = IF k + 1 <= Len(t) THEN Len(t) - (k + 1) + 1 ELSE 0
          BY <4>1
        <5>2. k \in Int /\ Len(t) \in Int /\ k <= Len(t)
          BY <2>3
        <5>3. CASE k + 1 <= Len(t)
          BY <5>1, <5>2, <5>3
        <5>4. CASE ~(k + 1 <= Len(t))
          <6>1. Len(t) = k
            BY <5>2, <5>4
          <6>2. QED
            BY <5>1, <5>2, <5>4, <6>1
        <5>5. QED
          BY <5>3, <5>4
      <4>3. ASSUME NEW i \in 1..(Len(t) - k) PROVE v[i] = t[k + i]
        <5>1. i \in 1..(Len(t) - (k + 1) + 1) /\ k + 1 + i - 1 = k + i
          BY <2>3
        <5>2. QED
          BY <5>1, <4>1
      <4>4. QED
        BY <4>1, <4>2, <4>3
    <3> HIDE DEF u, v
    <3>3. /\ u \o v \in Seq(T) /\ Len(u \o v) = Len(t) - 1
          /\ \A i \in 1..(Len(t) - 1) : (u \o v)[i] = IF i <= k - 1 THEN u[i] ELSE v[i - (k - 1)]
      <4>1. Len(u) + Len(v) = Len(t) - 1
        BY <3>1, <3>2, <2>3
      <4>2. QED
        BY <4>1, <3>1, <3>2, ConcatProperties
    <3>4. r = u \o v
      BY DEF RemoveAt, u, v
    <3> HIDE DEF r
    <3>5. ASSUME NEW i \in 1..(Len(t) - 1) PROVE r[i] = t[IF i < k THEN i ELSE i + 1]
      <4>1. CASE i < k
        BY <4>1, <3>1, <3>3, <3>4, <2>3
      <4>2. CASE ~(i < k)
        <5>1. i - (k - 1) \in 1..(Len(t) - k) /\ k + (i - (k - 1)) = i + 1 /\ ~(i <= k - 1)
          BY <4>2, <2>3
        <5>2. r[i] = v[i - (k - 1)]
          BY <5>1, <3>3, <3>4
        <5>3. QED
          BY <4>2, <5>1, <5>2, <3>2
      <4>3. QED
        BY <4>1, <4>2
    <3>6. QED
      BY <3>3, <3>4, <3>5
  <2> HIDE DEF r
  <2>5. ASSUME NEW i \in DOMAIN r
        PROVE  /\ (IF i < k THEN i ELSE i + 1) \in DOMAIN t \ {k}
               /\ r[i] = t[IF i < k THEN i ELSE i + 1]
    BY <2>3, <2>4
  <2>6. NoTwice(r)
    <3> SUFFICES ASSUME NEW i \in DOMAIN r, NEW j \in DOMAIN r, SameEntry(r[i], r[j])
                 PROVE  i = j
      BY DEF NoTwice
    <3>1. (IF i < k THEN i ELSE i + 1) = (IF j < k THEN j ELSE j + 1)
      BY <2>5 DEF NoTwice
    <3>2. QED
      BY <3>1, <2>3, <2>4
  <2>7. QED
    BY <2>1, <2>2, <2>4, <2>5, <2>6
<1>3. QED
  BY <1>1, <1>2

LEMMA OutPortsTyped ==
    ASSUME FInv, NEW f \in wire
    PROVE  /\ OutPorts(f) \subseteq Ports(f.at) /\ OutPorts(f) \subseteq AllPorts
           /\ Cardinality(OutPorts(f)) = 1 => OutPorts(f) # {}
<1>1. f.at \in Switches /\ f.dst \in Senders
  BY FrameTyped DEF FInv
<1>2. OutPorts(f) \subseteq Ports(f.at)
  BY <1>1, TableTyped DEF OutPorts, FloodPorts
<1>3. Cardinality(OutPorts(f)) = 1 => OutPorts(f) # {}
  BY FS_EmptySet
<1>4. QED
  BY <1>1, <1>2, <1>3 DEF AllPorts

\* What the controller adds to the timers when it forwards a frame: each entry is an old
\* one, the record that the frame was seen, or a shortcut by a port it goes out by.
LEMMA ShortcutsTyped ==
    ASSUME FInv, NEW f \in wire, ShortcutOf(f) = {}, ~Dropped(f)
    PROVE  LET t == WithShortcuts(Recorded(f), f)
           IN  /\ t \in Seq(Timers) /\ NoTwice(t)
               /\ \A i \in DOMAIN t :
                    \/ \E j \in DOMAIN timers : t[i] = timers[j]
                    \/ t[i].type = "seen"
                    \/ \E out \in OutPorts(f) : t[i] = Flow(f.at, f.in, f.src, Eth(f), out)
                    \/ f.op = "reply" /\ \E out \in OutPorts(f) : t[i] = Flow(f.at, out, f.dst, f.src, f.in)
<1> DEFINE seen  == Seen(Key(f))
           out   == CHOOSE p \in OutPorts(f) : TRUE
           there == Flow(f.at, f.in, f.src, Eth(f), out)
           back  == Flow(f.at, out, f.dst, f.src, f.in)
           t1    == Recorded(f)
           t2    == Append(t1, there)
           t3    == Append(Without(t2, back), back)
<1>1. /\ f.at \in Switches /\ f.in \in Ports(f.at) /\ f.in \in AllPorts
      /\ f.src \in Senders /\ f.dst \in Senders /\ f.op \in {"request", "reply"}
  BY FrameTyped DEF FInv
<1>2. timers \in Seq(Timers) /\ NoTwice(timers)
  BY DEF FInv, TypeOK, NoTwice
<1>3. \A i \in DOMAIN timers : timers[i] \in Timers
  BY <1>2
<1>4. seen \in Timers /\ seen.type = "seen" /\ seen.of = Key(f)
  BY <1>1 DEF Seen, Key, Timers
<1>5. \A i \in DOMAIN timers : ~SameEntry(timers[i], seen)
  <2> SUFFICES ASSUME NEW i \in DOMAIN timers, SameEntry(timers[i], seen) PROVE FALSE
    OBVIOUS
  <2>1. timers[i].type = "seen" /\ timers[i].of = Key(f)
    BY <1>4 DEF SameEntry
  <2>2. timers[i] \in [type : {"seen"}, of : Switches \X Senders \X Senders \X {"request", "reply"}]
    BY <1>3, <2>1 DEF Timers
  <2>3. timers[i] = Seen(Key(f))
    BY <2>1, <2>2 DEF Seen
  <2>4. QED
    BY <2>3 DEF Dropped
<1>6. /\ t1 \in Seq(Timers) /\ NoTwice(t1)
      /\ \A i \in DOMAIN t1 : t1[i] = seen \/ \E j \in DOMAIN timers : t1[i] = timers[j]
  BY <1>2, <1>4, <1>5, AppendTyped DEF Recorded
<1>7. CASE Cardinality(OutPorts(f)) # 1
  <2>1. WithShortcuts(t1, f) = t1
    BY <1>7 DEF WithShortcuts
  <2>2. QED
    BY <2>1, <1>4, <1>6
<1>8. CASE Cardinality(OutPorts(f)) = 1
  <2>1. out \in OutPorts(f) /\ out \in Ports(f.at) /\ out \in AllPorts
    BY <1>8, OutPortsTyped
  <2>2. Eth(f) \in Senders \cup {Broadcast}
    BY <1>1 DEF Eth
  <2> HIDE DEF out
  <2>3. there \in Timers /\ there.type = "flow" /\ there.of = <<f.at, f.in, f.src, Eth(f)>>
    BY <1>1, <2>1, <2>2 DEF Timers, Flow
  <2>4. back \in Timers
    BY <1>1, <2>1 DEF Timers, Flow
  <2>5. \A i \in DOMAIN t1 : ~SameEntry(t1[i], there)
    BY <1>4, <1>6, <2>3 DEF SameEntry, ShortcutOf
  <2>6. /\ t2 \in Seq(Timers) /\ NoTwice(t2)
        /\ \A i \in DOMAIN t2 : t2[i] = there \/ \E j \in DOMAIN t1 : t2[i] = t1[j]
    <3> HIDE DEF t1, there
    <3>1. QED
      BY <1>6, <2>3, <2>5, AppendTyped
  <2>7. CASE f.op = "request"
    <3>1. WithShortcuts(t1, f) = t2
      BY <1>8, <2>7 DEF WithShortcuts, out
    <3>2. QED
      BY <3>1, <2>1, <2>6, <1>4, <1>6
  <2>8. CASE f.op = "reply"
    <3>1. WithShortcuts(t1, f) = t3
      BY <1>8, <2>8 DEF WithShortcuts, out
    <3> DEFINE w == Without(t2, back)
    <3> HIDE DEF t1, t2, there, seen
    <3>2. /\ w \in Seq(Timers) /\ NoTwice(w)
          /\ \A i \in DOMAIN w : ~SameEntry(w[i], back) /\ \E j \in DOMAIN t2 : w[i] = t2[j]
      BY <2>6, WithoutTyped
    <3> HIDE DEF w, back
    <3>3. /\ t3 \in Seq(Timers) /\ NoTwice(t3)
          /\ \A i \in DOMAIN t3 : t3[i] = back \/ \E j \in DOMAIN w : t3[i] = w[j]
      BY <3>2, <2>4, AppendTyped DEF w
    <3> HIDE DEF t3
    <3>4. \A i \in DOMAIN t3 : t3[i] = back \/ t3[i] = there \/ t3[i] = seen \/ \E j \in DOMAIN timers : t3[i] = timers[j]
      BY <3>2, <3>3, <2>6, <1>6
    <3>5. QED
      BY <3>1, <3>3, <3>4, <2>1, <2>8, <1>4 DEF t1, there, back, seen
  <2>9. QED
    BY <2>7, <2>8, <1>1
<1>9. QED
  BY <1>7, <1>8
-----------------------------------------------------------------------------
(* The steps *)

\* A step that adds no frame, moves nobody and leaves the tables alone.
LEMMA QuietStep ==
    ASSUME FInv, UNCHANGED <<mac_to_port, host_to_sw_port, place, moved>>,
           wire' \subseteq wire, timers' \in Seq(Timers), NoTwice(timers'),
           \A i \in DOMAIN timers' : \E j \in DOMAIN timers : timers'[i] = timers[j],
           wanted' \subseteq Pairs, events' \in 0..MaxEvents
    PROVE  FInv'
<1>1. Settled' = Settled /\ Kept
  BY TablesKept DEF Settled
<1>2. TypeOK'
  BY DEF FInv, TypeOK, NoTwice
<1>3. FlowsTrue'
  <2>1. \A j \in DOMAIN timers : timers[j] \in Timers /\ FlowTrue(timers[j])
    BY DEF FInv, TypeOK, FlowsTrue
  <2>2. QED
    BY <1>1, <2>1, FlowsKept DEF FlowsTrue
<1>4. FramesTrue'
  BY <1>1, FramesKept DEF FramesTrue
<1>5. AtHome'
  BY <1>1 DEF FInv, AtHome
<1>6. QED
  BY <1>2, <1>3, <1>4, <1>5, TablesKept DEF FInv

LEMMA InitFlood == Init => FInv
<1> SUFFICES ASSUME Init PROVE FInv
  OBVIOUS
<1>1. TypeOK
  BY ConstantsAssumption DEF Init, TypeOK, SameEntry
<1>2. AtHome /\ FramesTrue /\ FlowsTrue
  BY DEF Init, AtHome, FramesTrue, FlowsTrue, Settled
<1>3. \A s \in Switches, h \in Settled : mac_to_port[s][h] = {}
  BY DEF Init, Settled, Senders
<1>4. PortsTrue /\ WayOut
  BY <1>3 DEF PortsTrue, WayOut, Knows
<1>5. QED
  BY <1>1, <1>2, <1>4 DEF FInv

LEMMA TimersTyped == FInv => timers \in Seq(Timers) /\ NoTwice(timers)
BY DEF FInv, TypeOK, NoTwice

LEMMA WantStep == ASSUME FInv, NEW h, NEW d, Want(h, d) PROVE FInv'
<1>1. events' \in 0..MaxEvents
  BY ConstantsAssumption DEF Want, FInv, TypeOK
<1>2. wanted' \subseteq Pairs
  BY DEF Want, FInv, TypeOK
<1>3. QED
  BY <1>1, <1>2, TimersTyped, QuietStep DEF Want

\* A host asks from where it is.
LEMMA AskStep == ASSUME FInv, NEW h, NEW d, Ask(h, d) PROVE FInv'
<1> DEFINE g == Frame(place[h][1], place[h][2], h, d, "request")
<1>1. h \in Hosts /\ d \in Senders
  BY ConstantsAssumption DEF Ask, FInv, TypeOK
<1>2. place[h] \in AccessPorts /\ place[h] = <<place[h][1], place[h][2]>>
  BY <1>1 DEF FInv, TypeOK, AccessPorts
<1>3. /\ place[h][1] \in Switches /\ place[h][2] \in AllPorts
      /\ place[h][2] \in Ports(place[h][1]) /\ place[h][2] \notin Switches
  BY <1>2, ConstantsAssumption DEF AccessPorts, Ports
<1>4. g \in Frames /\ FrameTrue(g)
  <2>1. g \in Frames
    BY <1>1, <1>3 DEF Frames, Frame, Senders
  <2>2. g.at = place[h][1] /\ g.in = place[h][2] /\ g.src = h /\ g.dst = d /\ g.op = "request"
    BY DEF Frame
  <2>3. QED
    BY <2>1, <2>2, <1>1, <1>2, <1>3 DEF FrameTrue, FInv, AtHome
<1>5. UNCHANGED <<mac_to_port, host_to_sw_port, timers, place, moved, wanted, events>> /\ wire' = wire \cup {g}
  BY DEF Ask
<1>6. TypeOK'
  BY <1>4, <1>5 DEF FInv, TypeOK
<1>7. FramesTrue'
  BY <1>4, <1>5 DEF FInv, FramesTrue, FrameTrue, Settled, Knows
<1>8. AtHome' /\ FlowsTrue'
  BY <1>5 DEF FInv, AtHome, FlowsTrue, FlowTrue, Knows, Settled
<1>9. QED
  BY <1>5, <1>6, <1>7, <1>8, TablesKept DEF FInv

\* Of a host that moves nothing is claimed any more.
LEMMA MoveStep == ASSUME FInv, NEW m \in Moves, Move(m[1], m[2], m[3]) PROVE FInv'
<1>1. m[1] \in Hosts /\ <<m[2], m[3]>> \in AccessPorts
  BY ConstantsAssumption
<1>2. /\ UNCHANGED <<mac_to_port, host_to_sw_port, timers, wire, wanted>>
      /\ place' = [place EXCEPT ![m[1]] = <<m[2], m[3]>>] /\ moved' = moved \cup {m[1]}
      /\ events' \in 0..MaxEvents
  BY ConstantsAssumption DEF Move, FInv, TypeOK
<1>3. Settled' \subseteq Settled /\ m[1] \notin Settled'
  BY <1>2 DEF Settled
<1>4. TypeOK'
  BY <1>1, <1>2 DEF FInv, TypeOK
<1>5. AtHome'
  BY <1>2, <1>3 DEF FInv, TypeOK, AtHome, Settled
<1>6. FramesTrue' /\ FlowsTrue'
  BY <1>2, <1>3 DEF FInv, FramesTrue, FrameTrue, FlowsTrue, FlowTrue, Knows
<1>7. PortsTrue' /\ WayOut'
  BY <1>2, <1>3 DEF FInv, PortsTrue, WayOut, Closed, Knows
<1>8. QED
  BY <1>4, <1>5, <1>6, <1>7 DEF FInv

LEMMA ExpireStep == ASSUME FInv, Expire PROVE FInv'
<1> DEFINE t == Tail(timers)
<1>1. timers \in Seq(Timers) /\ NoTwice(timers) /\ timers # <<>>
  BY TimersTyped DEF Expire
<1>2. /\ t \in Seq(Timers) /\ DOMAIN t = 1..(Len(timers) - 1) /\ DOMAIN timers = 1..Len(timers)
      /\ Len(timers) \in Nat /\ \A i \in 1..(Len(timers) - 1) : t[i] = timers[i + 1]
  BY <1>1
<1> HIDE DEF t
<1>3. \A i \in DOMAIN t : i + 1 \in DOMAIN timers /\ t[i] = timers[i + 1]
  BY <1>2
<1>4. NoTwice(t)
  <2> SUFFICES ASSUME NEW i \in DOMAIN t, NEW j \in DOMAIN t, SameEntry(t[i], t[j]) PROVE i = j
    BY DEF NoTwice
  <2>1. i + 1 = j + 1
    BY <1>1, <1>3 DEF NoTwice
  <2>2. QED
    BY <2>1, <1>2
<1>5. events' \in 0..MaxEvents
  BY ConstantsAssumption DEF Expire, FInv, TypeOK
<1>6. timers' = t /\ UNCHANGED <<mac_to_port, host_to_sw_port, wire, place, moved, wanted>>
  BY DEF Expire, t
<1>7. wanted' \subseteq Pairs
  BY <1>6 DEF FInv, TypeOK
<1>8. QED
  BY <1>2, <1>3, <1>4, <1>5, <1>6, <1>7, QuietStep

LEMMA LoseStep == ASSUME FInv, NEW f \in wire, Lose(f) PROVE FInv'
<1>1. events' \in 0..MaxEvents
  BY ConstantsAssumption DEF Lose, FInv, TypeOK
<1>2. wanted' \subseteq Pairs
  BY DEF Lose, FInv, TypeOK
<1>3. QED
  BY <1>1, <1>2, TimersTyped, QuietStep DEF Lose
-----------------------------------------------------------------------------
(* Frames at a switch *)

\* A shortcut sends a frame on from a switch that knows its source.
LEMMA ShortcutStep == ASSUME FInv, NEW f \in wire, Shortcut(f) PROVE FInv'
<1> DEFINE outs  == {timers[i].out : i \in ShortcutOf(f)}
           ports == outs \ {f.in}
<1>1. /\ UNCHANGED <<mac_to_port, host_to_sw_port, timers, place, moved, events>>
      /\ ShortcutOf(f) # {} /\ Transmit(f, f.at, ports, f.src, f.dst, f.op)
  BY DEF Shortcut, Forward
<1>2. Kept /\ PortsTrue' /\ WayOut' /\ Settled' = Settled
  BY <1>1, TablesKept DEF Settled
<1>3. /\ f.at \in Switches /\ f.src \in Senders /\ f.dst \in Senders /\ f.op \in {"request", "reply"}
  BY FrameTyped DEF FInv
<1>4. ASSUME NEW i \in ShortcutOf(f)
      PROVE  /\ timers[i].out \in Ports(f.at)
             /\ f.src \in Settled => Knows(f.at, f.src)
             /\ f.op = "reply" /\ f.dst \in Settled /\ timers[i].out \in Switches => Knows(timers[i].out, f.dst)
  <2>1. i \in DOMAIN timers /\ timers[i].type = "flow" /\ timers[i].of = <<f.at, f.in, f.src, Eth(f)>>
    BY DEF ShortcutOf
  <2>2. timers[i] \in Timers /\ FlowTrue(timers[i])
    BY <2>1 DEF FInv, TypeOK, FlowsTrue
  <2>3. timers[i].out \in Ports(f.at)
    BY <2>1, <2>2 DEF Timers
  <2>4. f.op = "reply" => Eth(f) = f.dst
    BY DEF Eth
  <2>5. QED
    BY <2>1, <2>2, <2>3, <2>4 DEF FlowTrue
<1>5. PICK i \in ShortcutOf(f) : TRUE
  BY <1>1
<1>6. /\ ports \in SUBSET Ports(f.at)
      /\ f.src \in Settled => Knows(f.at, f.src)'
      /\ f.op = "reply" /\ f.dst \in Settled => \A p \in ports \cap Switches : Knows(p, f.dst)'
  BY <1>1, <1>4, <1>5 DEF Knows
<1> HIDE DEF ports
<1>7. wire' \subseteq Frames /\ FramesTrue' /\ wanted' \subseteq Pairs
  BY <1>1, <1>2, <1>3, <1>6, TransmitTrue
<1>8. TypeOK'
  BY <1>1, <1>7 DEF FInv, TypeOK
<1>9. AtHome' /\ FlowsTrue'
  BY <1>1, <1>2 DEF FInv, AtHome, FlowsTrue, FlowTrue, Knows
<1>10. QED
  BY <1>2, <1>7, <1>8, <1>9 DEF FInv

\* The packet-in of a frame that is forwarded or dropped.
LEMMA PacketInStep == ASSUME FInv, NEW f \in wire, PacketIn(f) PROVE FInv'
<1> DEFINE ports == OutPorts(f) \ {f.in}
<1>1. /\ UNCHANGED <<place, moved, events>> /\ ShortcutOf(f) = {}
      /\ host_to_sw_port' = Learned(f) /\ mac_to_port' = Table(f)
  BY DEF PacketIn
<1>2. Settled' = Settled /\ Settled \subseteq Senders
  BY <1>1 DEF Settled, Senders
<1>3. Kept
  BY <1>1, <1>2, TableTyped DEF Kept
<1>4. PortsTrue' /\ WayOut'
  BY <1>1, <1>3, TableTyped, WayKept
<1>5. AtHome'
  BY <1>1, <1>2, LearnedTyped DEF FInv, AtHome
<1>6. /\ f.at \in Switches /\ f.src \in Senders /\ f.dst \in Senders /\ f.op \in {"request", "reply"}
      /\ FrameTrue(f)
  BY FrameTyped DEF FInv, FramesTrue
<1>7. /\ mac_to_port' \in [Switches -> [Senders -> SUBSET AllPorts]]
      /\ \A s \in Switches, h \in Senders : mac_to_port'[s][h] \subseteq Ports(s)
      /\ host_to_sw_port' \in [Hosts -> AccessPorts \cup {None}]
  BY <1>1, TableTyped, LearnedTyped
<1>8. CASE Refused(f) \/ Dropped(f)
  <2>1. wire' = wire \ {f} /\ UNCHANGED <<timers, wanted>>
    BY <1>8 DEF PacketIn
  <2>2. FramesTrue'
    BY <2>1, <1>3, FramesKept DEF FramesTrue
  <2>3. FlowsTrue'
    <3>1. \A j \in DOMAIN timers : timers[j] \in Timers /\ FlowTrue(timers[j])
      BY DEF FInv, TypeOK, FlowsTrue
    <3>2. QED
      BY <2>1, <3>1, <1>3, FlowsKept DEF FlowsTrue
  <2>4. TypeOK'
    BY <2>1, <1>1, <1>7 DEF FInv, TypeOK
  <2>5. QED
    BY <2>2, <2>3, <2>4, <1>4, <1>5 DEF FInv
<1>9. CASE ~(Refused(f) \/ Dropped(f))
  <2>1. /\ timers' = WithShortcuts(Recorded(f), f)
        /\ Transmit(f, f.at, ports, f.src, f.dst, f.op)
    BY <1>9 DEF PacketIn, Forward
  <2>2. Knows(f.at, f.src)'
    BY <1>1, <1>9, TableTyped DEF Knows
  <2>3. OutPorts(f) \subseteq Ports(f.at)
    BY OutPortsTyped
  <2>4. ASSUME f.op = "reply", f.dst \in Settled
        PROVE  /\ Knows(f.at, f.dst)'
               /\ \A p \in OutPorts(f) \cap Switches : Knows(p, f.dst)'
    <3>1. Knows(f.at, f.dst)'
      BY <2>4, <1>2, <1>3, <1>6 DEF FrameTrue, Kept, Knows
    <3>2. Eth(f) # Broadcast
      BY <2>4, <1>6, ConstantsAssumption DEF Eth
    <3>3. OutPorts(f) = mac_to_port'[f.at][f.dst]
      BY <3>1, <3>2, <1>1 DEF OutPorts, Knows
    <3>4. QED
      BY <3>1, <3>3, <1>2, <1>4, <1>6, <2>4 DEF PortsTrue
  <2>5. wire' \subseteq Frames /\ FramesTrue' /\ wanted' \subseteq Pairs
    <3>1. ports \in SUBSET Ports(f.at) /\ ports \subseteq OutPorts(f)
      BY <2>3
    <3> HIDE DEF ports
    <3>2. f.op = "reply" /\ f.dst \in Settled => \A p \in ports \cap Switches : Knows(p, f.dst)'
      BY <2>4, <3>1
    <3>3. QED
      BY <3>1, <3>2, <2>1, <2>2, <1>1, <1>3, <1>6, TransmitTrue
  <2>6. /\ timers' \in Seq(Timers) /\ NoTwice(timers')
        /\ \A i \in DOMAIN timers' :
             \/ \E j \in DOMAIN timers : timers'[i] = timers[j]
             \/ timers'[i].type = "seen"
             \/ \E out \in OutPorts(f) : timers'[i] = Flow(f.at, f.in, f.src, Eth(f), out)
             \/ f.op = "reply" /\ \E out \in OutPorts(f) : timers'[i] = Flow(f.at, out, f.dst, f.src, f.in)
    BY <1>1, <1>9, <2>1, ShortcutsTyped
  <2>7. FlowsTrue'
    <3> SUFFICES ASSUME NEW i \in DOMAIN timers' PROVE FlowTrue(timers[i])'
      BY DEF FlowsTrue
    <3>1. CASE \E j \in DOMAIN timers : timers'[i] = timers[j]
      <4>1. \A j \in DOMAIN timers : timers[j] \in Timers /\ FlowTrue(timers[j])
        BY DEF FInv, TypeOK, FlowsTrue
      <4>2. QED
        BY <3>1, <4>1, <1>3, FlowsKept
    <3>2. CASE timers'[i].type = "seen"
      BY <3>2 DEF FlowTrue
    <3>3. CASE \E out \in OutPorts(f) : timers'[i] = Flow(f.at, f.in, f.src, Eth(f), out)
      <4>1. PICK out \in OutPorts(f) : timers'[i] = Flow(f.at, f.in, f.src, Eth(f), out)
        BY <3>3
      <4>2. /\ timers'[i].of[1] = f.at /\ timers'[i].of[3] = f.src /\ timers'[i].of[4] = Eth(f)
            /\ timers'[i].out = out
        BY <4>1 DEF Flow
      <4>3. Eth(f) \in Settled => f.op = "reply" /\ Eth(f) = f.dst
        BY <1>2, <1>6, ConstantsAssumption DEF Eth
      <4>4. QED
        BY <4>2, <4>3, <2>2, <2>4, <1>2 DEF FlowTrue
    <3>4. CASE f.op = "reply" /\ \E out \in OutPorts(f) : timers'[i] = Flow(f.at, out, f.dst, f.src, f.in)
      <4>1. PICK out \in OutPorts(f) : timers'[i] = Flow(f.at, out, f.dst, f.src, f.in)
        BY <3>4
      <4>2. /\ timers'[i].of[1] = f.at /\ timers'[i].of[3] = f.dst /\ timers'[i].of[4] = f.src
            /\ timers'[i].out = f.in
        BY <4>1 DEF Flow
      <4>3. f.src \in Settled /\ f.in \in Switches => Knows(f.in, f.src)'
        BY <1>2, <1>3, <1>6 DEF FrameTrue, Knows, Kept
      <4>4. QED
        BY <3>4, <4>2, <4>3, <2>4, <1>2 DEF FlowTrue
    <3>5. QED
      BY <2>6, <3>1, <3>2, <3>3, <3>4
  <2>8. TypeOK'
    BY <2>5, <2>6, <1>1, <1>7 DEF FInv, TypeOK, NoTwice
  <2>9. QED
    BY <2>5, <2>7, <2>8, <1>4, <1>5 DEF FInv
<1>10. QED
  BY <1>8, <1>9

\* The answer for the gateway goes back where the request came from.
LEMMA GatewayStep == ASSUME FInv, NEW f \in wire, GatewayPacketIn(f) PROVE FInv'
<1>1. /\ UNCHANGED <<timers, place, moved, events>>
      /\ host_to_sw_port' = Learned(f) /\ mac_to_port' = Purged(f)
      /\ Transmit(f, f.at, {f.in}, Gateway, f.src, "reply")
  BY DEF GatewayPacketIn
<1>2. Settled' = Settled /\ Settled \subseteq Senders
  BY <1>1 DEF Settled, Senders
<1>3. Kept
  BY <1>1, <1>2, PurgedTyped DEF Kept
<1>4. PortsTrue' /\ WayOut'
  BY <1>1, <1>3, PurgedTyped, WayKept
<1>5. AtHome'
  BY <1>1, <1>2, LearnedTyped DEF FInv, AtHome
<1>6. /\ f.at \in Switches /\ f.src \in Senders /\ {f.in} \in SUBSET Ports(f.at) /\ FrameTrue(f)
      /\ Gateway \in Senders /\ Gateway \notin Settled
  BY FrameTyped, ConstantsAssumption DEF FInv, FramesTrue, Senders, Settled
<1>7. f.src \in Settled => \A p \in {f.in} \cap Switches : Knows(p, f.src)'
  BY <1>2, <1>3, <1>6 DEF FrameTrue, Knows, Kept
<1>8. wire' \subseteq Frames /\ FramesTrue' /\ wanted' \subseteq Pairs
  BY <1>1, <1>3, <1>6, <1>7, TransmitTrue
<1>9. FlowsTrue'
  <2>1. \A j \in DOMAIN timers : timers[j] \in Timers /\ FlowTrue(timers[j])
    BY DEF FInv, TypeOK, FlowsTrue
  <2>2. QED
    BY <2>1, <1>1, <1>3, FlowsKept DEF FlowsTrue
<1>10. /\ mac_to_port' \in [Switches -> [Senders -> SUBSET AllPorts]]
       /\ \A s \in Switches, h \in Senders : mac_to_port'[s][h] \subseteq Ports(s)
       /\ host_to_sw_port' \in [Hosts -> AccessPorts \cup {None}]
  BY <1>1, PurgedTyped, LearnedTyped DEF FInv, TypeOK
<1>11. TypeOK'
  BY <1>1, <1>8, <1>10 DEF FInv, TypeOK
<1>12. QED
  BY <1>4, <1>5, <1>8, <1>9, <1>11 DEF FInv

-----------------------------------------------------------------------------

LEMMA FloodStep == FInv /\ [Next]_vars => FInv'
<1> SUFFICES ASSUME FInv, [Next]_vars PROVE FInv'
  OBVIOUS
<1>1. CASE \E x \in Pairs : Want(x[1], x[2]) \/ Ask(x[1], x[2])
  BY <1>1, WantStep, AskStep
<1>2. CASE \E m \in Moves : Move(m[1], m[2], m[3])
  BY <1>2, MoveStep
<1>3. CASE \E f \in wire : Network(f) \/ Lose(f)
  BY <1>3, ShortcutStep, PacketInStep, GatewayStep, LoseStep DEF Network
<1>4. CASE Expire
  BY <1>4, ExpireStep
<1>5. CASE UNCHANGED vars
  <2>1. wanted' \subseteq Pairs /\ events' \in 0..MaxEvents
    BY <1>5 DEF vars, FInv, TypeOK
  <2>2. QED
    BY <1>5, <2>1, TimersTyped, QuietStep DEF vars
<1>6. QED
  BY <1>1, <1>2, <1>3, <1>4, <1>5 DEF Next

\* Whatever is asked, lost or repeated, and whoever else moves: of the ports that the
\* switches have learned for a host that stayed where it was, some chain leads from
\* every switch that has learned one to the port of the host (packetin_arp.py learns
\* from every copy of a flood that is not dropped, also those that went round).
THEOREM FloodInvHolds == Spec => []FloodInv
<1>1. FInv => FloodInv
  BY InvLeadsHome DEF FInv, FloodInv
<1>2. QED
  BY <1>1, InitFlood, FloodStep, PTL DEF Spec
=============================================================================
